--------------------------- MODULE AccountsProofs ---------------------------
(***************************************************************************)
(* What holds of upstream logins, registrations, addresses and recoveries  *)
(* for any number of requests in progress, and what holds when requests    *)
(* are served one at a time.                                               *)
(***************************************************************************)
EXTENDS Accounts, WellFoundedInduction, SequenceTheorems, FiniteSetTheorems, TLAPS

-----------------------------------------------------------------------------
(* The cookie.                                                             *)

\* A set of natural numbers has a least element, and a greatest one when it is bounded.
LEMMA LeastNatural ==
    ASSUME NEW S, S \subseteq Nat, S # {}
    PROVE  \E n \in S : \A m \in S : n <= m
<1>1. PICK n \in S : \A m \in S : ~(<<m, n>> \in OpToRel(<, Nat))
  BY NatLessThanWellFounded, WFMin
<1>2. ASSUME NEW m \in S PROVE n <= m
  <2>1. m \in Nat /\ n \in Nat
    OBVIOUS
  <2>2. ~(m < n)
    BY <1>1, <2>1 DEF OpToRel
  <2> QED
    BY <2>1, <2>2
<1> QED
  BY <1>2

LEMMA GreatestNatural ==
    ASSUME NEW N \in Nat, NEW S, S \subseteq 0 .. N, S # {}
    PROVE  \E n \in S : \A m \in S : m <= n
<1> DEFINE T == {N - n : n \in S}
<1>1. T \subseteq Nat /\ T # {}
  OBVIOUS
<1>2. PICK t \in T : \A m \in T : t <= m
  BY <1>1, LeastNatural
<1>3. PICK n \in S : t = N - n
  BY <1>2
<1>4. ASSUME NEW m \in S PROVE m <= n
  <2>1. N - n <= N - m
    BY <1>2, <1>3
  <2> QED
    BY <2>1
<1> QED
  BY <1>4

\* The entries of a cookie: upstream sessions, with a link or without one.
Cookie == Seq(Sessions \X (Links \cup {"none"}))

LEMMA HeldSessions ==
    ASSUME NEW j \in Cookie, NEW l
    PROVE  Held(j, l) \subseteq Sessions
  BY DEF Held, Cookie

LEMMA LatestSession ==
    ASSUME NEW j \in Cookie, NEW l, Held(j, l) # {}
    PROVE  Latest(j, l) \in Sessions
<1>1. Held(j, l) \subseteq 0 .. MaxSessions
  BY HeldSessions DEF Sessions
<1>2. MaxSessions \in Nat
  BY UpstreamAssumption DEF UpstreamAssumption
<1>3. \E s \in Held(j, l) : \A t \in Held(j, l) : t <= s
  BY <1>1, <1>2, GreatestNatural
<1>4. Latest(j, l) \in Held(j, l)
  BY <1>3 DEF Latest
<1> QED
  BY <1>4, HeldSessions

LEMMA ConsumeLinkType ==
    ASSUME NEW j \in Cookie, NEW l
    PROVE  consume_link(j, l) \in Cookie
<1> DEFINE At == {i \in DOMAIN j : j[i][2] = l}
           pos == CHOOSE i \in At : \A k \in At : i <= k
           E == Sessions \X (Links \cup {"none"})
<1>1. CASE At = {}
  BY <1>1 DEF consume_link
<1>2. CASE At # {}
  <2>1. DOMAIN j = 1 .. Len(j) /\ Len(j) \in Nat
    BY DEF Cookie
  <2>2. At \subseteq Nat
    BY <2>1
  <2>3. pos \in At
    BY <1>2, <2>2, LeastNatural
  <2>4. pos \in 1 .. Len(j)
    BY <2>1, <2>3
  <2>5. \A i \in 1 .. Len(j) : j[i] \in E
    BY DEF Cookie
  <2> HIDE DEF pos, At, E
  <2>6. SubSeq(j, 1, pos - 1) \in Seq(E)
    <3>1. \A i \in 1 .. pos - 1 : j[i] \in E
      BY <2>1, <2>4, <2>5
    <3> QED
      BY <2>1, <2>4, <3>1, SubSeqProperties
  <2>7. SubSeq(j, pos + 1, Len(j)) \in Seq(E)
    <3>1. \A i \in pos + 1 .. Len(j) : j[i] \in E
      BY <2>1, <2>4, <2>5
    <3> QED
      BY <2>1, <2>4, <3>1, SubSeqProperties
  <2>8. SubSeq(j, 1, pos - 1) \o SubSeq(j, pos + 1, Len(j)) \in Seq(E)
    BY <2>6, <2>7, ConcatProperties
  <2>9. consume_link(j, l) = SubSeq(j, 1, pos - 1) \o SubSeq(j, pos + 1, Len(j))
    BY <1>2 DEF consume_link, pos, At
  <2> QED
    BY <2>8, <2>9 DEF Cookie, E
<1> QED
  BY <1>1, <1>2

-----------------------------------------------------------------------------
(* The tables, whatever the requests in progress.                          *)

Marks == {"added", "completed", "consumed", "unlinked"}

\* What a request may have loaded.
Loaded ==
    [step : {"idle", "loaded", "resolved", "name", "token", "email", "upstream",
             "write", "complete", "inUse", "unused", "address", "recover"},
     browser : Browsers \cup {"none"}, link : Links \cup {"none"}, session : Sessions \cup {0},
     login : Logins \cup {0}, owner : Names \cup {"none", "free", "gone"},
     user : Names \cup {"none"}, jar : Cookie,
     item : Auths \cup Emails \cup Recoveries \cup {"none"}]

\* A row of the registrations.
RegRow ==
    [state : {"none", "open", "done"}, name : Names \cup {"none"},
     browser : Browsers \cup {"none"}, email : Emails \cup {"none"},
     session : Sessions \cup {0}, password : {"yes", "no"}, token : {"yes", "no"},
     display : {"yes", "no"}]

\* The steps of finish.rs.
Finishing == {"name", "token", "email", "upstream", "write"}

\* The rows of users, links and browser sessions.
UserRows ==
    /\ users \subseteq Names /\ passwords \subseteq users
    /\ link \in [Links -> {"none", "gone", "free"} \cup users]
    /\ owner \in [Logins -> users \cup {"none"}]
    /\ live \subseteq {i \in Logins : owner[i] # "none"}
    /\ emails \in [Names -> SUBSET Emails]
    /\ used \in Nat /\ limit \in Nat

\* The rows of upstream sessions and their authentications; a session that was not started
\* has none.
SessionRows ==
    /\ marks \in [Sessions -> SUBSET Marks]
    /\ linkOf \in [Sessions -> Links \cup {"none"}]
    /\ userSession \in [Sessions -> Logins \cup {0}]
    /\ started \in 0 .. MaxSessions
    /\ auth \subseteq Logins \X Sessions
    /\ \A s \in Sessions : s > started => marks[s] = {}
    /\ \A a \in auth : a[2] <= started

\* Cookies, registrations and requests.
RequestRows ==
    /\ jar \in [Browsers -> Cookie]
    /\ at \in [Browsers -> Logins \cup {0}]
    /\ req \in [Requests -> Loaded]
    /\ reg \in [Regs -> RegRow]
    /\ snap \in [Requests -> RegRow]
    /\ doing \in [Requests -> Regs \cup {"none"}]

RowTypes == UserRows /\ SessionRows /\ RequestRows

\* A session that somebody holds on to was started, and has been through the callback or
\* was deleted since.
Completed(s) == s <= started /\ (marks[s] = {} \/ "completed" \in marks[s])

\* What a request has loaded names rows that are there.
RequestsSound ==
    \A r \in Requests :
        /\ req[r].step \in {"loaded", "resolved"} =>
              /\ req[r].session \in Sessions /\ Completed(req[r].session)
              /\ req[r].login # 0 => owner[req[r].login] # "none"
              /\ req[r].owner \in Names => req[r].owner \in users
        /\ req[r].step \in {"resolved", "address", "recover"} => req[r].user \in users
        /\ req[r].step \in Finishing => doing[r] \in Regs /\ snap[r].name \in Names
        /\ snap[r].session # 0 => Completed(snap[r].session)

\* So does a registration.
RegistrationsSound ==
    \A g \in Regs :
        /\ reg[g].state = "open" => reg[g].name \in Names
        /\ reg[g].session # 0 => Completed(reg[g].session)

\* A session without a row has no link.
Deleted == \A s \in Sessions : marks[s] = {} => linkOf[s] = "none"

RowsInv ==
    RowTypes /\ RequestsSound /\ RegistrationsSound /\ Deleted /\ SessionsReadable

\* What a call of the admin API has loaded names a user, and a link without one.
CallsSound ==
    /\ call \in [Admins -> [link : Links \cup {"none"}, user : Names \cup {"none"},
                           owner : {"none", "free"}]]
    /\ \A a \in Admins : call[a] # NoCall => call[a].link \in Links /\ call[a].user \in users

\* A request that is about to associate a link had found it free, and the link had a row.
LinksHeld ==
    \A r \in Requests :
        /\ req[r].step = "resolved" => req[r].owner = "free"
        /\ req[r].step = "write" /\ snap[r].session # 0 =>
              /\ req[r].link \in Links /\ link[req[r].link] # "none"
              /\ req[r].owner = "free"

HeldInv == CallsSound /\ LinksHeld

LEMMA Constants ==
    /\ MaxSessions \in Nat /\ MaxLogins \in Nat
    /\ 0 \notin Logins /\ 0 \notin Sessions
    /\ "none" \notin Names /\ "free" \notin Names /\ "gone" \notin Names
    /\ "none" \notin Links /\ "free" \notin Links /\ "gone" \notin Links
    /\ "none" \notin Emails
  BY UpstreamAssumption, RegistrationAssumption
  DEF UpstreamAssumption, RegistrationAssumption, Sessions, Logins

LEMMA IdleLoaded == Idle \in Loaded
<1>1. <<>> \in Cookie
  BY DEF Cookie
<1> QED
  BY <1>1 DEF Idle, Loaded

\* The steps of an upstream login.
LEMMA AuthorizeRows ==
    ASSUME RowsInv, NEW b \in Browsers, Authorize(b), UNCHANGED regVars
    PROVE  RowsInv'
<1> USE DEF RowsInv, RowTypes
<1>1. started + 1 \in Sessions /\ marks[started + 1] = {} /\ linkOf[started + 1] = "none"
  BY Constants DEF Authorize, SessionRows, Sessions, Deleted
<1>2. UserRows'
  BY DEF Authorize, regVars, accounts, token, logins, UserRows
<1>3. SessionRows'
  BY <1>1 DEF Authorize, logins, SessionRows, Marks, Sessions
<1>4. RequestRows'
  <2>1. ASSUME b \in Browsers PROVE Append(jar[b], <<started + 1, "none">>) \in Cookie
    BY <1>1 DEF RequestRows, Cookie
  <2> QED
    BY <2>1 DEF Authorize, regVars, finishing, RequestRows
<1>5. RequestsSound'
  BY <1>1 DEF Authorize, regVars, finishing, logins, RequestsSound, Completed, SessionRows, RequestRows, RegRow, Sessions
<1>6. RegistrationsSound'
  BY <1>1 DEF Authorize, regVars, RegistrationsSound, RequestRows, RegRow, Sessions, Completed, SessionRows
<1>7. Deleted' /\ SessionsReadable'
  BY <1>1 DEF Authorize, Deleted, SessionsReadable, Readable, SessionRows
<1> QED
  BY <1>2, <1>3, <1>4, <1>5, <1>6, <1>7

LEMMA CallbackRows ==
    ASSUME RowsInv, NEW b \in Browsers, NEW i, NEW l \in Links, Callback(b, i, l),
           UNCHANGED regVars
    PROVE  RowsInv'
<1> DEFINE s == jar[b][i][1]
<1> USE DEF RowsInv, RowTypes
<1>1. s \in Sessions /\ i \in 1 .. Len(jar[b]) /\ jar[b] \in Cookie
  BY DEF Callback, RequestRows, Cookie
<1> HIDE DEF s
<1>2. marks[s] = {"added"} /\ s <= started
  <2>1. marks[s] = {"added"}
    BY DEF Callback, s
  <2>2. s \in Int /\ started \in Int
    BY <1>1, Constants DEF SessionRows, Sessions
  <2>3. ~(s > started)
    BY <1>1, <2>1 DEF SessionRows
  <2> QED
    BY <2>1, <2>2, <2>3
<1>3. /\ marks' = [marks EXCEPT ![s] = @ \cup {"completed"}]
      /\ linkOf' = [linkOf EXCEPT ![s] = l]
      /\ jar' = [jar EXCEPT ![b][i] = <<s, l>>]
      /\ UNCHANGED <<users, userSession, started, owner, live, auth, at, req>>
  BY DEF Callback, s, logins
<1>4. UserRows'
  BY <1>3 DEF Callback, regVars, accounts, token, UserRows
<1>5. SessionRows'
  BY <1>1, <1>2, <1>3 DEF SessionRows, Marks
<1>6. RequestRows'
  <2>1. [jar[b] EXCEPT ![i] = <<s, l>>] \in Cookie
    BY <1>1 DEF Cookie
  <2> QED
    BY <1>3, <2>1 DEF regVars, finishing, RequestRows
<1>7. \A t \in Sessions : Completed(t) => Completed(t)'
  BY <1>1, <1>3 DEF Completed, SessionRows
<1>8. RequestsSound'
  BY <1>3, <1>7 DEF regVars, finishing, RequestsSound, RequestRows, RegRow
<1>9. RegistrationsSound'
  BY <1>7 DEF regVars, RegistrationsSound, RequestRows, RegRow
<1>10. Deleted' /\ SessionsReadable'
  BY <1>1, <1>2, <1>3, Constants DEF Deleted, SessionsReadable, Readable, SessionRows
<1> QED
  BY <1>4, <1>5, <1>6, <1>8, <1>9, <1>10

\* A request that only reads: what it loads is sound.
LEMMA ReadRows ==
    ASSUME RowsInv, NEW r \in Requests, NEW q \in Loaded,
           req' = [req EXCEPT ![r] = q],
           UNCHANGED <<users, link, sessions, logins, cookies, regVars>>,
           q.step \in {"loaded", "resolved"} =>
              /\ q.session \in Sessions /\ Completed(q.session)
              /\ q.login # 0 => owner[q.login] # "none"
              /\ q.owner \in Names => q.owner \in users,
           q.step \in {"resolved", "address", "recover"} => q.user \in users,
           q.step \in Finishing => doing[r] \in Regs /\ snap[r].name \in Names
    PROVE  RowsInv'
<1> USE DEF RowsInv, RowTypes, sessions, logins, cookies, regVars, accounts, token, finishing
<1>1. UserRows' /\ SessionRows'
  BY DEF UserRows, SessionRows
<1>2. RequestRows'
  BY DEF RequestRows
<1>3. RequestsSound'
  BY DEF RequestsSound, Completed, RequestRows
<1>4. RegistrationsSound' /\ Deleted' /\ SessionsReadable'
  BY DEF RegistrationsSound, Completed, Deleted, SessionsReadable, Readable
<1> QED
  BY <1>1, <1>2, <1>3, <1>4

LEMMA LinkPageRows ==
    ASSUME RowsInv, NEW r \in Requests, NEW b \in Browsers, NEW l \in Links,
           LinkPage(r, b, l), UNCHANGED regVars
    PROVE  RowsInv'
<1> DEFINE s == Latest(jar[b], l)
           q == [Idle EXCEPT !.step = "loaded", !.browser = b, !.link = l, !.session = s,
                             !.login = ActiveLogin(b), !.owner = link[l], !.jar = jar[b]]
<1> USE DEF RowsInv, RowTypes
<1>1. s \in Sessions /\ jar[b] \in Cookie
  BY LatestSession DEF LinkPage, RequestRows
<1>2. Completed(s)
  BY <1>1, Constants DEF LinkPage, Usable, Readable, Completed, SessionRows, Sessions
<1>3. ActiveLogin(b) \in Logins \cup {0} /\ (ActiveLogin(b) # 0 => owner[ActiveLogin(b)] # "none")
  BY DEF ActiveLogin, UserRows
<1>4. link[l] \in Names \cup {"none", "free", "gone"} /\ (link[l] \in Names => link[l] \in users)
  BY Constants DEF UserRows
<1> HIDE DEF s
<1>5. /\ q \in Loaded /\ q.step = "loaded" /\ q.session = s /\ q.login = ActiveLogin(b)
      /\ q.owner = link[l]
  BY <1>1, <1>3, <1>4 DEF Loaded, Idle
<1>6. req' = [req EXCEPT ![r] = q]
  BY DEF LinkPage, s
<1> HIDE DEF q
<1> QED
  BY <1>1, <1>2, <1>3, <1>4, <1>5, <1>6, ReadRows DEF LinkPage, Finishing

\* What it takes to keep the session tables: some links are removed, and a session may be
\* consumed.
SessionsKept ==
    /\ SessionRows' /\ Deleted' /\ SessionsReadable'
    /\ \A t \in Sessions : Completed(t) => Completed(t)'

\* The marks and the link of a session whose link is removed, and of the others.
LEMMA UnlinkedSession ==
    ASSUME RowsInv, NEW L, L \subseteq Links, NEW t \in Sessions
    PROVE  /\ Unlink(L)[t] \in SUBSET Marks /\ Without(L)[t] \in Links \cup {"none"}
           /\ \/ linkOf[t] = "none" \/ linkOf[t] \notin L
              \/ {"added", "completed"} \subseteq marks[t] /\ t <= started
           /\ \/ Unlink(L)[t] = marks[t] /\ Without(L)[t] = linkOf[t]
              \/ /\ Unlink(L)[t] = marks[t] \cup {"unlinked"} /\ Without(L)[t] = "none"
                 /\ {"added", "completed"} \subseteq marks[t] /\ t <= started
<1> USE DEF RowsInv, RowTypes
<1>1. Unlink(L)[t] = IF linkOf[t] \in L THEN marks[t] \cup {"unlinked"} ELSE marks[t]
  BY DEF Unlink
<1>2. Without(L)[t] = IF linkOf[t] \in L THEN "none" ELSE linkOf[t]
  BY DEF Without
<1>3. marks[t] \in SUBSET Marks /\ linkOf[t] \in Links \cup {"none"}
  BY DEF SessionRows
<1>4. ASSUME linkOf[t] \in L
      PROVE  {"added", "completed"} \subseteq marks[t] /\ t <= started
  <2>1. linkOf[t] # "none"
    BY <1>4, Constants
  <2>2. marks[t] # {}
    BY <2>1 DEF Deleted
  <2>3. {"added", "completed"} \subseteq marks[t]
    BY <2>1, <2>2 DEF SessionsReadable, Readable
  <2>4. t \in Int /\ started \in Int /\ ~(t > started)
    BY <2>2, Constants DEF SessionRows, Sessions
  <2> QED
    BY <2>3, <2>4
<1>5. Unlink(L)[t] \in SUBSET Marks
  BY <1>1, <1>3 DEF Marks
<1> QED
  BY <1>1, <1>2, <1>3, <1>4, <1>5

LEMMA UnlinkKeeps ==
    ASSUME RowsInv, NEW L, L \subseteq Links,
           marks' = Unlink(L), linkOf' = Without(L), UNCHANGED <<userSession, started, auth>>
    PROVE  SessionsKept
<1> USE DEF RowsInv, RowTypes
<1>1. DOMAIN Unlink(L) = Sessions /\ DOMAIN Without(L) = Sessions
      /\ Unlink(L) = [t \in Sessions |-> Unlink(L)[t]]
      /\ Without(L) = [t \in Sessions |-> Without(L)[t]]
  BY DEF Unlink, Without
<1>2. \A t \in Sessions :
         /\ marks'[t] \in SUBSET Marks /\ linkOf'[t] \in Links \cup {"none"}
         /\ \/ marks'[t] = marks[t] /\ linkOf'[t] = linkOf[t]
            \/ /\ marks'[t] = marks[t] \cup {"unlinked"} /\ linkOf'[t] = "none"
               /\ {"added", "completed"} \subseteq marks[t] /\ t <= started
  BY UnlinkedSession
<1>3. SessionRows'
  BY <1>1, <1>2, Constants DEF SessionRows, Sessions
<1>4. Deleted' /\ \A t \in Sessions : Completed(t) => Completed(t)'
  BY <1>2 DEF Deleted, Completed
<1>5. SessionsReadable'
  BY <1>2 DEF SessionsReadable, Readable
<1> QED
  BY <1>3, <1>4, <1>5 DEF SessionsKept

LEMMA ConsumeKeeps ==
    ASSUME RowsInv, NEW s \in Sessions, Completed(s), NEW i \in Logins, consume(s, i)
    PROVE  SessionsKept
<1> USE DEF RowsInv, RowTypes
<1>1. SessionRows'
  BY DEF SessionRows, consume, Marks, Completed
<1>2. Deleted' /\ \A t \in Sessions : Completed(t) => Completed(t)'
  BY DEF SessionRows, consume, Deleted, Completed
<1>3. SessionsReadable'
  BY Constants DEF SessionRows, consume, SessionsReadable, Readable, Completed
<1> QED
  BY <1>1, <1>2, <1>3 DEF SessionsKept

LEMMA ReplaceKeeps ==
    ASSUME RowsInv, NEW L, L \subseteq Links, NEW s \in Sessions, Completed(s),
           NEW i \in Logins, "added" \in marks[s],
           marks' = [Unlink(L) EXCEPT ![s] = @ \cup {"consumed"}],
           linkOf' = Without(L),
           userSession' = [userSession EXCEPT ![s] = i],
           auth' = auth \cup {<<i, s>>},
           UNCHANGED started
    PROVE  SessionsKept
<1> USE DEF RowsInv, RowTypes
<1>1. DOMAIN Unlink(L) = Sessions /\ linkOf' = [t \in Sessions |-> linkOf'[t]]
  BY DEF Unlink, Without
<1>2. marks' = [t \in Sessions |-> marks'[t]]
      /\ \A t \in Sessions : marks'[t] = Unlink(L)[t] \cup (IF t = s THEN {"consumed"} ELSE {})
  BY <1>1 DEF Unlink
<1>3. \A t \in Sessions :
         /\ marks'[t] \in SUBSET Marks /\ linkOf'[t] \in Links \cup {"none"}
         /\ \/ marks'[t] = marks[t] /\ linkOf'[t] = linkOf[t]
            \/ t = s /\ marks'[t] = marks[t] \cup {"consumed"} /\ linkOf'[t] = linkOf[t]
            \/ /\ {"added", "completed", "unlinked"} \subseteq marks'[t] /\ linkOf'[t] = "none"
               /\ t <= started
  BY <1>2, UnlinkedSession DEF Marks
<1>4. SessionRows'
  <2>1. marks' \in [Sessions -> SUBSET Marks] /\ linkOf' \in [Sessions -> Links \cup {"none"}]
    BY <1>1, <1>2, <1>3
  <2>2. \A t \in Sessions : t > started => marks'[t] = {}
    BY <1>3, Constants DEF SessionRows, Sessions, Completed
  <2>3. userSession' \in [Sessions -> Logins \cup {0}] /\ auth' \subseteq Logins \X Sessions
        /\ \A a \in auth' : a[2] <= started
    BY DEF SessionRows, Completed
  <2> QED
    BY <2>1, <2>2, <2>3 DEF SessionRows
<1>5. Deleted' /\ \A t \in Sessions : Completed(t) => Completed(t)'
  BY <1>3 DEF Deleted, Completed
<1>6. SessionsReadable'
  BY <1>3 DEF SessionsReadable, Readable, Completed
<1> QED
  BY <1>4, <1>5, <1>6 DEF SessionsKept

\* The request r ends, and the other ones stay sound.
LEMMA EndedSound ==
    ASSUME RowsInv, SessionsKept, NEW r \in Requests,
           req' = [req EXCEPT ![r] = Idle],
           \A q \in Requests \ {r} : doing'[q] = doing[q] /\ snap'[q] = snap[q],
           snap'[r] \in {snap[r], NoReg},
           users \subseteq users',
           \A i \in Logins : owner[i] # "none" => owner'[i] # "none"
    PROVE  RequestsSound'
<1> USE DEF RowsInv, RowTypes
<1>1. ASSUME NEW q \in Requests, q # r
      PROVE  req'[q] = req[q] /\ doing'[q] = doing[q] /\ snap'[q] = snap[q]
  BY <1>1
<1>2. req'[r] = Idle
  BY DEF RequestRows
<1>3. \A q \in Requests : req[q].login \in Logins \cup {0} /\ snap[q].session \in Sessions \cup {0}
  BY DEF RequestRows, Loaded, RegRow
<1>4. (snap[r].session # 0 => Completed(snap[r].session))'
  BY <1>3 DEF NoReg, RequestsSound, SessionsKept, Completed
<1>5. ASSUME NEW q \in Requests, q # r
      PROVE  (snap[q].session # 0 => Completed(snap[q].session))'
  BY <1>1, <1>3, <1>5 DEF RequestsSound, SessionsKept, Completed
<1>6. ASSUME NEW q \in Requests, q # r, req[q].step \in {"loaded", "resolved"}
      PROVE  /\ req[q].session \in Sessions /\ Completed(req[q].session)'
             /\ req[q].login # 0 => owner'[req[q].login] # "none"
  BY <1>1, <1>3, <1>6 DEF RequestsSound, SessionsKept, Completed
<1> QED
  BY <1>1, <1>2, <1>4, <1>5, <1>6 DEF RequestsSound, Idle, Finishing

\* Its answer sets cookies.
LEMMA AnswerRows ==
    ASSUME RowsInv, NEW r \in Requests, NEW j, NEW i, Answer(r, j, i),
           j \in Cookie \/ j = jar[req[r].browser],
           i \in Logins \cup {0} \/ i = at[req[r].browser]
    PROVE  /\ jar' \in [Browsers -> Cookie] /\ at' \in [Browsers -> Logins \cup {0}]
           /\ req' \in [Requests -> Loaded] /\ req' = [req EXCEPT ![r] = Idle]
  BY IdleLoaded DEF Answer, RowsInv, RowTypes, RequestRows

LEMMA NewLoginRows ==
    ASSUME RowsInv, NEW i \in Logins, NEW u \in Names, u \in users', users \subseteq users', NewLogin(i, u)
    PROVE  /\ owner' \in [Logins -> users' \cup {"none"}]
           /\ live' \subseteq {k \in Logins : owner'[k] # "none"}
           /\ \A k \in Logins : owner[k] # "none" => owner'[k] # "none"
  BY Constants DEF NewLogin, RowsInv, RowTypes, UserRows

\* Registrations that stay, end or lose their session are sound.
LEMMA RegistrationsKept ==
    ASSUME RowsInv, SessionsKept,
           \A g \in Regs : /\ reg'[g].name = reg[g].name
                           /\ reg'[g].session \in {reg[g].session, 0}
                           /\ reg'[g].state \in {reg[g].state, "done"}
    PROVE  RegistrationsSound'
<1>1. ASSUME NEW g \in Regs, reg'[g].session # 0
      PROVE  /\ reg[g].session \in Sessions /\ reg'[g].session = reg[g].session
             /\ Completed(reg[g].session)
  BY <1>1 DEF RowsInv, RowTypes, RequestRows, RegRow, RegistrationsSound
<1>2. ASSUME NEW g \in Regs, reg'[g].session # 0
      PROVE  Completed(reg[g].session)'
  BY <1>1, <1>2 DEF SessionsKept, Completed
<1> QED
  BY <1>2 DEF RowsInv, RegistrationsSound

\* A request that commits: the tables are kept, and the registrations stay.
LEMMA CommitRows ==
    ASSUME RowsInv, NEW r \in Requests, SessionsKept, UserRows',
           NEW j, NEW i, Answer(r, j, i),
           j \in Cookie \/ j = jar[req[r].browser],
           i \in Logins \cup {0} \/ i = at[req[r].browser],
           users \subseteq users', UNCHANGED <<reg, snap, doing>>,
           \A k \in Logins : owner[k] # "none" => owner'[k] # "none"
    PROVE  RowsInv'
<1>1. RequestRows'
  BY AnswerRows DEF RowsInv, RowTypes, RequestRows
<1>2. RequestsSound'
  BY AnswerRows, EndedSound
<1>3. RegistrationsSound'
  BY RegistrationsKept
<1> QED
  BY <1>1, <1>2, <1>3 DEF RowsInv, RowTypes, SessionsKept

\* The association of a link with a user.
LEMMA AssociateRows ==
    ASSUME RowsInv, NEW l, NEW u, u \in users', users \subseteq users', associate_to_user(l, u)
    PROVE  link' \in [Links -> {"none", "gone", "free"} \cup users']
  BY DEF associate_to_user, RowsInv, RowTypes, UserRows

LEMMA RenewRows ==
    ASSUME RowsInv, NEW r \in Requests, Renew(r), UNCHANGED regVars
    PROVE  RowsInv'
<1> USE DEF RowsInv, RowTypes
<1>1. /\ req[r].session \in Sessions /\ Completed(req[r].session)
      /\ req[r].login \in Logins
  BY DEF Renew, RequestsSound, RequestRows, Loaded
<1>2. SessionsKept
  BY <1>1, ConsumeKeeps DEF Renew
<1>3. UserRows'
  BY DEF Renew, regVars, accounts, token, UserRows
<1> QED
  BY <1>1, <1>2, <1>3, CommitRows DEF Renew, regVars, finishing

LEMMA LogInRows ==
    ASSUME RowsInv, NEW r \in Requests, NEW i \in Logins, LogIn(r, i), UNCHANGED regVars
    PROVE  RowsInv'
<1> USE DEF RowsInv, RowTypes
<1>1. /\ req[r].session \in Sessions /\ Completed(req[r].session)
      /\ req[r].owner \in users /\ req[r].jar \in Cookie
  BY DEF LogIn, RequestsSound, RequestRows, Loaded
<1>2. SessionsKept
  BY <1>1, ConsumeKeeps DEF LogIn
<1>3. UserRows' /\ \A k \in Logins : owner[k] # "none" => owner'[k] # "none"
  BY <1>1, NewLoginRows DEF LogIn, regVars, accounts, token, UserRows
<1>4. consume_link(req[r].jar, req[r].link) \in Cookie
  BY <1>1, ConsumeLinkType
<1> QED
  BY <1>2, <1>3, <1>4, CommitRows DEF LogIn, regVars, finishing

LEMMA SubmitLinkRows ==
    ASSUME RowsInv, NEW r \in Requests, SubmitLink(r), UNCHANGED regVars
    PROVE  RowsInv'
<1> USE DEF RowsInv, RowTypes
<1>1. /\ req[r].session \in Sessions /\ Completed(req[r].session)
      /\ req[r].login \in Logins /\ owner[req[r].login] # "none" /\ req[r].jar \in Cookie
  BY DEF SubmitLink, RequestsSound, RequestRows, Loaded
<1>2. SessionsKept
  BY <1>1, ConsumeKeeps DEF SubmitLink
<1>3. owner[req[r].login] \in users
  BY <1>1 DEF UserRows
<1>4. UserRows'
  BY <1>3, AssociateRows DEF SubmitLink, regVars, accounts, token, UserRows
<1>5. consume_link(req[r].jar, req[r].link) \in Cookie
  BY <1>1, ConsumeLinkType
<1> QED
  BY <1>1, <1>2, <1>4, <1>5, CommitRows DEF SubmitLink, regVars, finishing

LEMMA LogInExistingRows ==
    ASSUME RowsInv, NEW r \in Requests, NEW i \in Logins, LogInExisting(r, i), UNCHANGED regVars
    PROVE  RowsInv'
<1> DEFINE u == req[r].user
           s == req[r].session
           L == IF OnConflict = "replace" THEN LinksOf(u) ELSE {}
<1> USE DEF RowsInv, RowTypes
<1>1. s \in Sessions /\ Completed(s) /\ u \in users /\ req[r].jar \in Cookie
  BY DEF LogInExisting, RequestsSound, RequestRows, Loaded
<1>2. L \subseteq Links
  BY DEF LinksOf, LinkRows
<1>3. /\ "added" \in marks[s]
      /\ link' = [l \in Links |-> IF l \in L THEN "gone"
                                  ELSE IF l = req[r].link /\ l \in LinkRows THEN u ELSE link[l]]
      /\ marks' = [Unlink(L) EXCEPT ![s] = @ \cup {"consumed"}]
      /\ linkOf' = Without(L)
      /\ userSession' = [userSession EXCEPT ![s] = i]
      /\ auth' = auth \cup {<<i, s>>}
      /\ NewLogin(i, u)
      /\ UNCHANGED <<users, started>>
  BY DEF LogInExisting
<1> HIDE DEF u, s, L
<1>4. SessionsKept
  BY <1>1, <1>2, <1>3, ReplaceKeeps
<1>5. UserRows' /\ \A k \in Logins : owner[k] # "none" => owner'[k] # "none"
  BY <1>1, <1>3, NewLoginRows DEF regVars, accounts, token, UserRows
<1>6. consume_link(req[r].jar, req[r].link) \in Cookie
  BY <1>1, ConsumeLinkType
<1> QED
  BY <1>3, <1>4, <1>5, <1>6, CommitRows DEF LogInExisting, regVars, finishing

LEMMA ResolveRows ==
    ASSUME RowsInv, NEW r \in Requests, Resolve(r), UNCHANGED regVars
    PROVE  RowsInv'
<1> USE DEF RowsInv, RowTypes
<1>1. PICK u \in users : req' = [req EXCEPT ![r].step = "resolved", ![r].user = u]
  BY DEF Resolve, Found
<1> DEFINE q == [req[r] EXCEPT !.step = "resolved", !.user = u]
<1>2. req[r] \in Loaded /\ u \in Names
  BY DEF RequestRows, UserRows
<1>3. /\ q \in Loaded /\ q.step = "resolved" /\ q.session = req[r].session
      /\ q.login = req[r].login /\ q.owner = req[r].owner /\ q.user = u
  BY <1>2 DEF Loaded
<1>4. req' = [req EXCEPT ![r] = q]
  BY <1>1, <1>2 DEF RequestRows, Loaded
<1> HIDE DEF q
<1>5. /\ q.session \in Sessions /\ Completed(q.session)
      /\ q.login # 0 => owner[q.login] # "none"
      /\ q.owner \in Names => q.owner \in users
  BY <1>3 DEF Resolve, RequestsSound
<1> QED
  BY <1>1, <1>3, <1>4, <1>5, ReadRows DEF Resolve, Finishing

\* The session tables stay.
LEMMA SameSessions ==
    ASSUME RowsInv, UNCHANGED <<marks, linkOf, userSession, started, auth>>
    PROVE  SessionsKept
  BY DEF SessionsKept, RowsInv, RowTypes, SessionRows, Deleted, SessionsReadable, Readable,
         Completed

\* A step outside the requests.
LEMMA OutsideRows ==
    ASSUME RowsInv, SessionsKept, UserRows',
           jar' \in [Browsers -> Cookie], at' \in [Browsers -> Logins \cup {0}],
           users \subseteq users', UNCHANGED <<req, reg, snap, doing>>,
           \A k \in Logins : owner[k] # "none" => owner'[k] # "none"
    PROVE  RowsInv'
<1>1. RequestRows'
  BY DEF RowsInv, RowTypes, RequestRows
<1>2. RequestsSound'
  BY DEF RowsInv, RowTypes, RequestsSound, RequestRows, RegRow, Loaded, SessionsKept, Completed
<1>3. RegistrationsSound'
  BY RegistrationsKept
<1> QED
  BY <1>1, <1>2, <1>3 DEF RowsInv, RowTypes, SessionsKept

LEMMA AdminRows ==
    ASSUME RowsInv, CallsSound, NEW a \in Admins, UNCHANGED regVars,
           \/ AdminLink(a) \/ AdminDrop(a)
           \/ \E u \in Names, l \in Links : AdminFind(a, u, l)
    PROVE  RowsInv'
<1> USE DEF RowsInv, RowTypes
<1>1. UNCHANGED <<users, marks, linkOf, userSession, started, owner, live, auth, jar, at, req,
                  emails, passwords, used, limit, reg, snap, doing>>
  BY DEF AdminLink, AdminDrop, AdminFind, sessions, logins, cookies, regVars, accounts, token,
         finishing
<1>2. link' \in [Links -> {"none", "gone", "free"} \cup users]
  <2>1. CASE UNCHANGED link
    BY <2>1 DEF UserRows
  <2>2. CASE AdminLink(a)
    <3>1. call[a].user \in users
      BY <2>2 DEF AdminLink, CallsSound
    <3> QED
      BY <2>2, <3>1 DEF AdminLink, associate_to_user, UserRows
  <2> QED
    BY <2>1, <2>2 DEF AdminDrop, AdminFind
<1>3. UserRows'
  BY <1>1, <1>2 DEF UserRows
<1> QED
  BY <1>1, <1>3, SameSessions, OutsideRows DEF RequestRows

LEMMA AdminRemoveRows ==
    ASSUME RowsInv, NEW l \in Links, AdminRemove(l), UNCHANGED regVars
    PROVE  RowsInv'
<1>1. SessionsKept
  BY UnlinkKeeps DEF AdminRemove, logins
<1>2. UserRows'
  BY DEF AdminRemove, RowsInv, RowTypes, UserRows, logins, regVars, accounts, token
<1> QED
  BY <1>1, <1>2, OutsideRows
  DEF AdminRemove, logins, cookies, regVars, finishing, RowsInv, RowTypes, RequestRows

LEMMA LoginRows ==
    ASSUME RowsInv, UNCHANGED regVars,
           \/ \E S : BackchannelLogout(S)
           \/ \E b \in Browsers : Logout(b)
           \/ \E b \in Browsers, u \in Names, i \in Logins : PasswordLogin(b, u, i)
    PROVE  RowsInv'
<1> USE DEF RowsInv, RowTypes
<1>1. SessionsKept
  BY SameSessions DEF BackchannelLogout, Logout, PasswordLogin, sessions
<1>2. jar' \in [Browsers -> Cookie] /\ at' \in [Browsers -> Logins \cup {0}]
  BY DEF BackchannelLogout, Logout, PasswordLogin, cookies, RequestRows
<1>3. UNCHANGED <<req, users, link, emails, passwords, used, limit, reg, snap, doing>>
  BY DEF BackchannelLogout, Logout, PasswordLogin, regVars, accounts, token, finishing
<1>4. UserRows' /\ \A k \in Logins : owner[k] # "none" => owner'[k] # "none"
  <2>1. CASE \E b \in Browsers, u \in Names, i \in Logins : PasswordLogin(b, u, i)
    BY <1>3, <2>1, NewLoginRows DEF PasswordLogin, UserRows
  <2>2. CASE UNCHANGED owner /\ live' \subseteq live
    BY <1>3, <2>2 DEF UserRows
  <2> QED
    BY <2>1, <2>2 DEF BackchannelLogout, Logout
<1> QED
  BY <1>1, <1>2, <1>3, <1>4, OutsideRows

\* The steps of a registration.
LEMMA NoRegRow == NoReg \in RegRow
  BY DEF NoReg, RegRow

\* A registration is added or changed.
LEMMA RegRows ==
    ASSUME RowsInv, NEW g \in Regs, NEW x \in RegRow,
           reg' = [reg EXCEPT ![g] = x],
           UNCHANGED <<upstreamVars, accounts, used, limit, finishing>>,
           x.name \in Names,
           x.session # 0 => Completed(x.session)
    PROVE  RowsInv'
<1> USE DEF RowsInv, RowTypes, upstreamVars, sessions, logins, cookies, accounts, finishing
<1>1. UserRows' /\ SessionRows' /\ RequestRows'
  BY DEF UserRows, SessionRows, RequestRows
<1>2. RegistrationsSound'
  BY DEF RegistrationsSound, RequestRows, Completed
<1>3. RequestsSound' /\ Deleted' /\ SessionsReadable'
  BY DEF RequestsSound, Completed, Deleted, SessionsReadable, Readable
<1> QED
  BY <1>1, <1>2, <1>3

LEMMA RegStepRows ==
    ASSUME RowsInv, NEW g \in Regs,
           \/ VerifyEmail(g) \/ SetToken(g) \/ SetDisplayName(g)
           \/ \E b \in Browsers, n \in Names, e \in Emails \cup {"none"} :
                 RegisterPassword(g, b, n, e)
    PROVE  RowsInv'
<1> USE DEF RowsInv, RowTypes
<1>1. reg[g] \in RegRow
  BY DEF RequestRows
<1>2. CASE VerifyEmail(g)
  <2>1. SessionsKept
    BY <1>2, SameSessions DEF VerifyEmail, upstreamVars, sessions, logins
  <2>2. UserRows' /\ UNCHANGED <<jar, at, users, req, reg, snap, doing, owner>>
    BY <1>2 DEF VerifyEmail, upstreamVars, logins, cookies, accounts, token, finishing, UserRows
  <2> QED
    BY <2>1, <2>2, OutsideRows DEF RequestRows
<1>3. CASE SetToken(g)
  <2> DEFINE x == [reg[g] EXCEPT !.token = "yes"]
  <2>1. x \in RegRow /\ x.name = reg[g].name /\ x.session = reg[g].session
    BY <1>1 DEF RegRow
  <2>2. reg' = [reg EXCEPT ![g] = x]
    BY <1>1, <1>3 DEF SetToken, RegRow
  <2> HIDE DEF x
  <2> QED
    BY <1>3, <2>1, <2>2, RegRows DEF SetToken, RegistrationsSound, token
<1>4. CASE SetDisplayName(g)
  <2> DEFINE x == [reg[g] EXCEPT !.display = "yes"]
  <2>1. x \in RegRow /\ x.name = reg[g].name /\ x.session = reg[g].session
    BY <1>1 DEF RegRow
  <2>2. reg' = [reg EXCEPT ![g] = x]
    BY <1>1, <1>4 DEF SetDisplayName, RegRow
  <2> HIDE DEF x
  <2> QED
    BY <1>4, <2>1, <2>2, RegRows DEF SetDisplayName, RegistrationsSound, token
<1>5. ASSUME NEW b \in Browsers, NEW n \in Names, NEW e \in Emails \cup {"none"},
             RegisterPassword(g, b, n, e)
      PROVE  RowsInv'
  <2> DEFINE x == [NoReg EXCEPT !.state = "open", !.name = n, !.browser = b, !.email = e,
                                !.password = "yes"]
  <2>1. x \in RegRow /\ x.name = n /\ x.session = 0
    BY DEF RegRow, NoReg
  <2>2. reg' = [reg EXCEPT ![g] = x]
    BY <1>5 DEF RegisterPassword
  <2> HIDE DEF x
  <2> QED
    BY <1>5, <2>1, <2>2, RegRows DEF RegisterPassword, token
<1> QED
  BY <1>2, <1>3, <1>4, <1>5

LEMMA RegisterUpstreamRows ==
    ASSUME RowsInv, NEW r \in Requests, NEW g \in Regs, NEW n \in Names,
           NEW e \in Emails \cup {"none"}, NEW d \in {"yes", "no"},
           RegisterUpstream(r, g, n, e, d)
    PROVE  RowsInv'
<1> USE DEF RowsInv, RowTypes
<1> DEFINE x == [NoReg EXCEPT !.state = "open", !.name = n, !.browser = req[r].browser,
                              !.email = e, !.session = req[r].session, !.display = d]
<1>1. /\ req[r].session \in Sessions /\ Completed(req[r].session)
      /\ req[r].jar \in Cookie /\ req[r].browser \in Browsers \cup {"none"}
  BY DEF RegisterUpstream, RequestsSound, RequestRows, Loaded
<1>2. x \in RegRow /\ x.name = n /\ x.session = req[r].session
  BY <1>1 DEF RegRow, NoReg
<1>3. reg' = [reg EXCEPT ![g] = x]
  BY DEF RegisterUpstream
<1> HIDE DEF x
<1>4. SessionsKept
  BY SameSessions DEF RegisterUpstream, sessions, logins
<1>5. UserRows'
  BY DEF RegisterUpstream, logins, accounts, token, UserRows
<1>6. consume_link(req[r].jar, req[r].link) \in Cookie
  BY <1>1, ConsumeLinkType
<1>7. RequestRows'
  BY <1>2, <1>3, <1>6, AnswerRows DEF RegisterUpstream, RequestRows, finishing
<1>8. RequestsSound'
  BY <1>4, <1>6, EndedSound, AnswerRows DEF RegisterUpstream, logins, finishing
<1>9. RegistrationsSound'
  BY <1>1, <1>2, <1>3, <1>4
  DEF RegistrationsSound, RequestRows, RegRow, SessionsKept, Completed
<1> QED
  BY <1>4, <1>5, <1>7, <1>8, <1>9 DEF SessionsKept

LEMMA CleanupRows ==
    ASSUME RowsInv, NEW l \in Links, Cleanup(l)
    PROVE  RowsInv'
<1> USE DEF RowsInv, RowTypes
<1>1. /\ marks' = [s \in Sessions |-> IF linkOf[s] = l THEN {} ELSE marks[s]]
      /\ linkOf' = [s \in Sessions |-> IF linkOf[s] = l THEN "none" ELSE linkOf[s]]
      /\ UNCHANGED <<userSession, started, auth, owner, live, jar, at, req, users, emails,
                     passwords, used, limit, snap, doing>>
      /\ link' = [link EXCEPT ![l] = "gone"]
      /\ \A g \in Regs : reg'[g] = reg[g] \/ reg'[g] = [reg[g] EXCEPT !.session = 0]
      /\ DOMAIN reg' = Regs /\ reg' = [g \in Regs |-> reg'[g]]
  BY DEF Cleanup, CleanupLink, Orphans, Without, logins, cookies, accounts, token, finishing
<1>2. \A g \in Regs : reg'[g] \in RegRow /\ reg'[g].state = reg[g].state
         /\ reg'[g].name = reg[g].name /\ reg'[g].session \in {reg[g].session, 0}
  <2>1. ASSUME NEW g \in Regs PROVE reg[g] \in RegRow
    BY DEF RequestRows
  <2> QED
    BY <1>1, <2>1 DEF RegRow
<1>3. UserRows'
  BY <1>1 DEF UserRows
<1>4. SessionsKept
  <2>1. SessionRows' /\ Deleted' /\ \A t \in Sessions : Completed(t) => Completed(t)'
    BY <1>1 DEF SessionRows, Deleted, Completed
  <2>2. SessionsReadable'
    BY <1>1 DEF SessionsReadable, Readable, SessionRows
  <2> QED
    BY <2>1, <2>2 DEF SessionsKept
<1>5. RequestRows'
  BY <1>1, <1>2 DEF RequestRows
<1>6. RequestsSound'
  BY <1>1, <1>4 DEF RequestsSound, RequestRows, RegRow, Loaded, SessionsKept, Completed
<1>7. RegistrationsSound'
  BY <1>2, <1>4, RegistrationsKept
<1> QED
  BY <1>3, <1>4, <1>5, <1>6, <1>7 DEF SessionsKept

\* The steps of finish.rs.
LEMMA FinishRows ==
    ASSUME RowsInv, NEW r \in Requests, NEW g \in Regs, Finish(r, g)
    PROVE  RowsInv'
<1> USE DEF RowsInv, RowTypes
<1> DEFINE q == [Idle EXCEPT !.step = "name", !.browser = reg[g].browser]
<1>1. reg[g] \in RegRow /\ reg[g].name \in Names /\ (reg[g].session # 0 => Completed(reg[g].session))
  BY DEF Finish, RequestRows, RegistrationsSound
<1>2. q \in Loaded /\ q.step = "name"
  BY <1>1, IdleLoaded DEF RegRow, Loaded, Idle
<1>3. req' = [req EXCEPT ![r] = q] /\ doing' = [doing EXCEPT ![r] = g]
      /\ snap' = [snap EXCEPT ![r] = reg[g]]
  BY DEF Finish
<1> HIDE DEF q
<1>4. SessionsKept
  BY SameSessions DEF Finish, sessions, logins
<1>5. UserRows'
  BY DEF Finish, logins, accounts, token, UserRows
<1>6. RequestRows'
  BY <1>1, <1>2, <1>3 DEF Finish, cookies, RequestRows
<1>7. RequestsSound'
  BY <1>1, <1>2, <1>3 DEF Finish, sessions, logins, RequestsSound, RequestRows, Completed
<1>8. RegistrationsSound'
  BY DEF Finish, sessions, RegistrationsSound, Completed
<1> QED
  BY <1>4, <1>5, <1>6, <1>7, <1>8 DEF SessionsKept

LEMMA AbandonRows ==
    ASSUME RowsInv, NEW r \in Requests, Abandon(r)
    PROVE  RowsInv'
<1> USE DEF RowsInv, RowTypes
<1>1. req' = [req EXCEPT ![r] = Idle] /\ doing' = [doing EXCEPT ![r] = "none"]
      /\ snap' = [snap EXCEPT ![r] = NoReg]
  BY DEF Abandon, Drop, Done
<1>2. SessionsKept
  BY SameSessions DEF Abandon, Drop, sessions, logins
<1>3. UserRows'
  BY DEF Abandon, Drop, logins, accounts, token, UserRows
<1>4. RequestRows'
  BY <1>1, IdleLoaded, NoRegRow DEF Abandon, Drop, cookies, RequestRows
<1>5. RequestsSound'
  BY <1>1, <1>2, EndedSound DEF Abandon, Drop, logins, RequestRows
<1>6. RegistrationsSound'
  BY <1>2, RegistrationsKept DEF Abandon
<1> QED
  BY <1>2, <1>3, <1>4, <1>5, <1>6 DEF SessionsKept

LEMMA CheckRows ==
    ASSUME RowsInv, NEW r \in Requests, NEW a \in Finishing, NEW b \in Finishing, NEW ok,
           Check(r, a, b, ok)
    PROVE  RowsInv'
<1> DEFINE q == [req[r] EXCEPT !.step = b]
<1> USE DEF RowsInv, RowTypes
<1>1. q \in Loaded /\ q.step = b
  BY DEF RequestRows, Loaded, Finishing
<1>2. req' = [req EXCEPT ![r] = q]
  BY DEF Check, RequestRows, Loaded
<1>3. doing[r] \in Regs /\ snap[r].name \in Names
  BY DEF Check, RequestsSound
<1> HIDE DEF q
<1> QED
  BY <1>1, <1>2, <1>3, ReadRows DEF Check, Finishing

\* What the request keeps of the upstream session and its link.
LEMMA KeepRequest ==
    ASSUME RowsInv, NEW r \in Requests, CheckUpstream(r)
    PROVE  /\ req[r].step = "upstream" /\ req'[r] \in Loaded
           /\ req' = [req EXCEPT ![r] = req'[r]] /\ req'[r].step = "write"
           /\ snap[r].session # 0 =>
                 /\ req'[r].link = linkOf[snap[r].session]
                 /\ linkOf[snap[r].session] \in Links
                 /\ link[linkOf[snap[r].session]] = "free"
                 /\ req'[r].owner = "free"
                 /\ "consumed" \notin marks[snap[r].session]
           /\ UNCHANGED <<users, call, link, sessions, logins, cookies, regVars>>
<1> USE DEF RowsInv, RowTypes
<1>1. req[r] \in Loaded /\ snap[r].session \in Sessions \cup {0}
  BY DEF RequestRows, RegRow
<1>2. snap[r].session # 0 =>
         /\ linkOf[snap[r].session] \in Links /\ link[linkOf[snap[r].session]] = "free"
         /\ "consumed" \notin marks[snap[r].session]
  BY <1>1 DEF CheckUpstream, SessionRows
<1>3. /\ req[r].step = "upstream"
      /\ UNCHANGED <<users, call, link, sessions, logins, cookies, regVars>>
  BY DEF CheckUpstream, Keep
<1>4. PICK k \in Links \cup {"none"}, o \in {"none", "free"} :
         /\ req' = [req EXCEPT ![r].step = "write", ![r].link = k, ![r].owner = o]
         /\ snap[r].session # 0 => k = linkOf[snap[r].session] /\ o = "free"
  <2>1. CASE snap[r].session = 0
    BY <2>1 DEF CheckUpstream, Keep
  <2>2. CASE snap[r].session # 0
    BY <1>2, <2>2 DEF CheckUpstream, Keep
  <2> QED
    BY <2>1, <2>2
<1> DEFINE q == [req[r] EXCEPT !.step = "write", !.link = k, !.owner = o]
<1>5. req' = [req EXCEPT ![r] = q] /\ req'[r] = q
  BY <1>1, <1>4 DEF RequestRows, Loaded
<1>6. q.step = "write" /\ q.link = k /\ q.owner = o
  BY <1>1 DEF Loaded
<1>7. q \in Loaded
  BY <1>1 DEF Loaded
<1> HIDE DEF q
<1> QED
  BY <1>2, <1>3, <1>4, <1>5, <1>6, <1>7

LEMMA CheckUpstreamRows ==
    ASSUME RowsInv, NEW r \in Requests, CheckUpstream(r)
    PROVE  RowsInv'
<1> DEFINE q == req'[r]
<1>1. q \in Loaded /\ req' = [req EXCEPT ![r] = q] /\ q.step = "write"
      /\ UNCHANGED <<users, link, sessions, logins, cookies, regVars>>
  BY KeepRequest
<1>2. doing[r] \in Regs /\ snap[r].name \in Names
  BY KeepRequest DEF RowsInv, RequestsSound, Finishing
<1> HIDE DEF q
<1> QED
  BY <1>1, <1>2, ReadRows DEF Finishing

LEMMA WriteRows ==
    ASSUME RowsInv, NEW r \in Requests, NEW i \in Logins, Write(r, i)
    PROVE  RowsInv'
<1> USE DEF RowsInv, RowTypes
<1> DEFINE g == doing[r]
           n == snap[r].name
           x == [reg[g] EXCEPT !.state = "done"]
<1>1. /\ g \in Regs /\ n \in Names /\ snap[r] \in RegRow
      /\ snap[r].session # 0 => Completed(snap[r].session)
  BY DEF Write, RequestsSound, RequestRows, Finishing
<1>2. users' = users \cup {n} /\ n \notin users
  BY DEF Write, AddUser
<1>3. /\ emails' = [emails EXCEPT ![n] = {snap[r].email} \ {"none"}]
      /\ passwords' = IF snap[r].password = "yes" THEN passwords \cup {n} ELSE passwords
      /\ used' = (IF TokenRequired(snap[r]) THEN used + 1 ELSE used) /\ limit' = limit
      /\ NewLogin(i, n) /\ Adopt(r, i) /\ Answer(r, jar[req[r].browser], i) /\ Done(r)
  BY DEF Write
<1>4. /\ x \in RegRow /\ x.name = reg[g].name /\ x.session = reg[g].session
      /\ x.state = "done" /\ reg' = [reg EXCEPT ![g] = x]
  <2>1. reg[g] \in RegRow
    BY <1>1 DEF RequestRows
  <2> QED
    BY <2>1 DEF Write, RegRow
<1> HIDE DEF g, n, x
<1>5. SessionsKept
  <2>1. CASE snap[r].session = 0
    BY <1>3, <2>1, SameSessions DEF Adopt, sessions
  <2>2. CASE snap[r].session # 0
    BY <1>1, <1>3, <2>2, ConsumeKeeps DEF Adopt, RegRow
  <2> QED
    BY <2>1, <2>2
<1>6. link' \in [Links -> {"none", "gone", "free"} \cup users']
  <2>1. CASE snap[r].session = 0
    BY <1>2, <1>3, <2>1 DEF Adopt, UserRows
  <2>2. CASE snap[r].session # 0
    BY <1>2, <1>3, <2>2, AssociateRows DEF Adopt, n
  <2> QED
    BY <2>1, <2>2
<1>7. UserRows' /\ \A k \in Logins : owner[k] # "none" => owner'[k] # "none"
  <2>1. {snap[r].email} \ {"none"} \in SUBSET Emails
    BY <1>1 DEF RegRow
  <2>2. emails' \in [Names -> SUBSET Emails]
    BY <1>3, <2>1 DEF UserRows
  <2>3. /\ owner' \in [Logins -> users' \cup {"none"}]
        /\ live' \subseteq {k \in Logins : owner'[k] # "none"}
        /\ \A k \in Logins : owner[k] # "none" => owner'[k] # "none"
    BY <1>1, <1>2, <1>3, NewLoginRows
  <2>4. users' \subseteq Names /\ passwords' \subseteq users' /\ used' \in Nat /\ limit' \in Nat
    BY <1>1, <1>2, <1>3 DEF UserRows
  <2> QED
    BY <1>6, <2>2, <2>3, <2>4 DEF UserRows
<1>8. RequestRows'
  BY <1>3, <1>4, AnswerRows, NoRegRow DEF Done, RequestRows
<1>9. RequestsSound'
  BY <1>2, <1>3, <1>5, <1>7, AnswerRows, EndedSound DEF Done, RequestRows
<1>10. RegistrationsSound'
  BY <1>4, <1>5, RegistrationsKept DEF RequestRows
<1> QED
  BY <1>5, <1>7, <1>8, <1>9, <1>10 DEF SessionsKept

\* The rows are kept by every step of the registrations and upstream logins.
LEMMA RowsStep ==
    ASSUME RowsInv, CallsSound, Next
    PROVE  RowsInv'
<1>1. CASE UpstreamNext /\ UNCHANGED regVars
  BY <1>1, AuthorizeRows, CallbackRows, LinkPageRows, RenewRows, SubmitLinkRows, ResolveRows,
     LogInRows, LogInExistingRows, AdminRows, AdminRemoveRows, LoginRows
  DEF UpstreamNext
<1>2. ASSUME NEW b \in Browsers,
             \/ Logout(b) /\ UNCHANGED regVars
             \/ \E u \in passwords, i \in Logins : PasswordLogin(b, u, i) /\ UNCHANGED regVars
      PROVE  RowsInv'
  <2>1. passwords \subseteq Names
    BY DEF RowsInv, RowTypes, UserRows
  <2> QED
    BY <1>2, <2>1, LoginRows
<1>3. ASSUME NEW g \in Regs,
             \/ VerifyEmail(g) \/ SetToken(g) \/ SetDisplayName(g)
             \/ \E n \in Names, e \in Emails \cup {"none"} :
                   \/ \E b \in Browsers : RegisterPassword(g, b, n, e)
                   \/ \E r \in Requests, d \in {"yes", "no"} : RegisterUpstream(r, g, n, e, d)
             \/ \E r \in Requests : Finish(r, g)
      PROVE  RowsInv'
  BY <1>3, RegStepRows, RegisterUpstreamRows, FinishRows
<1>4. ASSUME NEW v, SetRevoked(v)
      PROVE  RowsInv'
  <2>1. SessionsKept
    BY <1>4, SameSessions DEF SetRevoked, upstreamVars, sessions, logins
  <2>2. UserRows' /\ UNCHANGED <<jar, at, users, req, reg, snap, doing, owner>>
    BY <1>4 DEF SetRevoked, upstreamVars, logins, cookies, accounts, finishing, UserRows,
                RowsInv, RowTypes
  <2> QED
    BY <2>1, <2>2, OutsideRows DEF RowsInv, RowTypes, RequestRows
<1>5. ASSUME NEW r \in Requests,
             \/ Abandon(r)
             \/ CheckName(r) \/ CheckToken(r) \/ CheckEmail(r) \/ CheckUpstream(r)
             \/ \E i \in Logins : Write(r, i)
      PROVE  RowsInv'
  <2>1. {"name", "token", "email", "upstream", "write"} = Finishing
    BY DEF Finishing
  <2> QED
    BY <1>5, <2>1, AbandonRows, CheckRows, CheckUpstreamRows, WriteRows
    DEF CheckName, CheckToken, CheckEmail
<1>6. ASSUME NEW l \in Links, Cleanup(l)
      PROVE  RowsInv'
  BY <1>6, CleanupRows
<1> QED
  BY <1>1, <1>2, <1>3, <1>4, <1>5, <1>6 DEF Next

LEMMA RowsInitial == Init => RowsInv
<1> SUFFICES ASSUME Init PROVE RowsInv
  OBVIOUS
<1> USE DEF Init, UpstreamInit
<1>1. UserRows
  BY RegistrationAssumption DEF UserRows, RegistrationAssumption
<1>2. SessionRows
  BY Constants DEF SessionRows, Marks
<1>3. RequestRows
  BY IdleLoaded, NoRegRow DEF RequestRows, Cookie
<1>4. RequestsSound /\ RegistrationsSound /\ Deleted /\ SessionsReadable
  BY DEF RequestsSound, RegistrationsSound, Deleted, SessionsReadable, Idle, NoReg, Finishing
<1> QED
  BY <1>1, <1>2, <1>3, <1>4 DEF RowsInv, RowTypes

-----------------------------------------------------------------------------
(* Addresses and recoveries, whatever the requests in progress.            *)

ProofRow == [state : {"none", "open", "completed", "gone"}, email : Emails \cup {"none"},
             login : Logins \cup {0}]
RecoveryRow == [state : {"none", "open", "consumed", "gone"}, email : Emails \cup {"none"}]

\* The rows, and what they refer to.
AccountRows ==
    /\ proof \in [Auths -> ProofRow]
    /\ recovery \in [Recoveries -> RecoveryRow]
    /\ codes \subseteq {a \in Auths : proof[a].state # "none"}
    /\ \A a \in Auths : proof[a].state # "none" =>
          /\ proof[a].email \in Emails
          /\ proof[a].login \in Logins /\ owner[proof[a].login] # "none"
    /\ tickets \subseteq Recoveries \X users \X {"fresh", "expired"}
    /\ added \in [Auths -> Nat]
    /\ reset \in [Recoveries -> Seq(Names)]

\* The item of a request is a row of the kind its step is about.
ItemsSound ==
    \A r \in Requests :
        /\ req[r].step \in {"complete", "inUse", "unused"} =>
              req[r].item \in Auths /\ proof[req[r].item].state # "none"
        /\ req[r].step = "address" => req[r].item \in Emails
        /\ req[r].step = "recover" => req[r].item \in Recoveries

\* An authentication that is not completed has added nothing.
AddedInv ==
    AddedOnce /\ \A a \in Auths : proof[a].state \in {"none", "open"} => added[a] = 0

\* A ticket, and what becomes of it, is for somebody a link was sent for.
SentInv ==
    /\ \A t \in tickets : <<t[1], t[2]>> \in sent
    /\ \A r \in Requests : req[r].step = "recover" => <<req[r].item, req[r].user>> \in sent
    /\ \A s \in Recoveries : \A i \in DOMAIN reset[s] : <<s, reset[s][i]>> \in sent

AccountsInv == RowsInv /\ HeldInv /\ AccountRows /\ ItemsSound /\ AddedInv /\ SentInv

\* The steps of requests about addresses and recoveries.
AccountSteps == {"complete", "inUse", "unused", "address", "recover"}

\* What such a request does to the rest: it gives passwords and addresses to users.
AccountMove ==
    /\ UNCHANGED rows
    /\ req' \in [Requests -> Loaded]
    /\ passwords' \subseteq users /\ emails' \in [Names -> SUBSET Emails]
    /\ \A r \in Requests :
          \/ req'[r] = req[r] \/ req'[r] = Idle
          \/ /\ req'[r].step \in AccountSteps
             /\ req'[r].step \in {"address", "recover"} => req'[r].user \in users

LEMMA MoveRows ==
    ASSUME RowsInv, AccountMove
    PROVE  RowsInv'
<1> USE DEF RowsInv, RowTypes
<1>1. UNCHANGED <<users, link, marks, linkOf, userSession, started, owner, live, auth, jar, at,
                  reg, used, limit, doing, snap>>
  BY DEF AccountMove, rows, sessions, logins, cookies, token, finishing
<1>2. UserRows' /\ SessionRows' /\ RequestRows'
  BY <1>1 DEF AccountMove, UserRows, SessionRows, RequestRows
<1>3. ASSUME NEW r \in Requests PROVE req'[r] = req[r] \/ req'[r].step \in AccountSteps \cup {"idle"}
  BY DEF AccountMove, Idle
<1>4. RequestsSound'
  BY <1>1, <1>3 DEF RequestsSound, AccountMove, AccountSteps, Idle, Finishing, Completed
<1>5. RegistrationsSound' /\ Deleted' /\ SessionsReadable'
  BY <1>1 DEF RegistrationsSound, Deleted, SessionsReadable, Readable, Completed
<1> QED
  BY <1>2, <1>4, <1>5

LEMMA SameMove == AccountsInv /\ UNCHANGED vars => AccountMove
  BY DEF AccountsInv, RowsInv, RowTypes, UserRows, RequestRows, AccountMove, vars,
         upstreamVars, regVars, rows, accounts, sessions, logins, cookies, token, finishing

LEMMA EmailMoves ==
    ASSUME AccountsInv, EmailStep
    PROVE  AccountMove
<1> USE DEF AccountsInv, RowsInv, RowTypes
<1>1. UNCHANGED <<passwords, emails>> =>
         passwords' \subseteq users /\ emails' \in [Names -> SUBSET Emails]
  BY DEF UserRows
<1>2. req \in [Requests -> Loaded] /\ Idle \in Loaded
  BY IdleLoaded DEF RequestRows
<1>3. ASSUME NEW a \in Auths, NEW b \in Browsers, NEW e,
             \/ SendCode(a) \/ CleanupProof(a) \/ ResendCode(b, a) \/ StartEmail(b, a, e)
      PROVE  AccountMove
  BY <1>3, SameMove DEF SendCode, CleanupProof, ResendCode, StartEmail
<1>4. ASSUME NEW a \in Auths, SendCode(a) \/ CleanupProof(a)
      PROVE  AccountMove
  BY <1>4, SameMove DEF SendCode, CleanupProof
<1>5. ASSUME NEW r \in Requests, NEW b \in Browsers, NEW a \in Auths, LoadProof(r, b, a)
      PROVE  AccountMove
  <2> DEFINE q == [Idle EXCEPT !.step = "complete", !.item = a]
  <2>1. q \in Loaded /\ q.step = "complete"
    BY <1>2 DEF Idle, Loaded
  <2> HIDE DEF q
  <2>2. req' = [req EXCEPT ![r] = q]
    BY <1>5 DEF LoadProof, q
  <2> QED
    BY <1>1, <1>2, <1>5, <2>1, <2>2 DEF LoadProof, AccountMove, AccountSteps, accounts
<1>6. ASSUME NEW r \in Requests, CountAddress(r)
      PROVE  AccountMove
  <2>1. PICK k \in {"inUse", "unused"} : req' = [req EXCEPT ![r].step = k]
    BY <1>6 DEF CountAddress
  <2>2. [req[r] EXCEPT !.step = k] \in Loaded /\ [req[r] EXCEPT !.step = k].step = k
    BY <1>2 DEF Loaded
  <2> QED
    BY <1>1, <1>2, <1>6, <2>1, <2>2 DEF CountAddress, AccountMove, AccountSteps, accounts
<1>7. ASSUME NEW r \in Requests, SaveProof(r)
      PROVE  AccountMove
  <2>1. req[r].item \in Auths /\ proof[req[r].item].email \in Emails
    BY <1>7 DEF SaveProof, ItemsSound, AccountRows
  <2>2. emails' \in [Names -> SUBSET Emails]
    BY <1>7, <2>1 DEF SaveProof, UserRows
  <2> QED
    BY <1>2, <1>7, <2>2 DEF SaveProof, AccountMove, UserRows
<1>8. ASSUME NEW r \in Requests, AdminSaveEmail(r)
      PROVE  AccountMove
  <2>1. req[r].item \in Emails
    BY <1>8 DEF AdminSaveEmail, ItemsSound
  <2>2. emails' \in [Names -> SUBSET Emails]
    BY <1>8, <2>1 DEF AdminSaveEmail, UserRows
  <2> QED
    BY <1>2, <1>8, <2>2 DEF AdminSaveEmail, AccountMove, UserRows
<1>9. ASSUME NEW u \in Names, NEW e \in Emails, NEW r \in Requests, AdminAddEmail(r, u, e)
      PROVE  AccountMove
  <2> DEFINE q == [Idle EXCEPT !.step = "address", !.user = u, !.item = e]
  <2>1. q \in Loaded /\ q.step = "address" /\ q.user = u /\ u \in users
    BY <1>2, <1>9 DEF Idle, Loaded, AdminAddEmail
  <2> HIDE DEF q
  <2>2. req' = [req EXCEPT ![r] = q]
    BY <1>9 DEF AdminAddEmail, q
  <2> QED
    BY <1>1, <1>2, <1>9, <2>1, <2>2 DEF AdminAddEmail, AccountMove, AccountSteps, accounts
<1>10. ASSUME NEW u \in Names, NEW E, Remove(u, E)
       PROVE  AccountMove
  BY <1>2, <1>10 DEF Remove, AccountMove, UserRows
<1>11. ASSUME NEW u \in Names, NEW e \in Emails, Give(u, e)
       PROVE  AccountMove
  BY <1>2, <1>11 DEF Give, AccountMove, UserRows
<1>12. ASSUME NEW u \in Names, AddPassword(u)
       PROVE  AccountMove
  BY <1>2, <1>12 DEF AddPassword, AccountMove, UserRows
<1> QED
  BY <1>3, <1>4, <1>5, <1>6, <1>7, <1>8, <1>9, <1>10, <1>11, <1>12
  DEF EmailStep, RemoveEmails, RemoveEmail, AdminRemoveEmail, AddEmail, CliAddEmail,
      SetPassword, AdminSetPassword, CliSetPassword

LEMMA RecoveryMoves ==
    ASSUME AccountsInv, RecoveryStep
    PROVE  AccountMove
<1> USE DEF AccountsInv, RowsInv, RowTypes
<1>1. req \in [Requests -> Loaded] /\ Idle \in Loaded
  BY IdleLoaded DEF RequestRows
<1>2. CASE UNCHANGED vars
  BY <1>2, SameMove
<1>3. ASSUME NEW t \in tickets, NEW r \in Requests, LoadTicket(r, t)
      PROVE  AccountMove
  <2> DEFINE q == [Idle EXCEPT !.step = "recover", !.item = t[1], !.user = t[2]]
  <2>1. t[1] \in Recoveries /\ t[2] \in users /\ t[2] \in Names
    BY DEF AccountRows, UserRows
  <2>2. q \in Loaded /\ q.step = "recover" /\ q.user = t[2]
    BY <1>1, <2>1 DEF Idle, Loaded
  <2> HIDE DEF q
  <2>3. req' = [req EXCEPT ![r] = q]
    BY <1>3 DEF LoadTicket, q
  <2>4. UNCHANGED <<passwords, emails, rows>>
    BY <1>3 DEF LoadTicket, accounts
  <2> QED
    BY <1>1, <2>1, <2>2, <2>3, <2>4 DEF AccountMove, AccountSteps, UserRows
<1>4. ASSUME NEW r \in Requests, Recover(r)
      PROVE  AccountMove
  <2>1. req[r].user \in users
    BY <1>4 DEF Recover, RequestsSound
  <2> QED
    BY <1>1, <1>4, <2>1 DEF Recover, AccountMove, UserRows
<1> QED
  BY <1>2, <1>3, <1>4
  DEF RecoveryStep, ResendRecovery, BeginLinks, SaveLinks, FailLinks, CleanupRecovery,
      StartRecovery, ResendLink, ExpireTicket

\* What the steps of Registration leave of the rows that addresses and recoveries rest on.
NextFrame ==
    /\ users \subseteq users'
    /\ \A k \in Logins : owner[k] # "none" => owner'[k] = owner[k]
    /\ \A r \in Requests : req'[r].step \in AccountSteps => req'[r] = req[r]

LEMMA UpstreamFrames ==
    ASSUME RowsInv, UpstreamNext
    PROVE  NextFrame
<1> USE DEF RowsInv, RowTypes, RequestRows
<1>1. CASE UNCHANGED <<users, owner, req>>
  BY <1>1 DEF NextFrame
<1>2. ASSUME NEW r \in Requests, req' = [req EXCEPT ![r] = Idle], UNCHANGED users,
             UNCHANGED owner \/ \E i \in Logins : \E u : NewLogin(i, u)
      PROVE  NextFrame
  BY <1>2 DEF NextFrame, NewLogin, UserRows, Idle, AccountSteps
<1>3. ASSUME NEW r \in Requests, UNCHANGED <<users, owner>>, NEW q, req' = [req EXCEPT ![r] = q],
             q.step \notin AccountSteps
      PROVE  NextFrame
  BY <1>3 DEF NextFrame
<1>4. ASSUME NEW r \in Requests, NEW b \in Browsers, NEW l \in Links, LinkPage(r, b, l)
      PROVE  NextFrame
  BY <1>3, <1>4 DEF LinkPage, logins, Idle, AccountSteps
<1>5. ASSUME NEW a \in Admins, \/ AdminLink(a) \/ AdminDrop(a)
                               \/ \E u \in Names, l \in Links : AdminFind(a, u, l)
      PROVE  NextFrame
  BY <1>1, <1>5 DEF AdminLink, AdminDrop, AdminFind, logins
<1>6. ASSUME NEW r \in Requests, Resolve(r)
      PROVE  NextFrame
  BY <1>6 DEF Resolve, logins, AccountSteps, NextFrame, Loaded
<1>7. ASSUME NEW r \in Requests, Renew(r) \/ SubmitLink(r)
      PROVE  NextFrame
  BY <1>2, <1>7 DEF Renew, SubmitLink, Answer, logins
<1>8. ASSUME NEW r \in Requests, NEW i \in Logins, LogIn(r, i) \/ LogInExisting(r, i)
      PROVE  NextFrame
  <2>1. req' = [req EXCEPT ![r] = Idle] /\ UNCHANGED users /\ \E u : NewLogin(i, u)
    BY <1>8 DEF LogIn, LogInExisting, Answer
  <2> QED
    BY <1>2, <2>1
<1>9. ASSUME NEW b \in Browsers,
             Authorize(b) \/ \E i \in 1..MaxSessions, l \in Links : Callback(b, i, l)
      PROVE  NextFrame
  BY <1>1, <1>9 DEF Authorize, Callback, logins
<1>10. ASSUME NEW l \in Links, AdminRemove(l)
       PROVE  NextFrame
  BY <1>1, <1>10 DEF AdminRemove, logins
<1>11. ASSUME NEW S, BackchannelLogout(S)
       PROVE  NextFrame
  BY <1>1, <1>11 DEF BackchannelLogout
<1> QED
  BY <1>4, <1>5, <1>6, <1>7, <1>8, <1>9, <1>10, <1>11 DEF UpstreamNext

LEMMA NextFrames ==
    ASSUME RowsInv, Next
    PROVE  NextFrame
<1> USE DEF RowsInv, RowTypes, RequestRows
<1>1. CASE UNCHANGED <<users, owner, req>>
  BY <1>1 DEF NextFrame
<1>2. ASSUME NEW r \in Requests, UNCHANGED <<users, owner>>, NEW q, req' = [req EXCEPT ![r] = q],
             q.step \notin AccountSteps
      PROVE  NextFrame
  BY <1>2 DEF NextFrame
<1>3. ASSUME NEW b \in Browsers,
             Logout(b) \/ \E u \in passwords, i \in Logins : PasswordLogin(b, u, i)
      PROVE  NextFrame
  BY <1>3 DEF Logout, PasswordLogin, NewLogin, NextFrame, UserRows
<1>4. ASSUME NEW g \in Regs,
             \/ VerifyEmail(g) \/ SetToken(g) \/ SetDisplayName(g)
             \/ \E n, e, b : RegisterPassword(g, b, n, e)
      PROVE  NextFrame
  BY <1>1, <1>4 DEF VerifyEmail, SetToken, SetDisplayName, RegisterPassword, upstreamVars, logins
<1>5. ASSUME NEW g \in Regs, NEW r \in Requests, NEW n, NEW e, NEW d,
             RegisterUpstream(r, g, n, e, d)
      PROVE  NextFrame
  BY <1>2, <1>5 DEF RegisterUpstream, Answer, logins, Idle, AccountSteps
<1>6. ASSUME NEW g \in Regs, NEW r \in Requests, Finish(r, g)
      PROVE  NextFrame
  BY <1>2, <1>6 DEF Finish, logins, Idle, AccountSteps
<1>7. ASSUME NEW v, SetRevoked(v)
      PROVE  NextFrame
  BY <1>1, <1>7 DEF SetRevoked, upstreamVars, logins
<1>8. ASSUME NEW l \in Links, Cleanup(l)
      PROVE  NextFrame
  BY <1>1, <1>8 DEF Cleanup, CleanupLink, logins
<1>9. ASSUME NEW r \in Requests, Abandon(r)
      PROVE  NextFrame
  BY <1>2, <1>9 DEF Abandon, Drop, logins, Idle, AccountSteps
<1>10. ASSUME NEW r \in Requests, NEW a, NEW b \in Finishing, NEW ok, Check(r, a, b, ok)
       PROVE  NextFrame
  BY <1>10 DEF Check, logins, Finishing, AccountSteps, NextFrame, Loaded
<1>11. ASSUME NEW r \in Requests,
              CheckName(r) \/ CheckToken(r) \/ CheckEmail(r) \/ CheckUpstream(r)
       PROVE  NextFrame
  <2>1. {"token", "email", "upstream"} \subseteq Finishing
    BY DEF Finishing
  <2>2. ASSUME CheckUpstream(r) PROVE NextFrame
    BY <1>2, <2>2, KeepRequest DEF logins, AccountSteps
  <2> QED
    BY <1>10, <1>11, <2>1, <2>2 DEF CheckName, CheckToken, CheckEmail
<1>12. ASSUME NEW r \in Requests, NEW i \in Logins, Write(r, i)
       PROVE  NextFrame
  BY <1>12 DEF Write, AddUser, NewLogin, Answer, NextFrame, UserRows, Idle, AccountSteps
<1> QED
  BY <1>3, <1>4, <1>5, <1>6, <1>7, <1>8, <1>9, <1>11, <1>12, UpstreamFrames DEF Next

\* A step that leaves the calls alone, deletes no row of a link without a trace, and does not
\* bring a request to where it associates a link.
HeldFrame ==
    /\ users \subseteq users' /\ UNCHANGED call
    /\ \A l \in Links : link[l] # "none" => link'[l] # "none"
    /\ \A r \in Requests : req'[r].step \in {"resolved", "write"} =>
          req'[r] = req[r] /\ snap'[r] = snap[r]

LEMMA HeldFramed ==
    ASSUME HeldInv, HeldFrame
    PROVE  HeldInv'
<1>1. CallsSound'
  BY DEF HeldInv, HeldFrame, CallsSound
<1>2. LinksHeld'
  BY DEF HeldInv, HeldFrame, LinksHeld
<1> QED
  BY <1>1, <1>2 DEF HeldInv

LEMMA AdminHeld ==
    ASSUME RowsInv, HeldInv, NEW a \in Admins, UNCHANGED regVars,
           \/ AdminLink(a) \/ AdminDrop(a)
           \/ \E u \in Names, l \in Links : AdminFind(a, u, l)
    PROVE  HeldInv'
<1> USE DEF RowsInv, RowTypes
<1>1. UNCHANGED <<users, req, snap>>
  BY DEF AdminLink, AdminDrop, AdminFind, regVars, finishing
<1>2. call[a] # NoCall => call[a].user \in users /\ call[a].user # "none"
  BY Constants DEF HeldInv, CallsSound, UserRows
<1>3. \A l \in Links : link[l] # "none" => link'[l] # "none"
  BY <1>2 DEF AdminLink, AdminDrop, AdminFind, associate_to_user, UserRows
<1>4. LinksHeld'
  BY <1>1, <1>3 DEF HeldInv, LinksHeld
<1>5. CallsSound'
  <2>1. CASE AdminLink(a) \/ AdminDrop(a)
    <3>1. call' = [call EXCEPT ![a] = NoCall]
      BY <2>1 DEF AdminLink, AdminDrop
    <3> QED
      BY <1>1, <3>1 DEF HeldInv, CallsSound, NoCall
  <2>2. ASSUME NEW u \in Names, NEW l \in Links, AdminFind(a, u, l)
        PROVE  CallsSound'
    <3> DEFINE c == [link |-> l, user |-> u, owner |-> link[l]]
    <3>1. /\ c \in [link : Links \cup {"none"}, user : Names \cup {"none"}, owner : {"none", "free"}]
          /\ c.link = l /\ c.user = u /\ u \in users /\ call' = [call EXCEPT ![a] = c]
      BY <2>2 DEF AdminFind
    <3> HIDE DEF c
    <3> QED
      BY <1>1, <3>1 DEF HeldInv, CallsSound
  <2> QED
    BY <2>1, <2>2
<1> QED
  BY <1>4, <1>5 DEF HeldInv

\* What an association and a request that ends do to links and requests.
LEMMA AnswerHeld ==
    ASSUME RowsInv, HeldInv, NEW r \in Requests, req' = [req EXCEPT ![r] = Idle],
           \A q \in Requests \ {r} : snap'[q] = snap[q],
           users \subseteq users', UNCHANGED call,
           \A l \in Links : link[l] # "none" => link'[l] # "none"
    PROVE  HeldInv'
<1>1. HeldFrame
  BY DEF HeldFrame, RowsInv, RowTypes, RequestRows, Idle
<1> QED
  BY <1>1, HeldFramed

LEMMA HeldStep ==
    ASSUME RowsInv, HeldInv, Next
    PROVE  HeldInv'
<1> USE DEF RowsInv, RowTypes
<1>1. users \subseteq users'
  BY NextFrames DEF NextFrame
<1>2. req \in [Requests -> Loaded] /\ link \in [Links -> {"none", "gone", "free"} \cup users]
      /\ users \subseteq Names /\ "none" \notin Names
  BY Constants DEF RequestRows, UserRows
<1>3. ASSUME UNCHANGED <<call, req, snap>>, \A l \in Links : link[l] # "none" => link'[l] # "none"
      PROVE  HeldInv'
  BY <1>1, <1>3, HeldFramed DEF HeldFrame
<1>4. ASSUME NEW r \in Requests, NEW q, req' = [req EXCEPT ![r] = q],
             q.step \notin {"resolved", "write"}, UNCHANGED <<call, link>>,
             \A p \in Requests \ {r} : snap'[p] = snap[p]
      PROVE  HeldInv'
  <2>1. HeldFrame
    BY <1>1, <1>2, <1>4 DEF HeldFrame
  <2> QED
    BY <2>1, HeldFramed
<1>5. ASSUME NEW l, NEW u, u # "none", associate_to_user(l, u)
      PROVE  \A k \in Links : link[k] # "none" => link'[k] # "none"
  BY <1>2, <1>5 DEF associate_to_user
<1>6. CASE UpstreamNext /\ UNCHANGED regVars
  <2>1. UNCHANGED snap
    BY <1>6 DEF regVars, finishing
  <2>2. ASSUME NEW b \in Browsers, Authorize(b)
        PROVE  HeldInv'
    BY <1>3, <2>1, <2>2 DEF Authorize
  <2>3. ASSUME NEW b \in Browsers, NEW i, NEW l \in Links, Callback(b, i, l)
        PROVE  HeldInv'
    <3>1. \A k \in Links : link[k] # "none" => link'[k] # "none"
      BY <1>2, <2>3 DEF Callback
    <3> QED
      BY <1>3, <2>1, <2>3, <3>1 DEF Callback
  <2>4. ASSUME NEW r \in Requests, NEW b \in Browsers, NEW l \in Links, LinkPage(r, b, l)
        PROVE  HeldInv'
    BY <1>4, <2>1, <2>4 DEF LinkPage, Idle
  <2>5. ASSUME NEW r \in Requests, Renew(r) \/ \E i \in Logins : LogIn(r, i)
        PROVE  HeldInv'
    BY <1>1, <2>1, <2>5, AnswerHeld DEF Renew, LogIn, Answer
  <2>6. ASSUME NEW r \in Requests, SubmitLink(r)
        PROVE  HeldInv'
    <3>1. req[r].login \in Logins /\ owner[req[r].login] # "none"
      BY <2>6 DEF SubmitLink, RequestsSound, RequestRows, Loaded
    <3>2. \A k \in Links : link[k] # "none" => link'[k] # "none"
      BY <1>5, <2>6, <3>1 DEF SubmitLink
    <3> QED
      BY <1>1, <2>1, <2>6, <3>2, AnswerHeld DEF SubmitLink, Answer
  <2>7. ASSUME NEW r \in Requests, NEW i \in Logins, LogInExisting(r, i)
        PROVE  HeldInv'
    <3>1. req[r].user # "none"
      BY <1>2, <2>7 DEF LogInExisting, RequestsSound
    <3>2. \A k \in Links : link[k] # "none" => link'[k] # "none"
      BY <2>7, <3>1 DEF LogInExisting
    <3> QED
      BY <1>1, <2>1, <2>7, <3>2, AnswerHeld DEF LogInExisting, Answer
  <2>8. ASSUME NEW r \in Requests, Resolve(r)
        PROVE  HeldInv'
    <3>1. /\ req[r].owner = "free" /\ req'[r].step = "resolved" /\ req'[r].owner = req[r].owner
          /\ \A p \in Requests \ {r} : req'[p] = req[p]
          /\ UNCHANGED <<call, link, users>>
      BY <1>2, <2>8 DEF Resolve, Loaded
    <3>2. LinksHeld'
      BY <2>1, <3>1 DEF HeldInv, LinksHeld
    <3>3. CallsSound'
      BY <3>1 DEF HeldInv, CallsSound
    <3> QED
      BY <3>2, <3>3 DEF HeldInv
  <2>9. ASSUME NEW l \in Links, AdminRemove(l)
        PROVE  HeldInv'
    BY <1>2, <1>3, <2>1, <2>9 DEF AdminRemove
  <2>10. ASSUME NEW S, BackchannelLogout(S)
         PROVE  HeldInv'
    BY <1>3, <2>1, <2>10 DEF BackchannelLogout
  <2> QED
    BY <1>6, <2>2, <2>3, <2>4, <2>5, <2>6, <2>7, <2>8, <2>9, <2>10, AdminHeld DEF UpstreamNext
<1>7. ASSUME NEW b \in Browsers, UNCHANGED regVars,
             Logout(b) \/ \E u \in passwords, i \in Logins : PasswordLogin(b, u, i)
      PROVE  HeldInv'
  BY <1>3, <1>7 DEF Logout, PasswordLogin, regVars, finishing
<1>8. ASSUME NEW g \in Regs,
             \/ VerifyEmail(g) \/ SetToken(g) \/ SetDisplayName(g)
             \/ \E n, e, b : RegisterPassword(g, b, n, e)
      PROVE  HeldInv'
  BY <1>3, <1>8 DEF VerifyEmail, SetToken, SetDisplayName, RegisterPassword, upstreamVars, finishing
<1>9. ASSUME NEW g \in Regs, NEW r \in Requests, NEW n, NEW e, NEW d,
             RegisterUpstream(r, g, n, e, d)
      PROVE  HeldInv'
  BY <1>1, <1>9, AnswerHeld DEF RegisterUpstream, Answer, finishing
<1>10. ASSUME NEW g \in Regs, NEW r \in Requests, Finish(r, g)
       PROVE  HeldInv'
  BY <1>4, <1>10 DEF Finish, Idle, RequestRows
<1>11. ASSUME NEW v, SetRevoked(v)
       PROVE  HeldInv'
  BY <1>3, <1>11 DEF SetRevoked, upstreamVars, finishing
<1>12. ASSUME NEW l \in Links, Cleanup(l)
       PROVE  HeldInv'
  BY <1>2, <1>3, <1>12 DEF Cleanup, CleanupLink, finishing
<1>13. ASSUME NEW r \in Requests, Abandon(r)
       PROVE  HeldInv'
  BY <1>4, <1>13 DEF Abandon, Drop, Done, Idle, RequestRows
<1>14. ASSUME NEW r \in Requests, CheckName(r) \/ CheckToken(r) \/ CheckEmail(r)
       PROVE  HeldInv'
  <2>1. PICK k \in {"token", "email", "upstream"} : req' = [req EXCEPT ![r].step = k]
    BY <1>14 DEF CheckName, CheckToken, CheckEmail, Check
  <2>2. req' = [req EXCEPT ![r] = [req[r] EXCEPT !.step = k]] /\ [req[r] EXCEPT !.step = k].step = k
    BY <1>2, <2>1 DEF Loaded
  <2>3. UNCHANGED <<call, link, snap>>
    BY <1>14 DEF CheckName, CheckToken, CheckEmail, Check, regVars, finishing
  <2> QED
    BY <1>4, <2>2, <2>3
<1>15. ASSUME NEW r \in Requests, CheckUpstream(r)
       PROVE  HeldInv'
  <2>1. /\ req' = [req EXCEPT ![r] = req'[r]] /\ req'[r].step = "write"
        /\ snap[r].session # 0 =>
              /\ req'[r].link \in Links /\ link[req'[r].link] # "none" /\ req'[r].owner = "free"
        /\ UNCHANGED <<users, call, link, snap>>
    BY <1>15, KeepRequest DEF regVars, finishing
  <2>2. \A p \in Requests \ {r} : req'[p] = req[p]
    BY <1>2, <2>1
  <2>3. LinksHeld'
    BY <2>1, <2>2 DEF HeldInv, LinksHeld
  <2>4. CallsSound'
    BY <2>1 DEF HeldInv, CallsSound
  <2> QED
    BY <2>3, <2>4 DEF HeldInv
<1>16. ASSUME NEW r \in Requests, NEW i \in Logins, Write(r, i)
       PROVE  HeldInv'
  <2>1. /\ req[r].step = "write" /\ req' = [req EXCEPT ![r] = Idle] /\ Adopt(r, i)
        /\ UNCHANGED call /\ snap' = [snap EXCEPT ![r] = NoReg]
    BY <1>16 DEF Write, Answer, Done
  <2>2. snap[r].name # "none"
    BY <1>2, <2>1 DEF RequestsSound, Finishing
  <2>3. \A k \in Links : link[k] # "none" => link'[k] # "none"
    BY <1>5, <2>1, <2>2 DEF Adopt
  <2>4. \A q \in Requests \ {r} : snap'[q] = snap[q]
    BY <2>1 DEF RequestRows
  <2> QED
    BY <1>1, <2>1, <2>3, <2>4, AnswerHeld
<1> QED
  BY <1>6, <1>7, <1>8, <1>9, <1>10, <1>11, <1>12, <1>13, <1>14, <1>15, <1>16 DEF Next

LEMMA MoveHeld ==
    ASSUME RowsInv, HeldInv, AccountMove
    PROVE  HeldInv'
<1>1. HeldFrame
  BY DEF HeldFrame, AccountMove, AccountSteps, rows, finishing, Idle
<1> QED
  BY <1>1, HeldFramed

LEMMA HeldInitial == Init => HeldInv
  BY DEF Init, UpstreamInit, HeldInv, CallsSound, LinksHeld, NoCall, Idle

LEMMA HeldStutter == HeldInv /\ UNCHANGED vars => HeldInv'
  BY HeldFramed DEF HeldFrame, vars, upstreamVars, regVars, finishing

\* The steps of Registration keep the rows of addresses and recoveries.
LEMMA FramedAccounts ==
    ASSUME AccountsInv, NextFrame, RowsInv', HeldInv', UNCHANGED accountVars
    PROVE  AccountsInv'
<1> USE DEF AccountsInv, RowsInv, accountVars, mails, accountHistory
<1>1. AccountRows'
  BY DEF AccountRows, NextFrame
<1>2. ItemsSound' /\ AddedInv'
  BY DEF ItemsSound, AddedInv, AddedOnce, NextFrame, AccountSteps
<1>3. SentInv'
  BY DEF SentInv, NextFrame, AccountSteps
<1> QED
  BY <1>1, <1>2, <1>3

\* So do the steps of their own.
OwnInv == AccountRows /\ ItemsSound /\ AddedInv /\ SentInv

LEMMA ProofSteps ==
    ASSUME AccountsInv, UNCHANGED <<users, owner>>, NEW a \in Auths,
           \/ SendCode(a) \/ CleanupProof(a)
           \/ \E b \in Browsers : ResendCode(b, a) \/ \E e \in Emails : StartEmail(b, a, e)
    PROVE  OwnInv'
<1> USE DEF AccountsInv, RowsInv, RowTypes
<1>1. proof[a] \in ProofRow
  BY DEF AccountRows
<1>2. UNCHANGED <<req, recovery, tickets, added, sent, reset>>
  BY DEF SendCode, CleanupProof, ResendCode, StartEmail, accountHistory, vars, upstreamVars
<1>3. CASE SendCode(a) \/ \E b \in Browsers : ResendCode(b, a)
  <2>1. AccountRows'
    BY <1>2, <1>3 DEF SendCode, ResendCode, AccountRows
  <2>2. ItemsSound' /\ AddedInv' /\ SentInv'
    BY <1>2, <1>3 DEF SendCode, ResendCode, ItemsSound, AddedInv, AddedOnce, SentInv
  <2> QED
    BY <2>1, <2>2 DEF OwnInv
<1>4. CASE CleanupProof(a)
  <2>1. AccountRows'
    BY <1>1, <1>2, <1>4 DEF CleanupProof, AccountRows, ProofRow
  <2>2. ItemsSound' /\ AddedInv' /\ SentInv'
    BY <1>1, <1>2, <1>4
    DEF CleanupProof, ItemsSound, AddedInv, AddedOnce, SentInv, AccountRows, ProofRow
  <2> QED
    BY <2>1, <2>2 DEF OwnInv
<1>5. ASSUME NEW b \in Browsers, NEW e \in Emails, StartEmail(b, a, e)
      PROVE  OwnInv'
  <2>1. ActiveLogin(b) \in Logins /\ owner[ActiveLogin(b)] # "none"
    BY <1>5 DEF StartEmail, ActiveLogin, UserRows
  <2> DEFINE x == [state |-> "open", email |-> e, login |-> ActiveLogin(b)]
  <2>2. x \in ProofRow /\ x.state = "open" /\ x.email = e /\ x.login = ActiveLogin(b)
    BY <2>1 DEF ProofRow
  <2>3. proof' = [proof EXCEPT ![a] = x] /\ codes' = codes /\ proof[a].state = "none"
    BY <1>5 DEF StartEmail
  <2> HIDE DEF x
  <2>4. AccountRows'
    BY <1>2, <2>1, <2>2, <2>3 DEF AccountRows
  <2>5. ItemsSound' /\ AddedInv' /\ SentInv'
    BY <1>2, <2>2, <2>3 DEF ItemsSound, AddedInv, AddedOnce, SentInv, AccountRows
  <2> QED
    BY <2>4, <2>5 DEF OwnInv
<1> QED
  BY <1>3, <1>4, <1>5

LEMMA AddressSteps ==
    ASSUME AccountsInv, UNCHANGED <<users, owner>>, NEW r \in Requests,
           \/ \E b \in Browsers, a \in Auths : LoadProof(r, b, a)
           \/ CountAddress(r) \/ SaveProof(r) \/ AdminSaveEmail(r)
           \/ \E u \in Names, e \in Emails : AdminAddEmail(r, u, e)
    PROVE  OwnInv'
<1> USE DEF AccountsInv, RowsInv, RowTypes
<1>1. DOMAIN req = Requests /\ req[r] \in Loaded
  BY DEF RequestRows
<1>2. UNCHANGED <<recovery, codes, tickets, sent, reset>>
  BY DEF LoadProof, CountAddress, SaveProof, AdminSaveEmail, AdminAddEmail, accountVars, mails,
         accountHistory
<1>3. CASE UNCHANGED <<proof, added>>
      /\ \/ \E b \in Browsers, a \in Auths : LoadProof(r, b, a)
         \/ CountAddress(r) \/ AdminSaveEmail(r)
         \/ \E u \in Names, e \in Emails : AdminAddEmail(r, u, e)
  <2>1. AccountRows' /\ AddedInv'
    BY <1>2, <1>3 DEF AccountRows, AddedInv, AddedOnce
  <2>2. ASSUME NEW a \in Auths, NEW b \in Browsers, LoadProof(r, b, a)
        PROVE  ItemsSound' /\ SentInv'
    <3>1. req' = [req EXCEPT ![r] = [Idle EXCEPT !.step = "complete", !.item = a]]
          /\ proof[a].state # "none"
      BY <2>2 DEF LoadProof, AccountRows
    <3> QED
      BY <1>1, <1>2, <1>3, <3>1 DEF ItemsSound, SentInv, Idle
  <2>3. ASSUME CountAddress(r)
        PROVE  ItemsSound' /\ SentInv'
    <3>1. PICK k \in {"inUse", "unused"} : req' = [req EXCEPT ![r].step = k]
      BY <2>3 DEF CountAddress
    <3> QED
      BY <1>1, <1>2, <1>3, <2>3, <3>1 DEF CountAddress, ItemsSound, SentInv, Loaded
  <2>4. ASSUME NEW u \in Names, NEW e \in Emails, AdminAddEmail(r, u, e)
        PROVE  ItemsSound' /\ SentInv'
    BY <1>1, <1>2, <1>3, <2>4 DEF AdminAddEmail, ItemsSound, SentInv, Idle
  <2>5. ASSUME AdminSaveEmail(r)
        PROVE  ItemsSound' /\ SentInv'
    BY <1>1, <1>2, <1>3, <2>5 DEF AdminSaveEmail, ItemsSound, SentInv, Idle
  <2> QED
    BY <1>3, <2>1, <2>2, <2>3, <2>4, <2>5 DEF OwnInv
<1>4. ASSUME SaveProof(r)
      PROVE  OwnInv'
  <2> DEFINE a == req[r].item
             x == [proof[a] EXCEPT !.state = "completed"]
  <2>1. a \in Auths /\ proof[a] \in ProofRow /\ proof[a].state = "open"
    BY <1>4 DEF SaveProof, ItemsSound, AccountRows, NotCompleted
  <2>2. /\ x \in ProofRow /\ x.state = "completed" /\ x.email = proof[a].email
        /\ x.login = proof[a].login
    BY <2>1 DEF ProofRow
  <2>3. proof' = [proof EXCEPT ![a] = x] /\ req' = [req EXCEPT ![r] = Idle]
        /\ (added' = added \/ added' = [added EXCEPT ![a] = @ + 1])
    BY <1>4, <2>1 DEF SaveProof, ProofRow
  <2> HIDE DEF a, x
  <2>4. AccountRows'
    <3>1. proof' \in [Auths -> ProofRow] /\ added' \in [Auths -> Nat]
      BY <2>1, <2>2, <2>3 DEF AccountRows
    <3>2. \A b \in Auths :
             /\ (proof'[b].state # "none") <=> (proof[b].state # "none")
             /\ proof'[b].email = proof[b].email /\ proof'[b].login = proof[b].login
      BY <2>1, <2>2, <2>3 DEF AccountRows
    <3> QED
      BY <1>2, <3>1, <3>2 DEF AccountRows
  <2>5. ItemsSound' /\ SentInv'
    BY <1>1, <1>2, <2>1, <2>2, <2>3 DEF ItemsSound, SentInv, AccountRows, Idle
  <2>6. AddedInv'
    BY <2>1, <2>2, <2>3 DEF AddedInv, AddedOnce, AccountRows
  <2> QED
    BY <2>4, <2>5, <2>6 DEF OwnInv
<1> QED
  BY <1>3, <1>4
  DEF LoadProof, CountAddress, AdminSaveEmail, AdminAddEmail, accountVars, accountHistory

LEMMA GiveSteps ==
    ASSUME AccountsInv, UNCHANGED <<users, owner>>, NEW u \in Names,
           \/ \E E : Remove(u, E)
           \/ \E e \in Emails : Give(u, e)
           \/ AddPassword(u)
    PROVE  OwnInv'
<1> USE DEF AccountsInv
<1>1. UNCHANGED <<req, proof, recovery, codes, added, sent, reset>> /\ tickets' \subseteq tickets
  BY DEF Remove, Give, AddPassword, mails, accountVars, accountHistory
<1> QED
  BY <1>1 DEF OwnInv, AccountRows, ItemsSound, AddedInv, AddedOnce, SentInv

LEMMA RecoverySteps ==
    ASSUME AccountsInv, UNCHANGED <<users, owner>>, RecoveryStep
    PROVE  OwnInv'
<1> USE DEF AccountsInv, RowsInv, RowTypes
<1>1. DOMAIN req = Requests
  BY DEF RequestRows
<1>2. ASSUME UNCHANGED <<req, proof, codes, added, recovery, tickets, sent, reset>>
      PROVE  OwnInv'
  BY <1>2 DEF OwnInv, AccountRows, ItemsSound, AddedInv, AddedOnce, SentInv
<1>3. ASSUME NEW s \in Recoveries, ResendRecovery(s) \/ BeginLinks(s) \/ FailLinks(s)
      PROVE  OwnInv'
  BY <1>2, <1>3 DEF ResendRecovery, BeginLinks, FailLinks, vars, upstreamVars, accountHistory
<1>4. ASSUME NEW t \in tickets, ResendLink(t)
      PROVE  OwnInv'
  BY <1>2, <1>4 DEF ResendLink, vars, upstreamVars, accountHistory
<1>5. ASSUME NEW s \in Recoveries, NEW e \in Emails, StartRecovery(s, e)
      PROVE  OwnInv'
  <2>1. UNCHANGED <<req, proof, codes, added, tickets, sent, reset>>
    BY <1>5 DEF StartRecovery, vars, upstreamVars, accountHistory
  <2>2. recovery' \in [Recoveries -> RecoveryRow]
    BY <1>5 DEF StartRecovery, AccountRows, RecoveryRow
  <2> QED
    BY <2>1, <2>2 DEF OwnInv, AccountRows, ItemsSound, AddedInv, AddedOnce, SentInv
<1>6. ASSUME NEW s \in Recoveries, CleanupRecovery(s)
      PROVE  OwnInv'
  <2>1. UNCHANGED <<req, proof, codes, added, sent, reset>> /\ tickets' \subseteq tickets
    BY <1>6 DEF CleanupRecovery, vars, upstreamVars, accountHistory
  <2>2. recovery' \in [Recoveries -> RecoveryRow]
    BY <1>6 DEF CleanupRecovery, AccountRows, RecoveryRow
  <2> QED
    BY <2>1, <2>2 DEF OwnInv, AccountRows, ItemsSound, AddedInv, AddedOnce, SentInv
<1>7. ASSUME NEW s \in Recoveries, SaveLinks(s)
      PROVE  OwnInv'
  <2>1. UNCHANGED <<req, proof, codes, added, recovery, reset>>
    BY <1>7 DEF SaveLinks, vars, upstreamVars, accountHistory
  <2>2. /\ tickets' \subseteq Recoveries \X users \X {"fresh", "expired"}
        /\ \A t \in tickets' : <<t[1], t[2]>> \in sent'
        /\ sent \subseteq sent'
    BY <1>7 DEF SaveLinks, AccountRows, SentInv, Uses
  <2>3. AccountRows' /\ ItemsSound' /\ AddedInv'
    BY <2>1, <2>2 DEF AccountRows, ItemsSound, AddedInv, AddedOnce
  <2>4. SentInv'
    BY <2>1, <2>2 DEF SentInv
  <2> QED
    BY <2>3, <2>4 DEF OwnInv
<1>8. ASSUME NEW t \in tickets, ExpireTicket(t)
      PROVE  OwnInv'
  <2>1. UNCHANGED <<req, proof, codes, added, recovery, reset, sent>>
    BY <1>8 DEF ExpireTicket, vars, upstreamVars, accountHistory
  <2>2. /\ tickets' \subseteq Recoveries \X users \X {"fresh", "expired"}
        /\ \A x \in tickets' : <<x[1], x[2]>> \in sent'
    BY <1>8, <2>1 DEF ExpireTicket, AccountRows, SentInv
  <2> QED
    BY <2>1, <2>2 DEF OwnInv, AccountRows, ItemsSound, AddedInv, AddedOnce, SentInv
<1>9. ASSUME NEW t \in tickets, NEW r \in Requests, LoadTicket(r, t)
      PROVE  OwnInv'
  <2>1. UNCHANGED <<proof, codes, added, recovery, tickets, reset, sent>>
    BY <1>9 DEF LoadTicket, accountVars, mails, accountHistory
  <2>2. req' = [req EXCEPT ![r] = [Idle EXCEPT !.step = "recover", !.item = t[1], !.user = t[2]]]
        /\ t[1] \in Recoveries /\ <<t[1], t[2]>> \in sent
    BY <1>9 DEF LoadTicket, AccountRows, SentInv
  <2>3. ItemsSound' /\ SentInv'
    BY <1>1, <2>1, <2>2 DEF ItemsSound, SentInv, Idle
  <2> QED
    BY <2>1, <2>3 DEF OwnInv, AccountRows, AddedInv, AddedOnce
<1>10. ASSUME NEW r \in Requests, Recover(r)
       PROVE  OwnInv'
  <2> DEFINE s == req[r].item
             u == req[r].user
  <2>1. s \in Recoveries /\ u \in Names /\ <<s, u>> \in sent
    BY <1>10 DEF Recover, ItemsSound, RequestsSound, UserRows, SentInv
  <2>2. /\ recovery' = [recovery EXCEPT ![s].state = "consumed"]
        /\ reset' = [reset EXCEPT ![s] = Append(@, u)]
        /\ req' = [req EXCEPT ![r] = Idle]
        /\ UNCHANGED <<proof, codes, added, tickets, sent>>
    BY <1>10 DEF Recover, mails
  <2> HIDE DEF s, u
  <2>3. recovery' \in [Recoveries -> RecoveryRow]
    BY <2>1, <2>2 DEF AccountRows, RecoveryRow
  <2>4. reset[s] \in Seq(Names)
    BY <2>1 DEF AccountRows
  <2>5. reset' \in [Recoveries -> Seq(Names)]
    BY <2>1, <2>2, <2>4 DEF AccountRows
  <2>6. \A k \in Recoveries : \A i \in DOMAIN reset'[k] : <<k, reset'[k][i]>> \in sent
    <3>1. ASSUME NEW i \in DOMAIN Append(reset[s], u)
          PROVE  \/ i \in DOMAIN reset[s] /\ Append(reset[s], u)[i] = reset[s][i]
                 \/ Append(reset[s], u)[i] = u
      BY <2>1, <2>4
    <3> QED
      BY <2>1, <2>2, <3>1 DEF AccountRows, SentInv
  <2>7. ItemsSound' /\ SentInv'
    BY <1>1, <2>2, <2>6 DEF ItemsSound, SentInv, Idle
  <2> QED
    BY <2>2, <2>3, <2>5, <2>7 DEF OwnInv, AccountRows, AddedInv, AddedOnce
<1> QED
  BY <1>3, <1>4, <1>5, <1>6, <1>7, <1>8, <1>9, <1>10 DEF RecoveryStep

LEMMA AccountsStep ==
    ASSUME AccountsInv, [AccountsNext]_allVars
    PROVE  AccountsInv'
<1>1. CASE UNCHANGED allVars
  <2>1. AccountMove
    BY <1>1, SameMove DEF allVars
  <2>2. RowsInv' /\ HeldInv'
    BY <2>1, MoveRows, MoveHeld DEF AccountsInv
  <2>3. NextFrame
    BY <1>1 DEF allVars, vars, upstreamVars, logins, NextFrame
  <2> QED
    BY <1>1, <2>2, <2>3, FramedAccounts DEF allVars
<1>2. CASE Next /\ UNCHANGED accountVars
  BY <1>2, RowsStep, HeldStep, NextFrames, FramedAccounts DEF AccountsInv, HeldInv
<1>3. CASE EmailStep \/ RecoveryStep
  <2>1. AccountMove
    BY <1>3, EmailMoves, RecoveryMoves
  <2>2. RowsInv' /\ HeldInv' /\ UNCHANGED <<users, owner>>
    BY <2>1, MoveRows, MoveHeld DEF AccountsInv, AccountMove, rows, logins
  <2>3. OwnInv'
    <3>1. CASE RecoveryStep
      BY <2>2, <3>1, RecoverySteps
    <3>2. CASE EmailStep
      BY <2>2, <3>2, ProofSteps, AddressSteps, GiveSteps
      DEF EmailStep, RemoveEmails, RemoveEmail, AdminRemoveEmail, AddEmail, CliAddEmail,
          SetPassword, AdminSetPassword, CliSetPassword
    <3> QED
      BY <1>3, <3>1, <3>2
  <2> QED
    BY <2>2, <2>3 DEF AccountsInv, OwnInv
<1> QED
  BY <1>1, <1>2, <1>3 DEF AccountsNext

LEMMA AccountsInitial == AccountsInit => AccountsInv
<1> SUFFICES ASSUME AccountsInit PROVE AccountsInv
  OBVIOUS
<1> USE DEF AccountsInit, Init, UpstreamInit
<1>1. AccountRows
  BY DEF AccountRows, ProofRow, RecoveryRow
<1>2. ItemsSound /\ AddedInv /\ SentInv
  BY DEF ItemsSound, AddedInv, AddedOnce, SentInv, Idle
<1> QED
  BY <1>1, <1>2, RowsInitial, HeldInitial DEF AccountsInv

LEMMA RowsStutter == RowsInv /\ UNCHANGED vars => RowsInv'
  BY DEF RowsInv, RowTypes, UserRows, SessionRows, RequestRows, RequestsSound,
         RegistrationsSound, Deleted, SessionsReadable, Readable, Completed, vars, upstreamVars,
         regVars, sessions, logins, cookies, accounts, token, finishing

\* The rows are sound in every state, with any number of requests.
THEOREM RowsInvariant == (Spec => [](RowsInv /\ HeldInv)) /\ (AccountsSpec => []AccountsInv)
<1>1. Spec => [](RowsInv /\ HeldInv)
  <2>1. RowsInv /\ HeldInv /\ [Next]_vars => (RowsInv /\ HeldInv)'
    BY RowsStep, HeldStep, RowsStutter, HeldStutter DEF HeldInv
  <2> QED
    BY <2>1, RowsInitial, HeldInitial, PTL DEF Spec
<1>2. AccountsSpec => []AccountsInv
  BY AccountsInitial, AccountsStep, PTL DEF AccountsSpec
<1> QED
  BY <1>1, <1>2

\* Whatever requests are in progress, whichever links are removed and whatever the clean-up
\* deletes, an upstream session that has a row can be loaded.
THEOREM SessionsLoad == (Spec => []SessionsReadable) /\ (AccountsSpec => []SessionsReadable)
<1>1. RowsInv => SessionsReadable
  BY DEF RowsInv
<1>2. AccountsInv => RowsInv
  BY DEF AccountsInv
<1> QED
  BY <1>1, <1>2, RowsInvariant, PTL

\* With any number of requests, an email authentication adds its address at most once: the
\* UPDATE that completes it is the guard.
THEOREM AddsOnce == AccountsSpec => []AddedOnce
<1>1. AccountsInv => AddedOnce
  BY DEF AccountsInv, AddedInv
<1> QED
  BY <1>1, RowsInvariant, PTL

-----------------------------------------------------------------------------
(* One request at a time.                                                  *)

\* There is one slot for requests.
OneAtATime == \A r, s \in Requests : r = s

\* An authentication is the one its upstream session was consumed by.
AuthInv ==
    /\ ConsumedOnce
    /\ \A a \in auth : /\ userSession[a[2]] = a[1]
                       /\ "consumed" \in marks[a[2]] \/ marks[a[2]] = {}

\* The upstream session that a request is about to consume is not consumed.
ChecksStand ==
    \A r \in Requests :
        /\ req[r].step \in {"loaded", "resolved"} => "consumed" \notin marks[req[r].session]
        /\ req[r].step = "write" /\ snap[r].session # 0 => "consumed" \notin marks[snap[r].session]

\* What finish.rs has checked about the name and the token still holds.
NamesStand ==
    \A r \in Requests :
        /\ req[r].step \in Finishing \ {"name"} => ~Exists(snap[r].name)
        /\ req[r].step \in Finishing \ {"name", "token"} =>
              (TokenRequired(snap[r]) => used < limit)

\* A registration that is open has a password or an upstream session, or has lost it.
HasCredential(x, g) == x.password = "yes" \/ x.session # 0 \/ g \in orphaned
CredentialsInv ==
    /\ \A g \in Regs : reg[g].state = "open" => HasCredential(reg[g], g)
    /\ \A r \in Requests : req[r].step \in Finishing =>
          /\ HasCredential(snap[r], doing[r])
          /\ reg[doing[r]].state # "none" /\ reg[doing[r]].name = snap[r].name

\* Whoever has the address was given it by an administrator.
OnlyForced(e) == \A v \in users : e \in emails[v] => <<v, e>> \in forced

AddressesStand ==
    /\ EmailOnce
    /\ \A r \in Requests :
          /\ req[r].step = "unused" => OnlyForced(proof[req[r].item].email)
          /\ req[r].step = "address" => OnlyForced(req[r].item)
          /\ req[r].step \in {"upstream", "write"} => OnlyForced(snap[r].email)

RecoveryInv ==
    /\ \A s \in Recoveries : /\ Len(reset[s]) <= 1
                             /\ recovery[s].state \in {"none", "open"} => reset[s] = <<>>
    /\ \A r \in Requests :
          req[r].step = "recover" => recovery[req[r].item].state \in {"open", "gone"}

\* Authentications are kept by what does not consume a session ...
LEMMA AuthKept ==
    ASSUME AuthInv, UNCHANGED <<auth, userSession>>,
           \A a \in auth :
              /\ "consumed" \in marks[a[2]] => "consumed" \in marks'[a[2]] \/ marks'[a[2]] = {}
              /\ marks[a[2]] = {} => marks'[a[2]] = {}
    PROVE  AuthInv'
  BY DEF AuthInv, ConsumedOnce

\* ... and by what consumes one that was not.
LEMMA AuthConsumed ==
    ASSUME RowsInv, AuthInv, NEW s \in Sessions, NEW i \in Logins,
           "added" \in marks[s], "consumed" \notin marks[s],
           auth' = auth \cup {<<i, s>>},
           userSession' = [userSession EXCEPT ![s] = i],
           "consumed" \in marks'[s],
           \A t \in Sessions \ {s} :
              /\ "consumed" \in marks[t] => "consumed" \in marks'[t]
              /\ marks[t] = {} => marks'[t] = {}
    PROVE  AuthInv'
<1> USE DEF RowsInv, RowTypes
<1>1. auth \subseteq Logins \X Sessions /\ DOMAIN userSession = Sessions
  BY DEF SessionRows
<1>2. \A a \in auth : a[2] \in Sessions \ {s}
  BY <1>1 DEF AuthInv
<1>3. ConsumedOnce'
  BY <1>1, <1>2 DEF AuthInv, ConsumedOnce
<1>4. ASSUME NEW a \in auth'
      PROVE  userSession'[a[2]] = a[1] /\ ("consumed" \in marks'[a[2]] \/ marks'[a[2]] = {})
  <2>1. CASE a \in auth
    BY <1>1, <1>2, <2>1 DEF AuthInv
  <2>2. CASE a = <<i, s>>
    BY <1>1, <2>2
  <2> QED
    BY <2>1, <2>2
<1> QED
  BY <1>3, <1>4 DEF AuthInv

\* When the only request has nothing left to commit, no check has to stand.
LEMMA NothingChecked ==
    ASSUME OneAtATime, NEW r \in Requests,
           req'[r].step \notin {"loaded", "resolved", "write"}
    PROVE  ChecksStand'
  BY DEF OneAtATime, ChecksStand

UpstreamInv == AuthInv /\ ChecksStand

\* A step that leaves the upstream tables alone, and whose requests have nothing to commit.
LEMMA UpstreamStays ==
    ASSUME UpstreamInv, UNCHANGED <<marks, userSession, auth>>,
           \A r \in Requests :
              req'[r].step \in {"loaded", "resolved", "write"} =>
                  req'[r] = req[r] /\ snap'[r] = snap[r]
    PROVE  UpstreamInv'
<1>1. AuthInv'
  BY DEF UpstreamInv, AuthInv, ConsumedOnce
<1>2. ChecksStand'
  BY DEF UpstreamInv, ChecksStand
<1> QED
  BY <1>1, <1>2 DEF UpstreamInv

LEMMA AuthorizeSerial ==
    ASSUME RowsInv, UpstreamInv, NEW b \in Browsers, Authorize(b), UNCHANGED regVars
    PROVE  UpstreamInv'
<1> USE DEF RowsInv, RowTypes, UpstreamInv
<1>1. \A s \in Sessions : s <= started => marks'[s] = marks[s]
  BY Constants DEF Authorize, SessionRows, Sessions
<1>2. UNCHANGED <<link, linkOf, userSession, auth, req, snap>>
  BY DEF Authorize, logins, regVars, finishing
<1>3. AuthInv'
  BY <1>1, <1>2, AuthKept DEF SessionRows
<1>4. ASSUME NEW r \in Requests, req[r].step \in {"loaded", "resolved"}
      PROVE  marks'[req[r].session] = marks[req[r].session]
  BY <1>1, <1>4 DEF RequestsSound, Completed
<1>5. ASSUME NEW r \in Requests, snap[r].session # 0
      PROVE  marks'[snap[r].session] = marks[snap[r].session]
  BY <1>1, <1>5 DEF RequestsSound, Completed, RequestRows, RegRow
<1>6. ChecksStand'
  BY <1>2, <1>4, <1>5 DEF ChecksStand
<1> QED
  BY <1>3, <1>6

LEMMA CallbackSerial ==
    ASSUME RowsInv, UpstreamInv, NEW b \in Browsers, NEW i, NEW l \in Links, Callback(b, i, l),
           UNCHANGED regVars
    PROVE  UpstreamInv'
<1> DEFINE s == jar[b][i][1]
<1> USE DEF RowsInv, RowTypes, UpstreamInv
<1>1. s \in Sessions
  BY DEF Callback, RequestRows, Cookie
<1> HIDE DEF s
<1>2. /\ marks[s] = {"added"} /\ linkOf[s] = "none"
      /\ marks' = [marks EXCEPT ![s] = @ \cup {"completed"}]
      /\ linkOf' = [linkOf EXCEPT ![s] = l]
      /\ UNCHANGED <<userSession, auth, req, snap>>
      /\ \A k \in Links : link[k] # "none" => link'[k] = link[k]
  <2>1. marks[s] = {"added"} /\ Readable(s)
    BY DEF Callback, s
  <2>2. linkOf[s] = "none"
    BY <2>1 DEF Readable
  <2>3. \A k \in Links : link[k] # "none" => link'[k] = link[k]
    BY DEF Callback, LinkFor, LinkRows, UserRows
  <2> QED
    BY <2>1, <2>2, <2>3 DEF Callback, s, logins, regVars, finishing
<1>3. DOMAIN marks = Sessions /\ DOMAIN linkOf = Sessions /\ auth \subseteq Logins \X Sessions
      /\ \A t \in Sessions : linkOf[t] \in Links \cup {"none"}
  BY DEF SessionRows
<1>4. AuthInv'
  BY <1>2, <1>3, AuthKept
<1>5. ASSUME NEW r \in Requests, req[r].step \in {"loaded", "resolved"}
      PROVE  "consumed" \notin marks'[req[r].session]
  <2>1. req[r].session \in Sessions /\ "consumed" \notin marks[req[r].session]
    BY <1>5 DEF RequestsSound, ChecksStand
  <2> QED
    BY <1>2, <1>3, <2>1
<1>6. ASSUME NEW r \in Requests, req[r].step = "write", snap[r].session # 0
      PROVE  "consumed" \notin marks'[snap[r].session]
  <2>1. snap[r].session \in Sessions /\ "consumed" \notin marks[snap[r].session]
    BY <1>6 DEF RequestRows, RegRow, ChecksStand
  <2> QED
    BY <1>2, <1>3, <2>1
<1>7. ChecksStand'
  BY <1>2, <1>5, <1>6 DEF ChecksStand
<1> QED
  BY <1>4, <1>7

LEMMA LinkPageSerial ==
    ASSUME RowsInv, UpstreamInv, NEW r \in Requests, NEW b \in Browsers, NEW l \in Links,
           LinkPage(r, b, l), UNCHANGED regVars
    PROVE  UpstreamInv'
<1> USE DEF RowsInv, RowTypes, UpstreamInv
<1>1. UNCHANGED <<link, marks, linkOf, userSession, auth, snap>>
  BY DEF LinkPage, sessions, logins, regVars, finishing
<1>2. AuthInv'
  BY <1>1 DEF AuthInv, ConsumedOnce
<1>3. /\ req'[r].step = "loaded" /\ req'[r].link = l /\ req'[r].owner = link[l]
      /\ "consumed" \notin marks[req'[r].session]
      /\ \A q \in Requests \ {r} : req'[q] = req[q]
  BY DEF LinkPage, Usable, Idle, RequestRows
<1>4. ChecksStand'
  BY <1>1, <1>3 DEF ChecksStand
<1> QED
  BY <1>2, <1>4

LEMMA ResolveSerial ==
    ASSUME RowsInv, UpstreamInv, NEW r \in Requests, Resolve(r), UNCHANGED regVars
    PROVE  UpstreamInv'
<1> USE DEF RowsInv, RowTypes, UpstreamInv
<1>1. UNCHANGED <<link, marks, linkOf, userSession, auth, snap>>
  BY DEF Resolve, sessions, logins, regVars, finishing
<1>2. AuthInv'
  BY <1>1 DEF AuthInv, ConsumedOnce
<1>3. /\ req[r].step = "loaded" /\ req[r].owner = "free" /\ req'[r].step = "resolved"
      /\ req'[r].link = req[r].link /\ req'[r].session = req[r].session
      /\ \A q \in Requests \ {r} : req'[q] = req[q]
  BY DEF Resolve, RequestRows, Loaded
<1>4. ChecksStand'
  BY <1>1, <1>3 DEF ChecksStand
<1> QED
  BY <1>2, <1>4

LEMMA ConsumeSerial ==
    ASSUME RowsInv, UpstreamInv, NEW s \in Sessions, NEW i \in Logins, consume(s, i),
           "consumed" \notin marks[s]
    PROVE  AuthInv'
  BY AuthConsumed DEF consume, UpstreamInv, RowsInv, RowTypes, SessionRows

LEMMA CommitSerial ==
    ASSUME OneAtATime, RowsInv, UpstreamInv, NEW r \in Requests,
           \/ Renew(r) \/ SubmitLink(r) \/ \E i \in Logins : LogIn(r, i)
    PROVE  UpstreamInv'
<1> USE DEF RowsInv, RowTypes
<1>1. /\ req[r].session \in Sessions /\ "consumed" \notin marks[req[r].session]
      /\ req[r].login \in Logins \cup {0}
  BY DEF Renew, SubmitLink, LogIn, RequestsSound, UpstreamInv, ChecksStand, RequestRows, Loaded
<1>2. PICK i \in Logins : consume(req[r].session, i)
  BY <1>1 DEF Renew, SubmitLink, LogIn
<1>3. AuthInv'
  BY <1>1, <1>2, ConsumeSerial
<1>4. req'[r].step = "idle"
  BY DEF Renew, SubmitLink, LogIn, Answer, RequestRows, Idle
<1> QED
  BY <1>3, <1>4, NothingChecked DEF UpstreamInv

LEMMA LogInExistingSerial ==
    ASSUME OneAtATime, RowsInv, UpstreamInv, NEW r \in Requests, NEW i \in Logins,
           LogInExisting(r, i)
    PROVE  UpstreamInv'
<1> DEFINE u == req[r].user
           s == req[r].session
           L == IF OnConflict = "replace" THEN LinksOf(u) ELSE {}
<1> USE DEF RowsInv, RowTypes
<1>1. s \in Sessions /\ "consumed" \notin marks[s]
  BY DEF LogInExisting, RequestsSound, UpstreamInv, ChecksStand
<1>2. L \subseteq Links
  BY DEF LinksOf, LinkRows
<1>3. /\ "added" \in marks[s]
      /\ marks' = [Unlink(L) EXCEPT ![s] = @ \cup {"consumed"}]
      /\ userSession' = [userSession EXCEPT ![s] = i]
      /\ auth' = auth \cup {<<i, s>>}
  BY DEF LogInExisting
<1> HIDE DEF u, s, L
<1>4. DOMAIN Unlink(L) = Sessions
  BY DEF Unlink
<1>5. "consumed" \in marks'[s] /\ \A t \in Sessions \ {s} : marks'[t] = Unlink(L)[t]
  BY <1>1, <1>3, <1>4
<1>6. \A t \in Sessions \ {s} : /\ "consumed" \in marks[t] => "consumed" \in marks'[t]
                                /\ marks[t] = {} => marks'[t] = {}
  BY <1>2, <1>5, UnlinkedSession
<1>7. AuthInv'
  BY <1>1, <1>3, <1>5, <1>6, AuthConsumed DEF UpstreamInv
<1>8. req'[r].step = "idle"
  BY DEF LogInExisting, Answer, RequestRows, Idle
<1> QED
  BY <1>7, <1>8, NothingChecked DEF UpstreamInv

LEMMA AdminRemoveSerial ==
    ASSUME RowsInv, UpstreamInv, NEW l \in Links, AdminRemove(l), UNCHANGED regVars
    PROVE  UpstreamInv'
<1> USE DEF RowsInv, RowTypes, UpstreamInv
<1>1. UNCHANGED <<userSession, auth, req, snap>> /\ marks' = Unlink({l})
  BY DEF AdminRemove, logins, regVars, finishing
<1>2. \A t \in Sessions : /\ "consumed" \in marks[t] <=> "consumed" \in marks'[t]
                          /\ marks[t] = {} => marks'[t] = {}
  BY <1>1, UnlinkedSession
<1>3. AuthInv'
  BY <1>1, <1>2, AuthKept DEF SessionRows
<1>4. ASSUME NEW r \in Requests
      PROVE  /\ req[r].step \in {"loaded", "resolved"} => req[r].session \in Sessions
             /\ snap[r].session # 0 => snap[r].session \in Sessions
  BY DEF RequestsSound, RequestRows, RegRow
<1>5. ChecksStand'
  BY <1>1, <1>2, <1>4 DEF ChecksStand
<1> QED
  BY <1>3, <1>5

LEMMA CleanupSerial ==
    ASSUME RowsInv, UpstreamInv, NEW l \in Links, Cleanup(l)
    PROVE  UpstreamInv'
<1> USE DEF RowsInv, RowTypes, UpstreamInv
<1>1. /\ marks' = [s \in Sessions |-> IF linkOf[s] = l THEN {} ELSE marks[s]]
      /\ linkOf' = [s \in Sessions |-> IF linkOf[s] = l THEN "none" ELSE linkOf[s]]
      /\ UNCHANGED <<userSession, auth, req, snap>>
      /\ link' = [link EXCEPT ![l] = "gone"]
  BY DEF Cleanup, CleanupLink, Orphans, Without, logins, finishing
<1>2. AuthInv'
  BY <1>1, AuthKept DEF SessionRows
<1>3. ASSUME NEW r \in Requests, req[r].step \in {"loaded", "resolved"}
      PROVE  "consumed" \notin marks'[req[r].session]
  BY <1>1, <1>3 DEF RequestsSound, ChecksStand
<1>5. ASSUME NEW r \in Requests, req[r].step = "write", snap[r].session # 0
      PROVE  "consumed" \notin marks'[snap[r].session]
  <2>1. snap[r].session \in Sessions
    BY <1>5 DEF RequestRows, RegRow
  <2> QED
    BY <1>1, <1>5, <2>1 DEF ChecksStand
<1>6. ChecksStand'
  BY <1>1, <1>3, <1>5 DEF ChecksStand
<1> QED
  BY <1>2, <1>6

LEMMA CheckUpstreamSerial ==
    ASSUME RowsInv, UpstreamInv, NEW r \in Requests, CheckUpstream(r)
    PROVE  UpstreamInv'
<1> USE DEF RowsInv, RowTypes, UpstreamInv
<1>1. UNCHANGED <<link, marks, linkOf, userSession, auth, snap>>
  BY KeepRequest DEF sessions, logins, regVars, finishing
<1>2. AuthInv'
  BY <1>1 DEF AuthInv, ConsumedOnce
<1>3. /\ req'[r].step = "write" /\ \A q \in Requests \ {r} : req'[q] = req[q]
      /\ snap[r].session # 0 => "consumed" \notin marks[snap[r].session]
  BY KeepRequest DEF RequestRows
<1>4. ChecksStand'
  BY <1>1, <1>3 DEF ChecksStand
<1> QED
  BY <1>2, <1>4

LEMMA WriteSerial ==
    ASSUME OneAtATime, RowsInv, UpstreamInv, NEW r \in Requests, NEW i \in Logins, Write(r, i)
    PROVE  UpstreamInv'
<1> USE DEF RowsInv, RowTypes
<1>1. req[r].step = "write" /\ Adopt(r, i) /\ snap[r].session \in Sessions \cup {0}
  BY DEF Write, RequestRows, RegRow
<1>2. AuthInv'
  <2>1. CASE snap[r].session = 0
    BY <1>1, <2>1 DEF Adopt, sessions, UpstreamInv, AuthInv, ConsumedOnce
  <2>2. CASE snap[r].session # 0
    <3>1. consume(snap[r].session, i) /\ "added" \in marks[snap[r].session]
      BY <1>1, <2>2 DEF Adopt, consume
    <3>2. "consumed" \notin marks[snap[r].session]
      BY <1>1, <2>2, <3>1 DEF UpstreamInv, ChecksStand
    <3> QED
      BY <1>1, <2>2, <3>1, <3>2, ConsumeSerial
  <2> QED
    BY <2>1, <2>2
<1>3. req'[r].step = "idle"
  BY DEF Write, Answer, RequestRows, Idle
<1> QED
  BY <1>2, <1>3, NothingChecked DEF UpstreamInv

\* The checks of a request stand until it commits.
LEMMA UpstreamStep ==
    ASSUME OneAtATime, RowsInv, UpstreamInv, Next
    PROVE  UpstreamInv'
<1> USE DEF RowsInv, RowTypes, RequestRows
<1>1. CASE UNCHANGED <<marks, userSession, auth, req, snap>>
  BY <1>1, UpstreamStays
<1>2. ASSUME NEW r \in Requests, UNCHANGED <<marks, userSession, auth>>,
             req'[r].step \notin {"loaded", "resolved", "write"}
      PROVE  UpstreamInv'
  BY <1>2, UpstreamStays DEF OneAtATime
<1>3. CASE UpstreamNext /\ UNCHANGED regVars
  <2>1. ASSUME NEW S, BackchannelLogout(S)
        PROVE  UpstreamInv'
    BY <1>1, <1>3, <2>1 DEF BackchannelLogout, sessions, regVars, finishing
  <2>2. ASSUME NEW a \in Admins, \/ AdminLink(a) \/ AdminDrop(a)
                                 \/ \E u \in Names, l \in Links : AdminFind(a, u, l)
        PROVE  UpstreamInv'
    BY <1>1, <1>3, <2>2
    DEF AdminLink, AdminDrop, AdminFind, sessions, logins, regVars, finishing
  <2> QED
    BY <1>3, <2>1, <2>2, AuthorizeSerial, CallbackSerial, LinkPageSerial, CommitSerial,
       LogInExistingSerial, ResolveSerial, AdminRemoveSerial
    DEF UpstreamNext
<1>4. ASSUME NEW b \in Browsers,
             \/ Logout(b) /\ UNCHANGED regVars
             \/ \E u \in passwords, i \in Logins : PasswordLogin(b, u, i) /\ UNCHANGED regVars
      PROVE  UpstreamInv'
  BY <1>1, <1>4 DEF Logout, PasswordLogin, sessions, regVars, finishing
<1>5. ASSUME NEW g \in Regs,
             \/ VerifyEmail(g) \/ SetToken(g) \/ SetDisplayName(g)
             \/ \E n, e, b : RegisterPassword(g, b, n, e)
      PROVE  UpstreamInv'
  BY <1>1, <1>5 DEF VerifyEmail, SetToken, SetDisplayName, RegisterPassword, upstreamVars,
                    sessions, logins, finishing
<1>6. ASSUME NEW v, SetRevoked(v)
      PROVE  UpstreamInv'
  BY <1>1, <1>6 DEF SetRevoked, upstreamVars, sessions, logins, finishing
<1>7. ASSUME NEW r \in Requests, NEW g \in Regs, NEW n, NEW e, NEW d,
             RegisterUpstream(r, g, n, e, d)
      PROVE  UpstreamInv'
  <2>1. req'[r].step = "idle" /\ UNCHANGED <<marks, userSession, auth>>
    BY <1>7 DEF RegisterUpstream, Answer, sessions, logins, Idle
  <2> QED
    BY <1>2, <2>1
<1>8. ASSUME NEW r \in Requests, NEW g \in Regs, Finish(r, g)
      PROVE  UpstreamInv'
  <2>1. req'[r].step = "name" /\ UNCHANGED <<marks, userSession, auth>>
    BY <1>8 DEF Finish, sessions, logins, Idle
  <2> QED
    BY <1>2, <2>1
<1>9. ASSUME NEW r \in Requests, Abandon(r)
      PROVE  UpstreamInv'
  <2>1. req'[r].step = "idle" /\ UNCHANGED <<marks, userSession, auth>>
    BY <1>9 DEF Abandon, Drop, sessions, logins, Idle
  <2> QED
    BY <1>2, <2>1
<1>10. ASSUME NEW r \in Requests, CheckName(r) \/ CheckToken(r) \/ CheckEmail(r)
       PROVE  UpstreamInv'
  <2>1. /\ req'[r].step \in {"token", "email", "upstream"}
        /\ UNCHANGED <<marks, userSession, auth>>
    BY <1>10 DEF CheckName, CheckToken, CheckEmail, Check, sessions, logins, Loaded
  <2> QED
    BY <1>2, <2>1
<1> QED
  BY <1>3, <1>4, <1>5, <1>6, <1>7, <1>8, <1>9, <1>10, CleanupSerial, CheckUpstreamSerial,
     WriteSerial
  DEF Next

\* A step that leaves users, the token and what finish.rs is doing alone.
FinishFrame ==
    /\ UNCHANGED <<users, used, limit, config>>
    /\ \A r \in Requests : req'[r].step \in Finishing =>
          req'[r].step = req[r].step /\ snap'[r] = snap[r] /\ doing'[r] = doing[r]

LEMMA UpstreamFinishes ==
    ASSUME RowsInv, UpstreamNext, UNCHANGED regVars
    PROVE  FinishFrame
<1> USE DEF RowsInv, RowTypes, RequestRows, regVars, accounts, token, finishing
<1>1. UNCHANGED <<config, users, used, limit, snap, doing>>
  BY DEF UpstreamNext, Authorize, Callback, LinkPage, Renew, SubmitLink, Resolve, AdminLink,
         AdminDrop, LogIn, LogInExisting, AdminFind, AdminRemove, BackchannelLogout
<1>2. ASSUME NEW r \in Requests,
             \/ Renew(r) \/ SubmitLink(r)
             \/ \E i \in Logins : LogIn(r, i) \/ LogInExisting(r, i)
      PROVE  FinishFrame
  <2>1. req' = [req EXCEPT ![r] = Idle]
    BY <1>2 DEF Renew, SubmitLink, LogIn, LogInExisting, Answer
  <2> QED
    BY <1>1, <2>1 DEF FinishFrame, Idle, Finishing
<1>3. ASSUME UNCHANGED req
      PROVE  FinishFrame
  BY <1>1, <1>3 DEF FinishFrame
<1>4. ASSUME NEW b \in Browsers,
             Authorize(b) \/ \E i \in 1..MaxSessions, l \in Links : Callback(b, i, l)
      PROVE  FinishFrame
  BY <1>3, <1>4 DEF Authorize, Callback
<1>5. ASSUME NEW l \in Links, AdminRemove(l)
      PROVE  FinishFrame
  BY <1>3, <1>5 DEF AdminRemove
<1>6. ASSUME NEW S, BackchannelLogout(S)
      PROVE  FinishFrame
  BY <1>3, <1>6 DEF BackchannelLogout
<1>7. ASSUME NEW r \in Requests, NEW b \in Browsers, NEW l \in Links, LinkPage(r, b, l)
      PROVE  FinishFrame
  BY <1>1, <1>7 DEF LinkPage, FinishFrame, Idle, Finishing
<1>8. ASSUME NEW a \in Admins, \/ AdminLink(a) \/ AdminDrop(a)
                               \/ \E u \in Names, l \in Links : AdminFind(a, u, l)
      PROVE  FinishFrame
  BY <1>3, <1>8 DEF AdminLink, AdminDrop, AdminFind
<1>9. ASSUME NEW r \in Requests, Resolve(r)
      PROVE  FinishFrame
  BY <1>1, <1>9 DEF Resolve, FinishFrame, Loaded, Finishing
<1> QED
  BY <1>2, <1>4, <1>5, <1>6, <1>7, <1>8, <1>9 DEF UpstreamNext

\* Every step is such a step, a step of finish.rs, or the start of it.
LEMMA FinishCases ==
    ASSUME RowsInv, Next
    PROVE  \/ FinishFrame /\ UNCHANGED accounts
           \/ \E r \in Requests :
                 \/ \E g \in Regs : Finish(r, g)
                 \/ CheckName(r) \/ CheckToken(r) \/ CheckEmail(r) \/ CheckUpstream(r)
                 \/ \E i \in Logins : Write(r, i)
<1> USE DEF RowsInv, RowTypes, RequestRows
<1>1. ASSUME UNCHANGED <<users, used, limit, config, accounts, req, snap, doing>>
      PROVE  FinishFrame /\ UNCHANGED accounts
  BY <1>1 DEF FinishFrame
<1>2. ASSUME NEW b \in Browsers,
             \/ Logout(b) /\ UNCHANGED regVars
             \/ \E u \in passwords, i \in Logins : PasswordLogin(b, u, i) /\ UNCHANGED regVars
      PROVE  FinishFrame /\ UNCHANGED accounts
  BY <1>1, <1>2 DEF Logout, PasswordLogin, regVars, token, finishing
<1>3. ASSUME NEW g \in Regs,
             \/ VerifyEmail(g) \/ SetToken(g) \/ SetDisplayName(g)
             \/ \E n, e, b : RegisterPassword(g, b, n, e)
      PROVE  FinishFrame /\ UNCHANGED accounts
  BY <1>1, <1>3 DEF VerifyEmail, SetToken, SetDisplayName, RegisterPassword, upstreamVars, token,
                    finishing
<1>4. ASSUME NEW v, SetRevoked(v)
      PROVE  FinishFrame /\ UNCHANGED accounts
  BY <1>1, <1>4 DEF SetRevoked, upstreamVars, finishing
<1>5. ASSUME NEW r \in Requests, NEW g \in Regs, NEW n, NEW e, NEW d,
             RegisterUpstream(r, g, n, e, d)
      PROVE  FinishFrame /\ UNCHANGED accounts
  BY <1>5 DEF RegisterUpstream, Answer, token, finishing, FinishFrame, Idle, Finishing
<1>6. ASSUME NEW l \in Links, Cleanup(l)
      PROVE  FinishFrame /\ UNCHANGED accounts
  BY <1>1, <1>6 DEF Cleanup, CleanupLink, token, finishing
<1>7. ASSUME NEW r \in Requests, Abandon(r)
      PROVE  FinishFrame /\ UNCHANGED accounts
  BY <1>7 DEF Abandon, Drop, Done, token, FinishFrame, Idle, Finishing
<1> QED
  BY <1>2, <1>3, <1>4, <1>5, <1>6, <1>7, UpstreamFinishes DEF Next, regVars

\* The users there from the start have names that differ in more than case.
SitesDistinct ==
    \A s \in Sites : \A u, v \in s[2] : Fold[u] = Fold[v] => u = v

NamesInv == NamesStand /\ LimitKept /\ (SitesDistinct => NamesDistinct)

LEMMA NamesFramed ==
    ASSUME NamesInv, FinishFrame
    PROVE  NamesInv'
  BY DEF NamesInv, FinishFrame, NamesStand, NamesDistinct, LimitKept, Exists, TokenRequired,
         Finishing

LEMMA NamesStep ==
    ASSUME OneAtATime, RowsInv, NamesInv, Next
    PROVE  NamesInv'
<1> USE DEF RowsInv, RowTypes, RequestRows, NamesInv
<1>1. CASE FinishFrame
  BY <1>1, NamesFramed
<1>2. ASSUME NEW r \in Requests, NEW g \in Regs, Finish(r, g)
      PROVE  NamesInv'
  <2>1. req'[r].step = "name" /\ UNCHANGED <<users, used, limit>>
    BY <1>2 DEF Finish, Idle, token
  <2> QED
    BY <2>1 DEF OneAtATime, NamesStand, NamesDistinct, LimitKept
<1>3. ASSUME NEW r \in Requests, NEW a, NEW b, NEW ok, Check(r, a, b, ok)
      PROVE  /\ UNCHANGED <<users, used, limit, config, snap, revoked>>
             /\ req[r].step = a /\ req'[r].step = b /\ ok
  BY <1>3 DEF Check, regVars, token, finishing, Loaded
<1>4. ASSUME NEW r \in Requests, CheckName(r)
      PROVE  NamesInv'
  <2>1. /\ UNCHANGED <<users, used, limit, config, snap>> /\ req'[r].step = "token"
        /\ ~Exists(snap[r].name)
    BY <1>3, <1>4 DEF CheckName
  <2> QED
    BY <2>1 DEF OneAtATime, NamesStand, NamesDistinct, LimitKept, Exists, TokenRequired
<1>5. ASSUME NEW r \in Requests, CheckToken(r)
      PROVE  NamesInv'
  <2>1. /\ UNCHANGED <<users, used, limit, config, snap>>
        /\ req[r].step = "token" /\ req'[r].step = "email"
        /\ TokenRequired(snap[r]) => TokenValid
    BY <1>3, <1>5 DEF CheckToken
  <2>2. ~Exists(snap[r].name)
    BY <2>1 DEF NamesStand, Finishing
  <2> QED
    BY <2>1, <2>2
    DEF OneAtATime, NamesStand, NamesDistinct, LimitKept, Exists, TokenRequired, TokenValid
<1>6. ASSUME NEW r \in Requests, CheckEmail(r) \/ CheckUpstream(r)
      PROVE  NamesInv'
  <2>1. /\ UNCHANGED <<users, used, limit, config, snap>>
        /\ req[r].step \in {"email", "upstream"} /\ req'[r].step \in {"upstream", "write"}
    <3>1. CASE CheckEmail(r)
      BY <1>3, <3>1 DEF CheckEmail
    <3>2. CASE CheckUpstream(r)
      BY <3>2, KeepRequest DEF regVars, token, finishing
    <3> QED
      BY <1>6, <3>1, <3>2
  <2>2. ~Exists(snap[r].name) /\ (TokenRequired(snap[r]) => used < limit)
    BY <2>1 DEF NamesStand, Finishing
  <2> QED
    BY <2>1, <2>2 DEF OneAtATime, NamesStand, NamesDistinct, LimitKept, Exists, TokenRequired
<1>7. ASSUME NEW r \in Requests, NEW i \in Logins, Write(r, i)
      PROVE  NamesInv'
  <2>1. /\ req[r].step = "write" /\ users' = users \cup {snap[r].name}
        /\ used' = (IF TokenRequired(snap[r]) THEN used + 1 ELSE used) /\ limit' = limit
    BY <1>7 DEF Write, AddUser
  <2>2. ~Exists(snap[r].name) /\ (TokenRequired(snap[r]) => used < limit)
    BY <2>1 DEF NamesStand, Finishing
  <2>3. req'[r].step = "idle"
    BY <1>7 DEF Write, Answer, Idle
  <2>4. NamesDistinct => NamesDistinct'
    BY <2>1, <2>2 DEF NamesDistinct, Exists
  <2>5. LimitKept'
    BY <2>1, <2>2 DEF LimitKept, UserRows
  <2> QED
    BY <2>3, <2>4, <2>5 DEF OneAtATime, NamesStand, Finishing
<1> QED
  BY <1>1, <1>2, <1>4, <1>5, <1>6, <1>7, FinishCases

\* What a step does to registrations: a row keeps its name, and an open one the means to log
\* in, unless the clean-up took them.
RegsMove ==
    /\ orphaned \subseteq orphaned'
    /\ \A g \in Regs :
          /\ reg[g].state # "none" => reg'[g].state # "none" /\ reg'[g].name = reg[g].name
          /\ (reg[g].state = "open" => HasCredential(reg[g], g))'

LEMMA RegsMoves ==
    ASSUME RowsInv, CredentialsInv, Next
    PROVE  RegsMove
<1> USE DEF RowsInv, RowTypes, RequestRows, RegsMove
<1>1. ASSUME UNCHANGED <<reg, orphaned>>
      PROVE  RegsMove
  BY <1>1 DEF CredentialsInv, HasCredential
<1>2. ASSUME NEW g \in Regs, NEW x, reg' = [reg EXCEPT ![g] = x], UNCHANGED orphaned,
             reg[g].state # "none" => x.state # "none" /\ x.name = reg[g].name,
             x.state = "open" => HasCredential(x, g)
      PROVE  RegsMove
  BY <1>2 DEF CredentialsInv, HasCredential
<1>3. ASSUME NEW g \in Regs, VerifyEmail(g)
      PROVE  RegsMove
  BY <1>1, <1>3 DEF VerifyEmail
<1>4. ASSUME NEW g \in Regs, SetToken(g) \/ SetDisplayName(g)
      PROVE  RegsMove
  <2>1. reg[g].state = "open" /\ reg[g] \in RegRow /\ HasCredential(reg[g], g)
    BY <1>4 DEF SetToken, SetDisplayName, CredentialsInv
  <2>2. PICK x \in RegRow : /\ reg' = [reg EXCEPT ![g] = x] /\ x.state = "open"
                            /\ x.name = reg[g].name
                            /\ x.password = reg[g].password /\ x.session = reg[g].session
    <3>1. CASE SetToken(g)
      <4> DEFINE x == [reg[g] EXCEPT !.token = "yes"]
      <4>1. /\ x \in RegRow /\ reg' = [reg EXCEPT ![g] = x] /\ x.state = "open"
            /\ x.name = reg[g].name /\ x.password = reg[g].password
            /\ x.session = reg[g].session
        BY <2>1, <3>1 DEF SetToken, RegRow
      <4> QED
        BY <4>1
    <3>2. CASE SetDisplayName(g)
      <4> DEFINE x == [reg[g] EXCEPT !.display = "yes"]
      <4>1. /\ x \in RegRow /\ reg' = [reg EXCEPT ![g] = x] /\ x.state = "open"
            /\ x.name = reg[g].name /\ x.password = reg[g].password
            /\ x.session = reg[g].session
        BY <2>1, <3>2 DEF SetDisplayName, RegRow
      <4> QED
        BY <4>1
    <3> QED
      BY <1>4, <3>1, <3>2
  <2>3. UNCHANGED orphaned
    BY <1>4 DEF SetToken, SetDisplayName
  <2> QED
    BY <1>2, <2>1, <2>2, <2>3 DEF HasCredential
<1>5. ASSUME NEW g \in Regs, NEW b, NEW n, NEW e, RegisterPassword(g, b, n, e)
      PROVE  RegsMove
  <2> DEFINE x == [NoReg EXCEPT !.state = "open", !.name = n, !.browser = b, !.email = e,
                                !.password = "yes"]
  <2>1. x.password = "yes"
    BY DEF NoReg
  <2>2. reg' = [reg EXCEPT ![g] = x] /\ UNCHANGED orphaned /\ reg[g].state = "none"
    BY <1>5 DEF RegisterPassword
  <2> HIDE DEF x
  <2> QED
    BY <1>2, <2>1, <2>2 DEF HasCredential
<1>6. ASSUME NEW r \in Requests, NEW g \in Regs, NEW n, NEW e, NEW d,
             RegisterUpstream(r, g, n, e, d)
      PROVE  RegsMove
  <2> DEFINE x == [NoReg EXCEPT !.state = "open", !.name = n, !.browser = req[r].browser,
                                !.email = e, !.session = req[r].session, !.display = d]
  <2>1. x.session = req[r].session /\ req[r].session # 0
    BY <1>6, Constants DEF NoReg, RegisterUpstream, RequestsSound
  <2>2. reg' = [reg EXCEPT ![g] = x] /\ UNCHANGED orphaned /\ reg[g].state = "none"
    BY <1>6 DEF RegisterUpstream
  <2> HIDE DEF x
  <2> QED
    BY <1>2, <2>1, <2>2 DEF HasCredential
<1>7. ASSUME NEW l \in Links, Cleanup(l)
      PROVE  RegsMove
  <2> DEFINE Hit == {g \in Regs : reg[g].session \in Orphans(l)}
  <2>1. /\ orphaned' = orphaned \cup Hit
        /\ \A g \in Regs : reg'[g] = IF g \in Hit THEN [reg[g] EXCEPT !.session = 0] ELSE reg[g]
    BY <1>7 DEF Cleanup
  <2> HIDE DEF Hit
  <2>2. \A g \in Regs : /\ reg'[g].state = reg[g].state /\ reg'[g].name = reg[g].name
                        /\ g \in orphaned' \/ (reg'[g] = reg[g])
    <3>1. ASSUME NEW g \in Regs
          PROVE  /\ [reg[g] EXCEPT !.session = 0].state = reg[g].state
                 /\ [reg[g] EXCEPT !.session = 0].name = reg[g].name
      <4>1. reg[g] \in RegRow
        OBVIOUS
      <4> QED
        BY <4>1 DEF RegRow
    <3> QED
      BY <2>1, <3>1
  <2> QED
    BY <2>1, <2>2 DEF CredentialsInv, HasCredential
<1>8. ASSUME NEW r \in Requests, NEW i \in Logins, Write(r, i)
      PROVE  RegsMove
  <2> DEFINE g == doing[r]
             x == [reg[g] EXCEPT !.state = "done"]
  <2>1. g \in Regs /\ reg[g] \in RegRow
    BY <1>8 DEF Write, RequestsSound, Finishing
  <2>2. x.state = "done" /\ x.name = reg[g].name
    BY <2>1 DEF RegRow
  <2>3. reg' = [reg EXCEPT ![g] = x] /\ UNCHANGED orphaned
    BY <1>8, <2>1 DEF Write, RegRow
  <2> HIDE DEF g, x
  <2> QED
    BY <1>2, <2>1, <2>2, <2>3
<1>9. ASSUME UNCHANGED regVars
      PROVE  RegsMove
  BY <1>1, <1>9 DEF regVars
<1>10. ASSUME NEW r \in Requests,
              \/ Abandon(r) \/ \E g \in Regs : Finish(r, g)
              \/ CheckName(r) \/ CheckToken(r) \/ CheckEmail(r) \/ CheckUpstream(r)
       PROVE  RegsMove
  BY <1>1, <1>10 DEF Abandon, Finish, CheckName, CheckToken, CheckEmail, CheckUpstream, Check,
                     Keep, regVars
<1>11. ASSUME NEW v, SetRevoked(v)
       PROVE  RegsMove
  BY <1>1, <1>11 DEF SetRevoked
<1> QED
  BY <1>3, <1>4, <1>5, <1>6, <1>7, <1>8, <1>9, <1>10, <1>11 DEF Next

LEMMA CredentialsFramed ==
    ASSUME RowsInv, CredentialsInv, FinishFrame, RegsMove
    PROVE  CredentialsInv'
<1>1. ASSUME NEW r \in Requests, req'[r].step \in Finishing
      PROVE  (/\ HasCredential(snap[r], doing[r])
              /\ reg[doing[r]].state # "none" /\ reg[doing[r]].name = snap[r].name)'
  BY <1>1 DEF RegsMove, FinishFrame, CredentialsInv, HasCredential, RowsInv, RequestsSound
<1> QED
  BY <1>1 DEF CredentialsInv, RegsMove

LEMMA CredentialsStep ==
    ASSUME RowsInv, CredentialsInv, Next
    PROVE  CredentialsInv'
<1> USE DEF RowsInv, RowTypes, RequestRows
<1>1. RegsMove
  BY RegsMoves
<1>2. ASSUME NEW r \in Requests, req[r].step \in Finishing, snap'[r] = snap[r], doing'[r] = doing[r]
      PROVE  (/\ HasCredential(snap[r], doing[r])
              /\ reg[doing[r]].state # "none" /\ reg[doing[r]].name = snap[r].name)'
  BY <1>1, <1>2 DEF RegsMove, CredentialsInv, HasCredential, RequestsSound
<1>3. CASE FinishFrame
  BY <1>1, <1>3, CredentialsFramed
<1>4. ASSUME NEW r \in Requests, NEW g \in Regs, Finish(r, g)
      PROVE  CredentialsInv'
  <2>1. /\ snap'[r] = reg[g] /\ doing'[r] = g /\ reg[g].state = "open" /\ reg' = reg
        /\ orphaned' = orphaned
        /\ \A q \in Requests \ {r} : snap'[q] = snap[q] /\ doing'[q] = doing[q] /\ req'[q] = req[q]
    BY <1>4 DEF Finish
  <2>2. (/\ HasCredential(snap[r], doing[r])
         /\ reg[doing[r]].state # "none" /\ reg[doing[r]].name = snap[r].name)'
    BY <2>1 DEF CredentialsInv, HasCredential
  <2> QED
    BY <1>1, <1>2, <2>1, <2>2 DEF CredentialsInv, RegsMove
<1>5. ASSUME NEW r \in Requests,
             CheckName(r) \/ CheckToken(r) \/ CheckEmail(r) \/ CheckUpstream(r)
      PROVE  CredentialsInv'
  <2>1. /\ UNCHANGED <<snap, doing>> /\ req[r].step \in Finishing
        /\ \A q \in Requests \ {r} : req'[q] = req[q]
    BY <1>5 DEF CheckName, CheckToken, CheckEmail, CheckUpstream, Check, Keep, regVars,
                finishing, Finishing
  <2> QED
    BY <1>1, <1>2, <2>1 DEF CredentialsInv, RegsMove
<1>6. ASSUME NEW r \in Requests, NEW i \in Logins, Write(r, i)
      PROVE  CredentialsInv'
  <2>1. /\ req'[r].step = "idle"
        /\ \A q \in Requests \ {r} : snap'[q] = snap[q] /\ doing'[q] = doing[q] /\ req'[q] = req[q]
    BY <1>6 DEF Write, Answer, Done, Idle
  <2> QED
    BY <1>1, <1>2, <2>1 DEF CredentialsInv, RegsMove, Finishing
<1> QED
  BY <1>3, <1>4, <1>5, <1>6, FinishCases

SerialInv == UpstreamInv /\ NamesInv /\ CredentialsInv

LEMMA SerialStep ==
    ASSUME OneAtATime, RowsInv, SerialInv, Next
    PROVE  SerialInv'
  BY UpstreamStep, NamesStep, CredentialsStep DEF SerialInv

\* Requests about addresses and recoveries do not disturb the others.
LEMMA MoveSerial ==
    ASSUME RowsInv, SerialInv, AccountMove
    PROVE  SerialInv'
<1>1. UNCHANGED <<users, link, marks, linkOf, userSession, auth, config, reg, used, limit, doing,
                  snap, orphaned>>
  BY DEF AccountMove, rows, sessions, logins, token, finishing
<1>2. \A r \in Requests : req'[r] = req[r] \/ req'[r].step \in AccountSteps \cup {"idle"}
  BY DEF AccountMove, Idle
<1>3. UpstreamInv'
  BY <1>1, <1>2, UpstreamStays DEF SerialInv, AccountSteps
<1>4. FinishFrame
  BY <1>1, <1>2 DEF FinishFrame, AccountSteps, Finishing
<1>5. RegsMove
  BY <1>1 DEF RegsMove, SerialInv, CredentialsInv, HasCredential
<1> QED
  BY <1>3, <1>4, <1>5, NamesFramed, CredentialsFramed DEF SerialInv

LEMMA SerialStutter == RowsInv /\ SerialInv /\ UNCHANGED vars => SerialInv'
<1> SUFFICES ASSUME RowsInv, SerialInv, UNCHANGED vars PROVE SerialInv'
  OBVIOUS
<1> USE DEF vars, upstreamVars, regVars, sessions, logins, token, finishing
<1>1. UpstreamInv'
  BY UpstreamStays DEF SerialInv
<1>2. FinishFrame /\ RegsMove
  BY DEF FinishFrame, RegsMove, SerialInv, CredentialsInv, HasCredential
<1> QED
  BY <1>1, <1>2, NamesFramed, CredentialsFramed DEF SerialInv

LEMMA SerialInitial == Init => SerialInv
<1> SUFFICES ASSUME Init PROVE SerialInv
  OBVIOUS
<1> USE DEF Init, UpstreamInit
<1>1. UpstreamInv
  BY DEF UpstreamInv, AuthInv, ConsumedOnce, ChecksStand, Idle
<1>2. NamesStand /\ CredentialsInv
  BY DEF NamesStand, CredentialsInv, Idle, NoReg, Finishing
<1>3. LimitKept
  BY RegistrationAssumption DEF LimitKept, RegistrationAssumption
<1>4. SitesDistinct => NamesDistinct
  BY DEF SitesDistinct, NamesDistinct
<1> QED
  BY <1>1, <1>2, <1>3, <1>4 DEF SerialInv, NamesInv

\* With one request at a time, what a request has checked stands until it commits.
THEOREM SerialInvariant ==
    OneAtATime => (Spec => [](RowsInv /\ HeldInv /\ SerialInv)) /\ (AccountsSpec => [](AccountsInv /\ SerialInv))
<1> SUFFICES ASSUME OneAtATime
             PROVE  (Spec => [](RowsInv /\ HeldInv /\ SerialInv)) /\ (AccountsSpec => [](AccountsInv /\ SerialInv))
  OBVIOUS
<1>1. RowsInv /\ HeldInv /\ SerialInv /\ [Next]_vars => (RowsInv /\ HeldInv /\ SerialInv)'
  BY RowsStep, HeldStep, RowsStutter, HeldStutter, SerialStep, SerialStutter DEF HeldInv
<1>2. Spec => [](RowsInv /\ HeldInv /\ SerialInv)
  BY <1>1, RowsInitial, HeldInitial, SerialInitial, PTL DEF Spec
<1>3. AccountsInv /\ SerialInv /\ [AccountsNext]_allVars => (AccountsInv /\ SerialInv)'
  <2> SUFFICES ASSUME AccountsInv, SerialInv, [AccountsNext]_allVars PROVE SerialInv'
    BY AccountsStep
  <2>1. CASE UNCHANGED allVars
    BY <2>1, SerialStutter DEF allVars, AccountsInv
  <2>2. CASE Next
    BY <2>2, SerialStep DEF AccountsInv
  <2>3. CASE EmailStep \/ RecoveryStep
    BY <2>3, EmailMoves, RecoveryMoves, MoveSerial DEF AccountsInv
  <2> QED
    BY <2>1, <2>2, <2>3 DEF AccountsNext
<1>4. AccountsSpec => [](AccountsInv /\ SerialInv)
  <2>1. AccountsInit => AccountsInv /\ SerialInv
    BY AccountsInitial, SerialInitial DEF AccountsInit
  <2> QED
    BY <1>3, <2>1, PTL DEF AccountsSpec
<1> QED
  BY <1>2, <1>4

\* An upstream session authenticates at most once when requests come one at a time.
THEOREM SerialConsumption ==
    OneAtATime => (Spec => []ConsumedOnce) /\ (AccountsSpec => []ConsumedOnce)
<1>1. SerialInv => ConsumedOnce
  BY DEF SerialInv, UpstreamInv, AuthInv
<1> QED
  BY <1>1, SerialInvariant, PTL

\* With one request at a time, no two users have names that differ in case only, when no two
\* of those there from the start have.
THEOREM SerialNames ==
    OneAtATime /\ SitesDistinct => (Spec => []NamesDistinct) /\ (AccountsSpec => []NamesDistinct)
<1> SUFFICES ASSUME OneAtATime, SitesDistinct
             PROVE  (Spec => []NamesDistinct) /\ (AccountsSpec => []NamesDistinct)
  OBVIOUS
<1>1. SerialInv => NamesDistinct
  BY DEF SerialInv, NamesInv
<1> QED
  BY <1>1, SerialInvariant, PTL

\* With one request at a time, the registration token is not used beyond its limit.
THEOREM SerialLimit == OneAtATime => (Spec => []LimitKept) /\ (AccountsSpec => []LimitKept)
<1>1. SerialInv => LimitKept
  BY DEF SerialInv, NamesInv
<1> QED
  BY <1>1, SerialInvariant, PTL

\* With one request at a time, a back-channel logout for an upstream account ends every
\* browser session that a session of the account has authenticated.
THEOREM SerialLogout == OneAtATime => (Spec => LogoutReaches)
<1> SUFFICES ASSUME OneAtATime PROVE Spec => LogoutReaches
  OBVIOUS
<1>1. ASSUME RowsInv, SerialInv, NEW x \in Subjects, BackchannelLogout(SessionsOf(x)),
             NEW a \in auth, sub[a[2]] = x
      PROVE  a[1] \notin live'
  <2>1. a[2] \in Sessions /\ userSession[a[2]] = a[1]
    BY <1>1 DEF RowsInv, RowTypes, SessionRows, SerialInv, UpstreamInv, AuthInv
  <2>2. a[2] \in SessionsOf(x)
    BY <1>1, <2>1 DEF SessionsOf
  <2> QED
    BY <1>1, <2>1, <2>2 DEF BackchannelLogout
<1>2. RowsInv /\ SerialInv =>
         [\A x \in Subjects :
             BackchannelLogout(SessionsOf(x)) =>
                 \A a \in auth : sub[a[2]] = x => a[1] \notin live']_upstreamVars
  BY <1>1
<1> QED
  BY <1>2, SerialInvariant, PTL DEF LogoutReaches

-----------------------------------------------------------------------------
(* Links and credentials, whatever the requests in progress.               *)

\* What a step may do to the owner of a link.
OwnerStays ==
    \A l \in Links : link[l] \in Names => link'[l] \in {link[l], "gone"} \/ FoundFree(l)

LEMMA OwnerStep ==
    ASSUME RowsInv, HeldInv, Next
    PROVE  OwnerStays
<1> USE DEF RowsInv, RowTypes
<1>1. ASSUME UNCHANGED link
      PROVE  OwnerStays
  BY <1>1 DEF OwnerStays
<1>2. DOMAIN link = Links /\ DOMAIN req = Requests
  BY DEF UserRows, RequestRows
<1>3. ASSUME NEW l, NEW u, associate_to_user(l, u), FoundFree(l)
      PROVE  OwnerStays
  BY <1>2, <1>3 DEF associate_to_user, OwnerStays
<1>4. ASSUME NEW r \in Requests, req[r].owner = "free", req' = [req EXCEPT ![r] = Idle]
      PROVE  FoundFree(req[r].link)
  BY <1>2, <1>4 DEF FoundFree
<1>5. ASSUME NEW b \in Browsers, NEW i, NEW l \in Links, Callback(b, i, l)
      PROVE  OwnerStays
  BY <1>2, <1>5, Constants DEF Callback, LinkFor, LinkRows, OwnerStays
<1>6. ASSUME NEW r \in Requests, SubmitLink(r)
      PROVE  OwnerStays
  BY <1>3, <1>4, <1>6 DEF SubmitLink, Answer
<1>7. ASSUME NEW r \in Requests, NEW i, LogInExisting(r, i)
      PROVE  OwnerStays
  <2>1. FoundFree(req[r].link)
    BY <1>4, <1>7 DEF LogInExisting, Answer, HeldInv, LinksHeld
  <2>2. ASSUME NEW l \in Links
        PROVE  \/ link'[l] = "gone" \/ link'[l] = link[l] \/ l = req[r].link
    BY <1>7 DEF LogInExisting
  <2> QED
    BY <2>1, <2>2 DEF OwnerStays
<1>8. ASSUME NEW a \in Admins, AdminLink(a)
      PROVE  OwnerStays
  <2>1. CASE call[a].owner = "none"
    BY <1>2, <1>8, <2>1, Constants DEF AdminLink, OwnerStays
  <2>2. CASE call[a].owner # "none"
    <3>1. /\ associate_to_user(call[a].link, call[a].user) /\ call[a].owner = "free"
          /\ call'[a] = NoCall
      BY <1>8, <2>2 DEF AdminLink, HeldInv, CallsSound
    <3>2. FoundFree(call[a].link)
      BY <3>1 DEF FoundFree
    <3> QED
      BY <1>3, <3>1, <3>2
  <2> QED
    BY <2>1, <2>2
<1>9. ASSUME NEW l \in Links, Cleanup(l) \/ AdminRemove(l)
      PROVE  OwnerStays
  BY <1>2, <1>9 DEF Cleanup, CleanupLink, AdminRemove, OwnerStays
<1>10. ASSUME NEW r \in Requests, NEW i \in Logins, Write(r, i)
       PROVE  OwnerStays
  <2>1. req[r].step = "write" /\ Adopt(r, i) /\ req' = [req EXCEPT ![r] = Idle]
    BY <1>10 DEF Write, Answer
  <2>2. CASE snap[r].session = 0
    BY <1>1, <2>1, <2>2 DEF Adopt
  <2>3. CASE snap[r].session # 0
    <3>1. FoundFree(req[r].link)
      BY <1>4, <2>1, <2>3 DEF HeldInv, LinksHeld
    <3> QED
      BY <1>3, <2>1, <2>3, <3>1 DEF Adopt
  <2> QED
    BY <2>2, <2>3
<1>11. CASE UpstreamNext
  BY <1>1, <1>5, <1>6, <1>7, <1>8, <1>9, <1>11
  DEF UpstreamNext, Authorize, LinkPage, Renew, Resolve, LogIn, AdminFind, AdminDrop,
      BackchannelLogout
<1>12. ASSUME NEW g \in Regs,
             \/ VerifyEmail(g) \/ SetToken(g) \/ SetDisplayName(g)
             \/ \E n, e, b : RegisterPassword(g, b, n, e)
             \/ \E n, e, r, d : RegisterUpstream(r, g, n, e, d)
             \/ \E r : Finish(r, g)
       PROVE  OwnerStays
  BY <1>1, <1>12 DEF VerifyEmail, SetToken, SetDisplayName, RegisterPassword, RegisterUpstream,
                     Finish, upstreamVars
<1>13. ASSUME NEW r \in Requests,
             \/ Abandon(r) \/ CheckName(r) \/ CheckToken(r) \/ CheckEmail(r) \/ CheckUpstream(r)
       PROVE  OwnerStays
  BY <1>1, <1>13 DEF Abandon, Drop, CheckName, CheckToken, CheckEmail, CheckUpstream, Check, Keep
<1>14. ASSUME NEW b \in Browsers,
              Logout(b) \/ \E u \in passwords, i \in Logins : PasswordLogin(b, u, i)
       PROVE  OwnerStays
  BY <1>1, <1>14 DEF Logout, PasswordLogin
<1>15. ASSUME NEW v, SetRevoked(v)
       PROVE  OwnerStays
  BY <1>1, <1>15 DEF SetRevoked, upstreamVars
<1> QED
  BY <1>9, <1>10, <1>11, <1>12, <1>13, <1>14, <1>15 DEF Next

\* With any number of requests and calls of the admin API, an upstream account moves from one
\* user to another only by a request or a call that had found it free.
THEOREM IdentityKept == Spec => IdentityStays
<1>1. RowsInv /\ HeldInv /\ [Next]_vars => [OwnerStays]_upstreamVars
  BY OwnerStep DEF vars
<1>2. [OwnerStays]_upstreamVars =>
         [\A l \in Links : link[l] \in Names =>
             link'[l] \in {link[l], "gone"} \/ FoundFree(l)]_upstreamVars
  BY DEF OwnerStays
<1> QED
  BY <1>1, <1>2, RowsInvariant, PTL DEF Spec, IdentityStays

LEMMA CredentialsInvariant == Spec => [](RowsInv /\ HeldInv /\ CredentialsInv)
<1>1. CredentialsInv /\ RowsInv /\ UNCHANGED vars => CredentialsInv'
  BY CredentialsFramed
  DEF FinishFrame, RegsMove, CredentialsInv, HasCredential, vars, upstreamVars, regVars, token,
      finishing
<1>2. Init => CredentialsInv
  BY DEF Init, UpstreamInit, CredentialsInv, Idle, NoReg, Finishing
<1>3. RowsInv /\ CredentialsInv /\ [Next]_vars => CredentialsInv'
  BY <1>1, CredentialsStep
<1> QED
  BY <1>2, <1>3, RowsInvariant, PTL DEF Spec

\* With any number of requests and calls of the admin API, a user that finish.rs creates has a
\* password or an upstream account, unless the clean-up took the upstream session of its
\* registration or the link was removed after the check.
THEOREM CredentialsKept == Spec => Credentials
<1> DEFINE Given == \A u \in users' \ users :
                       \/ u \in passwords' \/ \E l \in Links : link'[l] = u
                       \/ \E g \in orphaned : reg[g].name = u
                       \/ \E r \in Requests : Unlinked(r, u)
<1>1. ASSUME RowsInv, HeldInv, CredentialsInv, Next
      PROVE  Given
  <2>1. CASE UNCHANGED users
    BY <2>1
  <2>2. ASSUME NEW r \in Requests, NEW i \in Logins, Write(r, i)
        PROVE  Given
    <3>1. /\ req[r].step = "write" /\ users' = users \cup {snap[r].name} /\ Adopt(r, i)
          /\ passwords' = IF snap[r].password = "yes" THEN passwords \cup {snap[r].name}
                          ELSE passwords
      BY <2>2 DEF Write, AddUser
    <3>2. /\ HasCredential(snap[r], doing[r]) /\ reg[doing[r]].name = snap[r].name
          /\ doing[r] \in Regs
      BY <1>1, <3>1 DEF CredentialsInv, Finishing, RowsInv, RequestsSound
    <3>3. CASE snap[r].password = "yes"
      BY <3>1, <3>3
    <3>4. CASE doing[r] \in orphaned
      BY <3>1, <3>2, <3>4
    <3>5. CASE snap[r].session # 0
      <4>1. /\ associate_to_user(req[r].link, snap[r].name)
            /\ req[r].link \in Links /\ link[req[r].link] # "none"
        BY <1>1, <3>1, <3>5 DEF Adopt, HeldInv, LinksHeld
      <4>2. CASE link[req[r].link] = "gone"
        BY <3>1, <4>1, <4>2 DEF Unlinked
      <4>3. CASE link[req[r].link] # "gone"
        <5>1. link'[req[r].link] = snap[r].name
          BY <1>1, <4>1, <4>3 DEF associate_to_user, LinkRows, RowsInv, RowTypes, UserRows
        <5> QED
          BY <3>1, <4>1, <5>1
      <4> QED
        BY <4>2, <4>3
    <3> QED
      BY <3>2, <3>3, <3>4, <3>5 DEF HasCredential
  <2>3. ASSUME NEW r \in Requests,
               \/ \E g \in Regs : Finish(r, g)
               \/ CheckName(r) \/ CheckToken(r) \/ CheckEmail(r) \/ CheckUpstream(r)
        PROVE  UNCHANGED users
    BY <2>3 DEF Finish, CheckName, CheckToken, CheckEmail, CheckUpstream, Check, Keep
  <2> QED
    BY <1>1, <2>1, <2>2, <2>3, FinishCases DEF FinishFrame
<1> HIDE DEF Given
<1>2. RowsInv /\ HeldInv /\ CredentialsInv /\ [Next]_vars => [Given]_vars
  BY <1>1
<1>3. [Given]_vars => [\A u \in users' \ users :
                          \/ u \in passwords' \/ \E l \in Links : link'[l] = u
                          \/ \E g \in orphaned : reg[g].name = u
                          \/ \E r \in Requests : Unlinked(r, u)]_vars
  BY DEF Given
<1> QED
  BY <1>2, <1>3, CredentialsInvariant, PTL DEF Spec, Credentials

-----------------------------------------------------------------------------
(* Addresses and recoveries, one request at a time.                        *)

\* Users who share an address: one of them was given it without a check.
Shared(u, v, e) == u = v \/ <<u, e>> \in forced \/ <<v, e>> \in forced

LEMMA SharedAddresses ==
    /\ EmailOnce <=> \A u, v \in users : \A e : e \in emails[u] /\ e \in emails[v] => Shared(u, v, e)
    /\ EmailOnce' <=> \A u, v \in users' : \A e :
                         e \in emails'[u] /\ e \in emails'[v] => Shared(u, v, e)'
<1>1. ASSUME NEW u, NEW v, NEW e
      PROVE  /\ Shared(u, v, e) <=> u = v \/ {<<u, e>>, <<v, e>>} \cap forced # {}
             /\ Shared(u, v, e)' <=> u = v \/ {<<u, e>>, <<v, e>>} \cap forced' # {}
  BY DEF Shared
<1> HIDE DEF Shared
<1>2. EmailOnce <=> \A u, v \in users : \A e : e \in emails[u] /\ e \in emails[v] => Shared(u, v, e)
  BY <1>1 DEF EmailOnce
<1>3. EmailOnce' <=> \A u, v \in users' : \A e :
                         e \in emails'[u] /\ e \in emails'[v] => Shared(u, v, e)'
  BY <1>1 DEF EmailOnce
<1> QED
  BY <1>2, <1>3

\* A user, old or new, is given an address nobody has unchecked, or is given it unchecked.
LEMMA GivenAddress ==
    ASSUME EmailOnce, NEW u, NEW e, OnlyForced(e) \/ <<u, e>> \in forced',
           users' \subseteq users \cup {u}, forced \subseteq forced',
           \A v \in users \ {u} : emails'[v] = emails[v],
           \A f \in emails'[u] : f = e \/ (u \in users /\ f \in emails[u])
    PROVE  EmailOnce'
<1>1. ASSUME NEW v \in users', NEW w \in users', NEW f, f \in emails'[v], f \in emails'[w]
      PROVE  Shared(v, w, f)'
  <2>1. CASE v = u /\ w = u
    BY <2>1 DEF Shared
  <2>2. CASE v = u /\ w # u
    <3>1. w \in users /\ f \in emails[w]
      BY <1>1, <2>2
    <3>2. CASE f = e
      BY <2>2, <3>1, <3>2 DEF OnlyForced, Shared
    <3>3. CASE u \in users /\ f \in emails[u]
      BY <2>2, <3>1, <3>3, SharedAddresses DEF Shared
    <3> QED
      BY <1>1, <2>2, <3>2, <3>3
  <2>3. CASE v # u /\ w = u
    <3>1. v \in users /\ f \in emails[v]
      BY <1>1, <2>3
    <3>2. CASE f = e
      BY <2>3, <3>1, <3>2 DEF OnlyForced, Shared
    <3>3. CASE u \in users /\ f \in emails[u]
      BY <2>3, <3>1, <3>3, SharedAddresses DEF Shared
    <3> QED
      BY <1>1, <2>3, <3>2, <3>3
  <2>4. CASE v # u /\ w # u
    BY <1>1, <2>4, SharedAddresses DEF Shared
  <2> QED
    BY <2>1, <2>2, <2>3, <2>4
<1> QED
  BY <1>1, SharedAddresses

\* The request is not about to give an address.
LEMMA NoAddressChecked ==
    ASSUME OneAtATime, NEW r \in Requests, EmailOnce',
           req'[r].step \notin {"unused", "address", "upstream", "write"}
    PROVE  AddressesStand'
  BY DEF OneAtATime, AddressesStand

\* The users, their addresses and what requests have checked stay.
LEMMA SameAddresses ==
    ASSUME AddressesStand, UNCHANGED <<users, emails, forced>>,
           \A r \in Requests :
              /\ req'[r].step = "unused" => /\ req[r].step = "unused" /\ req'[r].item = req[r].item
                                            /\ proof'[req[r].item].email = proof[req[r].item].email
              /\ req'[r].step = "address" => req[r].step = "address" /\ req'[r].item = req[r].item
              /\ req'[r].step \in {"upstream", "write"} =>
                    req[r].step \in {"upstream", "write"} /\ snap'[r] = snap[r]
    PROVE  AddressesStand'
<1>1. EmailOnce'
  BY DEF AddressesStand, EmailOnce
<1> QED
  BY <1>1 DEF AddressesStand, OnlyForced

LEMMA NextAddresses ==
    ASSUME OneAtATime, RowsInv, AddressesStand, Next, UNCHANGED accountVars
    PROVE  AddressesStand'
<1> USE DEF RowsInv, RowTypes, RequestRows
<1>1. UNCHANGED <<proof, forced>>
  BY DEF accountVars, accountHistory
<1>2. NextFrame
  BY NextFrames
<1>3. CASE FinishFrame /\ UNCHANGED accounts
  BY <1>1, <1>2, <1>3, SameAddresses DEF FinishFrame, NextFrame, accounts, AccountSteps, Finishing
<1>4. ASSUME NEW r \in Requests, NEW a, NEW b, NEW ok, Check(r, a, b, ok)
      PROVE  /\ UNCHANGED <<users, emails, snap>>
             /\ req[r].step = a /\ req'[r].step = b /\ ok
             /\ \A q \in Requests \ {r} : req'[q] = req[q]
  BY <1>4 DEF Check, regVars, accounts, finishing, Loaded
<1>5. EmailOnce /\ (UNCHANGED <<users, emails>> => EmailOnce')
  BY <1>1 DEF AddressesStand, EmailOnce
<1>6. ASSUME NEW r \in Requests, CheckName(r) \/ CheckToken(r)
      PROVE  AddressesStand'
  <2>1. UNCHANGED <<users, emails>> /\ req'[r].step \in {"token", "email"}
    BY <1>4, <1>6 DEF CheckName, CheckToken
  <2> QED
    BY <1>5, <2>1, NoAddressChecked
<1>7. ASSUME NEW r \in Requests, NEW g \in Regs, Finish(r, g)
      PROVE  AddressesStand'
  <2>1. UNCHANGED <<users, emails>> /\ req'[r].step = "name"
    BY <1>7 DEF Finish, accounts, Idle
  <2> QED
    BY <1>5, <2>1, NoAddressChecked
<1>8. ASSUME NEW r \in Requests, CheckEmail(r)
      PROVE  AddressesStand'
  <2>1. /\ UNCHANGED <<users, emails, snap>> /\ req'[r].step = "upstream"
        /\ snap[r].email # "none" => \A u \in users : snap[r].email \notin emails[u]
    BY <1>4, <1>8 DEF CheckEmail
  <2>2. OnlyForced(snap[r].email)
    BY <2>1, Constants DEF OnlyForced, UserRows
  <2> QED
    BY <1>1, <1>5, <2>1, <2>2 DEF AddressesStand, OneAtATime, OnlyForced
<1>9. ASSUME NEW r \in Requests, CheckUpstream(r)
      PROVE  AddressesStand'
  <2>1. /\ UNCHANGED <<users, emails, snap>> /\ req'[r].step = "write" /\ req[r].step = "upstream"
    BY <1>9, KeepRequest DEF regVars, accounts, finishing
  <2> QED
    BY <1>1, <2>1, SameAddresses DEF OneAtATime
<1>10. ASSUME NEW r \in Requests, NEW i \in Logins, Write(r, i)
       PROVE  AddressesStand'
  <2> DEFINE n == snap[r].name
             e == snap[r].email
  <2>1. /\ req[r].step = "write" /\ n \notin users /\ users' = users \cup {n}
        /\ emails' = [emails EXCEPT ![n] = {e} \ {"none"}]
    BY <1>10 DEF Write, AddUser
  <2>2. n \in Names /\ OnlyForced(e)
    BY <2>1 DEF RequestsSound, Finishing, AddressesStand
  <2> HIDE DEF n, e
  <2>3. emails'[n] \subseteq {e} /\ \A u \in users : emails'[u] = emails[u]
    BY <2>1, <2>2 DEF UserRows
  <2>4. EmailOnce'
    <3>1. \A f \in emails'[n] : f = e \/ (n \in users /\ f \in emails[n])
      BY <2>3
    <3>2. users' \subseteq users \cup {n} /\ forced \subseteq forced'
      BY <1>1, <2>1
    <3>3. \A u \in users \ {n} : emails'[u] = emails[u]
      BY <2>3
    <3> QED
      BY <1>5, <2>2, <3>1, <3>2, <3>3, GivenAddress
  <2>5. req'[r].step = "idle"
    BY <1>10 DEF Write, Answer, Idle
  <2> QED
    BY <2>4, <2>5, NoAddressChecked
<1> QED
  BY <1>3, <1>6, <1>7, <1>8, <1>9, <1>10, FinishCases

LEMMA OwnAddresses ==
    ASSUME OneAtATime, AccountsInv, AddressesStand, EmailStep \/ RecoveryStep
    PROVE  AddressesStand'
<1> USE DEF AccountsInv, RowsInv, RowTypes, RequestRows
<1>1. UNCHANGED <<users, owner, snap>>
  BY EmailMoves, RecoveryMoves DEF AccountMove, rows, logins, finishing
<1>2. EmailOnce /\ (UNCHANGED <<emails, forced>> => EmailOnce')
  BY <1>1 DEF AddressesStand, EmailOnce
<1>3. ASSUME UNCHANGED <<emails, forced, proof, req>>
      PROVE  AddressesStand'
  BY <1>1, <1>3, SameAddresses
<1>4. ASSUME NEW r \in Requests, UNCHANGED <<emails, forced>>,
             req'[r].step \notin {"unused", "address", "upstream", "write"}
      PROVE  AddressesStand'
  BY <1>2, <1>4, NoAddressChecked
<1>5. ASSUME NEW e, OnlyForced(e), NEW u \in users, NEW r \in Requests,
             emails' = [emails EXCEPT ![u] = @ \cup {e}], UNCHANGED forced,
             req' = [req EXCEPT ![r] = Idle]
      PROVE  AddressesStand'
  <2>1. /\ emails'[u] = emails[u] \cup {e}
        /\ \A v \in users \ {u} : emails'[v] = emails[v]
    BY <1>5 DEF UserRows
  <2>2. EmailOnce'
    <3>1. \A f \in emails'[u] : f = e \/ (u \in users /\ f \in emails[u])
      BY <2>1
    <3>2. users' \subseteq users \cup {u} /\ forced \subseteq forced'
      BY <1>1, <1>5
    <3> QED
      BY <1>2, <1>5, <2>1, <3>1, <3>2, GivenAddress
  <2>3. req'[r].step = "idle"
    BY <1>5 DEF Idle
  <2> QED
    BY <2>2, <2>3, NoAddressChecked
<1>6. ASSUME NEW a \in Auths, SendCode(a) \/ \E b \in Browsers : ResendCode(b, a)
      PROVE  AddressesStand'
  BY <1>3, <1>6 DEF SendCode, ResendCode, vars, upstreamVars, regVars, accounts, accountHistory
<1>7. ASSUME NEW a \in Auths,
             CleanupProof(a) \/ \E b \in Browsers, e \in Emails : StartEmail(b, a, e)
      PROVE  AddressesStand'
  <2>1. UNCHANGED <<req, emails, forced>>
    BY <1>7 DEF CleanupProof, StartEmail, vars, upstreamVars, regVars, accounts, accountHistory
  <2>2. ASSUME NEW k \in Auths, proof[k].state # "none"
        PROVE  proof'[k].email = proof[k].email
    <3>1. CASE k # a
      BY <1>7, <3>1 DEF CleanupProof, StartEmail, AccountRows
    <3>2. CASE k = a
      <4>1. proof' = [proof EXCEPT ![a].state = "gone"] /\ proof[a] \in ProofRow
        BY <1>7, <2>2, <3>2 DEF CleanupProof, StartEmail, AccountRows
      <4>2. proof'[a] = [proof[a] EXCEPT !.state = "gone"]
        BY <4>1 DEF AccountRows
      <4> QED
        BY <3>2, <4>1, <4>2 DEF ProofRow
    <3> QED
      BY <3>1, <3>2
  <2>3. ASSUME NEW r \in Requests, req[r].step = "unused"
        PROVE  proof'[req[r].item].email = proof[req[r].item].email
    BY <2>2, <2>3 DEF ItemsSound
  <2> QED
    BY <1>1, <2>1, <2>3, SameAddresses
<1>8. ASSUME NEW r \in Requests, NEW b \in Browsers, NEW a \in Auths, LoadProof(r, b, a)
      PROVE  AddressesStand'
  <2>1. req'[r].step = "complete" /\ UNCHANGED <<emails, forced>>
    BY <1>8 DEF LoadProof, accounts, accountVars, accountHistory, Idle
  <2> QED
    BY <1>4, <2>1
<1>9. ASSUME NEW r \in Requests, CountAddress(r)
      PROVE  AddressesStand'
  <2>1. /\ UNCHANGED <<emails, forced, proof>> /\ req'[r].item = req[r].item
        /\ \/ req'[r].step = "inUse"
           \/ req'[r].step = "unused" /\ Uses(proof[req[r].item].email) = {}
    BY <1>9 DEF CountAddress, accounts, accountVars, accountHistory, Loaded
  <2>2. CASE req'[r].step = "inUse"
    BY <1>4, <2>1, <2>2
  <2>3. CASE req'[r].step = "unused"
    <3>1. OnlyForced(proof[req[r].item].email)
      BY <2>1, <2>3 DEF OnlyForced, Uses
    <3> QED
      BY <1>1, <1>2, <2>1, <2>3, <3>1 DEF AddressesStand, OneAtATime, OnlyForced
  <2> QED
    BY <2>1, <2>2, <2>3
<1>10. ASSUME NEW r \in Requests, SaveProof(r)
       PROVE  AddressesStand'
  <2> DEFINE a == req[r].item
             u == owner[proof[a].login]
             e == proof[a].email
  <2>1. a \in Auths /\ proof[a].login \in Logins /\ owner[proof[a].login] # "none"
    BY <1>10 DEF SaveProof, ItemsSound, AccountRows
  <2>2. u \in users
    BY <2>1 DEF UserRows
  <2>3. CASE req[r].step = "inUse"
    <3>1. UNCHANGED <<emails, forced>> /\ req'[r].step = "idle"
      BY <1>10, <2>3 DEF SaveProof, Idle
    <3> QED
      BY <1>4, <3>1
  <2>4. CASE req[r].step = "unused"
    <3>1. /\ emails' = [emails EXCEPT ![u] = @ \cup {e}] /\ UNCHANGED forced
          /\ req' = [req EXCEPT ![r] = Idle] /\ OnlyForced(e)
      BY <1>10, <2>4 DEF SaveProof, AddressesStand
    <3> HIDE DEF u, e
    <3> QED
      BY <1>5, <2>2, <3>1
  <2> QED
    BY <1>10, <2>3, <2>4 DEF SaveProof
<1>11. ASSUME NEW r \in Requests, NEW u \in Names, NEW e \in Emails, AdminAddEmail(r, u, e)
       PROVE  AddressesStand'
  <2>1. /\ UNCHANGED <<emails, forced>> /\ req'[r].item = e /\ req'[r].step = "address"
        /\ Uses(e) = {}
    BY <1>11 DEF AdminAddEmail, accounts, accountVars, accountHistory, Idle
  <2>2. OnlyForced(e)
    BY <2>1 DEF OnlyForced, Uses
  <2> QED
    BY <1>1, <1>2, <2>1, <2>2 DEF AddressesStand, OneAtATime, OnlyForced
<1>12. ASSUME NEW r \in Requests, AdminSaveEmail(r)
       PROVE  AddressesStand'
  <2>1. /\ req[r].user \in users /\ OnlyForced(req[r].item)
        /\ emails' = [emails EXCEPT ![req[r].user] = @ \cup {req[r].item}] /\ UNCHANGED forced
        /\ req' = [req EXCEPT ![r] = Idle]
    BY <1>12 DEF AdminSaveEmail, RequestsSound, AddressesStand, accountVars, accountHistory
  <2> QED
    BY <1>5, <2>1
<1>13. ASSUME NEW u \in Names, NEW e \in Emails, Give(u, e)
       PROVE  AddressesStand'
  <2>1. /\ u \in users /\ emails'[u] = emails[u] \cup {e} /\ forced' = forced \cup {<<u, e>>}
        /\ \A v \in users \ {u} : emails'[v] = emails[v]
        /\ UNCHANGED <<req, proof>>
    BY <1>13 DEF Give, UserRows
  <2>2. EmailOnce'
    <3>1. \A f \in emails'[u] : f = e \/ (u \in users /\ f \in emails[u])
      BY <2>1
    <3>2. users' \subseteq users \cup {u} /\ forced \subseteq forced' /\ <<u, e>> \in forced'
      BY <1>1, <2>1
    <3> QED
      BY <1>2, <2>1, <3>1, <3>2, GivenAddress
  <2>3. ASSUME NEW f, OnlyForced(f) PROVE OnlyForced(f)'
    BY <1>1, <2>1, <2>3 DEF OnlyForced
  <2> QED
    BY <1>1, <2>1, <2>2, <2>3 DEF AddressesStand, OnlyForced
<1>14. ASSUME NEW u \in Names, NEW E, Remove(u, E)
       PROVE  AddressesStand'
  <2>1. /\ emails'[u] = emails[u] \ E /\ forced' = forced \ ({u} \X E)
        /\ \A v \in users \ {u} : emails'[v] = emails[v]
        /\ UNCHANGED <<req, proof>>
    BY <1>14 DEF Remove, UserRows
  <2>2. \A v \in users : \A f \in emails'[v] :
           f \in emails[v] /\ (<<v, f>> \in forced => <<v, f>> \in forced')
    BY <2>1
  <2>3. EmailOnce'
    BY <1>1, <1>2, <2>2, SharedAddresses DEF Shared
  <2>4. ASSUME NEW f, OnlyForced(f) PROVE OnlyForced(f)'
    BY <1>1, <2>2, <2>4 DEF OnlyForced
  <2> QED
    BY <1>1, <2>1, <2>3, <2>4 DEF AddressesStand, OnlyForced
<1>15. ASSUME NEW u \in Names, AddPassword(u)
       PROVE  AddressesStand'
  BY <1>3, <1>15 DEF AddPassword, accountVars, accountHistory
<1>16. CASE EmailStep
  BY <1>6, <1>7, <1>8, <1>9, <1>10, <1>11, <1>12, <1>13, <1>14, <1>15, <1>16
  DEF EmailStep, RemoveEmails, RemoveEmail, AdminRemoveEmail, AddEmail, CliAddEmail,
      SetPassword, AdminSetPassword, CliSetPassword
<1>17. CASE RecoveryStep
  <2>1. UNCHANGED <<emails, forced, proof>>
    BY <1>17
    DEF RecoveryStep, ResendRecovery, BeginLinks, SaveLinks, FailLinks, CleanupRecovery,
        StartRecovery, ResendLink, ExpireTicket, LoadTicket, Recover, vars, regVars, accounts,
        accountVars, accountHistory
  <2>2. ASSUME NEW r \in Requests, Recover(r) \/ \E t \in tickets : LoadTicket(r, t)
        PROVE  req'[r].step \in {"recover", "idle"}
    <3>1. CASE Recover(r)
      BY <3>1 DEF Recover, Idle
    <3>2. ASSUME NEW t \in tickets, LoadTicket(r, t)
          PROVE  req'[r].step = "recover"
      BY <3>2 DEF LoadTicket, Idle
    <3> QED
      BY <2>2, <3>1, <3>2
  <2>3. UNCHANGED req \/ \E r \in Requests : Recover(r) \/ \E t \in tickets : LoadTicket(r, t)
    BY <1>17
    DEF RecoveryStep, ResendRecovery, BeginLinks, SaveLinks, FailLinks, CleanupRecovery,
        StartRecovery, ResendLink, ExpireTicket, vars, upstreamVars
  <2> QED
    BY <1>3, <1>4, <2>1, <2>2, <2>3
<1> QED
  BY <1>16, <1>17

LEMMA NextRecoveries ==
    ASSUME RowsInv, RecoveryInv, NextFrame, UNCHANGED accountVars
    PROVE  RecoveryInv'
  BY DEF RecoveryInv, NextFrame, accountVars, accountHistory, AccountSteps

LEMMA OwnRecoveries ==
    ASSUME OneAtATime, AccountsInv, RecoveryInv, EmailStep \/ RecoveryStep
    PROVE  RecoveryInv'
<1> USE DEF AccountsInv, RowsInv, RowTypes, RequestRows
<1>1. CASE EmailStep
  <2>1. UNCHANGED <<recovery, reset>>
    BY <1>1
    DEF EmailStep, SendCode, CleanupProof, ResendCode, StartEmail, LoadProof, CountAddress,
        SaveProof, AdminSaveEmail, RemoveEmails, RemoveEmail, AdminRemoveEmail, Remove, AddEmail,
        CliAddEmail, Give, SetPassword, AdminSetPassword, CliSetPassword, AddPassword,
        AdminAddEmail, accountVars, accountHistory
  <2>2. ASSUME NEW r \in Requests, NEW k, \A q \in Requests \ {r} : req'[q] = req[q],
               req'[r].step = k, k # "recover"
        PROVE  RecoveryInv'
    BY <2>1, <2>2 DEF RecoveryInv
  <2>3. CASE UNCHANGED req
    BY <2>1, <2>3 DEF RecoveryInv
  <2>4. ASSUME NEW r \in Requests, CountAddress(r)
        PROVE  RecoveryInv'
    <3>1. /\ \A q \in Requests \ {r} : req'[q] = req[q]
          /\ req'[r].step \in {"inUse", "unused"}
      BY <2>4 DEF CountAddress, Loaded
    <3> QED
      BY <2>2, <3>1
  <2>5. ASSUME NEW r \in Requests, SaveProof(r) \/ AdminSaveEmail(r)
        PROVE  RecoveryInv'
    <3>1. /\ \A q \in Requests \ {r} : req'[q] = req[q]
          /\ req'[r].step = "idle"
      BY <2>5 DEF SaveProof, AdminSaveEmail, Idle
    <3> QED
      BY <2>2, <3>1
  <2>6. ASSUME NEW r \in Requests, NEW b \in Browsers, NEW a \in Auths, LoadProof(r, b, a)
        PROVE  RecoveryInv'
    <3>1. /\ \A q \in Requests \ {r} : req'[q] = req[q]
          /\ req'[r].step = "complete"
      BY <2>6 DEF LoadProof, Idle
    <3> QED
      BY <2>2, <3>1
  <2>7. ASSUME NEW r \in Requests, NEW u \in Names, NEW e \in Emails, AdminAddEmail(r, u, e)
        PROVE  RecoveryInv'
    <3>1. /\ \A q \in Requests \ {r} : req'[q] = req[q]
          /\ req'[r].step = "address"
      BY <2>7 DEF AdminAddEmail, Idle
    <3> QED
      BY <2>2, <3>1
  <2> QED
    BY <1>1, <2>3, <2>4, <2>5, <2>6, <2>7
    DEF EmailStep, SendCode, CleanupProof, ResendCode, StartEmail,
        RemoveEmails, RemoveEmail, AdminRemoveEmail, Remove, AddEmail,
        CliAddEmail, Give, SetPassword, AdminSetPassword, CliSetPassword, AddPassword,
        vars, upstreamVars
<1>2. ASSUME UNCHANGED <<req, recovery, reset>>
      PROVE  RecoveryInv'
  BY <1>2 DEF RecoveryInv
<1>3. ASSUME NEW s \in Recoveries,
             ResendRecovery(s) \/ BeginLinks(s) \/ SaveLinks(s) \/ FailLinks(s)
      PROVE  RecoveryInv'
  BY <1>2, <1>3 DEF ResendRecovery, BeginLinks, SaveLinks, FailLinks, vars, upstreamVars,
                    accountHistory
<1>4. ASSUME NEW t \in tickets, ResendLink(t) \/ ExpireTicket(t)
      PROVE  RecoveryInv'
  BY <1>2, <1>4 DEF ResendLink, ExpireTicket, vars, upstreamVars, accountHistory
<1>5. ASSUME NEW s \in Recoveries,
             CleanupRecovery(s) \/ \E e \in Emails : StartRecovery(s, e)
      PROVE  RecoveryInv'
  <2>1. UNCHANGED <<req, reset>>
    BY <1>5 DEF CleanupRecovery, StartRecovery, vars, upstreamVars, accountHistory
  <2>2. /\ \/ recovery'[s].state = "gone"
           \/ recovery[s].state = "none" /\ recovery'[s].state = "open"
        /\ \A k \in Recoveries \ {s} : recovery'[k] = recovery[k]
    <3>1. CASE CleanupRecovery(s)
      <4>1. recovery[s] \in RecoveryRow
        BY DEF AccountRows
      <4>2. recovery'[s] = [recovery[s] EXCEPT !.state = "gone"]
        BY <3>1 DEF CleanupRecovery, AccountRows
      <4>3. recovery'[s].state = "gone"
        BY <4>1, <4>2 DEF RecoveryRow
      <4>4. \A k \in Recoveries \ {s} : recovery'[k] = recovery[k]
        BY <3>1 DEF CleanupRecovery, AccountRows
      <4> QED
        BY <4>3, <4>4
    <3>2. CASE \E e \in Emails : StartRecovery(s, e)
      BY <3>2 DEF StartRecovery, AccountRows
    <3> QED
      BY <1>5, <3>1, <3>2
  <2> QED
    BY <2>1, <2>2 DEF RecoveryInv, ItemsSound
<1>6. ASSUME NEW t \in tickets, NEW r \in Requests, LoadTicket(r, t)
      PROVE  RecoveryInv'
  <2>1. /\ UNCHANGED <<recovery, reset>> /\ req'[r].item = t[1] /\ recovery[t[1]].state = "open"
        /\ \A q \in Requests \ {r} : req'[q] = req[q]
    BY <1>6 DEF LoadTicket, OpenSession, accountVars, accountHistory, Idle
  <2> QED
    BY <2>1 DEF RecoveryInv
<1>7. ASSUME NEW r \in Requests, Recover(r)
      PROVE  RecoveryInv'
  <2> DEFINE s == req[r].item
             u == req[r].user
  <2>1. s \in Recoveries /\ recovery[s].state = "open" /\ reset[s] = <<>> /\ u \in Names
    BY <1>7 DEF Recover, ItemsSound, RecoveryInv, RequestsSound, UserRows
  <2>2. /\ recovery' = [recovery EXCEPT ![s].state = "consumed"]
        /\ reset' = [reset EXCEPT ![s] = Append(@, u)]
        /\ req' = [req EXCEPT ![r] = Idle]
    BY <1>7 DEF Recover
  <2> HIDE DEF s, u
  <2>3. /\ recovery'[s].state = "consumed" /\ reset'[s] = <<u>>
        /\ \A k \in Recoveries \ {s} : recovery'[k] = recovery[k] /\ reset'[k] = reset[k]
    BY <2>1, <2>2 DEF AccountRows, RecoveryRow
  <2>4. req'[r].step = "idle"
    BY <2>2 DEF Idle
  <2>5. \A q \in Requests : req'[q].step # "recover"
    BY <2>4 DEF OneAtATime
  <2>6. Len(reset'[s]) = 1
    BY <2>3
  <2>7. ASSUME NEW k \in Recoveries
        PROVE  /\ Len(reset'[k]) <= 1
               /\ recovery'[k].state \in {"none", "open"} => reset'[k] = <<>>
    <3>1. CASE k = s
      <4>1. recovery'[k].state = "consumed"
        BY <2>3, <3>1
      <4>2. Len(reset'[k]) = 1
        BY <2>6, <3>1
      <4> QED
        BY <4>1, <4>2
    <3>2. CASE k # s
      BY <2>3, <3>2 DEF RecoveryInv
    <3> QED
      BY <3>1, <3>2
  <2> QED
    BY <2>5, <2>7 DEF RecoveryInv
<1> QED
  BY <1>1, <1>3, <1>4, <1>5, <1>6, <1>7 DEF RecoveryStep

\* What the requests about addresses and recoveries have read stands until they commit.
OwnSerial == AddressesStand /\ RecoveryInv

LEMMA OwnSerialStep ==
    ASSUME OneAtATime, AccountsInv, OwnSerial, [AccountsNext]_allVars
    PROVE  OwnSerial'
<1>1. CASE UNCHANGED allVars
  <2>1. UNCHANGED <<users, emails, req, snap, forced, proof, recovery, reset>>
    BY <1>1 DEF allVars, vars, upstreamVars, regVars, accounts, finishing, accountVars, accountHistory
  <2>2. AddressesStand'
    BY <2>1, SameAddresses DEF OwnSerial
  <2> QED
    BY <2>1, <2>2 DEF OwnSerial, RecoveryInv
<1>2. CASE Next /\ UNCHANGED accountVars
  BY <1>2, NextAddresses, NextRecoveries, NextFrames DEF OwnSerial, AccountsInv
<1>3. CASE EmailStep \/ RecoveryStep
  BY <1>3, OwnAddresses, OwnRecoveries DEF OwnSerial
<1> QED
  BY <1>1, <1>2, <1>3 DEF AccountsNext

LEMMA OwnSerialInitial == AccountsInit => OwnSerial
<1> SUFFICES ASSUME AccountsInit PROVE OwnSerial
  OBVIOUS
<1>1. /\ \A r \in Requests : req[r].step = "idle"
      /\ \A u \in Names : emails[u] = {}
      /\ users \subseteq Names
  <2>1. RowsInv
    BY RowsInitial DEF AccountsInit
  <2> QED
    BY <2>1 DEF AccountsInit, Init, UpstreamInit, Idle, RowsInv, RowTypes, UserRows
<1>2. AddressesStand
  BY <1>1 DEF AddressesStand, EmailOnce
<1>3. \A s \in Recoveries : reset[s] = <<>> /\ Len(reset[s]) = 0
  BY DEF AccountsInit
<1>4. RecoveryInv
  BY <1>1, <1>3 DEF RecoveryInv
<1> QED
  BY <1>2, <1>4 DEF OwnSerial

LEMMA OwnSerialInvariant == OneAtATime => (AccountsSpec => []OwnSerial)
<1> SUFFICES ASSUME OneAtATime PROVE AccountsSpec => []OwnSerial
  OBVIOUS
<1>1. AccountsInv /\ OwnSerial /\ [AccountsNext]_allVars => OwnSerial'
  BY OwnSerialStep
<1> QED
  BY <1>1, OwnSerialInitial, RowsInvariant, PTL DEF AccountsSpec

\* With one request at a time, nobody is given an address another user has, by finish.rs,
\* complete_email_authentication or the admin API: "Check the email is not already in use by
\* anyone" stands until the address is saved, because no other request comes between.
THEOREM SerialAddresses == OneAtATime => (AccountsSpec => []EmailOnce)
<1>1. OwnSerial => EmailOnce
  BY DEF OwnSerial, AddressesStand
<1> QED
  BY <1>1, OwnSerialInvariant, PTL

\* With one request at a time, a recovery session sets one password, of somebody a link was
\* sent for: set_password_by_recovery refuses the ticket of a session that is consumed, and no
\* other request consumes it before the password is saved.
THEOREM SerialRecovery == OneAtATime => (AccountsSpec => []RecoveredOnce)
<1>1. AccountsInv /\ OwnSerial => RecoveredOnce
  BY DEF OwnSerial, RecoveryInv, AccountsInv, SentInv, RecoveredOnce
<1> QED
  BY <1>1, OwnSerialInvariant, RowsInvariant, PTL
=============================================================================
