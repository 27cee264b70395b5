---------------------------- MODULE UpstreamLogin ----------------------------
(***************************************************************************)
(* Login through an upstream provider (crates/handlers/src/upstream_oauth2 *)
(* and crates/storage-pg/src/upstream_oauth2): a browser starts an         *)
(* authorization session, the callback completes it with the link of the   *)
(* upstream account, and the link page consumes it to log a user in.       *)
(* The provider logs its sessions out by a back-channel request.           *)
(*                                                                         *)
(* There is one provider.  A request to the link page and a call of the    *)
(* admin API load rows, check them, and commit: other requests and calls   *)
(* come in between.  The other handlers are one step: they end in a single *)
(* write.  The callback talks to the provider between its read of the      *)
(* session and its writes; the UPDATE of the session is by id, and a       *)
(* second callback with the same code is refused by the provider.          *)
(***************************************************************************)
EXTENDS Naturals, Sequences, FiniteSets

CONSTANTS
    Browsers,
    MaxSessions,   \* bound: upstream sessions, numbered in the order of their ids
    MaxLogins,     \* bound: browser sessions
    Links,         \* rows of the links; an id is never used again
    SubjectOf,     \* the upstream account of each link
    Names,         \* user names; a user is known by its name
    Fold,          \* LOWER(username)
    NameOf,        \* the user name the provider claims for each upstream account
    OnConflict,    \* provider.claims_imports.localpart.on_conflict, or "suggest"
    Old,           \* links without a user, from more than seven days ago
    Requests,      \* slots for requests in progress
    Admins         \* slots for calls of the admin API that add a link

Sessions == 1..MaxSessions
Logins == 1..MaxLogins
Subjects == {SubjectOf[l] : l \in Links}

ASSUME UpstreamAssumption ==
    /\ MaxSessions \in Nat /\ MaxLogins \in Nat
    /\ Old \subseteq Links
    /\ {"none", "free", "gone"} \cap (Names \cup Links) = {}
    /\ \A l \in Links : NameOf[SubjectOf[l]] \in Names
    /\ \A l, k \in Old : SubjectOf[l] = SubjectOf[k] => l = k
    /\ OnConflict \in {"fail", "add", "replace", "set", "suggest"}

VARIABLES
    users,          \* names of the users
    link,           \* each link row: none, gone, free or the user it belongs to
    marks,          \* each upstream session: added, completed, consumed, unlinked
    linkOf,         \* its link
    sub,            \* the "sub" claim of its ID token
    userSession,    \* the browser session that consumed it, 0 for NULL
    started,        \* how many upstream sessions were started
    owner,          \* the user of each browser session, "none" for no row
    live,           \* browser sessions that are not finished
    auth,           \* authentications: a browser session and an upstream session
    jar, at,        \* each browser's cookies: upstream sessions, browser session
    req,            \* what each request has loaded
    call            \* what each call of the admin API has loaded

sessions == <<marks, linkOf, sub, userSession, started>>
logins == <<owner, live, auth>>
cookies == <<jar, at>>
upstreamVars == <<users, link, sessions, logins, cookies, req, call>>

-----------------------------------------------------------------------------
Idle == [step |-> "idle", browser |-> "none", link |-> "none", session |-> 0,
         login |-> 0, owner |-> "none", user |-> "none", jar |-> <<>>, item |-> "none"]
NoCall == [link |-> "none", user |-> "none", owner |-> "none"]

UpstreamInit ==
    /\ link = [l \in Links |-> IF l \in Old THEN "free" ELSE "none"]
    /\ marks = [s \in Sessions |-> {}]
    /\ linkOf = [s \in Sessions |-> "none"]
    /\ sub = [s \in Sessions |-> "none"]
    /\ userSession = [s \in Sessions |-> 0]
    /\ started = 0
    /\ owner = [i \in Logins |-> "none"]
    /\ live = {} /\ auth = {}
    /\ jar = [b \in Browsers |-> <<>>]
    /\ at = [b \in Browsers |-> 0]
    /\ req = [r \in Requests |-> Idle]
    /\ call = [a \in Admins |-> NoCall]

\* Rows of the link table.
LinkRows == {l \in Links : link[l] \notin {"none", "gone"}}

\* TryFrom<SessionLookup>: which sessions can be loaded.
Readable(s) ==
    \/ linkOf[s] = "none" /\ marks[s] = {"added"}
    \/ linkOf[s] # "none" /\ marks[s] = {"added", "completed"}
    \/ linkOf[s] # "none" /\ marks[s] = {"added", "completed", "consumed"}
    \/ {"added", "completed", "unlinked"} \subseteq marks[s]

\* UserRepository::exists.
Exists(n) == \E u \in users : Fold[u] = Fold[n]

\* UserRepository::find_by_username: the one that matches whatever the case, else
\* the exact one.
Found(n) ==
    LET Same == {u \in users : Fold[u] = Fold[n]}
    IN IF Cardinality(Same) > 1 THEN Same \cap {n} ELSE Same

\* The browser session of b, 0 when it has none or it is finished (load_active_session).
ActiveLogin(b) == IF at[b] \in live THEN at[b] ELSE 0

-----------------------------------------------------------------------------
(* The cookie with the upstream sessions of a browser.                      *)

\* The sessions that the cookie j holds for the link l.
Held(j, l) == {j[i][1] : i \in {k \in DOMAIN j : j[k][2] = l}}

\* lookup_link: the most recent one.
Latest(j, l) == CHOOSE s \in Held(j, l) : \A t \in Held(j, l) : t <= s

\* consume_link: the first entry for the link is removed.
consume_link(j, l) ==
    LET At == {i \in DOMAIN j : j[i][2] = l}
        pos == CHOOSE i \in At : \A k \in At : i <= k
    IN IF At = {} THEN j
       ELSE SubSeq(j, 1, pos - 1) \o SubSeq(j, pos + 1, Len(j))

-----------------------------------------------------------------------------
(* From the start of a login to the link page.                             *)

\* authorize.rs get: a new session, and its entry in the cookie.
Authorize(b) ==
    /\ started < MaxSessions
    /\ started' = started + 1
    /\ marks' = [marks EXCEPT ![started + 1] = {"added"}]
    /\ jar' = [jar EXCEPT ![b] = Append(jar[b], <<started + 1, "none">>)]
    /\ UNCHANGED <<users, call, link, linkOf, sub, userSession, logins, at, req>>

\* The link that find_by_subject returns, or the row that add inserts.
LinkFor(x, l) ==
    /\ SubjectOf[l] = x
    /\ \/ l \in LinkRows
       \/ link[l] = "none" /\ \A k \in LinkRows : SubjectOf[k] # x

\* callback.rs handler: the provider vouches for the account of the link l.
Callback(b, i, l) ==
    LET s == jar[b][i][1] IN
    /\ i \in DOMAIN jar[b] /\ jar[b][i][2] = "none"
    /\ Readable(s) /\ marks[s] = {"added"}
    /\ LinkFor(SubjectOf[l], l)
    /\ link' = IF l \in LinkRows THEN link ELSE [link EXCEPT ![l] = "free"]
    /\ marks' = [marks EXCEPT ![s] = @ \cup {"completed"}]
    /\ linkOf' = [linkOf EXCEPT ![s] = l]
    /\ sub' = [sub EXCEPT ![s] = SubjectOf[l]]
    /\ jar' = [jar EXCEPT ![b][i] = <<s, l>>]
    /\ UNCHANGED <<users, call, userSession, started, logins, at, req>>

\* Mutant of Usable: a session may be used again.
Usable_Again(s, l) == Readable(s) /\ linkOf[s] = l

\* The session is found, belongs to the link and is not consumed.
Usable(s, l) == Readable(s) /\ linkOf[s] = l /\ "consumed" \notin marks[s]

\* link.rs get and post, up to the match: the cookie, the link, the session and the
\* browser session are loaded and checked.
LinkPage(r, b, l) ==
    LET s == Latest(jar[b], l) IN
    /\ req[r].step = "idle"
    /\ Held(jar[b], l) # {}
    /\ l \in LinkRows
    /\ Usable(s, l)
    /\ req' = [req EXCEPT ![r] =
           [Idle EXCEPT !.step = "loaded", !.browser = b, !.link = l, !.session = s,
                        !.login = ActiveLogin(b), !.owner = link[l], !.jar = jar[b]]]
    /\ UNCHANGED <<users, call, link, sessions, logins, cookies>>

\* The request ends without a commit: a page, an error, an account that is locked.
Drop(r) ==
    /\ req[r].step # "idle"
    /\ req' = [req EXCEPT ![r] = Idle]
    /\ UNCHANGED <<users, call, link, sessions, logins, cookies>>

-----------------------------------------------------------------------------
(* What the link page commits.                                             *)

\* BrowserSessionRepository::add gives the next browser session to the user u.
NewLogin(i, u) ==
    /\ owner[i] = "none" /\ \A k \in Logins : owner[k] = "none" => i <= k
    /\ owner' = [owner EXCEPT ![i] = u]
    /\ live' = live \cup {i}

\* Mutant of consume: the browser session is not recorded.
consume_Unrecorded(s, i) ==
    /\ "added" \in marks[s]
    /\ marks' = [marks EXCEPT ![s] = @ \cup {"consumed"}]
    /\ auth' = auth \cup {<<i, s>>}
    /\ UNCHANGED <<linkOf, sub, userSession, started>>

\* UpstreamOAuthSessionRepository::consume, then authenticate_with_upstream, which
\* refers to the session and fails when it was deleted.
consume(s, i) ==
    /\ "added" \in marks[s]
    /\ marks' = [marks EXCEPT ![s] = @ \cup {"consumed"}]
    /\ userSession' = [userSession EXCEPT ![s] = i]
    /\ auth' = auth \cup {<<i, s>>}
    /\ UNCHANGED <<linkOf, sub, started>>

\* associate_to_user: an UPDATE by id, without a look at the rows it hit.
associate_to_user(l, u) ==
    link' = IF l \in LinkRows THEN [link EXCEPT ![l] = u] ELSE link

\* The answer: the request is over and the browser has its new cookies.
Answer(r, j, i) ==
    /\ jar' = [jar EXCEPT ![req[r].browser] = j]
    /\ at' = [at EXCEPT ![req[r].browser] = i]
    /\ req' = [req EXCEPT ![r] = Idle]

\* The link belongs to the user of the browser session: the authentication is renewed.
Renew(r) ==
    /\ req[r].step = "loaded" /\ req[r].login # 0
    /\ req[r].owner = owner[req[r].login]
    /\ consume(req[r].session, req[r].login)
    /\ Answer(r, jar[req[r].browser], req[r].login)
    /\ UNCHANGED <<users, call, link, owner, live>>

\* The link belongs to a user and nobody is logged in: that user is.
LogIn(r, i) ==
    /\ req[r].step = "loaded" /\ req[r].login = 0 /\ req[r].owner \in Names
    /\ NewLogin(i, req[r].owner)
    /\ consume(req[r].session, i)
    /\ Answer(r, consume_link(req[r].jar, req[r].link), i)
    /\ UNCHANGED <<users, call, link>>

\* Somebody is logged in and the link is free: the form links it (post, Link).
SubmitLink(r) ==
    /\ req[r].step = "loaded" /\ req[r].login # 0 /\ req[r].owner = "free"
    /\ associate_to_user(req[r].link, owner[req[r].login])
    /\ consume(req[r].session, req[r].login)
    /\ Answer(r, consume_link(req[r].jar, req[r].link), req[r].login)
    /\ UNCHANGED <<users, call, owner, live>>

\* The links of the user u.
LinksOf(u) == {l \in LinkRows : link[l] = u}

\* Nobody is logged in, the link is free and the provider claims the name of a user:
\* the conflict is resolved.
Resolve(r) ==
    /\ req[r].step = "loaded" /\ req[r].login = 0 /\ req[r].owner = "free"
    /\ OnConflict \in {"add", "replace", "set"}
    /\ \E u \in Found(NameOf[SubjectOf[req[r].link]]) :
          /\ OnConflict = "set" => LinksOf(u) = {}
          /\ req' = [req EXCEPT ![r].step = "resolved", ![r].user = u]
    /\ UNCHANGED <<users, call, link, sessions, logins, cookies>>

\* Mutant of Unlink: the sessions are not marked.
Unlink_Silent(L) == marks

\* UpstreamOAuthLinkRepository::remove, for every link of L: the marks of the sessions.
Unlink(L) == [s \in Sessions |-> IF linkOf[s] \in L THEN marks[s] \cup {"unlinked"} ELSE marks[s]]

\* The links of the sessions once the links of L are removed.
Without(L) == [s \in Sessions |-> IF linkOf[s] \in L THEN "none" ELSE linkOf[s]]

\* The link goes to that user, who is logged in; "replace" removes the other links.
LogInExisting(r, i) ==
    LET u == req[r].user   s == req[r].session
        L == IF OnConflict = "replace" THEN LinksOf(u) ELSE {}
    IN
    /\ req[r].step = "resolved"
    /\ "added" \in marks[s]
    /\ link' = [l \in Links |-> IF l \in L THEN "gone"
                                ELSE IF l = req[r].link /\ l \in LinkRows THEN u ELSE link[l]]
    /\ marks' = [Unlink(L) EXCEPT ![s] = @ \cup {"consumed"}]
    /\ linkOf' = Without(L)
    /\ userSession' = [userSession EXCEPT ![s] = i]
    /\ auth' = auth \cup {<<i, s>>}
    /\ NewLogin(i, u)
    /\ Answer(r, consume_link(req[r].jar, req[r].link), i)
    /\ UNCHANGED <<users, call, sub, started>>

-----------------------------------------------------------------------------
(* Other ways in and out of a browser session.                             *)

\* views/login.rs: the user u logs in with a password.
PasswordLogin(b, u, i) ==
    /\ u \in users
    /\ NewLogin(i, u)
    /\ at' = [at EXCEPT ![b] = i]
    /\ UNCHANGED <<users, call, link, sessions, auth, jar, req>>

\* views/logout.rs.
Logout(b) ==
    /\ at[b] # 0
    /\ live' = live \ {at[b]}
    /\ at' = [at EXCEPT ![b] = 0]
    /\ UNCHANGED <<users, call, link, sessions, owner, auth, jar, req>>

\* The sessions whose ID token names the upstream account x.
SessionsOf(x) == {s \in Sessions : sub[s] = x}

\* backchannel_logout.rs post, for a provider set to end browser sessions: S are the
\* sessions with the "sub" or the "sid" of the logout token.
BackchannelLogout(S) ==
    /\ S # {}
    /\ live' = live \ {userSession[s] : s \in S}
    /\ UNCHANGED <<users, call, link, sessions, owner, auth, cookies, req>>

-----------------------------------------------------------------------------
(* The admin API, and the clean-up.                                        *)

\* Mutant of AdminFind: a link that belongs to a user is taken over.
AdminFind_Any(a, u, l) ==
    /\ call[a] = NoCall /\ u \in users
    /\ LinkFor(SubjectOf[l], l)
    /\ call' = [call EXCEPT ![a] = [link |-> l, user |-> u, owner |-> link[l]]]
    /\ UNCHANGED <<users, link, sessions, logins, cookies, req>>

\* upstream_oauth_links/add.rs: the link of the account, which must not have a user.
AdminFind(a, u, l) ==
    /\ call[a] = NoCall /\ u \in users
    /\ LinkFor(SubjectOf[l], l) /\ link[l] \in {"none", "free"}
    /\ call' = [call EXCEPT ![a] = [link |-> l, user |-> u, owner |-> link[l]]]
    /\ UNCHANGED <<users, link, sessions, logins, cookies, req>>

\* ... goes to the user; a new row must not clash with another one of the account.
AdminLink(a) ==
    LET l == call[a].link IN
    /\ call[a] # NoCall
    /\ IF call[a].owner = "none"
       THEN /\ LinkFor(SubjectOf[l], l) /\ link[l] = "none"
            /\ link' = [link EXCEPT ![l] = call[a].user]
       ELSE associate_to_user(l, call[a].user)
    /\ call' = [call EXCEPT ![a] = NoCall]
    /\ UNCHANGED <<users, sessions, logins, cookies, req>>

\* ... or the call fails.
AdminDrop(a) ==
    /\ call[a] # NoCall
    /\ call' = [call EXCEPT ![a] = NoCall]
    /\ UNCHANGED <<users, link, sessions, logins, cookies, req>>

\* upstream_oauth_links/delete.rs, whatever requests have loaded the link.
AdminRemove(l) ==
    /\ l \in LinkRows
    /\ link' = [link EXCEPT ![l] = "gone"]
    /\ marks' = Unlink({l})
    /\ linkOf' = Without({l})
    /\ UNCHANGED <<users, call, sub, userSession, started, logins, cookies, req>>

\* The sessions that go with the link l (cleanup_orphaned deletes both).
Orphans(l) == {s \in Sessions : linkOf[s] = l}

\* CleanupUpstreamOAuthLinksJob: an old link without a user, and its sessions of any age.
CleanupLink(l) ==
    /\ l \in Old /\ link[l] = "free"
    /\ link' = [link EXCEPT ![l] = "gone"]
    /\ marks' = [s \in Sessions |-> IF s \in Orphans(l) THEN {} ELSE marks[s]]
    /\ linkOf' = Without({l})
    /\ sub' = [s \in Sessions |-> IF s \in Orphans(l) THEN "none" ELSE sub[s]]
    /\ UNCHANGED <<users, call, userSession, started, logins, cookies, req>>

\* The steps of a login through the provider; Drop, CleanupLink, PasswordLogin and Logout
\* are steps of Registration too.
UpstreamNext ==
    \/ \E b \in Browsers :
          \/ Authorize(b)
          \/ \E i \in 1..MaxSessions, l \in Links : Callback(b, i, l)
    \/ \E r \in Requests :
          \/ \E b \in Browsers, l \in Links : LinkPage(r, b, l)
          \/ Renew(r) \/ SubmitLink(r) \/ Resolve(r)
          \/ \E i \in Logins : LogIn(r, i) \/ LogInExisting(r, i)
    \/ \E a \in Admins :
          \/ AdminLink(a) \/ AdminDrop(a)
          \/ \E u \in Names, l \in Links : AdminFind(a, u, l)
    \/ \E l \in Links : AdminRemove(l)
    \/ \E x \in Subjects : BackchannelLogout(SessionsOf(x))
    \/ \E s \in Sessions : sub[s] # "none" /\ BackchannelLogout({s})

-----------------------------------------------------------------------------
(* Properties.                                                             *)

\* Every row of the upstream sessions can be loaded again (TryFrom<SessionLookup> never
\* answers DatabaseInconsistencyError), whatever is removed or consumed meanwhile.
SessionsReadable == \A s \in Sessions : marks[s] # {} => Readable(s)

\* An upstream session authenticates once (is_consumed in link.rs and finish.rs), in one
\* browser session.
ConsumedOnce == \A a, c \in auth : a[2] = c[2] => a = c

\* A back-channel logout for an account ends every browser session that a session of
\* the account has authenticated (linked_to_upstream_sessions_only).
LogoutReaches ==
    [][\A x \in Subjects :
          BackchannelLogout(SessionsOf(x)) =>
              \A a \in auth : sub[a[2]] = x => a[1] \notin live']_upstreamVars

\* Some request or call ends in this step and had found the link l without a user.
FoundFree(l) ==
    \/ \E r \in Requests : req[r].link = l /\ req[r].owner = "free" /\ req'[r] = Idle
    \/ \E a \in Admins : call[a].link = l /\ call[a].owner = "free" /\ call'[a] = NoCall

\* Whatever forms, conflict resolutions, registrations and administrators associate the
\* links at the same time, an upstream account moves from one user to another only by one
\* that had found it free before the other got it: associate_to_user does not look again.
IdentityStays ==
    [][\A l \in Links : link[l] \in Names =>
          link'[l] \in {link[l], "gone"} \/ FoundFree(l)]_upstreamVars

=============================================================================
