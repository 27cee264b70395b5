----------------------------- MODULE CompatLogin -----------------------------
(***************************************************************************)
(* The compatibility API for one user (crates/handlers/src/compat and      *)
(* crates/storage-pg/src/compat): logins with a password or with the token *)
(* of an SSO login, the limit on sessions, refresh tokens and log-outs.    *)
(* A login takes the user's advisory lock and holds it until it commits;   *)
(* an SSO login is loaded before that.  Sessions of other kinds, OAuth 2.0 *)
(* and personal ones, count towards the limit and come and go meanwhile.   *)
(* The device on the homeserver is the matter of the module UserDevices.   *)
(***************************************************************************)
EXTENDS Integers, FiniteSets

CONSTANTS
    BrowserSessions,
    SsoLogins,
    Devices,
    Requests,        \* slots for calls of the API
    Posts,           \* slots for the SSO form
    MaxSessions,     \* bound: compatibility sessions
    MaxTokens,       \* bound: refresh tokens
    Imported,        \* how many refresh tokens a session imported from Synapse has
    MaxOthers,       \* bound: sessions of the user of other kinds
    SoftLimit, HardLimit,
    Threshold,       \* max_session_threshold: no limit applies above it
    Eviction         \* dangerous_hard_limit_eviction: "yes" or "no"

Sessions == 1..MaxSessions
Tokens == 1..MaxTokens

ASSUME CompatAssumption ==
    /\ MaxSessions \in Nat \ {0} /\ MaxTokens \in Nat /\ Imported \in 0..MaxTokens
    /\ {MaxOthers, SoftLimit, HardLimit, Threshold} \subseteq Nat
    /\ Eviction \in {"yes", "no"}
    /\ "none" \notin BrowserSessions \cup SsoLogins \cup Devices \cup Requests

VARIABLES
    alive,           \* browser sessions that are not finished
    sso,             \* each SSO login: none, pending, fulfilled, exchanged or gone
    by, for,         \* the browser session that fulfilled it, the session it gave
    sess,            \* each session: none, active, finished or gone
    device, via,     \* its device, and the SSO login it came from ("none": a password)
    others,          \* how many sessions of other kinds are active
    tokenOf,         \* the session of each refresh token, 0 for no row
    valid,           \* refresh tokens that are not consumed
    access,          \* refresh tokens whose access token has not expired
    lock,            \* who holds the advisory lock
    req, post,       \* what each request and each form has loaded
    overlapped       \* (history) SSO logins that two requests exchanged at the same time

logins == <<alive, sso, by, for>>
sessions == <<sess, device, via, others>>
tokens == <<tokenOf, valid, access>>
vars == <<logins, sessions, tokens, lock, req, post, overlapped>>

-----------------------------------------------------------------------------
Idle == [step |-> "idle", device |-> "none", sso |-> "none", evict |-> {},
         room |-> 0, id |-> 0]
NoPost == [sso |-> "none", session |-> "none"]

\* A session imported from Synapse may have several refresh tokens.
Init ==
    /\ alive = BrowserSessions
    /\ sso = [l \in SsoLogins |-> "none"]
    /\ by = [l \in SsoLogins |-> "none"] /\ for = [l \in SsoLogins |-> 0]
    /\ \E d \in Devices :
          device = [s \in Sessions |-> IF s = 1 /\ Imported > 0 THEN d ELSE "none"]
    /\ sess = [s \in Sessions |-> IF s = 1 /\ Imported > 0 THEN "active" ELSE "none"]
    /\ via = [s \in Sessions |-> "none"]
    /\ others \in 0..MaxOthers
    /\ tokenOf = [t \in Tokens |-> IF t <= Imported THEN 1 ELSE 0]
    /\ valid = 1..Imported /\ access = 1..Imported
    /\ lock = "none"
    /\ req = [r \in Requests |-> Idle] /\ post = [p \in Posts |-> NoPost]
    /\ overlapped = {}

Active == {s \in Sessions : sess[s] = "active"}

\* count_user_sessions_for_limiting, when the compatibility sessions are those in S.
Total(S) == Cardinality(S) + others

\* passes_session_threshold: "The session limits only apply to accounts within the
\* `max_session_threshold`".
Limited(n) == n <= Threshold

-----------------------------------------------------------------------------
(* SSO logins: login_sso_redirect.rs and login_sso_complete.rs.             *)

SsoRedirect(l) ==
    /\ sso[l] = "none"
    /\ sso' = [sso EXCEPT ![l] = "pending"]
    /\ UNCHANGED <<alive, by, for, sessions, tokens, lock, req, post, overlapped>>

\* post: the browser session, the login, and the soft limit.
SsoCheck(p, l, b) ==
    /\ post[p] = NoPost /\ b \in alive
    /\ sso[l] = "pending"
    /\ Limited(Total(Active)) => Total(Active) < SoftLimit
    /\ post' = [post EXCEPT ![p] = [sso |-> l, session |-> b]]
    /\ UNCHANGED <<logins, sessions, tokens, lock, req, overlapped>>

\* fulfill: the state that was loaded is pending; the UPDATE does not look at it.
SsoFulfill(p) ==
    LET l == post[p].sso IN
    /\ l # "none" /\ sso[l] # "gone"
    /\ sso' = [sso EXCEPT ![l] = IF @ = "pending" THEN "fulfilled" ELSE @]
    /\ by' = [by EXCEPT ![l] = post[p].session]
    /\ post' = [post EXCEPT ![p] = NoPost]
    /\ UNCHANGED <<alive, for, sessions, tokens, lock, req, overlapped>>

SsoDrop(p) ==
    /\ post[p] # NoPost
    /\ post' = [post EXCEPT ![p] = NoPost]
    /\ UNCHANGED <<logins, sessions, tokens, lock, req, overlapped>>

EndBrowserSession(b) ==
    /\ b \in alive
    /\ alive' = alive \ {b}
    /\ UNCHANGED <<sso, by, for, sessions, tokens, lock, req, post, overlapped>>

-----------------------------------------------------------------------------
(* login.rs post.                                                           *)

\* user_password_login: the user and the password are checked.
StartPassword(r, d) ==
    /\ req[r] = Idle
    /\ req' = [req EXCEPT ![r].step = "checked", ![r].device = d]
    /\ UNCHANGED <<logins, sessions, tokens, lock, post, overlapped>>

\* Mutant of Exchangeable: an exchanged token logs in again.
Exchangeable_Again(l) == sso[l] \in {"fulfilled", "exchanged"} /\ by[l] \in alive

\* token_login: the SSO login is fulfilled, and not too long ago, its browser session is
\* active.  Time is left out: a login that is too old is one that does not start.
Exchangeable(l) == sso[l] = "fulfilled" /\ by[l] \in alive

StartToken(r, l, d) ==
    /\ req[r] = Idle /\ Exchangeable(l)
    /\ req' = [req EXCEPT ![r].step = "checked", ![r].device = d, ![r].sso = l]
    /\ overlapped' = IF \E q \in Requests : req[q].sso = l THEN overlapped \cup {l}
                     ELSE overlapped
    /\ UNCHANGED <<logins, sessions, tokens, lock, post>>

\* Mutant of Acquire: no lock.
Acquire_Free(r) ==
    /\ req[r].step = "checked"
    /\ req' = [req EXCEPT ![r].step = "locked"]
    /\ UNCHANGED <<logins, sessions, tokens, lock, post, overlapped>>

\* acquire_lock_for_sync.
Acquire(r) ==
    /\ req[r].step = "checked" /\ lock = "none"
    /\ lock' = r
    /\ req' = [req EXCEPT ![r].step = "locked"]
    /\ UNCHANGED <<logins, sessions, tokens, post, overlapped>>

\* finish_sessions_to_replace_device: the compatibility sessions of the device.
Replaced(d) == {s \in Active : device[s] = d}

\* Mutant of NeedToRemove: no room is made for the new session.
NeedToRemove_Less(n) == IF Limited(n) /\ HardLimit < n THEN n - HardLimit ELSE 0

\* compat_login.rego: "`+ 1` because when you're at 2 sessions, and the limit is 2, you
\* have to make room for the new session".
NeedToRemove(n) == IF Limited(n) /\ HardLimit <= n THEN (n - HardLimit) + 1 ELSE 0

\* (history) How many compatibility sessions the policy leaves room for, when the login
\* replaces the sessions in old.
Room(old) == IF old = {} /\ Limited(Total(Active)) THEN HardLimit - others ELSE MaxSessions

\* The UPDATEs that end the sessions of the device, an OAuth 2.0 session (0) among them
\* or not, count_user_sessions_for_limiting, the policy, and the sessions to evict: the
\* least recently used of the compatibility sessions, whichever they are.
Count(r, oauth2) ==
    LET old == Replaced(req[r].device) \cup oauth2
        need == IF old # {} THEN 0 ELSE NeedToRemove(Total(Active)) IN
    /\ req[r].step = "locked"
    /\ oauth2 # {} => others > 0
    /\ need > 0 => Eviction = "yes"
    /\ \E S \in SUBSET Active :
          /\ Cardinality(S) = need
          /\ req' = [req EXCEPT ![r].step = "counted", ![r].evict = old \cup S,
                                ![r].room = Room(old)]
    /\ UNCHANGED <<logins, sessions, tokens, lock, post, overlapped>>

\* A new refresh token t of the session s, and its access token.
NewToken(t, s) ==
    /\ tokenOf[t] = 0 /\ \A u \in Tokens : tokenOf[u] = 0 => t <= u
    /\ tokenOf' = [tokenOf EXCEPT ![t] = s]

\* save: the session s, with a refresh token if the client asked for one; what it
\* replaces and what is evicted is finished.
Commit(r, s, t) ==
    LET l == req[r].sso   d == req[r].device IN
    /\ req[r].step = "counted"
    /\ sess[s] = "none" /\ \A q \in Sessions : sess[q] = "none" => s <= q
    /\ l # "none" => sso[l] # "gone"
    /\ sess' = [q \in Sessions |-> IF q = s THEN "active"
                                   ELSE IF q \in req[r].evict /\ sess[q] # "gone"
                                   THEN "finished" ELSE sess[q]]
    /\ device' = [device EXCEPT ![s] = d]
    /\ via' = [via EXCEPT ![s] = l]
    /\ others' = IF 0 \in req[r].evict /\ others > 0 THEN others - 1 ELSE others
    /\ IF l = "none" THEN UNCHANGED <<sso, for>>
       ELSE sso' = [sso EXCEPT ![l] = "exchanged"] /\ for' = [for EXCEPT ![l] = s]
    /\ \/ NewToken(t, s) /\ valid' = valid \cup {t} /\ access' = access \cup {t}
       \/ UNCHANGED tokens
    /\ lock' = IF lock = r THEN "none" ELSE lock
    /\ req' = [req EXCEPT ![r] = [Idle EXCEPT !.step = "saved", !.id = s]]
    /\ UNCHANGED <<alive, by, post, overlapped>>

\* upsert_device and the answer, or the end of the session when it fails.
Provision(r, ok) ==
    /\ req[r].step = "saved"
    /\ sess' = IF ok \/ sess[req[r].id] = "gone" THEN sess
               ELSE [sess EXCEPT ![req[r].id] = "finished"]
    /\ req' = [req EXCEPT ![r] = Idle]
    /\ UNCHANGED <<logins, device, via, others, tokens, lock, post, overlapped>>

\* An error, a policy that refuses, or a client that goes away: a rollback.
Rollback(r) ==
    /\ req[r].step \in {"checked", "locked", "counted", "refresh"}
    /\ req' = [req EXCEPT ![r] = Idle]
    /\ lock' = IF lock = r THEN "none" ELSE lock
    /\ UNCHANGED <<logins, sessions, tokens, post, overlapped>>

-----------------------------------------------------------------------------
(* refresh.rs, logout.rs, logout_all.rs, and the clean-up.                  *)

\* The token and its session are valid.
StartRefresh(r, t) ==
    /\ req[r] = Idle
    /\ t \in valid /\ sess[tokenOf[t]] = "active"
    /\ req' = [req EXCEPT ![r].step = "refresh", ![r].id = t]
    /\ UNCHANGED <<logins, sessions, tokens, lock, post, overlapped>>

\* Mutant of Consumed: only the token that was presented.
Consumed_One(t) == valid \cap {t}

\* consume_and_replace: every valid token of the session, and there must be one.
Consumed(t) == {u \in valid : tokenOf[u] = tokenOf[t]}

Refresh(r, t) ==
    LET old == req[r].id IN
    /\ req[r].step = "refresh" /\ sess[tokenOf[old]] # "gone"
    /\ NewToken(t, tokenOf[old])
    /\ Consumed(old) # {}
    /\ valid' = (valid \ Consumed(old)) \cup {t}
    /\ access' = (access \ {old}) \cup {t}
    /\ req' = [req EXCEPT ![r] = Idle]
    /\ UNCHANGED <<logins, sessions, lock, post, overlapped>>

\* One session by its access token, or all of them.
Logout(S) ==
    /\ S # {} /\ S \subseteq Active
    /\ sess' = [s \in Sessions |-> IF s \in S THEN "finished" ELSE sess[s]]
    /\ UNCHANGED <<logins, device, via, others, tokens, lock, req, post, overlapped>>

\* CleanupFinishedCompatSessionsJob: the session, its tokens and its SSO login.
Cleanup(s) ==
    /\ sess[s] = "finished"
    /\ sess' = [sess EXCEPT ![s] = "gone"]
    /\ valid' = {t \in valid : tokenOf[t] # s} /\ access' = {t \in access : tokenOf[t] # s}
    /\ sso' = [l \in SsoLogins |-> IF for[l] = s THEN "gone" ELSE sso[l]]
    /\ UNCHANGED <<alive, by, for, device, via, others, tokenOf, lock, req, post, overlapped>>

\* A session of another kind starts, for which nobody asks how many compatibility sessions
\* there are by then, or ends.
OtherSession(n) ==
    /\ n \in {others + 1, others - 1} \cap (0..MaxOthers)
    /\ others' = n
    /\ UNCHANGED <<logins, sess, device, via, tokens, lock, req, post, overlapped>>

Next ==
    \/ \E l \in SsoLogins : SsoRedirect(l)
    \/ \E p \in Posts :
          \/ \E l \in SsoLogins, b \in BrowserSessions : SsoCheck(p, l, b)
          \/ SsoFulfill(p) \/ SsoDrop(p)
    \/ \E b \in BrowserSessions : EndBrowserSession(b)
    \/ \E r \in Requests :
          \/ \E d \in Devices : StartPassword(r, d) \/ \E l \in SsoLogins : StartToken(r, l, d)
          \/ Acquire(r) \/ Rollback(r)
          \/ \E oauth2 \in SUBSET {0} : Count(r, oauth2)
          \/ \E s \in Sessions, t \in Tokens : Commit(r, s, t)
          \/ \E ok \in BOOLEAN : Provision(r, ok)
          \/ \E t \in Tokens : StartRefresh(r, t) \/ Refresh(r, t)
    \/ \E s \in Sessions : Logout({s}) \/ Cleanup(s)
    \/ Logout(Active)
    \/ \E n \in 0..MaxOthers : OtherSession(n)

Spec == Init /\ [][Next]_vars

-----------------------------------------------------------------------------
(* Properties.                                                             *)

Steps == {"idle", "checked", "locked", "counted", "saved", "refresh"}

ReqRow == [step : Steps, device : Devices \cup {"none"}, sso : SsoLogins \cup {"none"},
           evict : SUBSET (Sessions \cup {0}), room : Int, id : Nat]

\* The rows refer to each other, and the lock is held by the request that took it and has
\* not committed.
TypeOK ==
    /\ alive \subseteq BrowserSessions
    /\ sso \in [SsoLogins -> {"none", "pending", "fulfilled", "exchanged", "gone"}]
    /\ by \in [SsoLogins -> BrowserSessions \cup {"none"}]
    /\ for \in [SsoLogins -> Sessions \cup {0}]
    /\ sess \in [Sessions -> {"none", "active", "finished", "gone"}]
    /\ device \in [Sessions -> Devices \cup {"none"}]
    /\ via \in [Sessions -> SsoLogins \cup {"none"}]
    /\ others \in Nat
    /\ tokenOf \in [Tokens -> Sessions \cup {0}]
    /\ valid \subseteq Tokens /\ access \subseteq Tokens
    /\ \A t \in valid \cup access : tokenOf[t] # 0 /\ sess[tokenOf[t]] \in {"active", "finished"}
    /\ req \in [Requests -> ReqRow]
    /\ \A r \in Requests :
          /\ req[r].step = "saved" => req[r].id \in Sessions
          /\ req[r].step = "refresh" => req[r].id \in Tokens /\ tokenOf[req[r].id] \in Sessions
    /\ post \in [Posts -> [sso : SsoLogins \cup {"none"},
                           session : BrowserSessions \cup {"none"}]]
    /\ overlapped \subseteq SsoLogins
    /\ lock \in Requests \cup {"none"}
    /\ \A r \in Requests : lock = r <=> req[r].step \in {"locked", "counted"}

\* Logins that run at the same time never leave a device with two sessions, so that one
\* of them would go on with a device that the other believes to be its own.
OnePerDevice == \A s, q \in Active : device[s] = device[q] => s = q

\* A login that the hard limit applies to commits only while there is still room for its
\* session, with the sessions of other kinds as they were when the policy counted them:
\* logins that run at the same time never use the same room, and the sessions to evict are
\* enough also for a user who was past the limit.
WithinLimit ==
    [][\A r \in Requests :
          req[r].step = "counted" /\ req'[r].step = "saved" =>
              Cardinality(Active') <= req[r].room]_vars

\* A session has one valid refresh token at most, however many requests present the same
\* one at the same time, unless it still has those that came from Synapse.
OneRefreshToken ==
    \A t, u \in valid : tokenOf[t] = tokenOf[u] => t = u \/ {t, u} \subseteq 1..Imported

\* The token of an SSO login gives one session, unless two requests exchange it at the
\* same time: its state is loaded before the lock is taken.
ExchangedOnce ==
    \A l \in SsoLogins \ overlapped : \A s, q \in Sessions : via[s] = l /\ via[q] = l => s = q

\* "Note that if the login is not Pending, this fails and aborts the transaction"
\* (login_sso_complete.rs): an SSO login is fulfilled once.
FulfilledOnce ==
    [][\A l \in SsoLogins : by[l] # "none" => by'[l] = by[l]]_vars

=============================================================================
