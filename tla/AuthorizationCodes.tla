------------------------- MODULE AuthorizationCodes -------------------------
(***************************************************************************)
(* The life of one authorization code: the consent form                    *)
(* (crates/handlers/src/oauth2/authorization/consent.rs) fulfills the      *)
(* grant, authorization_code_grant of the token endpoint                   *)
(* (crates/handlers/src/oauth2/token.rs) exchanges the code for a session, *)
(* or ends that session when the code comes back too late.                 *)
(*                                                                         *)
(* As in RefreshTokens a request is one READ COMMITTED transaction: its    *)
(* SELECTs are steps of their own, its writes appear when it commits, and  *)
(* the UPDATEs are keyed by id alone.                                      *)
(***************************************************************************)
EXTENDS Naturals

CONSTANTS
    Browsers,      \* browser sessions
    NoBrowser,     \* user_session_id IS NULL
    Posts,         \* slots for concurrent consent forms
    Requests,      \* slots for concurrent token requests
    CodeLifetime,  \* 10 minutes
    ReplayGrace,   \* 20 seconds
    MaxTime,       \* bound: the clock stops there
    MaxSessions    \* bound: how many sessions are started

ASSUME CodesAssumption ==
    /\ NoBrowser \notin Browsers
    /\ CodeLifetime \in Nat /\ ReplayGrace \in Nat
    /\ MaxTime \in Nat /\ MaxSessions \in Nat

VARIABLES
    now,        \* the clock
    grant,      \* the row of oauth2_authorization_grants (times and ids: 0 for NULL)
    row,        \* "kept", or "deleted" once it was cleaned up
    browsers,   \* user_sessions: "active", "finished", or "ended" by a mas-logout
    started,    \* how many sessions were started with this code
    sessions,   \* oauth2_sessions: the rows of these, by number
    post,       \* consent form -> the browser session it has loaded (NoBrowser: idle)
    pc,         \* where each token request is in authorization_code_grant
    snap,       \* the grant, as the token request has read it
    consented,  \* (history) the browser sessions whose consent was saved
    overlapped  \* (history) which writes have met somebody who had read the rows before

history == <<consented, overlapped>>
vars == <<now, grant, row, browsers, started, sessions, post, pc, snap, history>>

-----------------------------------------------------------------------------

GrantRow == [fulfilled : Nat, browser : Browsers \cup {NoBrowser},
             exchanged : Nat, session : Nat]
SessionRow == [browser : Browsers, finished : BOOLEAN]

\* add: the grant as the authorization endpoint creates it.
NewGrant == [fulfilled |-> 0, browser |-> NoBrowser, exchanged |-> 0, session |-> 0]

\* The stage TryFrom<GrantLookup> reads off the columns.
Pending(g) == g = NewGrant
Fulfilled(g) == /\ g.fulfilled # 0 /\ g.browser # NoBrowser
                /\ g.exchanged = 0 /\ g.session = 0
Exchanged(g) == g.fulfilled # 0 /\ g.exchanged # 0 /\ g.session # 0

\* Mutant of fulfill: writes the other columns back as well, as they were read.
fulfill_Fresh(g, b) == [NewGrant EXCEPT !.fulfilled = now, !.browser = b]

\* fulfill and exchange of the repository, on the row as it is by then.
fulfill(g, b) == [g EXCEPT !.fulfilled = now, !.browser = b]

exchange(g, s) == [g EXCEPT !.exchanged = now, !.session = s]

-----------------------------------------------------------------------------

Init ==
    /\ now = 1
    /\ grant = NewGrant
    /\ row = "kept"
    /\ browsers = [b \in Browsers |-> "active"]
    /\ started = 0
    /\ sessions = [s \in {} |-> 0]
    /\ post = [p \in Posts |-> NoBrowser]
    /\ pc = [r \in Requests |-> "idle"]
    /\ snap = [r \in Requests |-> NewGrant]
    /\ consented = {} /\ overlapped = {}

\* Time passes.
Advance ==
    /\ now < MaxTime
    /\ now' = now + 1
    /\ UNCHANGED <<grant, row, browsers, started, sessions, post, pc, snap, history>>

-----------------------------------------------------------------------------
(* The consent form.                                                       *)

\* Load the session of the browser and the grant, which must be pending.
LoadConsent(p, b) ==
    /\ post[p] = NoBrowser
    /\ browsers[b] = "active"
    /\ row = "kept"
    /\ Pending(grant)
    /\ post' = [post EXCEPT ![p] = b]
    /\ UNCHANGED <<now, grant, row, browsers, started, sessions, pc, snap, history>>

\* Fulfill the grant and redirect the browser to the client with the code.
SaveConsent(p) ==
    /\ post[p] # NoBrowser
    /\ row = "kept"
    /\ grant' = fulfill(grant, post[p])
    /\ post' = [post EXCEPT ![p] = NoBrowser]
    /\ consented' = consented \cup {post[p]}
    /\ UNCHANGED <<now, row, browsers, started, sessions, pc, snap, overlapped>>

\* The policy refuses, or the request fails.
DropConsent(p) ==
    /\ post[p] # NoBrowser
    /\ post' = [post EXCEPT ![p] = NoBrowser]
    /\ UNCHANGED <<now, grant, row, browsers, started, sessions, pc, snap, history>>

-----------------------------------------------------------------------------
(* authorization_code_grant                                                *)

\* find_by_code, for a code that was redirected to the client: a fulfilled grant
\* that is young enough is exchanged, an exchanged one that is old enough is a
\* replay; the rest is refused.
FindCode(r) ==
    /\ pc[r] = "idle"
    /\ row = "kept"
    /\ \/ /\ Fulfilled(grant)
          /\ now =< grant.fulfilled + CodeLifetime
          /\ pc' = [pc EXCEPT ![r] = "found"]
       \/ /\ Exchanged(grant)
          /\ now > grant.exchanged + ReplayGrace
          /\ pc' = [pc EXCEPT ![r] = "replay"]
    /\ snap' = [snap EXCEPT ![r] = grant]
    /\ UNCHANGED <<now, grant, row, browsers, started, sessions, post, history>>

\* Mutant of CheckBrowser: a browser session that was finished will do.
CheckBrowser_Any(r) ==
    /\ pc[r] = "found"
    /\ pc' = [pc EXCEPT ![r] = "issue"]
    /\ UNCHANGED <<now, grant, row, browsers, started, sessions, post, snap, history>>

\* The client and the PKCE verifier match; lookup of the browser session.
CheckBrowser(r) ==
    /\ pc[r] = "found"
    /\ browsers[snap[r].browser] = "active"
    /\ pc' = [pc EXCEPT ![r] = "issue"]
    /\ UNCHANGED <<now, grant, row, browsers, started, sessions, post, snap, history>>

\* The request is over.
Done(r) ==
    /\ pc' = [pc EXCEPT ![r] = "idle"]
    /\ snap' = [snap EXCEPT ![r] = NewGrant]

\* The sessions as they are after the ones in S were finished.
FinishAll(S) == [s \in DOMAIN sessions |->
                   [sessions[s] EXCEPT !.finished = @ \/ s \in S]]

\* The request has found the code good for a session.
Exchanging(r) == pc[r] \in {"found", "issue"}

\* Marks what has overlapped.
Overlap(what, so) == overlapped' = IF so THEN overlapped \cup {what} ELSE overlapped

\* add_from_browser_session, the token pair, the device, and exchange; save.
ExchangeCode(r) ==
    /\ pc[r] = "issue"
    /\ row = "kept"
    /\ started < MaxSessions
    /\ started' = started + 1
    /\ sessions' = [s \in 1 .. (started + 1) |->
                      IF s = started + 1
                      THEN [browser |-> snap[r].browser, finished |-> FALSE]
                      ELSE sessions[s]]
    /\ grant' = exchange(grant, started + 1)
    /\ Overlap("exchanges", \E q \in Requests \ {r} : Exchanging(q))
    /\ Done(r)
    /\ UNCHANGED <<now, row, browsers, post, consented>>

\* "Ending potentially compromised session": lookup, finish and save; finish fails
\* on a session that is finished already.
EndReplayed(r) ==
    /\ pc[r] = "replay"
    /\ snap[r].session \in DOMAIN sessions
    /\ ~sessions[snap[r].session].finished
    /\ sessions' = FinishAll({snap[r].session})
    /\ Done(r)
    /\ UNCHANGED <<now, grant, row, browsers, started, post, history>>

\* The request is refused or fails.
DropRequest(r) ==
    /\ pc[r] # "idle"
    /\ Done(r)
    /\ UNCHANGED <<now, grant, row, browsers, started, sessions, post, history>>

-----------------------------------------------------------------------------
(* Everyone else.                                                          *)

\* The log-out form: the browser session alone.
Logout(b) ==
    /\ browsers[b] = "active"
    /\ browsers' = [browsers EXCEPT ![b] = "finished"]
    /\ UNCHANGED <<now, grant, row, started, sessions, post, pc, snap, history>>

\* The revocation endpoint, for some session of the browser session that has the
\* mas-logout scope: all its sessions are finished, and the browser session.
RevokeWithLogout(b) ==
    /\ browsers[b] = "active"
    /\ browsers' = [browsers EXCEPT ![b] = "ended"]
    /\ sessions' = FinishAll({s \in DOMAIN sessions : sessions[s].browser = b})
    /\ Overlap("logout", \E r \in Requests : pc[r] = "issue")
    /\ UNCHANGED <<now, grant, row, started, post, pc, snap, consented>>

\* The revocation endpoint without that scope.
Revoke(s) ==
    /\ ~sessions[s].finished
    /\ sessions' = FinishAll({s})
    /\ UNCHANGED <<now, grant, row, browsers, started, post, pc, snap, history>>

\* CleanupOAuthAuthorizationGrantsJob.
Cleanup ==
    /\ row = "kept"
    /\ row' = "deleted"
    /\ UNCHANGED <<now, grant, browsers, started, sessions, post, pc, snap, history>>

-----------------------------------------------------------------------------

Next ==
    \/ Advance
    \/ \E p \in Posts : (\E b \in Browsers : LoadConsent(p, b)) \/ SaveConsent(p) \/ DropConsent(p)
    \/ \E r \in Requests :
          FindCode(r) \/ CheckBrowser(r) \/ ExchangeCode(r) \/ EndReplayed(r) \/ DropRequest(r)
    \/ \E b \in Browsers : Logout(b) \/ RevokeWithLogout(b)
    \/ \E s \in DOMAIN sessions : Revoke(s)
    \/ Cleanup

Spec == Init /\ [][Next]_vars

-----------------------------------------------------------------------------
(* Properties.                                                             *)

\* The rows are well formed, and the sessions started with the code all have one:
\* finishing a session keeps its row.
TypeOK ==
    /\ now \in Nat \ {0} /\ row \in {"kept", "deleted"}
    /\ grant \in GrantRow
    /\ browsers \in [Browsers -> {"active", "finished", "ended"}]
    /\ started \in Nat
    /\ sessions \in [1 .. started -> SessionRow]
    /\ post \in [Posts -> Browsers \cup {NoBrowser}]
    /\ pc \in [Requests -> {"idle", "found", "issue", "replay"}]
    /\ snap \in [Requests -> GrantRow]
    /\ consented \subseteq Browsers
    /\ overlapped \subseteq {"answers", "exchanges", "logout"}

\* However consents, exchanges and replays are ordered, the row of the grant stays
\* one that TryFrom<GrantLookup> accepts, and an exchanged grant names the session
\* that was started with it.
GrantReadable ==
    /\ Pending(grant) \/ Fulfilled(grant) \/ Exchanged(grant)
    /\ grant.session =< started

\* A code gives one session, however often it is presented, in the course of an exchange
\* too: AuthorizationGrant::exchange "returns an error if the authorization grant is not
\* Fulfilled".  The exception are exchanges that have both found the code good before
\* either of them was saved.
OneSessionPerCode == "exchanges" \notin overlapped => started =< 1

\* Nobody is signed in who did not consent: every session started with the code is in a
\* browser session whose consent was saved, however many forms are sent for it at the same
\* time, and whatever they overwrite while it is being exchanged.
SessionsConsented == \A s \in 1 .. started : sessions[s].browser \in consented
=============================================================================
