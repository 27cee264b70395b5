---------------------------- MODULE RefreshTokens ----------------------------
(***************************************************************************)
(* The tokens of one OAuth 2.0 session: refresh_token_grant of the token   *)
(* endpoint (crates/handlers/src/oauth2/token.rs), the introspection and   *)
(* revocation endpoints, and the clean-up jobs, over the tables            *)
(* oauth2_refresh_tokens, oauth2_access_tokens and oauth2_sessions.        *)
(*                                                                         *)
(* A refresh is one READ COMMITTED transaction: every SELECT is a step of  *)
(* its own, on whatever is committed at that moment; the writes become     *)
(* visible together when the transaction commits.  The UPDATEs are keyed   *)
(* by id alone, so one that had to wait for another transaction writes its *)
(* columns over the new version of the row.                                *)
(***************************************************************************)
EXTENDS Naturals

CONSTANTS
    Requests,     \* slots for concurrent refresh requests
    MaxIssued     \* bound: how many token pairs are issued

ASSUME TokensAssumption == MaxIssued \in Nat \ {0}

VARIABLES
    session,      \* oauth2_sessions: valid, finished, or gone (no row)
    refresh,      \* oauth2_refresh_tokens: id -> row; next and access are 0 for NULL
    access,       \* oauth2_access_tokens: id -> row
    issued,       \* ids given out so far; the tokens of a pair share theirs
    held,         \* the pair the client received last
    presented,    \* (history) "held", or "any" once a token of another pair was used
    pc,           \* where each request is in refresh_token_grant
    tok,          \* the refresh token it presents
    snap,         \* the row of that token, as it was read
    lost          \* the access token of the successor, to be revoked (0: none)

tables == <<session, refresh, access, issued>>
client == <<held, presented>>
local  == <<pc, tok, snap, lost>>
vars   == <<tables, client, local>>

-----------------------------------------------------------------------------

RefreshRow == [consumed : BOOLEAN, revoked : BOOLEAN, next : Nat, access : Nat]
AccessRow  == [revoked : BOOLEAN, used : BOOLEAN, expired : BOOLEAN]

\* generate_token_pair: the rows a pair starts with.
NewRefresh(id) == [consumed |-> FALSE, revoked |-> FALSE, next |-> 0, access |-> id]
NewAccess == [revoked |-> FALSE, used |-> FALSE, expired |-> FALSE]

\* The combinations of columns TryFrom<OAuth2RefreshTokenLookup> accepts.
Readable(row) == IF row.revoked THEN ~row.consumed /\ row.next = 0
                 ELSE row.next # 0 => row.consumed

\* RefreshTokenState::is_valid, on a row.
Valid(row) == ~row.consumed /\ ~row.revoked

\* OAuth2RefreshTokenRepository::consume, and revoke of either repository, on the
\* row as it is when the UPDATE runs.
consume(row, next) == [row EXCEPT !.consumed = TRUE, !.next = next]
revoke(row) == [row EXCEPT !.revoked = TRUE]

\* ON DELETE SET NULL of the two foreign keys, when the rows in R and A go.
SetNull(row, R, A) == [row EXCEPT !.next = IF @ \in R THEN 0 ELSE @,
                                  !.access = IF @ \in A THEN 0 ELSE @]

\* The rows in R and A are deleted.
Delete(R, A) ==
    /\ refresh' = [t \in DOMAIN refresh \ R |-> SetNull(refresh[t], R, A)]
    /\ access' = [a \in DOMAIN access \ A |-> access[a]]

-----------------------------------------------------------------------------

\* authorization_code_grant has just created the session and its first pair.
Init ==
    /\ session = "valid"
    /\ refresh = [t \in {1} |-> NewRefresh(1)]
    /\ access = [a \in {1} |-> NewAccess]
    /\ issued = 1
    /\ held = 1 /\ presented = "held"
    /\ pc = [r \in Requests |-> "idle"]
    /\ tok = [r \in Requests |-> 0]
    /\ snap = [r \in Requests |-> NewRefresh(0)]
    /\ lost = [r \in Requests |-> 0]

-----------------------------------------------------------------------------
(* refresh_token_grant                                                     *)

\* find_by_token, for any token that was ever issued.
Find(r, t) ==
    /\ pc[r] = "idle"
    /\ t \in DOMAIN refresh
    /\ Readable(refresh[t])
    /\ pc' = [pc EXCEPT ![r] = "found"]
    /\ tok' = [tok EXCEPT ![r] = t]
    /\ snap' = [snap EXCEPT ![r] = refresh[t]]
    /\ presented' = IF t = held THEN presented ELSE "any"
    /\ UNCHANGED <<tables, held, lost>>

\* lookup of the session, is_valid; then a valid token goes straight on to
\* being consumed, any other one must have a successor.
CheckSession(r) ==
    /\ pc[r] = "found"
    /\ session = "valid"
    /\ Valid(snap[r]) \/ snap[r].next # 0
    /\ pc' = [pc EXCEPT ![r] = IF Valid(snap[r]) THEN "issue" ELSE "next"]
    /\ UNCHANGED <<tables, client, tok, snap, lost>>

\* Mutant of LookupNext: does not check the state of the successor.
LookupNext_Unchecked(r) ==
    LET n == snap[r].next
    IN  /\ pc[r] = "next"
        /\ n \in DOMAIN refresh
        /\ pc' = [pc EXCEPT ![r] = IF refresh[n].access = 0 THEN "issue" ELSE "access"]
        /\ lost' = [lost EXCEPT ![r] = refresh[n].access]
        /\ UNCHANGED <<tables, client, tok, snap>>

\* lookup of the successor: it must not have been used either.
LookupNext(r) ==
    LET n == snap[r].next
    IN  /\ pc[r] = "next"
        /\ n \in DOMAIN refresh
        /\ Readable(refresh[n])
        /\ Valid(refresh[n])
        /\ pc' = [pc EXCEPT ![r] = IF refresh[n].access = 0 THEN "issue" ELSE "access"]
        /\ lost' = [lost EXCEPT ![r] = refresh[n].access]
        /\ UNCHANGED <<tables, client, tok, snap>>

\* lookup of the successor's access token: present, not used, and not revoked
\* (AccessTokenState::revoke fails on a revoked one).
LookupNextAccess(r) ==
    /\ pc[r] = "access"
    /\ lost[r] \in DOMAIN access
    /\ ~access[lost[r]].used
    /\ ~access[lost[r]].revoked
    /\ pc' = [pc EXCEPT ![r] = "issue"]
    /\ UNCHANGED <<tables, client, tok, snap, lost>>

\* Mutant of RefreshAfter: the lost successor is not revoked.
RefreshAfter_Kept(r, new) ==
    [t \in DOMAIN refresh \cup {new} |->
        IF t = new THEN NewRefresh(new)
        ELSE IF t = tok[r] THEN consume(refresh[t], new)
        ELSE refresh[t]]

\* The refresh token rows after request r consumed its token for the pair new:
\* generate_token_pair, consume, and revoke for the lost successor.
RefreshAfter(r, new) ==
    [t \in DOMAIN refresh \cup {new} |->
        IF t = new THEN NewRefresh(new)
        ELSE IF t = tok[r] THEN consume(refresh[t], new)
        ELSE IF t = snap[r].next THEN revoke(refresh[t])
        ELSE refresh[t]]

\* Mutant of AccessAfter: the access token of the consumed token lives on.
AccessAfter_Kept(r, new) ==
    [a \in DOMAIN access \cup {new} |->
        IF a = new THEN NewAccess
        ELSE IF a = lost[r] THEN revoke(access[a])
        ELSE access[a]]

\* The access token rows: the lost one and the one of the consumed token, if it
\* is still there, are revoked.
AccessAfter(r, new) ==
    [a \in DOMAIN access \cup {new} |->
        IF a = new THEN NewAccess
        ELSE IF a \in {lost[r], snap[r].access} THEN revoke(access[a])
        ELSE access[a]]

\* Everything is written (ensure_affected_rows: the rows must still be there),
\* save() commits.  The response reaches the client, or is lost on the way.
Commit(r) ==
    /\ pc[r] = "issue"
    /\ issued < MaxIssued
    /\ session # "gone"
    /\ tok[r] \in DOMAIN refresh
    /\ snap[r].next # 0 => snap[r].next \in DOMAIN refresh
    /\ lost[r] # 0 => lost[r] \in DOMAIN access
    /\ issued' = issued + 1
    /\ refresh' = RefreshAfter(r, issued + 1)
    /\ access' = AccessAfter(r, issued + 1)
    /\ held' \in {held, issued + 1}
    /\ pc' = [pc EXCEPT ![r] = "idle"]
    /\ lost' = [lost EXCEPT ![r] = 0]
    /\ tok' = [tok EXCEPT ![r] = 0]
    /\ snap' = [snap EXCEPT ![r] = NewRefresh(0)]
    /\ UNCHANGED <<session, presented>>

\* The request is refused by one of the checks, fails or is dropped: the
\* transaction is rolled back.
Abort(r) ==
    /\ pc[r] # "idle"
    /\ pc' = [pc EXCEPT ![r] = "idle"]
    /\ lost' = [lost EXCEPT ![r] = 0]
    /\ tok' = [tok EXCEPT ![r] = 0]
    /\ snap' = [snap EXCEPT ![r] = NewRefresh(0)]
    /\ UNCHANGED <<tables, client>>

-----------------------------------------------------------------------------
(* Everyone else.                                                          *)

\* The introspection endpoint: a valid access token of a valid session is
\* marked as used the first time it is seen.
Introspect(a) ==
    /\ a \in DOMAIN access
    /\ ~access[a].revoked /\ ~access[a].expired /\ ~access[a].used
    /\ session = "valid"
    /\ access' = [access EXCEPT ![a].used = TRUE]
    /\ presented' = IF a = held THEN presented ELSE "any"
    /\ UNCHANGED <<session, refresh, issued, held, local>>

\* expires_at passes.
Expire(a) ==
    /\ a \in DOMAIN access
    /\ ~access[a].expired
    /\ access' = [access EXCEPT ![a].expired = TRUE]
    /\ UNCHANGED <<session, refresh, issued, client, local>>

\* OAuth2SessionRepository::finish, from the revocation endpoint among others.
Finish ==
    /\ session = "valid"
    /\ session' = "finished"
    /\ UNCHANGED <<refresh, access, issued, client, local>>

\* CleanupRevokedOAuthAccessTokensJob and CleanupExpiredOAuthAccessTokensJob, on
\* a row that is old enough.
CleanupAccess(a) ==
    /\ a \in DOMAIN access
    /\ access[a].revoked \/ access[a].expired
    /\ Delete({}, {a})
    /\ UNCHANGED <<session, issued, client, local>>

\* CleanupRevokedOAuthRefreshTokensJob.
CleanupRevoked(t) ==
    /\ t \in DOMAIN refresh
    /\ refresh[t].revoked
    /\ Delete({t}, {})
    /\ UNCHANGED <<session, issued, client, local>>

\* Mutant of CleanupConsumed: whatever the state of the successor.
CleanupConsumed_Early(t) ==
    /\ t \in DOMAIN refresh
    /\ refresh[t].consumed
    /\ Delete({t}, {})
    /\ UNCHANGED <<session, issued, client, local>>

\* CleanupConsumedOAuthRefreshTokensJob: the successor is consumed as well.
CleanupConsumed(t) ==
    /\ t \in DOMAIN refresh
    /\ refresh[t].consumed
    /\ refresh[t].next # 0 => refresh[refresh[t].next].consumed
    /\ Delete({t}, {})
    /\ UNCHANGED <<session, issued, client, local>>

\* cleanup_finished: a finished session goes, and its tokens with it.
CleanupSession ==
    /\ session = "finished"
    /\ session' = "gone"
    /\ Delete(DOMAIN refresh, DOMAIN access)
    /\ UNCHANGED <<issued, client, local>>

-----------------------------------------------------------------------------

Next ==
    \/ \E r \in Requests :
          \/ \E t \in DOMAIN refresh : Find(r, t)
          \/ CheckSession(r) \/ LookupNext(r) \/ LookupNextAccess(r)
          \/ Commit(r) \/ Abort(r)
    \/ \E a \in DOMAIN access : Introspect(a) \/ Expire(a) \/ CleanupAccess(a)
    \/ \E t \in DOMAIN refresh : CleanupRevoked(t) \/ CleanupConsumed(t)
    \/ Finish
    \/ CleanupSession

Spec == Init /\ [][Next]_vars

-----------------------------------------------------------------------------
(* Properties.                                                             *)

PCs == {"idle", "found", "next", "access", "issue"}

\* The tables are well formed and the references between them are intact, so
\* that "no such next refresh token" and "no such next access token" are not
\* met by a refresh that nothing else interrupts.
TypeOK ==
    /\ session \in {"valid", "finished", "gone"}
    /\ issued \in Nat \ {0} /\ held \in 1 .. issued
    /\ presented \in {"held", "any"}
    /\ DOMAIN refresh \subseteq 1 .. issued /\ DOMAIN access \subseteq 1 .. issued
    /\ \A t \in DOMAIN refresh :
          /\ refresh[t] \in RefreshRow
          /\ refresh[t].next \in DOMAIN refresh \cup {0}
          /\ refresh[t].access \in DOMAIN access \cup {0}
    /\ \A a \in DOMAIN access : access[a] \in AccessRow
    /\ pc \in [Requests -> PCs]
    /\ tok \in [Requests -> Nat] /\ lost \in [Requests -> Nat]
    /\ snap \in [Requests -> RefreshRow]

\* No refresh token row ends up with columns TryFrom<OAuth2RefreshTokenLookup>
\* rejects as a database inconsistency, which would make it fail forever.
RowsAreReadable == \A t \in DOMAIN refresh : Readable(refresh[t])

\* "The primary goal is to ensure that we do not maintain two active branches of
\* the refresh token tree": whatever is presented, in whatever order, and whatever
\* the clean-up jobs delete, one refresh token at most can be exchanged.
OneActiveBranch ==
    \A t, u \in DOMAIN refresh : Valid(refresh[t]) /\ Valid(refresh[u]) => t = u

\* An access token that is not revoked is the one issued with the refresh token
\* that is still valid: the refresh that replaces a pair revokes all of it.
AccessFollowsRefresh ==
    \A a \in DOMAIN access : ~access[a].revoked =>
        \E t \in DOMAIN refresh : refresh[t].access = a /\ Valid(refresh[t])

\* What refresh_token_grant accepts.
Acceptable(t) ==
    /\ t \in DOMAIN refresh
    /\ Readable(refresh[t])
    /\ Valid(refresh[t]) \/
         LET n == refresh[t].next
         IN  /\ n \in DOMAIN refresh /\ Readable(refresh[n]) /\ Valid(refresh[n])
             /\ refresh[n].access # 0 =>
                   /\ refresh[n].access \in DOMAIN access
                   /\ ~access[refresh[n].access].used
                   /\ ~access[refresh[n].access].revoked

\* "Client lost their refresh token on the way back": a client that only uses
\* what it received, one request at a time, can always go on with the last refresh
\* token it has, however many responses were lost and whatever was cleaned up.
ClientCanContinue == session = "valid" /\ presented = "held" => Acceptable(held)
=============================================================================
