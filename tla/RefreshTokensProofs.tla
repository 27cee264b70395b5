------------------------ MODULE RefreshTokensProofs ------------------------
(***************************************************************************)
(* When a session's refresh requests run one at a time, whatever they      *)
(* present and whatever the introspection endpoint and the clean-up jobs   *)
(* do in between, the token tree keeps one active branch.                  *)
(***************************************************************************)
EXTENDS RefreshTokens, TLAPS

\* At most one refresh request is under way.
OneAtATime == \A r, s \in Requests : r = s

\* What a request under way knows about the rows it is about to write: only
\* deletions (and the SET NULL they cause) can have come in between.
RequestInv ==
    \A r \in Requests :
        LET t == tok[r]
            n == snap[r].next
        IN  /\ pc[r] # "idle" =>
                 /\ Readable(snap[r])
                 /\ t \in DOMAIN refresh =>
                      /\ refresh[t].revoked = snap[r].revoked
                      /\ refresh[t].consumed = snap[r].consumed
                      /\ refresh[t].access \in {snap[r].access, 0}
            /\ pc[r] = "idle" => lost[r] = 0
            /\ pc[r] \in {"found", "next"} => lost[r] = 0
            /\ pc[r] = "next" => n # 0
            /\ pc[r] = "access" => n # 0
            /\ pc[r] = "issue" => (Valid(snap[r]) /\ lost[r] = 0) \/ n # 0
            /\ pc[r] \in {"access", "issue"} /\ n \in DOMAIN refresh /\ n # 0 =>
                 /\ Valid(refresh[n])
                 /\ refresh[n].access \in {lost[r], 0}

\* The inductive invariant.
TokensInv ==
    TypeOK /\ RowsAreReadable /\ OneActiveBranch /\ AccessFollowsRefresh /\ RequestInv

\* The columns of a row after ON DELETE SET NULL.
LEMMA SetNullRow ==
    ASSUME NEW row \in RefreshRow, NEW R, NEW A
    PROVE  /\ SetNull(row, R, A) \in RefreshRow
           /\ SetNull(row, R, A).consumed = row.consumed
           /\ SetNull(row, R, A).revoked = row.revoked
           /\ SetNull(row, R, A).next = IF row.next \in R THEN 0 ELSE row.next
           /\ SetNull(row, R, A).access = IF row.access \in A THEN 0 ELSE row.access
  BY DEF SetNull, RefreshRow

\* Deleting rows, none of them a valid refresh token unless all access tokens go
\* as well, keeps the tables in order.
LEMMA DeleteKeeps ==
    ASSUME TokensInv, NEW R \in SUBSET DOMAIN refresh, NEW A \in SUBSET DOMAIN access,
           (\A t \in R : ~Valid(refresh[t])) \/ A = DOMAIN access,
           Delete(R, A), UNCHANGED <<issued, client, local>>,
           session' \in {"valid", "finished", "gone"}
    PROVE  TokensInv'
<1> USE DEF TokensInv, TypeOK, client, local
<1>1. DOMAIN refresh' = DOMAIN refresh \ R /\ DOMAIN access' = DOMAIN access \ A
  BY DEF Delete
<1>2. \A t \in DOMAIN refresh' :
         /\ t \in DOMAIN refresh /\ t \notin R
         /\ refresh'[t] \in RefreshRow
         /\ refresh'[t].consumed = refresh[t].consumed
         /\ refresh'[t].revoked = refresh[t].revoked
         /\ refresh'[t].next = IF refresh[t].next \in R THEN 0 ELSE refresh[t].next
         /\ refresh'[t].access = IF refresh[t].access \in A THEN 0 ELSE refresh[t].access
  <2> SUFFICES ASSUME NEW t \in DOMAIN refresh'
               PROVE  /\ t \in DOMAIN refresh /\ t \notin R
                      /\ refresh[t] \in RefreshRow
                      /\ refresh'[t] = SetNull(refresh[t], R, A)
    BY SetNullRow
  <2> QED
    BY <1>1 DEF Delete
<1>3. \A a \in DOMAIN access' : a \in DOMAIN access /\ a \notin A /\ access'[a] = access[a]
  BY <1>1 DEF Delete
<1>4. TypeOK'
  BY <1>2, <1>3, <1>1
<1>5. RowsAreReadable'
  BY <1>2 DEF RowsAreReadable, Readable
<1>6. OneActiveBranch'
  BY <1>2 DEF OneActiveBranch, Valid
<1>7. AccessFollowsRefresh'
  BY <1>2, <1>3, <1>1 DEF AccessFollowsRefresh, Valid
<1>8. RequestInv'
  BY <1>2, <1>1 DEF RequestInv, Valid, Readable
<1> QED
  BY <1>4, <1>5, <1>6, <1>7, <1>8

LEMMA TokensInitial == Init => TokensInv
  BY TokensAssumption
  DEF Init, TokensInv, TypeOK, RowsAreReadable, OneActiveBranch, AccessFollowsRefresh,
      RequestInv, Readable, Valid, NewRefresh, NewAccess, RefreshRow, AccessRow, PCs

\* The reads of a refresh, and its end without a commit, touch no table.
LEMMA ReadsKeep ==
    ASSUME TokensInv, NEW r \in Requests,
           \/ \E t \in DOMAIN refresh : Find(r, t)
           \/ CheckSession(r) \/ LookupNext(r) \/ LookupNextAccess(r) \/ Abort(r)
    PROVE  TokensInv'
<1> USE DEF TokensInv, tables, client
<1>1. UNCHANGED <<tables, held>> /\ presented' \in {presented, "any"}
  BY DEF Find, CheckSession, LookupNext, LookupNextAccess, Abort
<1>2. RowsAreReadable' /\ OneActiveBranch' /\ AccessFollowsRefresh'
  BY <1>1 DEF RowsAreReadable, OneActiveBranch, AccessFollowsRefresh
<1>3. CASE \E t \in DOMAIN refresh : Find(r, t)
  BY <1>1, <1>2, <1>3
  DEF Find, TypeOK, RequestInv, PCs, RefreshRow, Readable, Valid
<1>4. CASE CheckSession(r)
  BY <1>1, <1>2, <1>4 DEF CheckSession, TypeOK, RequestInv, PCs, Readable, Valid
<1>5. CASE LookupNext(r)
  BY <1>1, <1>2, <1>5 DEF LookupNext, TypeOK, RequestInv, PCs, RefreshRow
<1>6. CASE LookupNextAccess(r)
  BY <1>1, <1>2, <1>6 DEF LookupNextAccess, TypeOK, RequestInv, PCs
<1>7. CASE Abort(r)
  BY <1>1, <1>2, <1>7 DEF Abort, TypeOK, RequestInv, PCs, RefreshRow, NewRefresh
<1> QED
  BY <1>3, <1>4, <1>5, <1>6, <1>7

\* The columns of the rows a commit writes.
LEMMA ConsumedRow ==
    ASSUME NEW row \in RefreshRow, NEW new \in Nat \ {0}
    PROVE  /\ consume(row, new) \in RefreshRow
           /\ consume(row, new).consumed = TRUE /\ consume(row, new).next = new
           /\ consume(row, new).revoked = row.revoked
           /\ consume(row, new).access = row.access
  BY DEF consume, RefreshRow

LEMMA RevokedRow ==
    ASSUME NEW row \in RefreshRow
    PROVE  /\ revoke(row) \in RefreshRow
           /\ revoke(row).revoked = TRUE /\ revoke(row).consumed = row.consumed
           /\ revoke(row).next = row.next /\ revoke(row).access = row.access
  BY DEF revoke, RefreshRow

LEMMA RevokedAccessRow ==
    ASSUME NEW row \in AccessRow
    PROVE  revoke(row) \in AccessRow /\ revoke(row).revoked = TRUE
  BY DEF revoke, AccessRow

\* The commit of the only refresh under way.
LEMMA CommitKeeps ==
    ASSUME OneAtATime, TokensInv, NEW r \in Requests, Commit(r)
    PROVE  TokensInv'
<1> DEFINE new == issued + 1
           t == tok[r]
           n == snap[r].next
<1> USE DEF TokensInv
<1>1. /\ new \in Nat \ {0} /\ new \notin DOMAIN refresh /\ new \notin DOMAIN access
      /\ t \in DOMAIN refresh /\ t # 0 /\ n \in Nat
      /\ n # 0 => n \in DOMAIN refresh
      /\ session \in {"valid", "finished", "gone"}
  BY DEF Commit, TypeOK, RefreshRow
<1>2. /\ DOMAIN refresh' = DOMAIN refresh \cup {new}
      /\ DOMAIN access' = DOMAIN access \cup {new}
      /\ refresh'[new] = NewRefresh(new)
      /\ access'[new] = NewAccess
      /\ refresh'[t] = consume(refresh[t], new)
  BY <1>1 DEF Commit, RefreshAfter, AccessAfter
<1>3. \A u \in DOMAIN refresh \ {t} :
         refresh'[u] = IF u = n THEN revoke(refresh[u]) ELSE refresh[u]
  BY <1>1 DEF Commit, RefreshAfter
<1>4. \A a \in DOMAIN access :
         access'[a] = IF a \in {lost[r], snap[r].access}
                      THEN revoke(access[a]) ELSE access[a]
  BY <1>1 DEF Commit, AccessAfter
<1>5. /\ refresh[t] \in RefreshRow /\ refresh[t].revoked = FALSE
      /\ refresh[t].consumed = snap[r].consumed
      /\ refresh[t].access \in {snap[r].access, 0}
      /\ (Valid(refresh[t]) /\ lost[r] = 0 /\ n = 0) \/ n # 0
      /\ n # 0 => Valid(refresh[n]) /\ n # t /\ refresh[n].next = 0
                    /\ refresh[n].access \in {lost[r], 0}
  BY <1>1 DEF Commit, TypeOK, RequestInv, RowsAreReadable, Readable, Valid, RefreshRow
<1> HIDE DEF new, t, n
<1>6. /\ refresh'[t] \in RefreshRow
       /\ refresh'[t].consumed = TRUE /\ refresh'[t].next = new
       /\ refresh'[t].revoked = FALSE
       /\ refresh'[t].access = refresh[t].access
  <2>1. refresh[t] \in RefreshRow /\ new \in Nat \ {0}
    BY <1>1, <1>5
  <2>2. LET c == consume(refresh[t], new)
        IN  /\ c \in RefreshRow /\ c.consumed = TRUE /\ c.next = new
            /\ c.revoked = refresh[t].revoked /\ c.access = refresh[t].access
    BY <2>1, ConsumedRow
  <2>3. refresh'[t] = consume(refresh[t], new) /\ refresh[t].revoked = FALSE
    BY <1>2, <1>5
  <2> QED
    BY <2>2, <2>3, Zenon
<1>7. \A u \in DOMAIN refresh \ {t} :
         /\ refresh'[u] \in RefreshRow
         /\ refresh'[u].consumed = refresh[u].consumed
         /\ refresh'[u].revoked = IF u = n THEN TRUE ELSE refresh[u].revoked
         /\ refresh'[u].next = refresh[u].next
         /\ refresh'[u].access = refresh[u].access
  <2> SUFFICES ASSUME NEW u \in DOMAIN refresh \ {t}
               PROVE  /\ refresh'[u] \in RefreshRow
                      /\ refresh'[u].consumed = refresh[u].consumed
                      /\ refresh'[u].revoked = IF u = n THEN TRUE ELSE refresh[u].revoked
                      /\ refresh'[u].next = refresh[u].next
                      /\ refresh'[u].access = refresh[u].access
    OBVIOUS
  <2>1. refresh[u] \in RefreshRow
    BY DEF TypeOK
  <2>2. CASE u = n
    BY <1>3, <2>1, <2>2, RevokedRow
  <2>3. CASE u # n
    BY <1>3, <2>1, <2>3
  <2> QED
    BY <2>2, <2>3
<1>8. /\ NewRefresh(new) \in RefreshRow /\ NewRefresh(new).next = 0
       /\ NewRefresh(new).access = new /\ Valid(NewRefresh(new)) /\ Readable(NewRefresh(new))
  BY <1>1 DEF NewRefresh, RefreshRow, Valid, Readable
<1>9. TypeOK'
  <2>1. \A u \in DOMAIN refresh' :
           /\ refresh'[u] \in RefreshRow
           /\ refresh'[u].next \in DOMAIN refresh' \cup {0}
           /\ refresh'[u].access \in DOMAIN access' \cup {0}
    <3> SUFFICES ASSUME NEW u \in DOMAIN refresh'
                 PROVE  /\ refresh'[u] \in RefreshRow
                        /\ refresh'[u].next \in DOMAIN refresh' \cup {0}
                        /\ refresh'[u].access \in DOMAIN access' \cup {0}
      OBVIOUS
    <3>1. CASE u = new
      BY <1>2, <1>8, <3>1
    <3>2. CASE u = t
      BY <1>1, <1>2, <1>6, <3>2 DEF TypeOK
    <3>3. CASE u # new /\ u # t
      BY <1>2, <1>7, <3>3 DEF TypeOK
    <3> QED
      BY <3>1, <3>2, <3>3
  <2>2. \A a \in DOMAIN access' : access'[a] \in AccessRow
    <3>1. NewAccess \in AccessRow /\ \A a \in DOMAIN access : access[a] \in AccessRow
      BY DEF NewAccess, AccessRow, TypeOK
    <3> QED
      BY <1>2, <1>4, <3>1, RevokedAccessRow
  <2>3. /\ issued' \in Nat \ {0} /\ held' \in 1 .. issued'
        /\ DOMAIN refresh' \subseteq 1 .. issued' /\ DOMAIN access' \subseteq 1 .. issued'
    BY <1>2 DEF Commit, TypeOK, new
  <2>4. /\ pc' \in [Requests -> PCs] /\ tok' \in [Requests -> Nat]
        /\ lost' \in [Requests -> Nat] /\ snap' \in [Requests -> RefreshRow]
        /\ session' = session /\ presented' = presented
    BY DEF Commit, TypeOK, PCs, RefreshRow, NewRefresh
  <2> QED
    BY <1>1, <2>1, <2>2, <2>3, <2>4 DEF TypeOK
<1>10. ~Valid(refresh'[t]) /\ Readable(refresh'[t])
  BY <1>1, <1>6 DEF Valid, Readable
<1>11. n # 0 => ~Valid(refresh'[n]) /\ Readable(refresh'[n])
  BY <1>1, <1>7, <1>5 DEF Valid, Readable
<1>12. RowsAreReadable'
  <2> SUFFICES ASSUME NEW u \in DOMAIN refresh'
               PROVE  Readable(refresh'[u])
    BY DEF RowsAreReadable
  <2>1. CASE u = new \/ u = t \/ (u = n /\ n # 0)
    BY <1>2, <1>10, <1>11, <1>8, <2>1
  <2>2. CASE u \in DOMAIN refresh \ {t, n}
    BY <1>3, <2>2 DEF RowsAreReadable
  <2> QED
    BY <1>1, <1>2, <2>1, <2>2 DEF TypeOK
<1>13. \A u \in DOMAIN refresh : Valid(refresh[u]) => u = t \/ u = n
  BY <1>1, <1>5 DEF OneActiveBranch
<1>14. \A u \in DOMAIN refresh' : Valid(refresh'[u]) => u = new
  <2> SUFFICES ASSUME NEW u \in DOMAIN refresh, Valid(refresh'[u])
               PROVE  FALSE
    BY <1>2
  <2>1. u # t /\ u # n
    BY <1>10, <1>11 DEF TypeOK
  <2> QED
    BY <1>3, <1>13, <2>1
<1>15. OneActiveBranch'
  BY <1>14 DEF OneActiveBranch
<1>16. \A a \in DOMAIN access : ~access[a].revoked => a \in {lost[r], snap[r].access}
  <2> SUFFICES ASSUME NEW a \in DOMAIN access, ~access[a].revoked
               PROVE  a \in {lost[r], snap[r].access}
    OBVIOUS
  <2>1. a # 0
    BY DEF TypeOK
  <2>2. PICK u \in DOMAIN refresh : refresh[u].access = a /\ Valid(refresh[u])
    BY DEF AccessFollowsRefresh
  <2> QED
    BY <1>1, <1>5, <1>13, <2>1, <2>2 DEF TypeOK
<1>17. \A a \in DOMAIN access : access'[a].revoked
  <2> SUFFICES ASSUME NEW a \in DOMAIN access
               PROVE  access'[a].revoked
    OBVIOUS
  <2>1. access[a] \in AccessRow /\ revoke(access[a]).revoked = TRUE
    BY RevokedAccessRow DEF TypeOK
  <2>2. access'[a] = revoke(access[a]) \/ (access'[a] = access[a] /\ access[a].revoked)
    BY <1>4, <1>16
  <2> QED
    BY <2>1, <2>2
<1>18. AccessFollowsRefresh'
  BY <1>2, <1>17, <1>8 DEF AccessFollowsRefresh
<1>19. \A s \in Requests : pc'[s] = "idle" /\ lost'[s] = 0
  BY DEF OneAtATime, Commit, TypeOK
<1>20. RequestInv'
  BY <1>19 DEF RequestInv
<1> QED
  BY <1>9, <1>12, <1>15, <1>18, <1>20

\* Introspection and the passing of time touch one access token row only.
LEMMA AccessStepsKeep ==
    ASSUME TokensInv, NEW a \in DOMAIN access, Introspect(a) \/ Expire(a)
    PROVE  TokensInv'
<1>1. /\ UNCHANGED <<session, refresh, issued, held, pc, tok, snap, lost>>
      /\ presented' \in {presented, "any"}
      /\ DOMAIN access' = DOMAIN access
      /\ \A b \in DOMAIN access : access'[b] \in AccessRow
                                   /\ access'[b].revoked = access[b].revoked
  BY DEF Introspect, Expire, client, local, TokensInv, TypeOK, AccessRow
<1>2. TypeOK'
  BY <1>1 DEF TokensInv, TypeOK
<1>3. RowsAreReadable' /\ OneActiveBranch' /\ AccessFollowsRefresh' /\ RequestInv'
  BY <1>1
  DEF TokensInv, RowsAreReadable, OneActiveBranch, AccessFollowsRefresh, RequestInv
<1> QED
  BY <1>2, <1>3 DEF TokensInv

LEMMA TokensStep == OneAtATime /\ TokensInv /\ [Next]_vars => TokensInv'
<1> SUFFICES ASSUME OneAtATime, TokensInv, [Next]_vars
             PROVE  TokensInv'
  OBVIOUS
<1>1. CASE UNCHANGED vars
  BY <1>1
  DEF vars, tables, client, local, TokensInv, TypeOK, RowsAreReadable, OneActiveBranch,
      AccessFollowsRefresh, RequestInv
<1>2. ASSUME NEW r \in Requests, Commit(r)
      PROVE  TokensInv'
  BY <1>2, CommitKeeps
<1>3. ASSUME NEW r \in Requests,
             \/ \E t \in DOMAIN refresh : Find(r, t)
             \/ CheckSession(r) \/ LookupNext(r) \/ LookupNextAccess(r) \/ Abort(r)
      PROVE  TokensInv'
  BY <1>3, ReadsKeep
<1>4. ASSUME NEW a \in DOMAIN access, Introspect(a) \/ Expire(a)
      PROVE  TokensInv'
  BY <1>4, AccessStepsKeep
<1>5. ASSUME NEW a \in DOMAIN access, CleanupAccess(a)
      PROVE  TokensInv'
  BY <1>5, DeleteKeeps DEF CleanupAccess, TokensInv, TypeOK
<1>6. ASSUME NEW t \in DOMAIN refresh, CleanupRevoked(t) \/ CleanupConsumed(t)
      PROVE  TokensInv'
  BY <1>6, DeleteKeeps DEF CleanupRevoked, CleanupConsumed, TokensInv, TypeOK, Valid
<1>7. CASE CleanupSession
  BY <1>7, DeleteKeeps DEF CleanupSession
<1>8. CASE Finish
  BY <1>8
  DEF Finish, client, local, TokensInv, TypeOK, RowsAreReadable, OneActiveBranch,
      AccessFollowsRefresh, RequestInv
<1> QED
  BY <1>1, <1>2, <1>3, <1>4, <1>5, <1>6, <1>7, <1>8 DEF Next

\* The invariant holds as long as refreshes of the session do not overlap.
THEOREM TokensInvariant == OneAtATime => (Spec => []TokensInv)
<1> SUFFICES ASSUME OneAtATime PROVE Spec => []TokensInv
  OBVIOUS
<1>1. Init => TokensInv
  BY TokensInitial
<1>2. TokensInv /\ [Next]_vars => TokensInv'
  BY TokensStep
<1> QED
  BY <1>1, <1>2, PTL DEF Spec

\* The tables stay well formed, foreign keys included (TypeOK).
THEOREM TokenTables == OneAtATime => (Spec => []TypeOK)
<1>1. TokensInv => TypeOK
  BY DEF TokensInv
<1> QED
  BY <1>1, TokensInvariant, PTL

\* refresh_token_grant keeps one active branch of the refresh token tree, for any
\* number of refreshes, replays and clean-ups, when its requests do not overlap.
THEOREM SerialBranches == OneAtATime => (Spec => []OneActiveBranch)
<1>1. TokensInv => OneActiveBranch
  BY DEF TokensInv
<1> QED
  BY <1>1, TokensInvariant, PTL

\* Nor does it leave rows behind that TryFrom rejects ...
THEOREM SerialRows == OneAtATime => (Spec => []RowsAreReadable)
<1>1. TokensInv => RowsAreReadable
  BY DEF TokensInv
<1> QED
  BY <1>1, TokensInvariant, PTL

\* ... or an access token that outlives the pair it was issued with.
THEOREM SerialAccess == OneAtATime => (Spec => []AccessFollowsRefresh)
<1>1. TokensInv => AccessFollowsRefresh
  BY DEF TokensInv
<1> QED
  BY <1>1, TokensInvariant, PTL

-----------------------------------------------------------------------------
(* The client that lost a response.                                        *)

\* A row points to the access token issued with it; while only the client presents
\* tokens, and only the ones it received last, it can go on.
ClientInv ==
    /\ TokensInv
    /\ \A t \in DOMAIN refresh : refresh[t].access \in {t, 0} /\ refresh[t].next # t
    /\ presented = "held" => \A r \in Requests : pc[r] # "idle" => tok[r] = held
    /\ ClientCanContinue

LEMMA ClientInitial == Init => ClientInv
  BY TokensInitial
  DEF Init, ClientInv, ClientCanContinue, Acceptable, NewRefresh, Readable, Valid

LEMMA ClientCommit ==
    ASSUME OneAtATime, ClientInv, NEW r \in Requests, Commit(r)
    PROVE  ClientInv'
<1>1. PICK new : new = issued + 1
  OBVIOUS
<1>2. PICK t : t = tok[r]
  OBVIOUS
<1>3. TokensInv'
  BY CommitKeeps DEF OneAtATime, ClientInv
<1>4. /\ new \in Nat \ {0} /\ new \notin DOMAIN refresh /\ new \notin DOMAIN access
      /\ t \in DOMAIN refresh /\ refresh[t] \in RefreshRow
      /\ presented = "held" => t = held
      /\ \A u \in DOMAIN refresh : refresh[u] \in RefreshRow
  BY <1>1, <1>2 DEF Commit, ClientInv, TokensInv, TypeOK
<1>5. /\ refresh' = RefreshAfter(r, new) /\ access' = AccessAfter(r, new)
      /\ held' \in {held, new} /\ presented' = presented
  BY <1>1 DEF Commit
<1>6. /\ DOMAIN refresh' = DOMAIN refresh \cup {new} /\ new \in DOMAIN access'
      /\ refresh'[new] = NewRefresh(new) /\ access'[new] = NewAccess
      /\ refresh'[t] = consume(refresh[t], new)
      /\ \A u \in DOMAIN refresh \ {t} : refresh'[u] = refresh[u] \/ refresh'[u] = revoke(refresh[u])
  BY <1>2, <1>4, <1>5 DEF RefreshAfter, AccessAfter
<1>7. /\ consume(refresh[t], new) \in RefreshRow
      /\ consume(refresh[t], new).next = new
      /\ consume(refresh[t], new).access = refresh[t].access
  BY <1>4, ConsumedRow
<1>8. \A u \in DOMAIN refresh' : refresh'[u].access \in {u, 0} /\ refresh'[u].next # u
  <2> SUFFICES ASSUME NEW u \in DOMAIN refresh'
               PROVE  refresh'[u].access \in {u, 0} /\ refresh'[u].next # u
    OBVIOUS
  <2>1. CASE u = new
    BY <1>4, <1>6, <2>1 DEF NewRefresh
  <2>2. CASE u = t
    BY <1>4, <1>6, <1>7, <2>2 DEF ClientInv
  <2>3. CASE u # new /\ u # t
    <3>1. u \in DOMAIN refresh /\ refresh[u] \in RefreshRow
      BY <1>4, <1>6, <2>3
    <3>2. revoke(refresh[u]).access = refresh[u].access
          /\ revoke(refresh[u]).next = refresh[u].next
      BY <3>1, RevokedRow
    <3> QED
      BY <1>6, <2>3, <3>1, <3>2 DEF ClientInv
  <2> QED
    BY <2>1, <2>2, <2>3
<1>9. \A s \in Requests : pc'[s] = "idle"
  BY DEF OneAtATime, Commit, ClientInv, TokensInv, TypeOK
<1>10. Acceptable(new)'
  BY <1>6 DEF Acceptable, NewRefresh, Readable, Valid
<1>11. Acceptable(t)'
  <2>1. refresh'[t].next = new /\ t \in DOMAIN refresh'
    BY <1>4, <1>6, <1>7
  <2>2. Readable(refresh'[t])
    BY <1>3, <2>1 DEF TokensInv, RowsAreReadable
  <2>3. /\ Readable(NewRefresh(new)) /\ Valid(NewRefresh(new)) /\ NewRefresh(new).access = new
        /\ ~NewAccess.used /\ ~NewAccess.revoked
    BY DEF NewRefresh, NewAccess, Readable, Valid
  <2> QED
    BY <1>6, <2>1, <2>2, <2>3 DEF Acceptable
<1>12. ClientCanContinue'
  BY <1>4, <1>5, <1>10, <1>11 DEF ClientCanContinue
<1> QED
  BY <1>3, <1>8, <1>9, <1>12 DEF ClientInv

\* Deletions that spare the client's token, and its successor if it needs it.
LEMMA ClientDelete ==
    ASSUME ClientInv, TokensInv', NEW R \in SUBSET DOMAIN refresh,
           NEW A \in SUBSET DOMAIN access,
           Delete(R, A), UNCHANGED <<issued, client, local>>,
           session' = "valid" /\ presented = "held" =>
              /\ session = "valid"
              /\ held \notin R
              /\ \A t \in R : ~Valid(refresh[t])
    PROVE  ClientInv'
<1> USE DEF ClientInv, TokensInv, TypeOK, client, local
<1>1. DOMAIN refresh' = DOMAIN refresh \ R /\ DOMAIN access' = DOMAIN access \ A
  BY DEF Delete
<1>2. \A t \in DOMAIN refresh' :
         /\ t \in DOMAIN refresh /\ t \notin R
         /\ refresh'[t].consumed = refresh[t].consumed
         /\ refresh'[t].revoked = refresh[t].revoked
         /\ refresh'[t].next = IF refresh[t].next \in R THEN 0 ELSE refresh[t].next
         /\ refresh'[t].access = IF refresh[t].access \in A THEN 0 ELSE refresh[t].access
  <2> SUFFICES ASSUME NEW t \in DOMAIN refresh'
               PROVE  /\ t \in DOMAIN refresh /\ t \notin R
                      /\ refresh[t] \in RefreshRow
                      /\ refresh'[t] = SetNull(refresh[t], R, A)
    BY SetNullRow
  <2> QED
    BY <1>1 DEF Delete
<1>3. \A a \in DOMAIN access' : access'[a] = access[a]
  BY <1>1 DEF Delete
<1>4. \A t \in DOMAIN refresh' : refresh'[t].access \in {t, 0} /\ refresh'[t].next # t
  BY <1>1, <1>2
<1>5. ASSUME session' = "valid", presented' = "held"
      PROVE  Acceptable(held)'
  <2>1. held \in DOMAIN refresh' /\ Acceptable(held) /\ Readable(refresh'[held])
    BY <1>1, <1>5 DEF ClientCanContinue, Acceptable, RowsAreReadable
  <2>2. CASE Valid(refresh[held])
    BY <1>2, <2>1, <2>2 DEF Acceptable, Valid
  <2>3. CASE ~Valid(refresh[held])
    <3>1. PICK n : n = refresh[held].next
      OBVIOUS
    <3>2. /\ n \in DOMAIN refresh /\ Valid(refresh[n])
          /\ refresh[n].access # 0 =>
                /\ refresh[n].access \in DOMAIN access
                /\ ~access[refresh[n].access].used
                /\ ~access[refresh[n].access].revoked
      BY <2>1, <2>3, <3>1 DEF Acceptable
    <3>3. n \in DOMAIN refresh' /\ n \notin R /\ refresh'[held].next = n
      BY <1>1, <1>2, <1>5, <2>1, <3>1, <3>2
    <3>4. Valid(refresh'[n]) /\ Readable(refresh'[n])
      BY <1>2, <3>2, <3>3 DEF Valid, RowsAreReadable
    <3>5. refresh'[n].access # 0 =>
                /\ refresh'[n].access \in DOMAIN access'
                /\ ~access'[refresh'[n].access].used
                /\ ~access'[refresh'[n].access].revoked
      BY <1>1, <1>2, <1>3, <3>2, <3>3
    <3> QED
      BY <2>1, <3>3, <3>4, <3>5 DEF Acceptable
  <2> QED
    BY <2>2, <2>3
<1> QED
  BY <1>4, <1>5 DEF ClientCanContinue

LEMMA ClientStep == OneAtATime /\ ClientInv /\ [Next]_vars => ClientInv'
<1> SUFFICES ASSUME OneAtATime, ClientInv, [Next]_vars
             PROVE  ClientInv'
  OBVIOUS
<1>1. TokensInv /\ TokensInv' /\ TypeOK
  BY TokensStep DEF OneAtATime, ClientInv, TokensInv
<1>2. CASE UNCHANGED vars
  BY <1>1, <1>2 DEF vars, tables, client, local, ClientInv, ClientCanContinue, Acceptable
<1>3. ASSUME NEW r \in Requests, Commit(r)
      PROVE  ClientInv'
  BY <1>3, ClientCommit
<1>4. ASSUME NEW r \in Requests,
             \/ \E t \in DOMAIN refresh : Find(r, t)
             \/ CheckSession(r) \/ LookupNext(r) \/ LookupNextAccess(r) \/ Abort(r)
      PROVE  ClientInv'
  <2>1. UNCHANGED <<tables, held>> /\ (presented' = "held" => presented = "held")
    BY <1>4 DEF Find, CheckSession, LookupNext, LookupNextAccess, Abort, client
  <2>2. presented' = "held" => \A s \in Requests : pc'[s] # "idle" => tok'[s] = held
    BY <1>1, <1>4
    DEF Find, CheckSession, LookupNext, LookupNextAccess, Abort, ClientInv, TypeOK,
        OneAtATime, client
  <2> QED
    BY <1>1, <2>1, <2>2 DEF tables, ClientInv, ClientCanContinue, Acceptable
<1>5. ASSUME NEW a \in DOMAIN access, Introspect(a) \/ Expire(a)
      PROVE  ClientInv'
  <2>1. /\ UNCHANGED <<session, refresh, issued, held, pc, tok, snap, lost>>
        /\ DOMAIN access' = DOMAIN access
        /\ presented' = "held" => presented = "held"
        /\ presented' = "held" => \A b \in DOMAIN access \ {held} :
              access'[b].revoked = access[b].revoked /\ access'[b].used = access[b].used
        /\ held \in DOMAIN access => access'[held].revoked = access[held].revoked
    BY <1>1, <1>5 DEF Introspect, Expire, client, local, TypeOK, AccessRow
  <2>2. \A n \in DOMAIN refresh : n = refresh[held].next /\ held \in DOMAIN refresh
                                     => refresh[n].access # held
    BY <1>1 DEF ClientInv, TypeOK
  <2>3. ClientCanContinue'
    BY <1>1, <2>1, <2>2 DEF ClientInv, ClientCanContinue, Acceptable
  <2> QED
    BY <1>1, <2>1, <2>3 DEF ClientInv
<1>6. ASSUME NEW a \in DOMAIN access, CleanupAccess(a)
      PROVE  ClientInv'
  BY <1>1, <1>6, ClientDelete DEF CleanupAccess
<1>7. ASSUME NEW t \in DOMAIN refresh, CleanupRevoked(t) \/ CleanupConsumed(t)
      PROVE  ClientInv'
  <2>1. /\ Delete({t}, {}) /\ UNCHANGED <<session, issued, client, local>>
        /\ ~Valid(refresh[t])
    BY <1>7 DEF CleanupRevoked, CleanupConsumed, Valid
  <2>2. session = "valid" /\ presented = "held" => held # t
    BY <1>1, <1>7
    DEF CleanupRevoked, CleanupConsumed, ClientInv, ClientCanContinue, Acceptable,
        Readable, Valid, TypeOK, RefreshRow
  <2> QED
    BY <1>1, <2>1, <2>2, ClientDelete
<1>8. CASE CleanupSession
  BY <1>1, <1>8, ClientDelete DEF CleanupSession
<1>9. CASE Finish
  BY <1>1, <1>9 DEF Finish, client, local, ClientInv, ClientCanContinue
<1> QED
  BY <1>2, <1>3, <1>4, <1>5, <1>6, <1>7, <1>8, <1>9 DEF Next

\* A client that sends one request at a time and only uses what it received can
\* always go on with the last refresh token it has.
THEOREM ClientNeverLockedOut == OneAtATime => (Spec => []ClientCanContinue)
<1> SUFFICES ASSUME OneAtATime PROVE Spec => []ClientCanContinue
  OBVIOUS
<1>1. Init => ClientInv
  BY ClientInitial
<1>2. ClientInv /\ [Next]_vars => ClientInv'
  BY ClientStep
<1>3. ClientInv => ClientCanContinue
  BY DEF ClientInv
<1> QED
  BY <1>1, <1>2, <1>3, PTL DEF Spec
=============================================================================
