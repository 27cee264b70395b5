------------------------- MODULE CompatLoginProofs -------------------------
(***************************************************************************)
(* What the compatibility API keeps true for any number of requests that   *)
(* overlap, any number of devices and sessions and any limits.             *)
(***************************************************************************)
EXTENDS CompatLogin, FiniteSetTheorems, TLAPS

-----------------------------------------------------------------------------
(* Types.                                                                  *)

LEMMA TypesInit == CompatAssumption /\ Init => TypeOK
<1> SUFFICES ASSUME CompatAssumption, Init PROVE TypeOK
  OBVIOUS
<1>1. PICK d \in Devices :
         device = [s \in Sessions |-> IF s = 1 /\ Imported > 0 THEN d ELSE "none"]
  BY DEF Init
<1>2. 1 \in Sessions /\ MaxTokens \in Nat /\ Imported \in 0..MaxTokens
  BY DEF CompatAssumption, Sessions
<1>3. Idle \in ReqRow
      /\ Idle.step = "idle"
  BY DEF Idle, Steps, ReqRow
<1>4. /\ req \in [Requests -> ReqRow]
      /\ \A r \in Requests : req[r].step = "idle"
  BY <1>3 DEF Init
<1>5. post \in [Posts -> [sso : SsoLogins \cup {"none"}, session : BrowserSessions \cup {"none"}]]
  BY DEF Init, NoPost
<1>6. /\ tokenOf \in [Tokens -> Sessions \cup {0}]
      /\ valid \subseteq Tokens /\ access \subseteq Tokens
      /\ \A t \in valid \cup access : tokenOf[t] = 1
  BY <1>2 DEF Init, Tokens
<1>7. valid \cup access # {} => Imported > 0
  BY <1>2 DEF Init
<1>8. \A t \in valid \cup access : tokenOf[t] # 0 /\ sess[tokenOf[t]] \in {"active", "finished"}
  BY <1>2, <1>6, <1>7 DEF Init
<1>9. /\ alive \subseteq BrowserSessions
      /\ sso \in [SsoLogins -> {"none", "pending", "fulfilled", "exchanged", "gone"}]
      /\ by \in [SsoLogins -> BrowserSessions \cup {"none"}]
      /\ for \in [SsoLogins -> Sessions \cup {0}]
      /\ sess \in [Sessions -> {"none", "active", "finished", "gone"}]
      /\ device \in [Sessions -> Devices \cup {"none"}]
      /\ via \in [Sessions -> SsoLogins \cup {"none"}]
      /\ overlapped \subseteq SsoLogins
      /\ lock \in Requests \cup {"none"}
      /\ others \in Nat
  BY <1>1 DEF Init, CompatAssumption
<1>10. \A r \in Requests : lock = r <=> req[r].step \in {"locked", "counted"}
  BY <1>4 DEF Init, CompatAssumption
<1> QED
  BY <1>4, <1>5, <1>6, <1>8, <1>9, <1>10 DEF TypeOK

\* Ids are numbers from 1 on.
LEMMA Ids == CompatAssumption => Sessions \subseteq Nat \ {0} /\ Tokens \subseteq Nat \ {0}
  BY DEF CompatAssumption, Sessions, Tokens

\* What a request has loaded is replaced.
LEMMA SetReq ==
    ASSUME req \in [Requests -> ReqRow], NEW r \in Requests, NEW x \in ReqRow,
           req' = [req EXCEPT ![r] = x]
    PROVE  /\ req' \in [Requests -> ReqRow] /\ req'[r] = x
           /\ \A q \in Requests \ {r} : req'[q] = req[q]
  OBVIOUS

LEMMA TypesStep == CompatAssumption /\ TypeOK /\ [Next]_vars => TypeOK'
<1> SUFFICES ASSUME CompatAssumption, TypeOK, [Next]_vars PROVE TypeOK'
  OBVIOUS
<1>0. req \in [Requests -> ReqRow]
  BY DEF TypeOK
<1> USE DEF TypeOK, Steps, ReqRow
<1>1. ASSUME NEW l \in SsoLogins, SsoRedirect(l) PROVE TypeOK'
  BY <1>1 DEF SsoRedirect, sessions, tokens
<1>2. ASSUME NEW p \in Posts, NEW l \in SsoLogins, NEW b \in BrowserSessions, SsoCheck(p, l, b)
      PROVE  TypeOK'
  BY <1>2 DEF SsoCheck, logins, sessions, tokens
<1>3. ASSUME NEW p \in Posts, SsoFulfill(p) PROVE TypeOK'
  BY <1>3 DEF SsoFulfill, NoPost, sessions, tokens
<1>4. ASSUME NEW p \in Posts, SsoDrop(p) PROVE TypeOK'
  BY <1>4 DEF SsoDrop, NoPost, logins, sessions, tokens
<1>5. ASSUME NEW b \in BrowserSessions, EndBrowserSession(b) PROVE TypeOK'
  BY <1>5 DEF EndBrowserSession, sessions, tokens
<1>6. ASSUME NEW r \in Requests, NEW d \in Devices, StartPassword(r, d) PROVE TypeOK'
  BY <1>6 DEF StartPassword, Idle, logins, sessions, tokens, CompatAssumption
<1>7. ASSUME NEW r \in Requests, NEW l \in SsoLogins, NEW d \in Devices, StartToken(r, l, d)
      PROVE  TypeOK'
  BY <1>7 DEF StartToken, Idle, logins, sessions, tokens, CompatAssumption
<1>8. ASSUME NEW r \in Requests, Acquire(r) PROVE TypeOK'
  <2>1. /\ req' \in [Requests -> ReqRow]
        /\ req'[r].step = "locked" /\ \A q \in Requests \ {r} : req'[q] = req[q]
    <3> HIDE DEF TypeOK
    <3> DEFINE x == [req[r] EXCEPT !.step = "locked"]
    <3>1. x \in ReqRow /\ x.step = "locked"
      BY <1>0
    <3>2. req' = [req EXCEPT ![r] = x]
      BY <1>8 DEF Acquire
    <3> HIDE DEF x
    <3> QED
      BY <1>0, <3>1, <3>2, SetReq
  <2>2. \A q \in Requests : lock' = q <=> req'[q].step \in {"locked", "counted"}
    BY <1>8, <2>1 DEF Acquire, CompatAssumption
  <2> QED
    BY <1>8, <2>1, <2>2 DEF Acquire, logins, sessions, tokens
<1>9. ASSUME NEW r \in Requests, NEW o \in SUBSET {0}, Count(r, o) PROVE TypeOK'
  <2> DEFINE old == Replaced(req[r].device) \cup o
  <2>1. PICK S \in SUBSET Active :
           req' = [req EXCEPT ![r].step = "counted", ![r].evict = old \cup S,
                              ![r].room = Room(old)]
    BY <1>9 DEF Count
  <2>2. old \cup S \in SUBSET (Sessions \cup {0}) /\ Room(old) \in Int
    <3>1. S \subseteq Sessions /\ old \subseteq Sessions \cup {0}
      BY DEF Replaced, Active
    <3>2. HardLimit - others \in Int /\ MaxSessions \in Int
      BY DEF CompatAssumption
    <3>3. Room(old) \in {HardLimit - others, MaxSessions}
      BY DEF Room
    <3> QED
      BY <3>1, <3>2, <3>3
  <2>3. /\ req' \in [Requests -> ReqRow]
        /\ req'[r].step = "counted" /\ \A q \in Requests \ {r} : req'[q] = req[q]
    <3> HIDE DEF TypeOK
    <3> DEFINE E == old \cup S
               n == Room(old)
               x == [req[r] EXCEPT !.step = "counted", !.evict = E, !.room = n]
    <3>1. E \in SUBSET (Sessions \cup {0}) /\ n \in Int
      BY <2>2
    <3>2. req' = [req EXCEPT ![r] = x]
      BY <2>1
    <3> HIDE DEF E, n
    <3>3. x \in ReqRow /\ x.step = "counted"
      BY <1>0, <3>1
    <3> HIDE DEF x
    <3> QED
      BY <1>0, <3>2, <3>3, SetReq
  <2> QED
    BY <1>9, <2>3 DEF Count, logins, sessions, tokens
<1>10. ASSUME NEW r \in Requests, Rollback(r) PROVE TypeOK'
  BY <1>10 DEF Rollback, Idle, logins, sessions, tokens, CompatAssumption
<1>11. ASSUME NEW r \in Requests, NEW s \in Sessions, NEW t \in Tokens, Commit(r, s, t)
       PROVE  TypeOK'
  <2>1. /\ req' \in [Requests -> ReqRow]
        /\ req'[r].step = "saved" /\ req'[r].id = s
        /\ \A q \in Requests \ {r} : req'[q] = req[q]
    <3> HIDE DEF TypeOK
    <3> DEFINE x == [Idle EXCEPT !.step = "saved", !.id = s]
    <3>1. x \in ReqRow /\ x.step = "saved" /\ x.id = s
      <4>1. Idle \in ReqRow
        BY DEF Idle
      <4>2. s \in Nat
        BY Ids
      <4> QED
        BY <4>1, <4>2
    <3>2. req' = [req EXCEPT ![r] = x]
      BY <1>11 DEF Commit
    <3> HIDE DEF x
    <3> QED
      BY <1>0, <3>1, <3>2, SetReq
  <2>2. lock' \in Requests \cup {"none"}
        /\ \A q \in Requests : lock' = q <=> req'[q].step \in {"locked", "counted"}
    BY <1>11, <2>1 DEF Commit, CompatAssumption
  <2>3. /\ sess' \in [Sessions -> {"none", "active", "finished", "gone"}]
        /\ sess'[s] = "active"
        /\ \A q \in Sessions : sess[q] \in {"active", "finished"} =>
                                sess'[q] \in {"active", "finished"}
    BY <1>11 DEF Commit
  <2>4. /\ tokenOf' \in [Tokens -> Sessions \cup {0}]
        /\ valid' \subseteq Tokens /\ access' \subseteq Tokens
        /\ \A u \in valid' \cup access' : tokenOf'[u] = s \/ (u \in valid \cup access /\ tokenOf'[u] = tokenOf[u])
        /\ \A u \in Tokens : tokenOf[u] # 0 => tokenOf'[u] = tokenOf[u]
    <3>1. CASE UNCHANGED tokens
      BY <3>1 DEF tokens
    <3>2. CASE NewToken(t, s) /\ valid' = valid \cup {t} /\ access' = access \cup {t}
      <4>1. tokenOf[t] = 0 /\ tokenOf' = [tokenOf EXCEPT ![t] = s]
        BY <3>2 DEF NewToken
      <4>2. /\ tokenOf \in [Tokens -> Sessions \cup {0}] /\ valid \cup access \subseteq Tokens
            /\ \A u \in valid \cup access : tokenOf[u] # 0
        OBVIOUS
      <4> HIDE DEF TypeOK
      <4>3. /\ tokenOf' \in [Tokens -> Sessions \cup {0}]
            /\ tokenOf'[t] = s /\ \A u \in Tokens \ {t} : tokenOf'[u] = tokenOf[u]
        BY <4>1, <4>2
      <4>4. valid' = valid \cup {t} /\ access' = access \cup {t}
        BY <3>2
      <4>5. ASSUME NEW u \in valid' \cup access'
            PROVE  tokenOf'[u] = s \/ (u \in valid \cup access /\ tokenOf'[u] = tokenOf[u])
        BY <4>2, <4>3, <4>4
      <4>6. \A u \in Tokens : tokenOf[u] # 0 => tokenOf'[u] = tokenOf[u]
        BY <4>1, <4>3
      <4>7. valid' \subseteq Tokens /\ access' \subseteq Tokens
        BY <4>2, <4>4
      <4> QED
        BY <4>3, <4>5, <4>6, <4>7
    <3> QED
      BY <1>11, <3>1, <3>2 DEF Commit
  <2>5. \A u \in valid' \cup access' : tokenOf'[u] # 0 /\ sess'[tokenOf'[u]] \in {"active", "finished"}
    <3> SUFFICES ASSUME NEW u \in valid' \cup access'
                 PROVE  tokenOf'[u] # 0 /\ sess'[tokenOf'[u]] \in {"active", "finished"}
      OBVIOUS
    <3>1. 0 \notin Sessions
      BY Ids
    <3>2. CASE tokenOf'[u] = s
      BY <2>3, <3>1, <3>2
    <3>3. CASE u \in valid \cup access /\ tokenOf'[u] = tokenOf[u]
      BY <2>3, <3>3
    <3> QED
      BY <2>4, <3>2, <3>3
  <2>6. \A q \in Requests :
          /\ req'[q].step = "saved" => req'[q].id \in Sessions
          /\ req'[q].step = "refresh" => req'[q].id \in Tokens /\ tokenOf'[req'[q].id] \in Sessions
    <3>1. ASSUME NEW q \in Requests \ {r}, req[q].step = "refresh"
          PROVE  req[q].id \in Tokens /\ tokenOf'[req[q].id] \in Sessions
      BY <3>1, <2>4, Ids
    <3> QED
      BY <2>1, <3>1
  <2>7. /\ sso' \in [SsoLogins -> {"none", "pending", "fulfilled", "exchanged", "gone"}]
        /\ for' \in [SsoLogins -> Sessions \cup {0}]
        /\ device' \in [Sessions -> Devices \cup {"none"}]
        /\ via' \in [Sessions -> SsoLogins \cup {"none"}]
        /\ UNCHANGED <<alive, by, post, overlapped>>
    BY <1>11 DEF Commit
  <2>8. others' \in Nat
    <3>1. others \in Nat /\ others' \in {others, IF others > 0 THEN others - 1 ELSE others}
      BY <1>11 DEF Commit
    <3> QED
      BY <3>1
  <2> QED
    BY <2>1, <2>2, <2>3, <2>4, <2>5, <2>6, <2>7, <2>8
<1>12. ASSUME NEW r \in Requests, NEW ok \in BOOLEAN, Provision(r, ok) PROVE TypeOK'
  BY <1>12 DEF Provision, Idle, logins, sessions, tokens, CompatAssumption
<1>13. ASSUME NEW r \in Requests, NEW t \in Tokens, StartRefresh(r, t) PROVE TypeOK'
  <2>1. /\ req' \in [Requests -> ReqRow]
        /\ req'[r].step = "refresh" /\ req'[r].id = t
        /\ \A q \in Requests \ {r} : req'[q] = req[q]
    <3> HIDE DEF TypeOK
    <3> DEFINE x == [req[r] EXCEPT !.step = "refresh", !.id = t]
    <3>1. x \in ReqRow /\ x.step = "refresh" /\ x.id = t
      BY <1>0, Ids
    <3>2. req' = [req EXCEPT ![r] = x]
      BY <1>13 DEF StartRefresh
    <3> HIDE DEF x
    <3> QED
      BY <1>0, <3>1, <3>2, SetReq
  <2>2. tokenOf[t] \in Sessions
    BY <1>13 DEF StartRefresh
  <2>3. req[r].step = "idle"
    BY <1>13 DEF StartRefresh, Idle
  <2> QED
    BY <1>13, <2>1, <2>2, <2>3 DEF StartRefresh, logins, sessions, tokens
<1>14. ASSUME NEW r \in Requests, NEW t \in Tokens, Refresh(r, t) PROVE TypeOK'
  BY <1>14 DEF Refresh, NewToken, Consumed, Idle, logins, sessions, tokens, CompatAssumption
<1>15. ASSUME NEW S \in SUBSET Sessions, Logout(S) PROVE TypeOK'
  BY <1>15 DEF Logout, Active, logins, sessions, tokens
<1>16. ASSUME NEW s \in Sessions, Cleanup(s) PROVE TypeOK'
  BY <1>16 DEF Cleanup, logins, sessions, tokens
<1>17. CASE UNCHANGED vars
  BY <1>17 DEF vars, logins, sessions, tokens
<1>18. Active \in SUBSET Sessions /\ \A s \in Sessions : {s} \in SUBSET Sessions
  BY DEF Active
<1>19. ASSUME NEW n \in 0..MaxOthers, OtherSession(n) PROVE TypeOK'
  BY <1>19 DEF OtherSession, logins, tokens
<1> HIDE DEF TypeOK, Steps, ReqRow
<1> QED
  BY <1>1, <1>2, <1>3, <1>4, <1>5, <1>6, <1>7, <1>8, <1>9, <1>10, <1>11, <1>12, <1>13, <1>14,
     <1>15, <1>16, <1>17, <1>18, <1>19 DEF Next

\* Type correctness: rows refer to rows that are there, and the advisory lock is held by
\* exactly the request that is between taking it and its commit.
THEOREM CompatTypes == CompatAssumption /\ Spec => []TypeOK
<1> SUFFICES ASSUME CompatAssumption PROVE Spec => []TypeOK
  OBVIOUS
<1>1. Init => TypeOK
  BY TypesInit
<1>2. TypeOK /\ [Next]_vars => TypeOK'
  BY TypesStep
<1> QED
  BY <1>1, <1>2, PTL DEF Spec

-----------------------------------------------------------------------------
(* Devices and limits.                                                     *)

\* A request that has counted will end every session of its device, and leaves room for
\* its own; nobody else can add a compatibility session before it commits.
CountInv ==
    \A r \in Requests : req[r].step = "counted" =>
        /\ Replaced(req[r].device) \subseteq req[r].evict
        /\ req[r].room = MaxSessions \/ Cardinality(Active \ req[r].evict) < req[r].room

LoginInv == TypeOK /\ OnePerDevice /\ CountInv

\* A step that starts no session and counts none.
Quiet ==
    /\ Active' \subseteq Active /\ device' = device
    /\ \A q \in Requests : req'[q].step = "counted" => req'[q] = req[q]

LEMMA ActiveFinite ==
    ASSUME CompatAssumption, NEW S \in SUBSET Sessions
    PROVE  IsFiniteSet(S) /\ Cardinality(S) \in Nat
<1>1. IsFiniteSet(Sessions)
  BY FS_Interval, 1 \in Int, MaxSessions \in Int DEF CompatAssumption, Sessions
<1>2. IsFiniteSet(S)
  BY <1>1, FS_Subset
<1> QED
  BY <1>2, FS_CardinalityType

\* Fewer sessions, a smaller number of them.
LEMMA FewerSessions ==
    ASSUME CompatAssumption, NEW S \in SUBSET Sessions, NEW T \in SUBSET S
    PROVE  Cardinality(T) \in Nat /\ Cardinality(S) \in Nat /\ Cardinality(T) <= Cardinality(S)
<1>1. IsFiniteSet(S) /\ Cardinality(S) \in Nat /\ Cardinality(T) \in Nat
  BY ActiveFinite
<1> QED
  BY <1>1, FS_Subset

LEMMA QuietSteps ==
    ASSUME TypeOK, [Next]_vars, ~\E r \in Requests, o \in SUBSET {0} : Count(r, o),
           ~\E r \in Requests, s \in Sessions, t \in Tokens : Commit(r, s, t)
    PROVE  Quiet
<1>0. sess \in [Sessions -> {"none", "active", "finished", "gone"}] /\ req \in [Requests -> ReqRow]
  BY DEF TypeOK
<1> USE DEF Quiet, Active
<1>1. ASSUME NEW l \in SsoLogins, SsoRedirect(l) PROVE Quiet
  BY <1>1 DEF SsoRedirect, sessions
<1>2. ASSUME NEW p \in Posts, NEW l \in SsoLogins, NEW b \in BrowserSessions, SsoCheck(p, l, b)
      PROVE  Quiet
  BY <1>2 DEF SsoCheck, sessions
<1>3. ASSUME NEW p \in Posts, SsoFulfill(p) \/ SsoDrop(p) PROVE Quiet
  BY <1>3 DEF SsoFulfill, SsoDrop, sessions
<1>5. ASSUME NEW b \in BrowserSessions, EndBrowserSession(b) PROVE Quiet
  BY <1>5 DEF EndBrowserSession, sessions
<1>6. ASSUME NEW r \in Requests, NEW d \in Devices, StartPassword(r, d) PROVE Quiet
  BY <1>0, <1>6 DEF StartPassword, sessions, ReqRow
<1>7. ASSUME NEW r \in Requests, NEW l \in SsoLogins, NEW d \in Devices, StartToken(r, l, d)
      PROVE  Quiet
  BY <1>0, <1>7 DEF StartToken, sessions, ReqRow
<1>8. ASSUME NEW r \in Requests, Acquire(r) \/ Rollback(r) PROVE Quiet
  BY <1>0, <1>8 DEF Acquire, Rollback, Idle, sessions, ReqRow
<1>12. ASSUME NEW r \in Requests, NEW ok \in BOOLEAN, Provision(r, ok) PROVE Quiet
  BY <1>0, <1>12 DEF Provision, Idle
<1>13. ASSUME NEW r \in Requests, NEW t \in Tokens, StartRefresh(r, t) PROVE Quiet
  BY <1>0, <1>13 DEF StartRefresh, sessions, ReqRow
<1>14. ASSUME NEW r \in Requests, NEW t \in Tokens, Refresh(r, t) PROVE Quiet
  BY <1>0, <1>14 DEF Refresh, Idle, sessions
<1>15. ASSUME NEW S \in SUBSET Sessions, Logout(S) PROVE Quiet
  BY <1>0, <1>15 DEF Logout
<1>16. ASSUME NEW s \in Sessions, Cleanup(s) PROVE Quiet
  BY <1>0, <1>16 DEF Cleanup
<1>17. CASE UNCHANGED vars
  BY <1>17 DEF vars, sessions
<1>18. Active \in SUBSET Sessions /\ \A s \in Sessions : {s} \in SUBSET Sessions
  OBVIOUS
<1>19. ASSUME NEW n \in 0..MaxOthers, OtherSession(n) PROVE Quiet
  BY <1>19 DEF OtherSession
<1> HIDE DEF Quiet, Active
<1> QED
  BY <1>1, <1>2, <1>3, <1>5, <1>6, <1>7, <1>8, <1>12, <1>13, <1>14, <1>15, <1>16, <1>17, <1>18,
     <1>19 DEF Next

LEMMA QuietKeeps == CompatAssumption /\ LoginInv /\ Quiet => (OnePerDevice /\ CountInv)'
<1> SUFFICES ASSUME CompatAssumption, LoginInv, Quiet
             PROVE  (OnePerDevice /\ CountInv)'
  OBVIOUS
<1>1. Active' \subseteq Active /\ device' = device /\ Active \subseteq Sessions
  BY DEF Quiet, Active
<1>2. OnePerDevice'
  BY <1>1 DEF LoginInv, OnePerDevice
<1>3. ASSUME NEW r \in Requests, req'[r].step = "counted"
      PROVE  /\ Replaced(req[r].device)' \subseteq req'[r].evict
             /\ \/ req'[r].room = MaxSessions
                \/ Cardinality(Active' \ req'[r].evict) < req'[r].room
  <2>1. req'[r] = req[r]
    BY <1>3 DEF Quiet
  <2>2. /\ Replaced(req[r].device) \subseteq req[r].evict
        /\ req[r].room = MaxSessions \/ Cardinality(Active \ req[r].evict) < req[r].room
    BY <1>3, <2>1 DEF LoginInv, CountInv
  <2>3. Replaced(req[r].device)' \subseteq Replaced(req[r].device)
    BY <1>1, <2>1 DEF Replaced
  <2> DEFINE S == Active \ req[r].evict
             T == Active' \ req[r].evict
  <2>4. S \in SUBSET Sessions /\ T \in SUBSET S
    BY <1>1
  <2>5. Cardinality(T) <= Cardinality(S) /\ Cardinality(T) \in Nat /\ Cardinality(S) \in Nat
    <3> HIDE DEF S, T
    <3> QED
      BY <2>4, FewerSessions
  <2>6. req[r].room \in Int
    BY DEF LoginInv, TypeOK, ReqRow
  <2>7. req[r].room = MaxSessions \/ Cardinality(T) < req[r].room
    BY <2>2, <2>5, <2>6
  <2> QED
    BY <2>1, <2>2, <2>3, <2>7
<1> QED
  BY <1>2, <1>3 DEF CountInv

LEMMA CountKeeps ==
    ASSUME CompatAssumption, LoginInv, NEW r \in Requests, NEW o \in SUBSET {0}, Count(r, o)
    PROVE  (OnePerDevice /\ CountInv)'
<1> DEFINE old == Replaced(req[r].device) \cup o
           need == IF old # {} THEN 0 ELSE NeedToRemove(Total(Active))
<1>1. PICK S \in SUBSET Active :
         /\ Cardinality(S) = need
         /\ req' = [req EXCEPT ![r].step = "counted", ![r].evict = old \cup S,
                               ![r].room = Room(old)]
  BY DEF Count
<1>2. UNCHANGED <<sess, device>>
  BY DEF Count, sessions
<1>3. req \in [Requests -> ReqRow]
  BY DEF LoginInv, TypeOK
<1>4. /\ req'[r].device = req[r].device /\ req'[r].evict = old \cup S
      /\ req'[r].room = Room(old)
      /\ \A q \in Requests \ {r} : req'[q] = req[q]
  <2> DEFINE n == Room(old)
  <2> HIDE DEF old, need, n
  <2>1. req' = [req EXCEPT ![r].step = "counted", ![r].evict = old \cup S, ![r].room = n]
    BY <1>1 DEF n
  <2> QED
    BY <1>3, <2>1 DEF ReqRow, n
<1>5. Active' = Active /\ \A d : Replaced(d)' = Replaced(d)
  BY <1>2 DEF Active, Replaced
<1>6. OnePerDevice'
  BY <1>2, <1>5 DEF LoginInv, OnePerDevice
<1>7. Active \in SUBSET Sessions /\ S \in SUBSET Sessions
  BY DEF Active
<1>8. Room(old) = MaxSessions \/ Cardinality(Active \ (old \cup S)) < Room(old)
  <2>1. SUFFICES ASSUME old = {}, Limited(Total(Active))
                 PROVE  Cardinality(Active \ S) < HardLimit - others
    BY DEF Room
  <2>2. /\ IsFiniteSet(Active) /\ Cardinality(Active) \in Nat
        /\ IsFiniteSet(S) /\ Cardinality(S) \in Nat
    BY <1>7, ActiveFinite
  <2>3. Active \cap S = S
    OBVIOUS
  <2>4. Cardinality(Active \ S) = Cardinality(Active) - Cardinality(S)
    BY <2>2, <2>3, FS_Difference
  <2>5. Cardinality(S) = NeedToRemove(Cardinality(Active) + others)
    BY <1>1, <2>1 DEF Total
  <2>6. Limited(Cardinality(Active) + others) /\ others \in Nat /\ HardLimit \in Nat
    BY <2>1 DEF Total, LoginInv, TypeOK, CompatAssumption
  <2> HIDE DEF old, need
  <2> QED
    BY <2>2, <2>4, <2>5, <2>6 DEF NeedToRemove
<1>9. ASSUME NEW q \in Requests, req'[q].step = "counted"
      PROVE  /\ Replaced(req[q].device)' \subseteq req'[q].evict
             /\ \/ req'[q].room = MaxSessions
                \/ Cardinality(Active' \ req'[q].evict) < req'[q].room
  <2>1. CASE q = r
    <3>1. Replaced(req[r].device)' \subseteq old
      BY <1>2, <1>4, <1>5 DEF Replaced
    <3> HIDE DEF old, need
    <3> QED
      BY <1>4, <1>5, <1>8, <2>1, <3>1
  <2>2. CASE q # r
    <3>1. req'[q] = req[q]
      BY <1>4, <2>2
    <3>2. /\ Replaced(req[q].device) \subseteq req[q].evict
          /\ req[q].room = MaxSessions \/ Cardinality(Active \ req[q].evict) < req[q].room
      BY <1>9, <3>1 DEF LoginInv, CountInv
    <3> QED
      BY <1>5, <3>1, <3>2 DEF Replaced
  <2> QED
    BY <2>1, <2>2
<1> QED
  BY <1>6, <1>9 DEF CountInv

LEMMA CommitKeeps ==
    ASSUME CompatAssumption, LoginInv,
           NEW r \in Requests, NEW s \in Sessions, NEW t \in Tokens, Commit(r, s, t)
    PROVE  (OnePerDevice /\ CountInv)' /\ Cardinality(Active') <= req[r].room
<1> DEFINE E == req[r].evict
           d == req[r].device
<1>1. /\ sess \in [Sessions -> {"none", "active", "finished", "gone"}]
      /\ device \in [Sessions -> Devices \cup {"none"}]
      /\ req \in [Requests -> ReqRow]
  BY DEF LoginInv, TypeOK
<1>2. req[r].step = "counted" /\ sess[s] = "none"
  BY DEF Commit
<1>3. /\ Replaced(d) \subseteq E
      /\ req[r].room = MaxSessions \/ Cardinality(Active \ E) < req[r].room
  BY <1>2 DEF LoginInv, CountInv
<1>4. Active' = (Active \ E) \cup {s} /\ s \notin Active /\ Active \subseteq Sessions
  BY <1>1, <1>2 DEF Commit, Active
<1>5. device'[s] = d /\ \A q \in Sessions \ {s} : device'[q] = device[q]
  BY <1>1 DEF Commit
<1>6. OnePerDevice'
  <2>1. \A q \in Active \ E : device[q] # d /\ q # s
    BY <1>3, <1>4 DEF Replaced
  <2>2. \A p, q \in Active : device[p] = device[q] => p = q
    BY DEF LoginInv, OnePerDevice
  <2> HIDE DEF E, d
  <2>3. \A p, q \in Active' : device'[p] = device'[q] => p = q
    BY <1>4, <1>5, <2>1, <2>2
  <2> QED
    BY <2>3 DEF OnePerDevice
<1>7. Cardinality(Active') <= req[r].room
  <2> DEFINE S == Active \ E
  <2>1. S \in SUBSET Sessions /\ s \notin S /\ Active' = S \cup {s}
    BY <1>4
  <2>2. req[r].room = MaxSessions \/ Cardinality(S) < req[r].room
    BY <1>3
  <2>3. req[r].room \in Int
    BY <1>1 DEF ReqRow
  <2> HIDE DEF S
  <2>4. IsFiniteSet(S) /\ Cardinality(S) \in Nat
    BY <2>1, ActiveFinite
  <2>5. Cardinality(S \cup {s}) = Cardinality(S) + 1
    BY <2>1, <2>4, FS_AddElement
  <2>6. Cardinality(Sessions) = MaxSessions
    <3>1. MaxSessions \in Nat \ {0}
      BY DEF CompatAssumption
    <3>2. Cardinality(1..MaxSessions) = MaxSessions - 1 + 1
      BY <3>1, FS_Interval
    <3> QED
      BY <3>1, <3>2 DEF Sessions
  <2>7. S \cup {s} \in SUBSET Sessions
    BY <2>1
  <2>8. Cardinality(S \cup {s}) <= MaxSessions
    BY <2>6, <2>7, FewerSessions
  <2> QED
    BY <2>1, <2>2, <2>3, <2>4, <2>5, <2>8
<1>8. \A q \in Requests : req'[q].step # "counted"
  <2>1. \A q \in Requests \ {r} : req[q].step # "counted"
    BY <1>2 DEF LoginInv, TypeOK
  <2>2. req' = [req EXCEPT ![r] = [Idle EXCEPT !.step = "saved", !.id = s]]
    BY DEF Commit
  <2>3. req'[r].step = "saved" /\ \A q \in Requests \ {r} : req'[q] = req[q]
    BY <1>1, <2>2 DEF Idle
  <2> QED
    BY <2>1, <2>3
<1> QED
  BY <1>6, <1>7, <1>8 DEF CountInv

LEMMA LoginStep == CompatAssumption /\ LoginInv /\ [Next]_vars => LoginInv'
<1> SUFFICES ASSUME CompatAssumption, LoginInv, [Next]_vars PROVE LoginInv'
  OBVIOUS
<1>1. TypeOK'
  BY TypesStep DEF LoginInv
<1>2. CASE \E r \in Requests, o \in SUBSET {0} : Count(r, o)
  BY <1>1, <1>2, CountKeeps DEF LoginInv
<1>3. CASE \E r \in Requests, s \in Sessions, t \in Tokens : Commit(r, s, t)
  BY <1>1, <1>3, CommitKeeps DEF LoginInv
<1>4. CASE /\ ~\E r \in Requests, o \in SUBSET {0} : Count(r, o)
           /\ ~\E r \in Requests, s \in Sessions, t \in Tokens : Commit(r, s, t)
  <2>1. Quiet
    BY <1>4, QuietSteps DEF LoginInv
  <2> QED
    BY <1>1, <2>1, QuietKeeps DEF LoginInv
<1> QED
  BY <1>2, <1>3, <1>4

LEMMA LoginInit == CompatAssumption /\ Init => LoginInv
<1> SUFFICES ASSUME CompatAssumption, Init PROVE LoginInv
  OBVIOUS
<1>1. TypeOK
  BY TypesInit
<1>2. Active \subseteq {1}
  BY DEF Init, Active
<1>3. OnePerDevice
  BY <1>2 DEF OnePerDevice
<1>5. CountInv
  BY DEF Init, Idle, CountInv
<1> QED
  BY <1>1, <1>3, <1>5 DEF LoginInv

\* Any number of logins at the same time never leave a device with two sessions, although each
\* reads the sessions of its device before it commits (login.rs, finish_sessions_to_replace_device).
THEOREM DeviceUnique == CompatAssumption /\ Spec => []OnePerDevice
<1> SUFFICES ASSUME CompatAssumption PROVE Spec => []OnePerDevice
  OBVIOUS
<1>1. Init => LoginInv
  BY LoginInit
<1>2. LoginInv /\ [Next]_vars => LoginInv'
  BY LoginStep
<1>3. LoginInv => OnePerDevice
  BY DEF LoginInv
<1> QED
  BY <1>1, <1>2, <1>3, PTL DEF Spec

\* What WithinLimit says of a step.
RoomLeft ==
    \A r \in Requests : req[r].step = "counted" /\ req'[r].step = "saved" =>
                            Cardinality(Active') <= req[r].room

LEMMA RoomStep ==
    ASSUME CompatAssumption, LoginInv, [Next]_vars
    PROVE  RoomLeft
<1> SUFFICES ASSUME NEW r \in Requests, req[r].step = "counted", req'[r].step = "saved"
             PROVE  Cardinality(Active') <= req[r].room
  BY DEF RoomLeft
<1>0. req \in [Requests -> ReqRow]
  BY DEF LoginInv, TypeOK
<1>1. \E q \in Requests, s \in Sessions, t \in Tokens : Commit(q, s, t) /\ q = r
  <2>1. ASSUME NEW q \in Requests, NEW s \in Sessions, NEW t \in Tokens, Commit(q, s, t)
        PROVE  q = r
    BY <1>0, <2>1 DEF Commit
  <2>2. ASSUME NEW q \in Requests, NEW o \in SUBSET {0}, Count(q, o) PROVE FALSE
    <3>1. PICK E, n : req' = [req EXCEPT ![q].step = "counted", ![q].evict = E, ![q].room = n]
      BY <2>2 DEF Count
    <3> QED
      BY <1>0, <3>1 DEF ReqRow
  <2>3. ASSUME NEW q \in Requests, Acquire(q) \/ Rollback(q) \/ (\E ok \in BOOLEAN : Provision(q, ok))
                 \/ (\E d \in Devices : StartPassword(q, d) \/ \E l \in SsoLogins : StartToken(q, l, d))
                 \/ (\E t \in Tokens : StartRefresh(q, t) \/ Refresh(q, t))
        PROVE  FALSE
    <3>1. \A x \in Requests \ {q} : req'[x] = req[x]
      BY <1>0, <2>3 DEF Acquire, Rollback, Provision, StartPassword, StartToken, StartRefresh,
                        Refresh
    <3>2. q = r
      BY <3>1
    <3>3. CASE Acquire(q) \/ Rollback(q) \/ (\E ok \in BOOLEAN : Provision(q, ok))
      BY <1>0, <3>2, <3>3 DEF Acquire, Rollback, Provision, Idle, ReqRow
    <3>4. CASE \E d \in Devices : StartPassword(q, d) \/ \E l \in SsoLogins : StartToken(q, l, d)
      BY <1>0, <3>2, <3>4 DEF StartPassword, StartToken, Idle, ReqRow
    <3>5. CASE \E t \in Tokens : StartRefresh(q, t) \/ Refresh(q, t)
      BY <1>0, <3>2, <3>5 DEF StartRefresh, Refresh, Idle, ReqRow
    <3> QED
      BY <2>3, <3>3, <3>4, <3>5
  <2>4. req' # req
    OBVIOUS
  <2>5. \E q \in Requests :
           \/ \E d \in Devices : StartPassword(q, d) \/ \E l \in SsoLogins : StartToken(q, l, d)
           \/ Acquire(q) \/ Rollback(q)
           \/ \E o \in SUBSET {0} : Count(q, o)
           \/ \E s \in Sessions, t \in Tokens : Commit(q, s, t)
           \/ \E ok \in BOOLEAN : Provision(q, ok)
           \/ \E t \in Tokens : StartRefresh(q, t) \/ Refresh(q, t)
    BY <2>4 DEF Next, vars, SsoRedirect, SsoCheck, SsoFulfill, SsoDrop, EndBrowserSession, Logout,
                Cleanup, OtherSession
  <2> QED
    BY <2>1, <2>2, <2>3, <2>5
<1> QED
  BY <1>1, CommitKeeps

\* Any number of logins at the same time never use the same room under the hard limit,
\* whatever the limit and the threshold are, however many sessions of other kinds come and
\* go, and whether a login evicts sessions or is refused (login.rs, compat_login.rego).
THEOREM HardLimitKept == CompatAssumption /\ Spec => WithinLimit
<1> SUFFICES ASSUME CompatAssumption PROVE Spec => WithinLimit
  OBVIOUS
<1>1. Init => LoginInv
  BY LoginInit
<1>2. LoginInv /\ [Next]_vars => LoginInv'
  BY LoginStep
<1>3. LoginInv /\ [Next]_vars => RoomLeft
  BY RoomStep
<1> QED
  BY <1>1, <1>2, <1>3, PTL DEF Spec, WithinLimit, RoomLeft

-----------------------------------------------------------------------------
(* Refresh tokens.                                                         *)

LEMMA RefreshStep == CompatAssumption /\ TypeOK /\ OneRefreshToken /\ [Next]_vars => OneRefreshToken'
<1> SUFFICES ASSUME CompatAssumption, TypeOK, OneRefreshToken, [Next]_vars PROVE OneRefreshToken'
  OBVIOUS
<1>0. /\ tokenOf \in [Tokens -> Sessions \cup {0}] /\ valid \subseteq Tokens
      /\ \A t \in valid : tokenOf[t] # 0 /\ sess[tokenOf[t]] \in {"active", "finished"}
      /\ \A t, u \in valid : tokenOf[t] = tokenOf[u] => t = u \/ {t, u} \subseteq 1..Imported
  BY DEF TypeOK, OneRefreshToken
<1>1. ASSUME NEW r \in Requests, NEW s \in Sessions, NEW t \in Tokens, Commit(r, s, t)
      PROVE  OneRefreshToken'
  <2>1. CASE UNCHANGED tokens
    BY <1>0, <2>1 DEF tokens, OneRefreshToken
  <2>2. CASE NewToken(t, s) /\ valid' = valid \cup {t}
    <3>1. \A u \in valid : tokenOf[u] # s
      BY <1>0, <1>1 DEF Commit
    <3>2. tokenOf'[t] = s /\ \A u \in valid \ {t} : tokenOf'[u] = tokenOf[u]
      BY <1>0, <2>2 DEF NewToken
    <3> QED
      BY <1>0, <2>2, <3>1, <3>2 DEF OneRefreshToken
  <2> QED
    BY <1>1, <2>1, <2>2 DEF Commit
<1>2. ASSUME NEW r \in Requests, NEW t \in Tokens, Refresh(r, t) PROVE OneRefreshToken'
  <2> DEFINE old == req[r].id
  <2>1. /\ tokenOf[t] = 0 /\ tokenOf' = [tokenOf EXCEPT ![t] = tokenOf[old]]
        /\ valid' = (valid \ {u \in valid : tokenOf[u] = tokenOf[old]}) \cup {t}
    BY <1>2 DEF Refresh, NewToken, Consumed
  <2> HIDE DEF old
  <2>2. tokenOf'[t] = tokenOf[old] /\ \A u \in valid : u # t /\ tokenOf'[u] = tokenOf[u]
    BY <1>0, <2>1
  <2> QED
    BY <1>0, <2>1, <2>2 DEF OneRefreshToken
<1>3. ASSUME NEW s \in Sessions, Cleanup(s) PROVE OneRefreshToken'
  BY <1>0, <1>3 DEF Cleanup, OneRefreshToken
<1>4. CASE UNCHANGED <<tokenOf, valid>>
  BY <1>0, <1>4 DEF OneRefreshToken
<1>5. \/ UNCHANGED <<tokenOf, valid>>
      \/ \E r \in Requests, s \in Sessions, t \in Tokens : Commit(r, s, t)
      \/ \E r \in Requests, t \in Tokens : Refresh(r, t)
      \/ \E s \in Sessions : Cleanup(s)
  BY DEF Next, vars, tokens, SsoRedirect, SsoCheck, SsoFulfill, SsoDrop, EndBrowserSession,
         StartPassword, StartToken, Acquire, Count, Rollback, Provision, StartRefresh, Logout,
         OtherSession
<1> QED
  BY <1>1, <1>2, <1>3, <1>4, <1>5

\* However many requests present the same refresh token at the same time, one of the tokens
\* of a session is valid, or those that were imported.
THEOREM RefreshTokensUnique == CompatAssumption /\ Spec => []OneRefreshToken
<1> SUFFICES ASSUME CompatAssumption PROVE Spec => []OneRefreshToken
  OBVIOUS
<1>1. Init => TypeOK /\ OneRefreshToken
  <2>1. Init => OneRefreshToken
    BY DEF Init, OneRefreshToken
  <2> QED
    BY <2>1, TypesInit
<1>2. TypeOK /\ OneRefreshToken /\ [Next]_vars => (TypeOK /\ OneRefreshToken)'
  BY TypesStep, RefreshStep
<1> QED
  BY <1>1, <1>2, PTL DEF Spec

-----------------------------------------------------------------------------
(* SSO logins.                                                             *)

\* Of an SSO login that was never exchanged twice at a time: one request has it loaded, and
\* as long as one has, or as it can be loaded again, it has given no session.
SsoInv ==
    \A l \in SsoLogins \ overlapped :
        /\ \A r, q \in Requests : req[r].sso = l /\ req[q].sso = l => r = q
        /\ (\E r \in Requests : req[r].sso = l) \/ sso[l] \in {"none", "pending", "fulfilled"}
              => \A s \in Sessions : via[s] # l

ExchangeInv == TypeOK /\ SsoInv /\ ExchangedOnce

\* A step that loads no SSO login and exchanges none.
Idles ==
    /\ via' = via /\ overlapped' = overlapped
    /\ \A r \in Requests : req'[r].sso # "none" => req'[r].sso = req[r].sso
    /\ \A l \in SsoLogins : sso'[l] \in {"none", "pending", "fulfilled"} =>
                                sso[l] \in {"none", "pending", "fulfilled"}

LEMMA IdleSteps ==
    ASSUME TypeOK, [Next]_vars,
           ~\E r \in Requests, l \in SsoLogins, d \in Devices : StartToken(r, l, d),
           ~\E r \in Requests, s \in Sessions, t \in Tokens : Commit(r, s, t)
    PROVE  Idles
<1>0. /\ sso \in [SsoLogins -> {"none", "pending", "fulfilled", "exchanged", "gone"}]
      /\ req \in [Requests -> ReqRow]
  BY DEF TypeOK
<1> USE DEF Idles
<1>1. ASSUME NEW l \in SsoLogins, SsoRedirect(l) PROVE Idles
  BY <1>0, <1>1 DEF SsoRedirect, sessions
<1>2. ASSUME NEW p \in Posts, NEW l \in SsoLogins, NEW b \in BrowserSessions, SsoCheck(p, l, b)
      PROVE  Idles
  BY <1>2 DEF SsoCheck, logins, sessions
<1>3. ASSUME NEW p \in Posts, SsoFulfill(p) \/ SsoDrop(p) PROVE Idles
  BY <1>0, <1>3 DEF SsoFulfill, SsoDrop, logins, sessions
<1>4. ASSUME NEW b \in BrowserSessions, EndBrowserSession(b) PROVE Idles
  BY <1>4 DEF EndBrowserSession, sessions
<1>5. ASSUME NEW r \in Requests, NEW d \in Devices, StartPassword(r, d) PROVE Idles
  BY <1>0, <1>5 DEF StartPassword, logins, sessions, ReqRow
<1>6. ASSUME NEW r \in Requests, Acquire(r) \/ Rollback(r) PROVE Idles
  BY <1>0, <1>6 DEF Acquire, Rollback, Idle, logins, sessions, ReqRow
<1>7. ASSUME NEW r \in Requests, NEW o \in SUBSET {0}, Count(r, o) PROVE Idles
  <2>1. PICK E, n : req' = [req EXCEPT ![r].step = "counted", ![r].evict = E, ![r].room = n]
    BY <1>7 DEF Count
  <2>2. \A q \in Requests : req'[q].sso = req[q].sso
    BY <1>0, <2>1 DEF ReqRow
  <2> QED
    BY <1>7, <2>2 DEF Count, logins, sessions
<1>8. ASSUME NEW r \in Requests, NEW ok \in BOOLEAN, Provision(r, ok) PROVE Idles
  BY <1>0, <1>8 DEF Provision, Idle, logins
<1>9. ASSUME NEW r \in Requests, NEW t \in Tokens, StartRefresh(r, t) PROVE Idles
  BY <1>0, <1>9 DEF StartRefresh, logins, sessions, ReqRow
<1>10. ASSUME NEW r \in Requests, NEW t \in Tokens, Refresh(r, t) PROVE Idles
  BY <1>0, <1>10 DEF Refresh, Idle, logins, sessions
<1>11. ASSUME NEW S \in SUBSET Sessions, Logout(S) PROVE Idles
  BY <1>11 DEF Logout, logins
<1>12. ASSUME NEW s \in Sessions, Cleanup(s) PROVE Idles
  BY <1>0, <1>12 DEF Cleanup
<1>13. CASE UNCHANGED vars
  BY <1>13 DEF vars, logins, sessions
<1>14. Active \in SUBSET Sessions /\ \A s \in Sessions : {s} \in SUBSET Sessions
  BY DEF Active
<1>15. ASSUME NEW n \in 0..MaxOthers, OtherSession(n) PROVE Idles
  BY <1>15 DEF OtherSession, logins
<1> HIDE DEF Idles
<1> QED
  BY <1>1, <1>2, <1>3, <1>4, <1>5, <1>6, <1>7, <1>8, <1>9, <1>10, <1>11, <1>12, <1>13, <1>14,
     <1>15 DEF Next

LEMMA ExchangeStep == CompatAssumption /\ ExchangeInv /\ [Next]_vars => (SsoInv /\ ExchangedOnce)'
<1> SUFFICES ASSUME CompatAssumption, ExchangeInv, [Next]_vars PROVE (SsoInv /\ ExchangedOnce)'
  OBVIOUS
<1>0. /\ req \in [Requests -> ReqRow] /\ via \in [Sessions -> SsoLogins \cup {"none"}]
      /\ sso \in [SsoLogins -> {"none", "pending", "fulfilled", "exchanged", "gone"}]
      /\ overlapped \subseteq SsoLogins
      /\ "none" \notin SsoLogins
  BY DEF ExchangeInv, TypeOK, CompatAssumption
<1>1. CASE Idles
  BY <1>0, <1>1 DEF Idles, ExchangeInv, SsoInv, ExchangedOnce
<1>2. ASSUME NEW r \in Requests, NEW l \in SsoLogins, NEW d \in Devices, StartToken(r, l, d)
      PROVE  (SsoInv /\ ExchangedOnce)'
  <2>1. /\ req'[r].sso = l /\ \A q \in Requests \ {r} : req'[q] = req[q]
        /\ req[r].sso = "none"
    BY <1>0, <1>2 DEF StartToken, Idle, ReqRow
  <2>2. UNCHANGED <<sso, via>> /\ sso[l] = "fulfilled" /\ overlapped \subseteq overlapped'
    BY <1>2 DEF StartToken, Exchangeable, logins, sessions
  <2>3. l \notin overlapped' => \A q \in Requests : req[q].sso # l
    BY <1>0, <1>2 DEF StartToken
  <2> QED
    BY <1>0, <2>1, <2>2, <2>3 DEF ExchangeInv, SsoInv, ExchangedOnce
<1>3. ASSUME NEW r \in Requests, NEW s \in Sessions, NEW t \in Tokens, Commit(r, s, t)
      PROVE  (SsoInv /\ ExchangedOnce)'
  <2> DEFINE l == req[r].sso
  <2>1. req'[r].sso = "none" /\ \A q \in Requests \ {r} : req'[q] = req[q]
    BY <1>0, <1>3 DEF Commit, Idle
  <2>2. /\ via'[s] = l /\ \A q \in Sessions \ {s} : via'[q] = via[q]
        /\ overlapped' = overlapped
    BY <1>0, <1>3 DEF Commit
  <2>3. /\ l \in SsoLogins => sso'[l] = "exchanged"
        /\ \A k \in SsoLogins \ {l} : sso'[k] = sso[k]
    BY <1>0, <1>3 DEF Commit
  <2>4. l \in SsoLogins \ overlapped => \A q \in Sessions : via[q] # l
    BY DEF ExchangeInv, SsoInv
  <2> HIDE DEF l
  <2>5. l \in SsoLogins \ overlapped => \A q \in Requests \ {r} : req[q].sso # l
    BY DEF ExchangeInv, SsoInv, l
  <2>6. SsoInv'
    BY <1>0, <2>1, <2>2, <2>3, <2>4, <2>5 DEF ExchangeInv, SsoInv
  <2>7. ExchangedOnce'
    BY <1>0, <2>2, <2>4 DEF ExchangeInv, ExchangedOnce
  <2> QED
    BY <2>6, <2>7
<1> QED
  BY <1>1, <1>2, <1>3, IdleSteps DEF ExchangeInv

\* The token of an SSO login that is not exchanged by two requests at a time gives one
\* session, whatever else runs in between.
THEOREM SsoExchangedOnce == CompatAssumption /\ Spec => []ExchangedOnce
<1> SUFFICES ASSUME CompatAssumption PROVE Spec => []ExchangedOnce
  OBVIOUS
<1>1. Init => ExchangeInv
  <2>1. Init => SsoInv /\ ExchangedOnce
    BY DEF Init, Idle, SsoInv, ExchangedOnce, CompatAssumption
  <2> QED
    BY <2>1, TypesInit DEF ExchangeInv
<1>2. ExchangeInv /\ [Next]_vars => ExchangeInv'
  BY TypesStep, ExchangeStep DEF ExchangeInv
<1>3. ExchangeInv => ExchangedOnce
  BY DEF ExchangeInv
<1> QED
  BY <1>1, <1>2, <1>3, PTL DEF Spec

=============================================================================
