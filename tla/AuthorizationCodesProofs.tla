---------------------- MODULE AuthorizationCodesProofs ----------------------
(***************************************************************************)
(* What holds of an authorization code or a device code for any number of  *)
(* browser sessions, consent forms and token requests, whatever overlaps.  *)
(***************************************************************************)
EXTENDS DeviceCodes, TLAPS

-----------------------------------------------------------------------------
(* Authorization codes.                                                    *)

\* A grant that a request was found with stays fulfilled, and what the request
\* has read of it names a browser session.
FoundInv ==
    \A r \in Requests :
        pc[r] \in {"found", "issue"} =>
            grant.fulfilled # 0 /\ grant.browser # NoBrowser /\ snap[r].browser # NoBrowser

RowInv == TypeOK /\ GrantReadable /\ FoundInv

LEMMA FulfillRow ==
    ASSUME TypeOK, NEW g \in GrantRow, NEW b \in Browsers
    PROVE  /\ fulfill(g, b) \in GrantRow
           /\ fulfill(g, b).fulfilled = now /\ fulfill(g, b).browser = b
           /\ fulfill(g, b).exchanged = g.exchanged
           /\ fulfill(g, b).session = g.session
  BY DEF fulfill, GrantRow, TypeOK

LEMMA ExchangeRow ==
    ASSUME TypeOK, NEW g \in GrantRow, NEW s \in Nat
    PROVE  /\ exchange(g, s) \in GrantRow
           /\ exchange(g, s).fulfilled = g.fulfilled
           /\ exchange(g, s).browser = g.browser
           /\ exchange(g, s).exchanged = now /\ exchange(g, s).session = s
  BY DEF exchange, GrantRow, TypeOK

\* What finishing the sessions in S does to the table.
LEMMA FinishAllRows ==
    ASSUME TypeOK, NEW S
    PROVE  /\ FinishAll(S) \in [1 .. started -> SessionRow]
           /\ \A s \in 1 .. started :
                 /\ FinishAll(S)[s].browser = sessions[s].browser
                 /\ sessions[s].finished \/ s \in S => FinishAll(S)[s].finished
<1>1. DOMAIN sessions = 1 .. started
  BY DEF TypeOK
<1>2. \A s \in 1 .. started : sessions[s] \in SessionRow
  BY DEF TypeOK
<1>3. ASSUME NEW s \in 1 .. started
      PROVE  /\ FinishAll(S)[s] \in SessionRow
             /\ FinishAll(S)[s].browser = sessions[s].browser
             /\ sessions[s].finished \/ s \in S => FinishAll(S)[s].finished
  BY <1>1, <1>2 DEF FinishAll, SessionRow
<1> QED
  BY <1>1, <1>3 DEF FinishAll

LEMMA NewGrantRow == CodesAssumption => NewGrant \in GrantRow
  BY DEF NewGrant, GrantRow, CodesAssumption

\* Type correctness of the steps.
LEMMA TypesStep ==
    ASSUME TypeOK, FoundInv, [Next]_vars
    PROVE  TypeOK'
<1> USE DEF TypeOK, history, Overlap
<1>1. CASE UNCHANGED vars
  BY <1>1 DEF vars
<1>2. CASE Advance
  BY <1>2, CodesAssumption DEF Advance, CodesAssumption
<1>3. ASSUME NEW p \in Posts, NEW b \in Browsers, LoadConsent(p, b)
      PROVE  TypeOK'
  BY <1>3 DEF LoadConsent
<1>4. ASSUME NEW p \in Posts, SaveConsent(p)
      PROVE  TypeOK'
  <2>1. post[p] \in Browsers
    BY <1>4 DEF SaveConsent
  <2> QED
    BY <1>4, <2>1, FulfillRow DEF SaveConsent
<1>5. ASSUME NEW p \in Posts, DropConsent(p)
      PROVE  TypeOK'
  BY <1>5 DEF DropConsent
<1>6. ASSUME NEW r \in Requests, FindCode(r)
      PROVE  TypeOK'
  BY <1>6 DEF FindCode
<1>7. ASSUME NEW r \in Requests, CheckBrowser(r)
      PROVE  TypeOK'
  BY <1>7 DEF CheckBrowser
<1>8. ASSUME NEW r \in Requests, ExchangeCode(r)
      PROVE  TypeOK'
  <2>1. snap[r].browser \in Browsers
    BY <1>8 DEF ExchangeCode, FoundInv, GrantRow
  <2>2. started' = started + 1 /\ started' \in Nat
    BY <1>8 DEF ExchangeCode
  <2>3. ASSUME NEW s \in 1 .. (started + 1)
        PROVE  (IF s = started + 1 THEN [browser |-> snap[r].browser, finished |-> FALSE]
                                   ELSE sessions[s]) \in SessionRow
    BY <2>1, <2>3 DEF SessionRow
  <2>4. sessions' \in [1 .. started' -> SessionRow]
    BY <1>8, <2>2, <2>3 DEF ExchangeCode
  <2>5. grant' \in GrantRow
    BY <1>8, <2>2, ExchangeRow DEF ExchangeCode
  <2> QED
    BY <1>8, <2>2, <2>4, <2>5, NewGrantRow, CodesAssumption DEF ExchangeCode, Done
<1>9. ASSUME NEW r \in Requests, EndReplayed(r)
      PROVE  TypeOK'
  <2>1. sessions' \in [1 .. started' -> SessionRow]
    BY <1>9, FinishAllRows DEF EndReplayed
  <2> QED
    BY <1>9, <2>1, NewGrantRow, CodesAssumption DEF EndReplayed, Done
<1>10. ASSUME NEW r \in Requests, DropRequest(r)
       PROVE  TypeOK'
  BY <1>10, NewGrantRow, CodesAssumption DEF DropRequest, Done
<1>11. ASSUME NEW b \in Browsers, Logout(b)
       PROVE  TypeOK'
  BY <1>11 DEF Logout
<1>12. ASSUME NEW b \in Browsers, RevokeWithLogout(b)
       PROVE  TypeOK'
  BY <1>12, FinishAllRows DEF RevokeWithLogout
<1>13. ASSUME NEW s \in DOMAIN sessions, Revoke(s)
       PROVE  TypeOK'
  BY <1>13, FinishAllRows DEF Revoke
<1>14. CASE Cleanup
  BY <1>14 DEF Cleanup
<1> QED
  BY <1>1, <1>2, <1>3, <1>4, <1>5, <1>6, <1>7, <1>8, <1>9, <1>10, <1>11, <1>12, <1>13, <1>14
  DEF Next

LEMMA RowStep ==
    ASSUME RowInv, [Next]_vars
    PROVE  RowInv'
<1>1. TypeOK'
  BY TypesStep DEF RowInv
<1> USE DEF RowInv, TypeOK, GrantReadable, FoundInv
<1>2. ASSUME UNCHANGED <<grant, started>>,
             \A r \in Requests : pc'[r] \in {"found", "issue"} =>
                                   pc[r] \in {"found", "issue"} /\ snap'[r] = snap[r]
      PROVE  RowInv'
  BY <1>1, <1>2 DEF Pending, Fulfilled, Exchanged
<1>3. CASE UNCHANGED vars \/ Advance \/ Cleanup
  BY <1>2, <1>3 DEF vars, Advance, Cleanup
<1>4. ASSUME NEW p \in Posts, (\E b \in Browsers : LoadConsent(p, b)) \/ DropConsent(p)
      PROVE  RowInv'
  BY <1>2, <1>4 DEF LoadConsent, DropConsent
<1>5. ASSUME NEW p \in Posts, SaveConsent(p)
      PROVE  RowInv'
  <2>1. /\ grant'.fulfilled # 0 /\ grant'.browser \in Browsers /\ grant'.browser # NoBrowser
        /\ grant'.exchanged = grant.exchanged /\ grant'.session = grant.session
    BY <1>5, FulfillRow, CodesAssumption DEF SaveConsent, CodesAssumption
  <2>2. Fulfilled(grant') \/ Exchanged(grant')
    BY <2>1 DEF Pending, NewGrant, Fulfilled, Exchanged
  <2> QED
    BY <1>1, <1>5, <2>1, <2>2 DEF SaveConsent, Pending, Fulfilled, Exchanged
<1>6. ASSUME NEW r \in Requests, FindCode(r)
      PROVE  RowInv'
  <2>1. grant' = grant /\ started' = started
    BY <1>6 DEF FindCode
  <2>2. pc'[r] = "found" => Fulfilled(grant) /\ snap'[r] = grant
    BY <1>6 DEF FindCode
  <2>3. pc'[r] \in {"found", "replay"}
    BY <1>6 DEF FindCode
  <2>4. \A q \in Requests \ {r} : pc'[q] = pc[q] /\ snap'[q] = snap[q]
    BY <1>6 DEF FindCode
  <2> QED
    BY <1>1, <2>1, <2>2, <2>3, <2>4 DEF Pending, Fulfilled, Exchanged
<1>7. ASSUME NEW r \in Requests, CheckBrowser(r) \/ DropRequest(r) \/ EndReplayed(r)
      PROVE  RowInv'
  BY <1>2, <1>7 DEF CheckBrowser, DropRequest, EndReplayed, Done
<1>8. ASSUME NEW r \in Requests, ExchangeCode(r)
      PROVE  RowInv'
  <2>1. /\ grant'.fulfilled = grant.fulfilled /\ grant'.browser = grant.browser
        /\ grant'.exchanged = now /\ grant'.session = started + 1
        /\ started' = started + 1
    <3>1. started + 1 \in Nat
      OBVIOUS
    <3> QED
      BY <1>8, <3>1, ExchangeRow DEF ExchangeCode
  <2>2. grant.fulfilled # 0
    BY <1>8 DEF ExchangeCode
  <2>3. Exchanged(grant')
    BY <2>1, <2>2 DEF Exchanged
  <2>4. \A q \in Requests : pc'[q] \in {"found", "issue"} => pc'[q] = pc[q] /\ snap'[q] = snap[q]
    BY <1>8 DEF ExchangeCode, Done
  <2> QED
    BY <1>1, <2>1, <2>3, <2>4 DEF Pending, Fulfilled, Exchanged
<1>9. ASSUME (\E b \in Browsers : Logout(b) \/ RevokeWithLogout(b))
              \/ \E s \in DOMAIN sessions : Revoke(s)
      PROVE  RowInv'
  BY <1>2, <1>9 DEF Logout, RevokeWithLogout, Revoke
<1> QED
  BY <1>3, <1>4, <1>5, <1>6, <1>7, <1>8, <1>9 DEF Next

LEMMA RowInitial == Init => RowInv
<1>1. NewGrant \in GrantRow
  BY NewGrantRow, CodesAssumption
<1> QED
  BY <1>1, CodesAssumption
  DEF Init, RowInv, TypeOK, GrantReadable, FoundInv, NewGrant, Pending, CodesAssumption

\* The tables of fulfill, exchange, finish and cleanup stay well formed, and a
\* session that was finished keeps its row, whatever runs concurrently.
THEOREM CodeTypes == Spec => []TypeOK
<1>1. Spec => []RowInv
  BY RowInitial, RowStep, PTL DEF Spec
<1>2. RowInv => TypeOK
  BY DEF RowInv
<1> QED
  BY <1>1, <1>2, PTL

\* TryFrom<GrantLookup> accepts the row of the grant, and an exchanged grant names
\* a session that was started, for any number of concurrent consent forms and token
\* requests: fulfill and exchange write by id alone, but nothing they write is ever
\* an inconsistent row.
THEOREM CodeReadable == Spec => []GrantReadable
<1>1. Spec => []RowInv
  BY RowInitial, RowStep, PTL DEF Spec
<1>2. RowInv => GrantReadable
  BY DEF RowInv
<1> QED
  BY <1>1, <1>2, PTL

-----------------------------------------------------------------------------
(* The two flows under one roof, whatever runs concurrently.               *)

\* The rows are well formed; a poll that was let through keeps a consent to start a
\* session for, whatever the consent page writes next.
GrantTypes ==
    /\ DeviceTypeOK /\ FoundInv
    /\ flow = "code" => GrantReadable

LEMMA RejectRow ==
    ASSUME TypeOK, NEW g \in GrantRow, NEW b \in Browsers
    PROVE  /\ reject(g, b) \in GrantRow
           /\ reject(g, b) = [g EXCEPT !.browser = b]
           /\ reject(g, b).fulfilled = g.fulfilled /\ reject(g, b).browser = b
           /\ reject(g, b).exchanged = g.exchanged
           /\ reject(g, b).session = g.session
  BY DEF reject, GrantRow, TypeOK

\* The steps of a device code that are steps of an authorization code too.
SharedStep ==
    /\ \/ UNCHANGED vars
       \/ \E p \in Posts : DropConsent(p)
       \/ \E r \in Requests : ExchangeCode(r) \/ DropRequest(r)
       \/ Advance
       \/ \E b \in Browsers : Logout(b) \/ RevokeWithLogout(b)
       \/ \E s \in DOMAIN sessions : Revoke(s)
       \/ Cleanup
    /\ UNCHANGED rejected

LEMMA SharedIsCode == SharedStep => [Next]_vars
  BY DEF SharedStep, Next

\* What a step of a device code is.
LEMMA DeviceCases ==
    ASSUME DeviceNext \/ UNCHANGED grantVars
    PROVE  \/ SharedStep
           \/ \E p \in Posts, b \in Browsers, a \in {"consent", "reject"} : LoadDevice(p, b, a)
           \/ \E p \in Posts : SaveDevice(p)
           \/ \E r \in Requests : Poll(r)
<1>1. CASE UNCHANGED grantVars
  BY <1>1 DEF grantVars, deviceVars, SharedStep
<1>2. ASSUME NEW p \in Posts, DropDevice(p)
      PROVE  SharedStep
  BY <1>2 DEF DropDevice, SharedStep
<1>3. ASSUME NEW r \in Requests, ExchangeDevice(r) \/ DropPoll(r)
      PROVE  SharedStep
  BY <1>3 DEF ExchangeDevice, DropPoll, SharedStep
<1>4. ASSUME Others
      PROVE  SharedStep
  BY <1>4 DEF Others, SharedStep
<1> QED
  BY <1>1, <1>2, <1>3, <1>4 DEF DeviceNext

\* The answers stay answers.
LEMMA AnswersStep ==
    ASSUME answer \in [Posts -> {"consent", "reject"}], [GrantNext]_grantVars
    PROVE  answer' \in [Posts -> {"consent", "reject"}]
<1>1. CASE UNCHANGED answer
  BY <1>1
<1>2. ASSUME NEW p \in Posts, NEW b \in Browsers, NEW a \in {"consent", "reject"},
             LoadDevice(p, b, a)
      PROVE  answer' \in [Posts -> {"consent", "reject"}]
  BY <1>2 DEF LoadDevice
<1>3. ASSUME NEW p \in Posts, SaveDevice(p) \/ DropDevice(p)
      PROVE  answer' \in [Posts -> {"consent", "reject"}]
  BY <1>3 DEF SaveDevice, DropDevice
<1>4. ASSUME NEW r \in Requests, Poll(r) \/ ExchangeDevice(r) \/ DropPoll(r)
      PROVE  UNCHANGED answer
  BY <1>4 DEF Poll, ExchangeDevice, DropPoll
<1>5. Others => UNCHANGED answer
  BY DEF Others
<1>6. UNCHANGED grantVars => UNCHANGED answer
  BY DEF grantVars, deviceVars
<1> QED
  BY <1>1, <1>2, <1>3, <1>4, <1>5, <1>6 DEF GrantNext, DeviceNext

\* The steps that both kinds of grants share keep what a found request relies on.
LEMMA SharedFound ==
    ASSUME TypeOK, FoundInv, SharedStep
    PROVE  FoundInv'
<1> USE DEF TypeOK, FoundInv
<1>1. ASSUME grant'.fulfilled = grant.fulfilled, grant'.browser = grant.browser,
             \A r \in Requests : pc'[r] \in {"found", "issue"} =>
                                   pc[r] \in {"found", "issue"} /\ snap'[r] = snap[r]
      PROVE  FoundInv'
  BY <1>1
<1>2. CASE UNCHANGED vars \/ Advance \/ Cleanup
  BY <1>1, <1>2 DEF vars, Advance, Cleanup
<1>3. ASSUME NEW p \in Posts, DropConsent(p)
      PROVE  FoundInv'
  BY <1>1, <1>3 DEF DropConsent
<1>4. ASSUME NEW r \in Requests, ExchangeCode(r)
      PROVE  FoundInv'
  <2>1. started + 1 \in Nat
    OBVIOUS
  <2> QED
    BY <1>1, <1>4, <2>1, ExchangeRow DEF ExchangeCode, Done
<1>5. ASSUME NEW r \in Requests, DropRequest(r)
      PROVE  FoundInv'
  BY <1>1, <1>5 DEF DropRequest, Done
<1>6. ASSUME (\E b \in Browsers : Logout(b) \/ RevokeWithLogout(b))
              \/ \E s \in DOMAIN sessions : Revoke(s)
      PROVE  FoundInv'
  BY <1>1, <1>6 DEF Logout, RevokeWithLogout, Revoke
<1> QED
  BY <1>2, <1>3, <1>4, <1>5, <1>6 DEF SharedStep

\* Type correctness of the steps of a device code, with what keeps it.
LEMMA DeviceTypesStep ==
    ASSUME TypeOK, FoundInv, rejected \in Nat, DeviceNext \/ UNCHANGED grantVars
    PROVE  TypeOK' /\ FoundInv' /\ rejected' \in Nat
<1>1. CASE SharedStep
  BY <1>1, SharedIsCode, SharedFound, TypesStep DEF SharedStep
<1>2. ASSUME NEW p \in Posts, NEW b \in Browsers, NEW a \in {"consent", "reject"},
             LoadDevice(p, b, a)
      PROVE  TypeOK' /\ FoundInv' /\ rejected' \in Nat
  BY <1>2 DEF LoadDevice, TypeOK, FoundInv, history
<1>3. ASSUME NEW p \in Posts, SaveDevice(p)
      PROVE  TypeOK' /\ FoundInv' /\ rejected' \in Nat
  <2>1. post[p] \in Browsers /\ grant \in GrantRow /\ now \in Nat /\ now # 0
    BY <1>3 DEF SaveDevice, TypeOK
  <2>2. /\ grant' \in GrantRow /\ rejected' \in Nat
        /\ grant'.browser \in Browsers
        /\ grant'.fulfilled \in {now, grant.fulfilled}
    BY <1>3, <2>1, FulfillRow, RejectRow DEF SaveDevice
  <2>3. TypeOK'
    BY <1>3, <2>1, <2>2 DEF SaveDevice, TypeOK, Overlap
  <2>4. FoundInv'
    BY <1>3, <2>1, <2>2, CodesAssumption DEF SaveDevice, FoundInv, CodesAssumption
  <2> QED
    BY <2>2, <2>3, <2>4
<1>4. ASSUME NEW r \in Requests, Poll(r)
      PROVE  TypeOK' /\ FoundInv' /\ rejected' \in Nat
  <2>1. TypeOK'
    BY <1>4 DEF Poll, TypeOK, history
  <2>2. Fulfilled(grant) /\ grant' = grant /\ snap'[r] = grant
    BY <1>4 DEF Poll, TypeOK, DeviceFulfilled
  <2>3. \A q \in Requests \ {r} : pc'[q] = pc[q] /\ snap'[q] = snap[q]
    BY <1>4 DEF Poll, TypeOK
  <2>4. FoundInv'
    BY <2>2, <2>3 DEF FoundInv, Fulfilled
  <2> QED
    BY <1>4, <2>1, <2>4 DEF Poll
<1> QED
  BY <1>1, <1>2, <1>3, <1>4, DeviceCases

LEMMA GrantTypesStep ==
    ASSUME GrantTypes, [GrantNext]_grantVars
    PROVE  GrantTypes'
<1> USE DEF GrantTypes, DeviceTypeOK
<1>1. flow' = flow
  BY DEF GrantNext, grantVars
<1>2. answer' \in [Posts -> {"consent", "reject"}]
  BY AnswersStep
<1>3. CASE flow = "code" /\ [Next]_vars /\ UNCHANGED rejected
  <2>1. RowInv'
    BY <1>3, RowStep DEF RowInv
  <2> QED
    BY <1>1, <1>2, <1>3, <2>1 DEF RowInv
<1>4. CASE flow = "device" /\ (DeviceNext \/ UNCHANGED grantVars)
  BY <1>1, <1>2, <1>4, DeviceTypesStep
<1> QED
  BY <1>3, <1>4 DEF GrantNext, grantVars, deviceVars

LEMMA GrantTypesInitial == GrantInit => GrantTypes
<1>1. Init => RowInv
  BY RowInitial
<1> QED
  BY <1>1 DEF GrantInit, DeviceInit, GrantTypes, DeviceTypeOK, RowInv

\* The tables of both flows stay well formed whatever runs concurrently: a device
\* that is allowed and rejected by two forms at once may leave a row that cannot be
\* read, but never a session without a browser session.
THEOREM GrantsTyped == GrantSpec => []DeviceTypeOK
<1>1. GrantSpec => []GrantTypes
  BY GrantTypesInitial, GrantTypesStep, PTL DEF GrantSpec
<1>2. GrantTypes => DeviceTypeOK
  BY DEF GrantTypes
<1> QED
  BY <1>1, <1>2, PTL

-----------------------------------------------------------------------------
(* What a step does to the grant, the sessions and the requests.           *)

\* The code of the repository that a step does not run: nobody finds the code good, no
\* form is saved and no session is started.
Quiet ==
    /\ UNCHANGED <<grant, rejected, started, consented>>
    /\ "exchanges" \in overlapped => "exchanges" \in overlapped'
    /\ \A r \in Requests : Exchanging(r)' => Exchanging(r) /\ snap'[r] = snap[r]
    /\ \A s \in 1 .. started : sessions'[s].browser = sessions[s].browser

\* The request r finds the code good, if anybody.
Finds(r) ==
    /\ UNCHANGED <<grant, rejected, started, consented, sessions, overlapped>>
    /\ Exchanging(r)' => Fulfilled(grant) /\ rejected = 0 /\ snap'[r] = grant
    /\ \A q \in Requests \ {r} : pc'[q] = pc[q] /\ snap'[q] = snap[q]

\* A form is saved: a consent, or a rejection.
Saves ==
    /\ UNCHANGED <<started, sessions, pc, snap>>
    /\ "exchanges" \in overlapped => "exchanges" \in overlapped'
    /\ grant'.exchanged = grant.exchanged /\ consented \subseteq consented'
    /\ \/ grant'.browser \in consented' /\ rejected' = rejected
       \/ rejected' # 0

Starts(r) == ExchangeCode(r) /\ UNCHANGED rejected

\* A grant of the authorization endpoint is never rejected.
GrantRows == GrantTypes /\ (flow = "code" => rejected = 0)

LEMMA CodeEffects ==
    ASSUME TypeOK, rejected = 0, [Next]_vars, UNCHANGED rejected
    PROVE  Quiet \/ Saves \/ \E r \in Requests : Finds(r) \/ Starts(r)
<1> USE DEF history
<1>1. CASE UNCHANGED vars \/ Advance \/ Cleanup
  BY <1>1 DEF Quiet, vars, Advance, Cleanup, Exchanging
<1>2. ASSUME NEW p \in Posts, (\E b \in Browsers : LoadConsent(p, b)) \/ DropConsent(p)
      PROVE  Quiet
  BY <1>2 DEF Quiet, LoadConsent, DropConsent, Exchanging
<1>3. ASSUME NEW p \in Posts, SaveConsent(p)
      PROVE  Saves
  <2>1. post[p] \in Browsers /\ grant \in GrantRow
    BY <1>3 DEF SaveConsent, TypeOK
  <2> QED
    BY <1>3, <2>1, FulfillRow DEF Saves, SaveConsent
<1>4. ASSUME NEW r \in Requests, FindCode(r)
      PROVE  Finds(r)
  BY <1>4 DEF Finds, FindCode, Exchanging, TypeOK
<1>5. ASSUME NEW r \in Requests, CheckBrowser(r) \/ DropRequest(r)
      PROVE  Quiet
  BY <1>5 DEF Quiet, CheckBrowser, DropRequest, Done, Exchanging, TypeOK
<1>6. ASSUME NEW r \in Requests, EndReplayed(r)
      PROVE  Quiet
  <2>1. \A s \in 1 .. started : sessions'[s].browser = sessions[s].browser
    BY <1>6, FinishAllRows DEF EndReplayed
  <2> QED
    BY <1>6, <2>1 DEF Quiet, EndReplayed, Done, Exchanging, TypeOK
<1>7. ASSUME NEW r \in Requests, ExchangeCode(r)
      PROVE  Starts(r)
  BY <1>7 DEF Starts
<1>8. ASSUME NEW b \in Browsers, Logout(b)
      PROVE  Quiet
  BY <1>8 DEF Quiet, Logout, Exchanging
<1>9. ASSUME NEW b \in Browsers, RevokeWithLogout(b)
      PROVE  Quiet
  <2>1. PICK S : sessions' = FinishAll(S)
    BY <1>9 DEF RevokeWithLogout
  <2>2. \A s \in 1 .. started : sessions'[s].browser = sessions[s].browser
    BY <2>1, FinishAllRows
  <2> QED
    BY <1>9, <2>2 DEF Quiet, RevokeWithLogout, Overlap, Exchanging
<1>10. ASSUME NEW s \in DOMAIN sessions, Revoke(s)
       PROVE  Quiet
  <2>1. \A q \in 1 .. started : sessions'[q].browser = sessions[q].browser
    BY <1>10, FinishAllRows DEF Revoke
  <2> QED
    BY <1>10, <2>1 DEF Quiet, Revoke, Exchanging
<1> QED
  BY <1>1, <1>2, <1>3, <1>4, <1>5, <1>6, <1>7, <1>8, <1>9, <1>10 DEF Next

LEMMA SharedEffects ==
    ASSUME TypeOK, SharedStep
    PROVE  Quiet \/ \E r \in Requests : Starts(r)
<1> USE DEF history
<1>1. CASE UNCHANGED vars \/ Advance \/ Cleanup \/ \E p \in Posts : DropConsent(p)
  BY <1>1 DEF SharedStep, Quiet, vars, Advance, Cleanup, DropConsent, Exchanging
<1>2. ASSUME NEW r \in Requests, DropRequest(r)
      PROVE  Quiet
  BY <1>2 DEF SharedStep, Quiet, DropRequest, Done, Exchanging, TypeOK
<1>3. ASSUME NEW b \in Browsers, Logout(b)
      PROVE  Quiet
  BY <1>3 DEF SharedStep, Quiet, Logout, Exchanging
<1>4. ASSUME NEW b \in Browsers, RevokeWithLogout(b)
      PROVE  Quiet
  <2>1. PICK S : sessions' = FinishAll(S)
    BY <1>4 DEF RevokeWithLogout
  <2>2. \A s \in 1 .. started : sessions'[s].browser = sessions[s].browser
    BY <2>1, FinishAllRows
  <2> QED
    BY <1>4, <2>2 DEF SharedStep, Quiet, RevokeWithLogout, Overlap, Exchanging
<1>5. ASSUME NEW s \in DOMAIN sessions, Revoke(s)
      PROVE  Quiet
  <2>1. \A q \in 1 .. started : sessions'[q].browser = sessions[q].browser
    BY <1>5, FinishAllRows DEF Revoke
  <2> QED
    BY <1>5, <2>1 DEF SharedStep, Quiet, Revoke, Exchanging
<1> QED
  BY <1>1, <1>2, <1>3, <1>4, <1>5 DEF SharedStep, Starts

LEMMA GrantEffects ==
    ASSUME GrantRows, [GrantNext]_grantVars
    PROVE  Quiet \/ Saves \/ \E r \in Requests : Finds(r) \/ Starts(r)
<1>0. TypeOK
  BY DEF GrantRows, GrantTypes, DeviceTypeOK
<1>1. CASE flow = "code" /\ [Next]_vars /\ UNCHANGED rejected
  BY <1>0, <1>1, CodeEffects DEF GrantRows
<1>2. CASE flow = "device" /\ (DeviceNext \/ UNCHANGED grantVars)
  <2>1. CASE SharedStep
    BY <1>0, <2>1, SharedEffects
  <2>2. ASSUME NEW p \in Posts, NEW b \in Browsers, NEW a \in {"consent", "reject"},
               LoadDevice(p, b, a)
        PROVE  Quiet
    BY <2>2 DEF LoadDevice, Quiet, Exchanging, history
  <2>3. ASSUME NEW p \in Posts, SaveDevice(p)
        PROVE  Saves
    <3>1. post[p] \in Browsers /\ grant \in GrantRow /\ now # 0
      BY <1>0, <2>3 DEF SaveDevice, TypeOK
    <3> QED
      BY <1>0, <2>3, <3>1, FulfillRow, RejectRow DEF Saves, SaveDevice, Overlap
  <2>4. ASSUME NEW r \in Requests, Poll(r)
        PROVE  Finds(r)
    BY <1>0, <2>4 DEF Poll, Finds, DeviceFulfilled, TypeOK, history
  <2> QED
    BY <1>2, <2>1, <2>2, <2>3, <2>4, DeviceCases
<1>3. flow \in {"code", "device"}
  BY DEF GrantRows, GrantTypes, DeviceTypeOK
<1> QED
  BY <1>1, <1>2, <1>3 DEF GrantNext, grantVars, deviceVars

\* What ExchangeCode does.
LEMMA StartsRows ==
    ASSUME TypeOK, NEW r \in Requests, Starts(r)
    PROVE  /\ pc[r] = "issue" /\ started' = started + 1 /\ started' \in Nat
           /\ grant'.fulfilled = grant.fulfilled /\ grant'.browser = grant.browser
           /\ grant'.exchanged = now /\ now # 0 /\ grant'.session = started'
           /\ sessions'[started'] = [browser |-> snap[r].browser, finished |-> FALSE]
           /\ \A s \in 1 .. started : sessions'[s] = sessions[s]
           /\ pc'[r] = "idle" /\ \A q \in Requests \ {r} : pc'[q] = pc[q] /\ snap'[q] = snap[q]
           /\ UNCHANGED <<rejected, consented, browsers>>
           /\ "exchanges" \notin overlapped' =>
                 "exchanges" \notin overlapped /\ \A q \in Requests \ {r} : ~Exchanging(q)
           /\ "logout" \notin overlapped' => "logout" \notin overlapped
<1>1. started \in Nat /\ started + 1 \in Nat /\ grant \in GrantRow
  BY DEF TypeOK
<1>2. grant' = exchange(grant, started + 1) /\ pc[r] = "issue" /\ started' = started + 1
  BY DEF Starts, ExchangeCode
<1>3. sessions' = [s \in 1 .. (started + 1) |->
                     IF s = started + 1 THEN [browser |-> snap[r].browser, finished |-> FALSE]
                     ELSE sessions[s]]
  BY DEF Starts, ExchangeCode
<1>4. /\ sessions'[started'] = [browser |-> snap[r].browser, finished |-> FALSE]
      /\ \A s \in 1 .. started : sessions'[s] = sessions[s]
  BY <1>1, <1>2, <1>3
<1>5. /\ grant'.fulfilled = grant.fulfilled /\ grant'.browser = grant.browser
      /\ grant'.exchanged = now /\ now # 0 /\ grant'.session = started'
  <2>1. now # 0
    BY DEF TypeOK
  <2> QED
    BY <1>1, <1>2, <2>1, ExchangeRow
<1>6. pc'[r] = "idle" /\ \A q \in Requests \ {r} : pc'[q] = pc[q] /\ snap'[q] = snap[q]
  BY DEF Starts, ExchangeCode, Done, TypeOK
<1>7. /\ UNCHANGED <<rejected, consented, browsers>>
      /\ overlapped' = IF \E q \in Requests \ {r} : Exchanging(q)
                       THEN overlapped \cup {"exchanges"} ELSE overlapped
  BY DEF Starts, ExchangeCode, Overlap
<1> QED
  BY <1>1, <1>2, <1>4, <1>5, <1>6, <1>7

-----------------------------------------------------------------------------
(* One session per code, and only with a consent.                          *)

\* A session was started if and only if the grant says so, and then nobody else holds the
\* code for good, unless two exchanges have overlapped.
ExchangeInv ==
    /\ started > 0 <=> grant.exchanged # 0
    /\ "exchanges" \notin overlapped /\ started > 0 =>
          started = 1 /\ \A r \in Requests : ~Exchanging(r)

\* The browser session of a grant that can be exchanged has consented, and so has the one
\* that a request has read, and the one of every session.
ConsentInv ==
    /\ grant.fulfilled # 0 /\ rejected = 0 => grant.browser \in consented
    /\ \A r \in Requests : Exchanging(r) => snap[r].browser \in consented
    /\ SessionsConsented

GrantInv == GrantRows /\ ExchangeInv /\ ConsentInv

\* What ClosedForGood says of a step.
StaysClosed ==
    \A r \in Requests :
       grant.exchanged # 0 \/ rejected # 0 =>
          /\ grant'.exchanged # 0 \/ rejected' # 0
          /\ Exchanging(r)' => Exchanging(r)

LEMMA RowsStep ==
    ASSUME GrantRows, [GrantNext]_grantVars
    PROVE  GrantRows'
<1>1. GrantTypes' /\ flow' = flow
  BY GrantTypesStep DEF GrantRows, GrantNext, grantVars
<1>2. flow = "code" => rejected' = rejected
  BY DEF GrantNext, grantVars, deviceVars
<1> QED
  BY <1>1, <1>2 DEF GrantRows

LEMMA QuietStep ==
    ASSUME GrantInv, Quiet
    PROVE  ExchangeInv' /\ ConsentInv' /\ StaysClosed
<1> USE DEF GrantInv, Quiet
<1>1. ExchangeInv'
  BY DEF ExchangeInv
<1>2. ConsentInv'
  BY DEF ConsentInv, SessionsConsented
<1>3. StaysClosed
  BY DEF StaysClosed
<1> QED
  BY <1>1, <1>2, <1>3

LEMMA SavesStep ==
    ASSUME GrantInv, Saves
    PROVE  ExchangeInv' /\ ConsentInv' /\ StaysClosed
<1> USE DEF GrantInv, Saves
<1>0. \A r \in Requests : Exchanging(r)' = Exchanging(r)
  BY DEF Exchanging
<1>1. ExchangeInv'
  BY <1>0 DEF ExchangeInv
<1>2. ConsentInv'
  BY <1>0 DEF ConsentInv, SessionsConsented
<1>3. StaysClosed
  BY <1>0 DEF StaysClosed, GrantRows, GrantTypes, DeviceTypeOK
<1> QED
  BY <1>1, <1>2, <1>3

LEMMA FindsStep ==
    ASSUME GrantInv, NEW r \in Requests, Finds(r)
    PROVE  ExchangeInv' /\ ConsentInv' /\ StaysClosed
<1> USE DEF GrantInv, Finds
<1>0. \A q \in Requests \ {r} : Exchanging(q)' = Exchanging(q)
  BY DEF Exchanging
<1>1. Exchanging(r)' => grant.fulfilled # 0 /\ grant.exchanged = 0 /\ rejected = 0
  BY DEF Fulfilled
<1>2. ExchangeInv'
  BY <1>0, <1>1 DEF ExchangeInv
<1>3. ConsentInv'
  BY <1>0, <1>1 DEF ConsentInv, SessionsConsented
<1>4. StaysClosed
  BY <1>0, <1>1 DEF StaysClosed
<1> QED
  BY <1>2, <1>3, <1>4

LEMMA StartsStep ==
    ASSUME GrantInv, NEW r \in Requests, Starts(r)
    PROVE  ExchangeInv' /\ ConsentInv' /\ StaysClosed
<1>0. TypeOK /\ started \in Nat
  BY DEF GrantInv, GrantRows, GrantTypes, DeviceTypeOK, TypeOK
<1>1. /\ started' = started + 1 /\ grant'.exchanged # 0
      /\ grant'.fulfilled = grant.fulfilled /\ grant'.browser = grant.browser
      /\ \A s \in 1 .. started : sessions'[s] = sessions[s]
      /\ UNCHANGED <<rejected, consented>>
      /\ "exchanges" \notin overlapped' =>
            "exchanges" \notin overlapped /\ \A q \in Requests \ {r} : ~Exchanging(q)
  <2>1. grant'.exchanged = now /\ now # 0
    BY <1>0, StartsRows
  <2> QED
    BY <1>0, <2>1, StartsRows
<1>7. sessions'[started'].browser = snap[r].browser
  <2>1. sessions'[started'] = [browser |-> snap[r].browser, finished |-> FALSE]
    BY <1>0, StartsRows
  <2> QED
    BY <2>1
<1>2. Exchanging(r) /\ ~Exchanging(r)' /\ \A q \in Requests \ {r} : Exchanging(q)' = Exchanging(q)
  BY <1>0, StartsRows DEF Exchanging
<1>3. \A q \in Requests \ {r} : snap'[q] = snap[q]
  BY <1>0, StartsRows
<1>4. ExchangeInv'
  <2>1. "exchanges" \notin overlapped' => started = 0 /\ \A q \in Requests : ~Exchanging(q)'
    BY <1>0, <1>1, <1>2 DEF GrantInv, ExchangeInv
  <2> QED
    BY <1>0, <1>1, <2>1 DEF ExchangeInv
<1>5. ConsentInv'
  <2>1. \A s \in 1 .. started' : s \in 1 .. started \/ s = started'
    BY <1>0, <1>1
  <2>2. SessionsConsented'
    BY <1>1, <1>2, <1>7, <2>1 DEF GrantInv, ConsentInv, SessionsConsented
  <2> QED
    BY <1>1, <1>2, <1>3, <2>2 DEF GrantInv, ConsentInv
<1>6. StaysClosed
  BY <1>1, <1>2 DEF StaysClosed
<1> QED
  BY <1>4, <1>5, <1>6

LEMMA GrantStep ==
    ASSUME GrantInv, [GrantNext]_grantVars
    PROVE  GrantInv' /\ StaysClosed
<1>1. GrantRows'
  BY RowsStep DEF GrantInv
<1> QED
  BY <1>1, GrantEffects, QuietStep, SavesStep, FindsStep, StartsStep DEF GrantInv

LEMMA GrantInitial == GrantInit => GrantInv
<1> SUFFICES ASSUME GrantInit PROVE GrantInv
  OBVIOUS
<1>1. GrantRows
  BY GrantTypesInitial DEF GrantInit, DeviceInit, GrantRows
<1>2. ExchangeInv
  BY DEF GrantInit, DeviceInit, Init, NewGrant, ExchangeInv
<1>3. ConsentInv
  BY DEF GrantInit, DeviceInit, Init, NewGrant, ConsentInv, SessionsConsented, Exchanging
<1> QED
  BY <1>1, <1>2, <1>3 DEF GrantInv

THEOREM GrantInvariant == GrantSpec => []GrantInv
<1>1. GrantInv /\ [GrantNext]_grantVars => GrantInv'
  BY GrantStep
<1> QED
  BY <1>1, GrantInitial, PTL DEF GrantSpec

\* For any number of requests, one code of either kind gives two sessions only if two
\* exchanges had both found it good before the first of them was saved (token.rs,
\* authorization_code_grant and device_code_grant).
THEOREM ExchangedOnce == GrantSpec => []OneSessionPerCode
<1>1. GrantInv => OneSessionPerCode
  BY DEF GrantInv, GrantRows, GrantTypes, DeviceTypeOK, TypeOK, ExchangeInv, OneSessionPerCode
<1> QED
  BY <1>1, GrantInvariant, PTL

\* Every session of a code is in a browser session whose consent was saved, for any number of
\* forms and requests at the same time: a row that one form has fulfilled and another rejected
\* cannot be read, so nobody gets the session of whoever rejected (device_code_grant.rs).
THEOREM Consented == GrantSpec => []SessionsConsented
<1>1. GrantInv => SessionsConsented
  BY DEF GrantInv, ConsentInv
<1> QED
  BY <1>1, GrantInvariant, PTL

\* A code that was exchanged or rejected is never good for another session, for any number of
\* forms that still have it as pending: fulfill and reject leave exchanged_at alone.
THEOREM Closed == GrantSpec => ClosedForGood
<1>1. GrantInv /\ [GrantNext]_grantVars => StaysClosed
  BY GrantStep
<1> QED
  BY <1>1, GrantInvariant, PTL DEF GrantSpec, ClosedForGood, StaysClosed

-----------------------------------------------------------------------------
(* The row of a device code.                                               *)

\* The answer of the form p goes with the decision, if there is one.
FormFits(p) ==
    \/ DevicePending
    \/ grant.fulfilled # 0 /\ rejected = 0 /\ answer[p] = "consent"
    \/ rejected # 0 /\ answer[p] = "reject"

\* As long as no consent and no rejection have overlapped the row can be read, and the forms
\* that are open all have the answer of the one that was saved.
AnswersInv ==
    flow = "device" /\ "answers" \notin overlapped =>
        DeviceStates /\ \A p \in Posts : post[p] # NoBrowser => FormFits(p)

LEMMA AnswersKept ==
    ASSUME GrantRows, AnswersInv, [GrantNext]_grantVars
    PROVE  AnswersInv'
<1>1. flow' = flow
  BY DEF GrantNext, grantVars
<1> SUFFICES ASSUME flow = "device", "answers" \notin overlapped'
             PROVE  (DeviceStates /\ \A p \in Posts : post[p] # NoBrowser => FormFits(p))'
  BY <1>1 DEF AnswersInv
<1>2. DeviceNext \/ UNCHANGED grantVars
  BY DEF GrantNext
<1>3. TypeOK /\ FoundInv /\ answer \in [Posts -> {"consent", "reject"}]
  BY DEF GrantRows, GrantTypes, DeviceTypeOK
<1>4. ASSUME UNCHANGED <<grant, rejected>>, "answers" \notin overlapped,
             \A p \in Posts : post'[p] # NoBrowser =>
                \/ post[p] # NoBrowser /\ answer'[p] = answer[p]
                \/ DevicePending
      PROVE  (DeviceStates /\ \A p \in Posts : post[p] # NoBrowser => FormFits(p))'
  <2>1. DeviceStates' = DeviceStates /\ DevicePending' = DevicePending
    BY <1>4 DEF DeviceStates, DevicePending, DeviceFulfilled, DeviceRejected, DeviceExchanged,
                Pending, Fulfilled, Exchanged
  <2>2. ASSUME NEW p \in Posts, post'[p] # NoBrowser
        PROVE  FormFits(p)'
    BY <1>4, <2>1, <2>2 DEF AnswersInv, FormFits
  <2> QED
    BY <1>4, <2>1, <2>2 DEF AnswersInv
<1>5. CASE UNCHANGED grantVars
  BY <1>4, <1>5 DEF grantVars, deviceVars, vars, history
<1>6. CASE Others
  <2>1. UNCHANGED <<grant, rejected, post, answer>> /\ "answers" \notin overlapped
    BY <1>6 DEF Others, Advance, Logout, RevokeWithLogout, Revoke, Cleanup, Overlap, history
  <2> QED
    BY <1>4, <2>1
<1>7. ASSUME NEW p \in Posts, NEW b \in Browsers, NEW a \in {"consent", "reject"},
             LoadDevice(p, b, a)
      PROVE  (DeviceStates /\ \A q \in Posts : post[q] # NoBrowser => FormFits(q))'
  <2>1. DevicePending /\ UNCHANGED <<grant, rejected, overlapped>>
    BY <1>7 DEF LoadDevice, history
  <2> QED
    BY <1>4, <2>1
<1>8. ASSUME NEW p \in Posts, DropDevice(p)
      PROVE  (DeviceStates /\ \A q \in Posts : post[q] # NoBrowser => FormFits(q))'
  <2>1. UNCHANGED <<grant, rejected, overlapped>> /\ post'[p] = NoBrowser
        /\ \A q \in Posts \ {p} : post'[q] = post[q] /\ answer'[q] = answer[q]
    BY <1>3, <1>8 DEF DropDevice, DropConsent, TypeOK, history
  <2> QED
    BY <1>4, <2>1
<1>9. ASSUME NEW r \in Requests, Poll(r) \/ DropPoll(r)
      PROVE  (DeviceStates /\ \A q \in Posts : post[q] # NoBrowser => FormFits(q))'
  <2>1. UNCHANGED <<grant, rejected, overlapped, post, answer>>
    BY <1>9 DEF Poll, DropPoll, DropRequest, history
  <2> QED
    BY <1>4, <2>1
<1>10. ASSUME NEW r \in Requests, ExchangeDevice(r)
       PROVE  (DeviceStates /\ \A q \in Posts : post[q] # NoBrowser => FormFits(q))'
  <2>1. Starts(r) /\ UNCHANGED <<post, answer>>
    BY <1>10 DEF ExchangeDevice, Starts, ExchangeCode
  <2>2. "answers" \notin overlapped
    BY <2>1 DEF Starts, ExchangeCode, Overlap
  <2>3. /\ grant'.fulfilled = grant.fulfilled /\ grant'.browser = grant.browser
        /\ grant'.exchanged # 0 /\ grant'.session # 0 /\ rejected' = rejected
        /\ pc[r] = "issue"
    <3>0. started \in Nat
      BY <1>3 DEF TypeOK
    <3>1. /\ started' = started + 1 /\ grant'.session = started'
          /\ grant'.exchanged = now /\ now # 0 /\ pc[r] = "issue"
      BY <1>3, <2>1, StartsRows
    <3>2. grant'.fulfilled = grant.fulfilled /\ grant'.browser = grant.browser /\ rejected' = rejected
      BY <1>3, <2>1, StartsRows
    <3> QED
      BY <3>0, <3>1, <3>2
  <2>4. grant.fulfilled # 0 /\ grant.browser # NoBrowser
    BY <1>3, <2>3 DEF FoundInv
  <2>5. rejected = 0 /\ ~DevicePending
    BY <2>2, <2>4 DEF AnswersInv, DeviceStates, DevicePending, DeviceFulfilled, DeviceRejected,
                      DeviceExchanged, Pending, NewGrant
  <2>6. DeviceExchanged'
    BY <2>3, <2>4, <2>5 DEF DeviceExchanged, Exchanged
  <2>7. ASSUME NEW q \in Posts, post'[q] # NoBrowser
        PROVE  FormFits(q)'
    BY <2>1, <2>2, <2>3, <2>5, <2>7 DEF AnswersInv, FormFits
  <2> QED
    BY <2>6, <2>7 DEF DeviceStates
<1>11. ASSUME NEW p \in Posts, SaveDevice(p)
       PROVE  (DeviceStates /\ \A q \in Posts : post[q] # NoBrowser => FormFits(q))'
  <2>1. post[p] \in Browsers /\ post[p] # NoBrowser /\ grant \in GrantRow /\ now # 0
    BY <1>3, <1>11 DEF SaveDevice, TypeOK
  <2>2. /\ "answers" \notin overlapped
        /\ \A q \in Posts : post[q] # NoBrowser => answer[q] = answer[p]
    BY <1>11 DEF SaveDevice, Overlap
  <2>3. \A q \in Posts : post'[q] # NoBrowser => q # p /\ post[q] # NoBrowser /\ answer'[q] = answer[q]
    BY <1>3, <1>11 DEF SaveDevice, TypeOK
  <2>4. DeviceStates /\ FormFits(p)
    BY <2>1, <2>2 DEF AnswersInv
  <2>5. CASE answer[p] = "consent"
    <3>1. grant' = fulfill(grant, post[p]) /\ rejected' = rejected
      BY <1>11, <2>5 DEF SaveDevice
    <3>2. /\ grant'.fulfilled = now /\ grant'.browser = post[p]
          /\ grant'.exchanged = grant.exchanged /\ grant'.session = grant.session
      BY <1>3, <2>1, <3>1, FulfillRow
    <3>3. rejected = 0
      BY <2>4, <2>5 DEF FormFits, DevicePending
    <3>4. DeviceFulfilled' \/ DeviceExchanged'
      <4>1. CASE DevicePending \/ DeviceFulfilled
        <5>1. grant.exchanged = 0 /\ grant.session = 0
          BY <4>1 DEF DevicePending, DeviceFulfilled, Pending, Fulfilled, NewGrant
        <5> QED
          BY <2>1, <3>1, <3>2, <3>3, <5>1 DEF DeviceFulfilled, Fulfilled
      <4>2. CASE DeviceExchanged
        BY <2>1, <3>1, <3>2, <3>3, <4>2 DEF DeviceExchanged, Exchanged
      <4>3. ~DeviceRejected
        BY <3>3 DEF DeviceRejected
      <4> QED
        BY <2>4, <4>1, <4>2, <4>3 DEF DeviceStates
    <3>5. ASSUME NEW q \in Posts, post'[q] # NoBrowser
          PROVE  FormFits(q)'
      BY <2>1, <2>2, <2>3, <2>5, <3>1, <3>2, <3>3, <3>5 DEF FormFits
    <3> QED
      BY <3>4, <3>5 DEF DeviceStates
  <2>6. CASE answer[p] = "reject"
    <3>1. grant' = reject(grant, post[p]) /\ rejected' = now
      BY <1>11, <2>6 DEF SaveDevice
    <3>2. grant' = [grant EXCEPT !.browser = post[p]] /\ grant'.browser = post[p]
      BY <1>3, <2>1, <3>1, RejectRow
    <3>3. DevicePending \/ DeviceRejected
      <4>1. CASE rejected # 0
        BY <2>4, <4>1 DEF DeviceStates, DevicePending, DeviceFulfilled, DeviceExchanged
      <4> QED
        BY <2>4, <2>6, <4>1 DEF FormFits
    <3>4. \E b : grant = [NewGrant EXCEPT !.browser = b]
      BY <3>3 DEF DevicePending, DeviceRejected, Pending, NewGrant
    <3>5. grant' = [NewGrant EXCEPT !.browser = post[p]]
      BY <3>2, <3>4 DEF NewGrant
    <3>6. DeviceRejected'
      BY <2>1, <3>1, <3>2, <3>5 DEF DeviceRejected
    <3>7. ASSUME NEW q \in Posts, post'[q] # NoBrowser
          PROVE  FormFits(q)'
      BY <2>1, <2>2, <2>3, <2>6, <3>1, <3>7 DEF FormFits
    <3> QED
      BY <3>6, <3>7 DEF DeviceStates
  <2> QED
    BY <1>3, <2>5, <2>6
<1> QED
  BY <1>2, <1>5, <1>6, <1>7, <1>8, <1>9, <1>10, <1>11 DEF DeviceNext

\* The row of a grant of either kind can be read, for any number of forms and requests at the
\* same time, as long as no form that allows the device overlaps one that rejects it:
\* find_by_code and find_by_device_code never meet an inconsistency.
THEOREM RowsReadable == GrantSpec => []RowReadable
<1>1. GrantInit => AnswersInv
  BY DEF GrantInit, DeviceInit, Init, AnswersInv, DeviceStates, DevicePending, Pending
<1>2. GrantRows /\ AnswersInv /\ [GrantNext]_grantVars => AnswersInv'
  BY AnswersKept
<1>3. GrantInv => GrantRows
  BY DEF GrantInv
<1>4. GrantRows /\ AnswersInv => RowReadable
  BY DEF GrantRows, GrantTypes, DeviceTypeOK, AnswersInv, RowReadable
<1> QED
  BY <1>1, <1>2, <1>3, <1>4, GrantInvariant, PTL DEF GrantSpec

-----------------------------------------------------------------------------
(* Log-outs.                                                               *)

\* An exchange that is past its check is in a browser session that was not ended since,
\* unless a log-out has overlapped it.
LogoutInv ==
    flow = "code" /\ "logout" \notin overlapped =>
        /\ \A r \in Requests : pc[r] = "issue" => browsers[snap[r].browser] # "ended"
        /\ \A s \in 1 .. started :
              browsers[sessions[s].browser] = "ended" => sessions[s].finished

LEMMA LogoutKept ==
    ASSUME GrantRows, LogoutInv, [GrantNext]_grantVars
    PROVE  LogoutInv'
<1>1. flow' = flow
  BY DEF GrantNext, grantVars
<1> DEFINE Safe ==
        /\ \A r \in Requests : pc[r] = "issue" => browsers[snap[r].browser] # "ended"
        /\ \A s \in 1 .. started :
              browsers[sessions[s].browser] = "ended" => sessions[s].finished
<1> SUFFICES ASSUME flow = "code", "logout" \notin overlapped' PROVE Safe'
  BY <1>1 DEF LogoutInv
<1>2. TypeOK /\ FoundInv
  BY DEF GrantRows, GrantTypes, DeviceTypeOK
<1>3. [Next]_vars
  BY DEF GrantNext, grantVars, deviceVars
<1>4. "logout" \notin overlapped => Safe
  BY DEF LogoutInv
<1>5. ASSUME "logout" \notin overlapped, UNCHANGED started,
             \A b \in Browsers : browsers'[b] = "ended" => browsers[b] = "ended",
             \A r \in Requests : pc'[r] = "issue" => pc[r] = "issue" /\ snap'[r] = snap[r],
             \A s \in 1 .. started : /\ sessions'[s].browser = sessions[s].browser
                                     /\ sessions[s].finished => sessions'[s].finished
      PROVE  Safe'
  <2>1. \A r \in Requests : pc[r] = "issue" => snap[r].browser \in Browsers
    BY <1>2 DEF TypeOK, FoundInv, GrantRow
  <2>2. \A s \in 1 .. started : sessions[s].browser \in Browsers
    BY <1>2 DEF TypeOK, SessionRow
  <2> QED
    BY <1>4, <1>5, <2>1, <2>2
<1> HIDE DEF Safe
<1> USE DEF history
<1>6. CASE UNCHANGED vars \/ Advance \/ Cleanup
  BY <1>5, <1>6 DEF vars, Advance, Cleanup
<1>7. ASSUME NEW p \in Posts,
             (\E b \in Browsers : LoadConsent(p, b)) \/ SaveConsent(p) \/ DropConsent(p)
      PROVE  Safe'
  BY <1>5, <1>7 DEF LoadConsent, SaveConsent, DropConsent
<1>8. ASSUME NEW r \in Requests, FindCode(r) \/ DropRequest(r)
      PROVE  Safe'
  BY <1>2, <1>5, <1>8 DEF FindCode, DropRequest, Done, TypeOK
<1>9. ASSUME NEW r \in Requests, EndReplayed(r)
      PROVE  Safe'
  <2>1. \A s \in 1 .. started : /\ sessions'[s].browser = sessions[s].browser
                                /\ sessions[s].finished => sessions'[s].finished
    BY <1>2, <1>9, FinishAllRows DEF EndReplayed
  <2> QED
    BY <1>2, <1>5, <1>9, <2>1 DEF EndReplayed, Done, TypeOK
<1>10. ASSUME NEW r \in Requests, CheckBrowser(r)
       PROVE  Safe'
  <2>1. /\ UNCHANGED <<browsers, started, sessions, snap, overlapped>>
        /\ browsers[snap[r].browser] = "active" /\ \A q \in Requests \ {r} : pc'[q] = pc[q]
    BY <1>2, <1>10 DEF CheckBrowser, TypeOK
  <2> QED
    BY <1>4, <2>1 DEF Safe
<1>11. ASSUME NEW r \in Requests, ExchangeCode(r)
       PROVE  Safe'
  <2>1. Starts(r)
    BY <1>11, <1>3 DEF Starts, GrantNext, grantVars, deviceVars
  <2>2. /\ "logout" \notin overlapped /\ UNCHANGED browsers /\ pc[r] = "issue"
        /\ started' = started + 1 /\ started \in Nat
        /\ sessions'[started'].browser = snap[r].browser
        /\ \A s \in 1 .. started : sessions'[s] = sessions[s]
        /\ \A q \in Requests : pc'[q] = "issue" => pc[q] = "issue" /\ snap'[q] = snap[q]
    <3>1. started \in Nat
      BY <1>2 DEF TypeOK
    <3>2. sessions'[started'] = [browser |-> snap[r].browser, finished |-> FALSE]
      BY <1>2, <2>1, StartsRows
    <3>3. sessions'[started'].browser = snap[r].browser
      BY <3>2
    <3> QED
      BY <1>2, <2>1, <3>1, <3>3, StartsRows
  <2>3. \A s \in 1 .. started' : s \in 1 .. started \/ s = started'
    BY <2>2
  <2> QED
    BY <1>4, <2>2, <2>3 DEF Safe
<1>12. ASSUME NEW b \in Browsers, Logout(b)
       PROVE  Safe'
  <2>1. \A c \in Browsers : browsers'[c] = "ended" => browsers[c] = "ended"
    BY <1>2, <1>12 DEF Logout, TypeOK
  <2> QED
    BY <1>5, <1>12, <2>1 DEF Logout
<1>13. ASSUME NEW b \in Browsers, RevokeWithLogout(b)
       PROVE  Safe'
  <2> DEFINE S == {s \in DOMAIN sessions : sessions[s].browser = b}
  <2>1. /\ sessions' = FinishAll(S) /\ UNCHANGED <<started, pc, snap>>
        /\ "logout" \notin overlapped /\ \A r \in Requests : pc[r] # "issue"
        /\ browsers' = [browsers EXCEPT ![b] = "ended"]
    BY <1>13 DEF RevokeWithLogout, Overlap
  <2>2. \A c \in Browsers \ {b} : browsers'[c] = browsers[c]
    BY <1>2, <2>1 DEF TypeOK
  <2>3. \A s \in 1 .. started : sessions[s].browser = b => s \in S
    BY <1>2 DEF TypeOK
  <2> HIDE DEF S
  <2>4. \A s \in 1 .. started : /\ sessions'[s].browser = sessions[s].browser
                                /\ sessions[s].finished \/ s \in S => sessions'[s].finished
    BY <1>2, <2>1, FinishAllRows
  <2>5. \A s \in 1 .. started : sessions[s].browser \in Browsers
    BY <1>2 DEF TypeOK, SessionRow
  <2> QED
    BY <1>4, <2>1, <2>2, <2>3, <2>4, <2>5 DEF Safe
<1>14. ASSUME NEW s \in DOMAIN sessions, Revoke(s)
       PROVE  Safe'
  <2>1. \A q \in 1 .. started : /\ sessions'[q].browser = sessions[q].browser
                                /\ sessions[q].finished => sessions'[q].finished
    BY <1>2, <1>14, FinishAllRows DEF Revoke
  <2> QED
    BY <1>5, <1>14, <2>1 DEF Revoke
<1> QED
  BY <1>3, <1>6, <1>7, <1>8, <1>9, <1>10, <1>11, <1>12, <1>13, <1>14 DEF Next

\* After a revocation with the mas-logout scope an authorization code gives no session in the
\* browser session that was ended, for any number of requests, unless the exchange had already
\* looked at it (token.rs, authorization_code_grant; revoke.rs).
THEOREM LoggedOut == GrantSpec => []LogoutEndsSessions
<1>1. GrantInit => LogoutInv
  BY DEF GrantInit, DeviceInit, Init, LogoutInv
<1>2. GrantRows /\ LogoutInv /\ [GrantNext]_grantVars => LogoutInv'
  BY LogoutKept
<1>3. GrantInv => GrantRows
  BY DEF GrantInv
<1>4. LogoutInv => LogoutEndsSessions
  BY DEF LogoutInv, LogoutEndsSessions
<1> QED
  BY <1>1, <1>2, <1>3, <1>4, GrantInvariant, PTL DEF GrantSpec
=============================================================================
