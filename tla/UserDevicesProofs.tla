------------------------- MODULE UserDevicesProofs -------------------------
(***************************************************************************)
(* The devices of a user on the homeserver, for any number of sessions,    *)
(* devices, logins and jobs at the same time.                              *)
(***************************************************************************)
EXTENDS UserDevices, TLAPS

-----------------------------------------------------------------------------
(* Types.                                                                  *)

Flags == {"yes", "no"}

\* The steps of a sync between taking the lock and releasing it.
Holding == {"compat", "oauth2", "personal", "devices", "synced"}

JobSteps == {"idle"} \cup SyncSteps \cup ProvisionSteps \cup DeactivateSteps \cup ReactivateSteps

\* What TypeOK says of the database and the homeserver ...
RowTypes ==
    /\ locked \in Flags /\ deactivated \in Flags /\ hsLocked \in Flags /\ hsDeactivated \in Flags
    /\ sess \in [Sessions -> {"none", "starting", "active", "finished"}]
    /\ hsDevices \subseteq Devices /\ leftover \subseteq Devices /\ cut \subseteq Sessions
    /\ given \subseteq Sessions /\ missed \in Flags
    /\ sync \in Nat /\ provision \in Nat /\ deactivate \in Nat /\ reactivate \in Nat
    /\ events \in Nat
    /\ admin \in [does : {"nothing", "reactivate", "unlock"}, locked : Flags, deactivated : Flags]

\* ... and of requests and jobs.
StepTypes ==
    /\ login \in [Logins -> {"idle", "checked", "locked", "ready", "saved"}]
    /\ asked \in [Logins -> Sessions \cup {"none"}]
    /\ \A l \in Logins : login[l] # "idle" => asked[l] \in Sessions
    /\ run \in [Runners -> JobSteps]
    /\ found \in [Runners -> SUBSET Devices] /\ flag \in [Runners -> Flags]
    /\ lock \in {"free"} \cup Logins \cup Runners

\* The lock is held by exactly the login or the sync that is between taking and
\* releasing it.
LockInv ==
    /\ \A l \in Logins : login[l] \in {"locked", "ready"} <=> lock = l
    /\ \A r \in Runners : run[r] \in Holding <=> lock = r

\* Each login that has not committed has a session of its own, which nobody else sees.
RequestInv ==
    /\ \A l \in Logins :
          /\ login[l] \in {"checked", "locked", "ready"} => sess[asked[l]] = "starting"
          /\ login[l] = "saved" => sess[asked[l]] \in {"active", "finished"}
    /\ \A l, k \in Logins :
          /\ {login[l], login[k]} \subseteq {"checked", "locked", "ready"}
          /\ asked[l] = asked[k]
          => l = k

\* A client has its tokens only when the session is committed.
GivenInv == \A s \in given : sess[s] \in {"active", "finished"}

\* A device that was created under the lock is there until the commit.
ReadyInv ==
    \A l \in Logins : login[l] = "ready" => DeviceOf[asked[l]] \in hsDevices \/ asked[l] \in cut

\* What a sync has read under the lock stays complete: sessions only end meanwhile.
FoundInv ==
    \A r \in Runners :
        /\ run[r] \in {"oauth2", "personal", "devices"} => DevicesOf(Active \cap Compat) \subseteq found[r]
        /\ run[r] \in {"personal", "devices"} => DevicesOf(Active \cap OAuth2) \subseteq found[r]
        /\ run[r] = "devices" => DevicesOf(Active \cap Personal) \subseteq found[r]

DevicesInv ==
    /\ RowTypes /\ StepTypes
    /\ LockInv /\ RequestInv /\ GivenInv /\ ReadyInv /\ FoundInv
    /\ DevicesPresent

LEMMA TypesFollow == RowTypes /\ StepTypes /\ LockInv => TypeOK
  BY DEF RowTypes, StepTypes, LockInv, TypeOK, Flags, Holding, JobSteps

LEMMA DevicesInit == DevicesAssumption /\ Init => DevicesInv
<1> SUFFICES ASSUME DevicesAssumption, Init PROVE DevicesInv
  OBVIOUS
<1>1. RowTypes
  BY DEF Init, RowTypes, Flags, Idle
<1>2. StepTypes
  BY DEF Init, StepTypes, Flags, JobSteps
<1>3. LockInv
  BY DEF Init, LockInv, Holding, DevicesAssumption
<1>4. RequestInv /\ GivenInv /\ ReadyInv /\ FoundInv /\ DevicesPresent
  BY DEF Init, RequestInv, GivenInv, ReadyInv, FoundInv, DevicesPresent
<1> QED
  BY <1>1, <1>2, <1>3, <1>4 DEF DevicesInv

-----------------------------------------------------------------------------
(* The steps that end sessions or do not concern them.                     *)

\* Some active sessions end, perhaps none; logins and devices stay, and jobs move
\* outside of the lock.
Quiet ==
    /\ \E S \in SUBSET Active : sess' = [s \in Sessions |-> IF s \in S THEN "finished" ELSE sess[s]]
    /\ UNCHANGED <<hsDevices, lock, login, asked, found, cut, given>>
    /\ run' \in [Runners -> JobSteps]
    /\ \A r \in Runners : run'[r] = run[r] \/ (run[r] \notin Holding /\ run'[r] \notin Holding)

LEMMA Unended ==
    ASSUME RowTypes, StepTypes, sess' = sess,
           UNCHANGED <<hsDevices, lock, login, asked, found, cut, given>>,
           \/ run' = run
           \/ \E r \in Runners : \E p \in JobSteps \ Holding :
                run[r] \notin Holding /\ run' = [run EXCEPT ![r] = p]
    PROVE  Quiet
<1>1. {} \in SUBSET Active /\ sess' = [s \in Sessions |-> IF s \in {} THEN "finished" ELSE sess[s]]
  BY DEF RowTypes
<1>2. run' \in [Runners -> JobSteps]
      /\ \A r \in Runners : run'[r] = run[r] \/ (run[r] \notin Holding /\ run'[r] \notin Holding)
  BY DEF StepTypes
<1> QED
  BY <1>1, <1>2 DEF Quiet

LEMMA EndingQuiet ==
    ASSUME RowTypes, StepTypes, Ending
    PROVE  /\ Quiet
           /\ UNCHANGED <<user, hsLocked, hsDeactivated, provision, deactivate, reactivate, flag, admin,
                          missed>>
           /\ sync' \in {sync, sync + 1} /\ events' \in {events, events + 1}
           /\ leftover' \subseteq leftover \cup {DeviceOf[s] : s \in Sessions}
<1> DEFINE P == /\ Quiet
                /\ UNCHANGED <<user, hsLocked, hsDeactivated, provision, deactivate, reactivate, flag, admin,
                          missed>>
                /\ sync' \in {sync, sync + 1} /\ events' \in {events, events + 1}
                /\ leftover' \subseteq leftover \cup {DeviceOf[s] : s \in Sessions}
<1>1. ASSUME NEW S, Finish(S) PROVE P
  <2>1. S \in SUBSET Active /\ sess' = [s \in Sessions |-> IF s \in S THEN "finished" ELSE sess[s]]
    BY <1>1 DEF Finish
  <2>2. run' = run /\ UNCHANGED <<hsDevices, lock, login, asked, found, cut, given>>
    BY <1>1 DEF Finish, homeserver, logins, runners, history
  <2>3. Quiet
    BY <2>1, <2>2 DEF Quiet, StepTypes
  <2> QED
    BY <1>1, <2>3 DEF Finish, user, homeserver, runners, history
<1>2. ASSUME NEW s \in Active, EndReplayed(s) PROVE P
  <2>1. {s} \in SUBSET Active
        /\ sess' = [q \in Sessions |-> IF q \in {s} THEN "finished" ELSE sess[q]]
    BY <1>2 DEF EndReplayed, Active, RowTypes
  <2>2. run' = run /\ UNCHANGED <<hsDevices, lock, login, asked, found, cut, given>>
    BY <1>2 DEF EndReplayed, homeserver, logins, runners
  <2>3. Quiet
    BY <2>1, <2>2 DEF Quiet, StepTypes
  <2>4. leftover' \subseteq leftover \cup {DeviceOf[q] : q \in Sessions}
    BY <1>2 DEF EndReplayed, Active
  <2> QED
    BY <1>2, <2>3, <2>4 DEF EndReplayed, user, homeserver, jobs, runners, history
<1>3. CASE KillSessions
  <2>1. CASE Finish(Active \ Personal)
    BY <1>1, <2>1
  <2>2. CASE ~Finish(Active \ Personal)
    <3>1. /\ sync' = sync + 1 /\ events' = events + 1
          /\ UNCHANGED <<user, sess, homeserver, provision, deactivate, reactivate, lock, logins,
                         runners, admin, history>>
      BY <1>3, <2>2 DEF KillSessions
    <3>2. Quiet
      BY <3>1, Unended DEF homeserver, logins, runners, history
    <3> QED
      BY <3>1, <3>2 DEF user, homeserver, runners, history
  <2> QED
    BY <2>1, <2>2
<1>4. \/ \E S : Finish(S)
      \/ \E s \in Active : EndReplayed(s)
      \/ KillSessions
  BY DEF Ending, Revoke, BackchannelLogout, ExpireOAuth2, ExpireCompat, ExpirePgOAuth,
         AdminFinishOAuth2, AdminFinishCompat, EndOAuth2Session, EndCompatSession,
         CompatLogout, RevokePersonal, CompatLogoutAll
<1> QED
  BY <1>1, <1>2, <1>3, <1>4

\* The user changes; its jobs are counted, and everything else stays.
LEMMA UserChangeQuiet ==
    ASSUME RowTypes, StepTypes, UserChange
    PROVE  Quiet /\ RowTypes' /\ flag' = flag
<1> USE DEF Flags
<1> DEFINE P == /\ RowTypes'
                /\ UNCHANGED <<sess, hsDevices, lock, login, asked, found, cut, given, run, flag>>
<1> SUFFICES P
  BY Unended
<1>1. ASSUME NEW l \in Flags, NEW d \in Flags, NEW i \in {0, 1}, NEW j \in {0, 1}, NEW k \in {0, 1},
             Change(l, d, i, j, k)
      PROVE  P
  BY <1>1 DEF Change, RowTypes, homeserver, logins, runners, history
<1>2. ASSUME NEW what \in {"reactivate", "unlock"}, ReactivateCall(what) PROVE P
  BY <1>2 DEF ReactivateCall, RowTypes, user, jobs, logins, runners, history
<1>3. CASE ReactivateSave
  BY <1>3 DEF ReactivateSave, Cleared, Idle, RowTypes, homeserver, jobs, logins, runners, history
<1>4. CASE UnlockSave
  BY <1>4 DEF UnlockSave, Cleared, Idle, RowTypes, user, homeserver, logins, runners, history
<1>5. locked \in Flags /\ deactivated \in Flags
  BY DEF RowTypes
<1>6. CASE AdminLock \/ AdminUnlock \/ AdminDeactivate \/ DeactivateUser
  BY <1>1, <1>5, <1>6 DEF AdminLock, AdminUnlock, AdminDeactivate, DeactivateUser
<1>7. ASSUME NEW asks \in BOOLEAN, LockUser(asks) \/ CliUnlock(asks) PROVE P
  BY <1>1, <1>5, <1>7 DEF LockUser, CliUnlock
<1> QED
  BY <1>2, <1>3, <1>4, <1>6, <1>7 DEF UserChange

\* The steps of jobs that neither hold the lock nor touch the devices.
Aside(r) ==
    \/ StartSync(r) \/ StartProvision(r) \/ ReadUser(r) \/ CallProvision(r) \/ EndProvision(r)
    \/ StartDeactivate(r) \/ StartReactivate(r) \/ CallReactivate(r) \/ EndReactivate(r)

LEMMA AsideQuiet ==
    ASSUME RowTypes, StepTypes, NEW r \in Runners, Aside(r)
    PROVE  Quiet /\ RowTypes' /\ flag' \in [Runners -> Flags]
<1> DEFINE P == /\ RowTypes' /\ flag' \in [Runners -> Flags]
                /\ UNCHANGED <<sess, hsDevices, lock, login, asked, found, cut, given>>
                /\ \E p \in JobSteps \ Holding : run[r] \notin Holding /\ run' = [run EXCEPT ![r] = p]
<1> SUFFICES P
  BY Unended
<1> USE DEF RowTypes, Flags, user, homeserver, jobs, logins, history
<1>1. CASE StartSync(r)
  <2>1. "sync" \in JobSteps \ Holding
    BY DEF JobSteps, Holding, SyncSteps
  <2>2. run[r] \notin Holding /\ run' = [run EXCEPT ![r] = "sync"]
    BY <1>1 DEF StartSync, Start, Holding
  <2>3. RowTypes'
    BY <1>1 DEF StartSync, Start
  <2> QED
    BY <1>1, <2>1, <2>2, <2>3 DEF StartSync, Start, StepTypes
<1>2. CASE StartProvision(r)
  <2>1. "lookup" \in JobSteps \ Holding
    BY DEF JobSteps, Holding, ProvisionSteps
  <2>2. run[r] \notin Holding /\ run' = [run EXCEPT ![r] = "lookup"]
    BY <1>2 DEF StartProvision, Start, Holding
  <2>3. RowTypes'
    BY <1>2 DEF StartProvision, Start
  <2> QED
    BY <1>2, <2>1, <2>2, <2>3 DEF StartProvision, Start, StepTypes
<1>3. CASE StartDeactivate(r)
  <2>1. "deactivate" \in JobSteps \ Holding
    BY DEF JobSteps, Holding, DeactivateSteps
  <2>2. run[r] \notin Holding /\ run' = [run EXCEPT ![r] = "deactivate"]
    BY <1>3 DEF StartDeactivate, Start, Holding
  <2>3. RowTypes'
    BY <1>3 DEF StartDeactivate, Start
  <2> QED
    BY <1>3, <2>1, <2>2, <2>3 DEF StartDeactivate, Start, StepTypes
<1>4. CASE StartReactivate(r)
  <2>1. "reactivate" \in JobSteps \ Holding
    BY DEF JobSteps, Holding, ReactivateSteps
  <2>2. run[r] \notin Holding /\ run' = [run EXCEPT ![r] = "reactivate"]
    BY <1>4 DEF StartReactivate, Start, Holding
  <2>3. RowTypes'
    BY <1>4 DEF StartReactivate, Start
  <2> QED
    BY <1>4, <2>1, <2>2, <2>3 DEF StartReactivate, Start, StepTypes
<1>5. CASE ReadUser(r)
  <2>1. "provision" \in JobSteps \ Holding
    BY DEF JobSteps, Holding, ProvisionSteps
  <2> QED
    BY <1>5, <2>1 DEF ReadUser, Holding, StepTypes
<1>6. CASE CallProvision(r)
  <2>1. "provisioned" \in JobSteps \ Holding
    BY DEF JobSteps, Holding, ProvisionSteps
  <2> QED
    BY <1>6, <2>1 DEF CallProvision, Holding, StepTypes
<1>7. CASE EndProvision(r)
  <2>1. "idle" \in JobSteps \ Holding
    BY DEF JobSteps, Holding
  <2>2. run[r] \notin Holding /\ run' = [run EXCEPT ![r] = "idle"]
    BY <1>7 DEF EndProvision, Holding
  <2>3. RowTypes' /\ flag' \in [Runners -> Flags]
    BY <1>7 DEF EndProvision, StepTypes
  <2> QED
    BY <1>7, <2>1, <2>2, <2>3 DEF EndProvision
<1>8. CASE CallReactivate(r)
  <2>1. "reactivated" \in JobSteps \ Holding
    BY DEF JobSteps, Holding, ReactivateSteps
  <2>2. run[r] \notin Holding /\ run' = [run EXCEPT ![r] = "reactivated"]
    BY <1>8 DEF CallReactivate, Holding
  <2>3. RowTypes' /\ flag' \in [Runners -> Flags]
    BY <1>8 DEF CallReactivate, StepTypes
  <2> QED
    BY <1>8, <2>1, <2>2, <2>3 DEF CallReactivate
<1>9. CASE EndReactivate(r)
  <2>1. "idle" \in JobSteps \ Holding
    BY DEF JobSteps, Holding
  <2> QED
    BY <1>9, <2>1 DEF EndReactivate, Cleared, Holding, StepTypes
<1> QED
  BY <1>1, <1>2, <1>3, <1>4, <1>5, <1>6, <1>7, <1>8, <1>9 DEF Aside

\* DeactivateUserJob ends all sessions.
LEMMA DeactivateQuiet ==
    ASSUME RowTypes, StepTypes, NEW r \in Runners, CommitDeactivate(r)
    PROVE  Quiet /\ RowTypes' /\ flag' = flag
<1> USE DEF homeserver, jobs, logins, history
<1>1. Active \in SUBSET Active
      /\ sess' = [s \in Sessions |-> IF s \in Active THEN "finished" ELSE sess[s]]
  BY DEF CommitDeactivate
<1>2. run' = [run EXCEPT ![r] = "delete"] /\ run[r] = "deactivate" /\ "delete" \in JobSteps
  BY DEF CommitDeactivate, JobSteps, DeactivateSteps
<1>3. run' \in [Runners -> JobSteps]
      /\ \A q \in Runners : run'[q] = run[q] \/ (run[q] \notin Holding /\ run'[q] \notin Holding)
  BY <1>2 DEF StepTypes, Holding
<1>4. Quiet
  BY <1>1, <1>3 DEF CommitDeactivate, Quiet
<1> QED
  BY <1>1, <1>4 DEF CommitDeactivate, RowTypes, Flags

LEMMA QuietTypes ==
    ASSUME StepTypes, Quiet, flag' \in [Runners -> Flags]
    PROVE  StepTypes'
  BY DEF StepTypes, Quiet

\* What is true of logins, devices and syncs stays true.
LEMMA QuietKeeps ==
    ASSUME DevicesInv, Quiet
    PROVE  LockInv' /\ RequestInv' /\ GivenInv' /\ ReadyInv' /\ FoundInv' /\ DevicesPresent'
<1> USE DEF DevicesInv
<1>1. /\ \A s \in Sessions : sess'[s] = sess[s] \/ (sess[s] = "active" /\ sess'[s] = "finished")
      /\ Active' \subseteq Active
  BY DEF Quiet, Active
<1>2. /\ hsDevices' = hsDevices /\ lock' = lock /\ login' = login /\ asked' = asked
      /\ found' = found /\ cut' = cut /\ given' = given
  BY DEF Quiet
<1>3. \A r \in Runners : run'[r] = run[r] \/ (run[r] \notin Holding /\ run'[r] \notin Holding)
  BY DEF Quiet
<1>4. LockInv'
  BY <1>2, <1>3 DEF LockInv
<1>5. RequestInv'
  BY <1>1, <1>2 DEF RequestInv, StepTypes
<1>6. GivenInv' /\ ReadyInv'
  BY <1>1, <1>2 DEF GivenInv, ReadyInv, RowTypes
<1>7. \A r \in Runners : run'[r] \in {"oauth2", "personal", "devices"} => run'[r] = run[r]
  BY <1>3 DEF Holding
<1>8. \A S : DevicesOf(Active' \cap S) \subseteq DevicesOf(Active \cap S)
  BY <1>1 DEF DevicesOf
<1>9. FoundInv'
  BY <1>2, <1>7, <1>8 DEF FoundInv, OAuth2, DevicesOf
<1>10. DevicesPresent'
  BY <1>1, <1>2 DEF DevicesPresent
<1> QED
  BY <1>4, <1>5, <1>6, <1>9, <1>10

-----------------------------------------------------------------------------
(* The steps of logins.                                                    *)

LEMMA LoginKeeps ==
    ASSUME DevicesAssumption, DevicesInv, NEW l \in Logins, NEW s \in Sessions, Login(l, s)
    PROVE  DevicesInv'
<1> USE DEF DevicesInv
<1>1. /\ login[l] = "idle" /\ sess[s] = "none"
      /\ sess' = [sess EXCEPT ![s] = "starting"]
      /\ login' = [login EXCEPT ![l] = "checked"] /\ asked' = [asked EXCEPT ![l] = s]
      /\ events' = events + 1
      /\ UNCHANGED <<locked, deactivated, hsDevices, hsLocked, hsDeactivated, sync, provision,
                     deactivate, reactivate, lock, run, found, flag, admin, leftover, cut, given, missed>>
  BY DEF Login, user, homeserver, jobs, runners, history
<1>2. RowTypes'
  BY <1>1 DEF RowTypes
<1>3. StepTypes'
  BY <1>1 DEF StepTypes
<1>4. LockInv'
  BY <1>1 DEF LockInv, StepTypes
<1>5. RequestInv'
  BY <1>1 DEF RequestInv, RowTypes, StepTypes
<1>6. GivenInv' /\ ReadyInv'
  BY <1>1 DEF GivenInv, ReadyInv, RowTypes, StepTypes
<1>7. Active' = Active
  BY <1>1 DEF Active, RowTypes
<1>8. FoundInv' /\ DevicesPresent'
  BY <1>1, <1>7 DEF FoundInv, DevicesPresent, OAuth2, DevicesOf
<1> QED
  BY <1>2, <1>3, <1>4, <1>5, <1>6, <1>8

LEMMA LockLoginKeeps ==
    ASSUME DevicesAssumption, DevicesInv, NEW l \in Logins, LockLogin(l)
    PROVE  DevicesInv'
<1> USE DEF DevicesInv
<1>1. /\ login[l] = "checked" /\ lock = "free" /\ lock' = l
      /\ login' = [login EXCEPT ![l] = "locked"]
      /\ UNCHANGED <<locked, deactivated, sess, hsDevices, hsLocked, hsDeactivated, sync, provision,
                     deactivate, reactivate, asked, run, found, flag, admin, events, leftover,
                     cut, given, missed>>
  BY DEF LockLogin, user, homeserver, jobs, runners, history
<1>2. RowTypes'
  BY <1>1 DEF RowTypes
<1>3. StepTypes'
  BY <1>1 DEF StepTypes
<1>4. LockInv'
  BY <1>1 DEF LockInv, StepTypes, DevicesAssumption
<1>5. RequestInv'
  BY <1>1 DEF RequestInv, StepTypes
<1>6. GivenInv' /\ ReadyInv'
  BY <1>1 DEF GivenInv, ReadyInv, RowTypes, StepTypes
<1>7. FoundInv' /\ DevicesPresent'
  BY <1>1 DEF FoundInv, DevicesPresent, OAuth2, DevicesOf, Active
<1> QED
  BY <1>2, <1>3, <1>4, <1>5, <1>6, <1>7

LEMMA UpsertKeeps ==
    ASSUME DevicesAssumption, DevicesInv, NEW l \in Logins, Upsert(l)
    PROVE  DevicesInv'
<1> USE DEF DevicesInv
<1>1. /\ login[l] = "locked" /\ hsDevices' = hsDevices \cup {DeviceOf[asked[l]]}
      /\ login' = [login EXCEPT ![l] = "ready"]
      /\ UNCHANGED <<locked, deactivated, sess, hsLocked, hsDeactivated, sync, provision,
                     deactivate, reactivate, lock, asked, run, found, flag, admin, events, leftover,
                     cut, given, missed>>
  BY DEF Upsert, user, jobs, runners, history
<1>2. asked[l] \in Sessions /\ DeviceOf[asked[l]] \in Devices
  BY <1>1 DEF StepTypes, DevicesAssumption
<1>3. RowTypes'
  BY <1>1, <1>2 DEF RowTypes
<1>4. StepTypes'
  BY <1>1, <1>2 DEF StepTypes
<1>5. LockInv'
  BY <1>1 DEF LockInv, StepTypes
<1>6. RequestInv'
  BY <1>1 DEF RequestInv, StepTypes
<1>7. GivenInv' /\ ReadyInv'
  BY <1>1 DEF GivenInv, ReadyInv, StepTypes
<1>8. FoundInv' /\ DevicesPresent'
  BY <1>1 DEF FoundInv, DevicesPresent, OAuth2, DevicesOf, Active
<1> QED
  BY <1>3, <1>4, <1>5, <1>6, <1>7, <1>8

\* The holder of the lock is alone: no sync is reading.
LEMMA NoSync ==
    ASSUME DevicesAssumption, LockInv, NEW l \in Logins, lock = l
    PROVE  \A r \in Runners : run[r] \notin Holding
  BY DEF LockInv, DevicesAssumption

\* Over, with the session and the lock that go with it.
LEMMA OverKeeps ==
    ASSUME DevicesAssumption, DevicesInv, NEW l \in Logins, login[l] # "idle", Over(l),
           lock' = IF lock = l THEN "free" ELSE lock,
           UNCHANGED <<run, found, flag>>,
           NEW x \in {"active", "finished"}, sess' = [sess EXCEPT ![asked[l]] = x],
           login[l] = "saved" => x = "finished"
    PROVE  StepTypes' /\ LockInv' /\ RequestInv'
<1> USE DEF DevicesInv
<1>1. login' = [login EXCEPT ![l] = "idle"] /\ asked' = [asked EXCEPT ![l] = "none"]
  BY DEF Over
<1>2. StepTypes'
  BY <1>1 DEF StepTypes
<1>3. LockInv'
  BY <1>1 DEF LockInv, StepTypes, DevicesAssumption
<1>4. asked[l] \in Sessions
  BY DEF StepTypes
<1>5. \A k \in Logins \ {l} : login[k] \in {"checked", "locked", "ready"} => asked[k] # asked[l]
  BY DEF RequestInv, StepTypes
<1>6. RequestInv'
  <2>1. \A k \in Logins : login'[k] # "idle" => k # l /\ login'[k] = login[k] /\ asked'[k] = asked[k]
    BY <1>1 DEF StepTypes
  <2>2. ASSUME NEW k \in Logins, login'[k] \in {"checked", "locked", "ready"}
        PROVE  sess'[asked'[k]] = "starting"
    BY <1>4, <1>5, <2>1, <2>2 DEF RequestInv, RowTypes, StepTypes
  <2>3. ASSUME NEW k \in Logins, login'[k] = "saved"
        PROVE  sess'[asked'[k]] \in {"active", "finished"}
    BY <1>4, <2>1, <2>3 DEF RequestInv, RowTypes, StepTypes
  <2> QED
    BY <2>1, <2>2, <2>3 DEF RequestInv
<1> QED
  BY <1>2, <1>3, <1>6

LEMMA CommitLoginKeeps ==
    ASSUME DevicesAssumption, DevicesInv, NEW l \in Logins, CommitLogin(l)
    PROVE  DevicesInv'
<1> USE DEF DevicesInv
<1>1. /\ login[l] = "ready" /\ sess' = [sess EXCEPT ![asked[l]] = "active"]
      /\ given' = given \cup {asked[l]} /\ lock' = IF lock = l THEN "free" ELSE lock
      /\ Over(l)
      /\ UNCHANGED <<locked, deactivated, hsDevices, hsLocked, hsDeactivated, sync, provision,
                     deactivate, reactivate, run, found, flag, admin, events, leftover, cut, missed>>
  BY DEF CommitLogin, user, homeserver, jobs, runners
<1>2. asked[l] \in Sessions
  BY <1>1 DEF StepTypes
<1>3. RowTypes'
  BY <1>1, <1>2 DEF RowTypes
<1>4. StepTypes' /\ LockInv' /\ RequestInv'
  BY <1>1, OverKeeps
<1>5. GivenInv' /\ ReadyInv'
  BY <1>1, <1>2 DEF GivenInv, ReadyInv, RowTypes, Over, StepTypes
<1>6. \A r \in Runners : run'[r] \notin Holding
  BY <1>1, NoSync DEF LockInv
<1>7. FoundInv'
  BY <1>6 DEF FoundInv, Holding
<1>8. Active' = Active \cup {asked[l]}
  BY <1>1, <1>2 DEF Active, RowTypes
<1>9. DevicesPresent'
  BY <1>1, <1>8 DEF DevicesPresent, ReadyInv
<1> QED
  BY <1>3, <1>4, <1>5, <1>7, <1>9

LEMMA RollbackLoginKeeps ==
    ASSUME DevicesAssumption, DevicesInv, NEW l \in Logins, RollbackLogin(l)
    PROVE  DevicesInv'
<1> USE DEF DevicesInv
<1>1. /\ login[l] \in {"checked", "locked", "ready"} /\ sess' = [sess EXCEPT ![asked[l]] = "finished"]
      /\ lock' = IF lock = l THEN "free" ELSE lock
      /\ Over(l)
      /\ leftover' = IF login[l] = "ready" THEN leftover \cup {DeviceOf[asked[l]]} ELSE leftover
      /\ UNCHANGED <<locked, deactivated, hsDevices, hsLocked, hsDeactivated, sync, provision,
                     deactivate, reactivate, run, found, flag, admin, events, cut, given, missed>>
  BY DEF RollbackLogin, user, homeserver, jobs, runners
<1>2. asked[l] \in Sessions /\ DeviceOf[asked[l]] \in Devices
  BY <1>1 DEF StepTypes, DevicesAssumption
<1>3. RowTypes'
  BY <1>1, <1>2 DEF RowTypes
<1>4. StepTypes' /\ LockInv' /\ RequestInv'
  BY <1>1, OverKeeps
<1>5. GivenInv' /\ ReadyInv'
  BY <1>1, <1>2 DEF GivenInv, ReadyInv, RowTypes, Over, StepTypes
<1>6. sess[asked[l]] = "starting"
  BY <1>1 DEF RequestInv
<1>7. Active' = Active
  BY <1>1, <1>2, <1>6 DEF Active, RowTypes
<1>8. FoundInv' /\ DevicesPresent'
  BY <1>1, <1>7 DEF FoundInv, DevicesPresent, OAuth2, DevicesOf
<1> QED
  BY <1>3, <1>4, <1>5, <1>8

LEMMA SaveCompatKeeps ==
    ASSUME DevicesAssumption, DevicesInv, NEW l \in Logins, NEW E \in SUBSET (Active \cap Compat),
           SaveCompat(l, E)
    PROVE  DevicesInv'
<1> USE DEF DevicesInv
<1> DEFINE X == Replaced(l) \cup E
<1>1. /\ login[l] = "locked" /\ login' = [login EXCEPT ![l] = "saved"]
      /\ sess' = [s \in Sessions |-> IF s = asked[l] THEN "active"
                                     ELSE IF s \in X THEN "finished" ELSE sess[s]]
      /\ sync' \in {sync, sync + 1}
      /\ lock' = IF lock = l THEN "free" ELSE lock
      /\ UNCHANGED <<locked, deactivated, hsDevices, hsLocked, hsDeactivated, provision, deactivate,
                     reactivate, asked, run, found, flag, admin, events, leftover, cut, given, missed>>
  BY DEF SaveCompat, user, homeserver, runners, history
<1>2. asked[l] \in Sessions /\ sess[asked[l]] = "starting" /\ lock = l
  BY <1>1 DEF StepTypes, RequestInv, LockInv
<1>3. X \subseteq Active
  BY DEF Replaced
<1> HIDE DEF X
<1>4. RowTypes'
  BY <1>1 DEF RowTypes
<1>5. StepTypes'
  BY <1>1, <1>2 DEF StepTypes
<1>6. LockInv'
  BY <1>1, <1>2 DEF LockInv, StepTypes, DevicesAssumption
<1>7. \A s \in Sessions : \/ s = asked[l] /\ sess'[s] = "active"
                          \/ sess'[s] = sess[s]
                          \/ sess[s] = "active" /\ sess'[s] = "finished"
  BY <1>1, <1>3 DEF Active
<1>8. \A k \in Logins \ {l} : login[k] \in {"checked", "locked", "ready"} => asked[k] # asked[l]
  BY <1>1 DEF RequestInv
<1>9. RequestInv'
  <2>1. login'[l] = "saved" /\ \A k \in Logins \ {l} : login'[k] = login[k]
    BY <1>1 DEF StepTypes
  <2>2. ASSUME NEW k \in Logins, login'[k] \in {"checked", "locked", "ready"}
        PROVE  sess'[asked'[k]] = "starting"
    BY <1>1, <1>7, <1>8, <2>1, <2>2 DEF RequestInv, StepTypes
  <2>3. ASSUME NEW k \in Logins, login'[k] = "saved"
        PROVE  sess'[asked'[k]] \in {"active", "finished"}
    BY <1>1, <1>2, <1>7, <2>1, <2>3 DEF RequestInv, StepTypes
  <2>4. ASSUME NEW k \in Logins, NEW m \in Logins, asked'[k] = asked'[m],
               {login'[k], login'[m]} \subseteq {"checked", "locked", "ready"}
        PROVE  k = m
    BY <1>1, <2>1, <2>4 DEF RequestInv
  <2> QED
    BY <2>2, <2>3, <2>4 DEF RequestInv
<1>10. GivenInv' /\ ReadyInv'
  BY <1>1, <1>7 DEF GivenInv, ReadyInv, RowTypes, StepTypes
<1>11. \A r \in Runners : run'[r] \notin Holding
  BY <1>1, <1>2, NoSync
<1>12. FoundInv'
  BY <1>11 DEF FoundInv, Holding
<1>13. DevicesPresent'
  <2>1. Active' \subseteq Active \cup {asked[l]}
    BY <1>7 DEF Active
  <2>2. asked[l] \notin given
    BY <1>2 DEF GivenInv
  <2> QED
    BY <1>1, <2>1, <2>2 DEF DevicesPresent
<1> QED
  BY <1>4, <1>5, <1>6, <1>9, <1>10, <1>12, <1>13

\* A compatibility login is over: its session may have ended, and its device may be there.
LEMMA SavedKeeps ==
    ASSUME DevicesAssumption, DevicesInv, NEW l \in Logins, login[l] = "saved", Over(l),
           lock' = lock, UNCHANGED <<run, found, flag, cut>>,
           sess' = sess \/ sess' = [sess EXCEPT ![asked[l]] = "finished"],
           hsDevices' = hsDevices \/ hsDevices' = hsDevices \cup {DeviceOf[asked[l]]},
           \/ given' = given
           \/ /\ given' = given \cup {asked[l]}
              /\ hsDevices' = hsDevices \cup {DeviceOf[asked[l]]}
    PROVE  /\ StepTypes' /\ LockInv' /\ RequestInv' /\ GivenInv' /\ ReadyInv' /\ FoundInv'
           /\ DevicesPresent'
<1> USE DEF DevicesInv
<1>1. login' = [login EXCEPT ![l] = "idle"] /\ asked' = [asked EXCEPT ![l] = "none"]
  BY DEF Over
<1>2. asked[l] \in Sessions /\ sess[asked[l]] \in {"active", "finished"}
  BY DEF StepTypes, RequestInv
<1>3. \A s \in Sessions : \/ sess'[s] = sess[s]
                          \/ sess[s] \in {"active", "finished"} /\ sess'[s] = "finished"
  BY <1>2 DEF RowTypes
<1>4. \A k \in Logins : login'[k] # "idle" => login'[k] = login[k] /\ asked'[k] = asked[k]
  BY <1>1 DEF StepTypes
<1>5. StepTypes'
  BY <1>1 DEF StepTypes
<1>6. LockInv'
  BY <1>1 DEF LockInv, StepTypes, DevicesAssumption
<1>7. RequestInv'
  BY <1>3, <1>4 DEF RequestInv, StepTypes
<1>8. GivenInv'
  BY <1>2, <1>3 DEF GivenInv, RowTypes
<1>9. ReadyInv'
  BY <1>4 DEF ReadyInv
<1>10. Active' \subseteq Active
  BY <1>3 DEF Active
<1>11. \A S : DevicesOf(Active' \cap S) \subseteq DevicesOf(Active \cap S)
  BY <1>10 DEF DevicesOf
<1>12. FoundInv'
  BY <1>11 DEF FoundInv, OAuth2, DevicesOf
<1>13. DevicesPresent'
  BY <1>10 DEF DevicesPresent
<1> QED
  BY <1>5, <1>6, <1>7, <1>8, <1>9, <1>12, <1>13

LEMMA CompatEndKeeps ==
    ASSUME DevicesAssumption, DevicesInv, NEW l \in Logins,
           UpsertCompat(l) \/ FailCompat(l) \/ DropCompat(l)
    PROVE  DevicesInv'
<1> USE DEF DevicesInv
<1>1. /\ login[l] = "saved" /\ Over(l) /\ lock' = lock /\ UNCHANGED <<run, found, flag, cut>>
      /\ sess' = sess \/ sess' = [sess EXCEPT ![asked[l]] = "finished"]
      /\ hsDevices' = hsDevices \/ hsDevices' = hsDevices \cup {DeviceOf[asked[l]]}
      /\ \/ given' = given
         \/ /\ given' = given \cup {asked[l]}
            /\ hsDevices' = hsDevices \cup {DeviceOf[asked[l]]}
      /\ UNCHANGED <<locked, deactivated, hsLocked, hsDeactivated, provision, deactivate, reactivate,
                     admin, events, missed>>
      /\ sync' \in {sync, sync + 1}
      /\ leftover' \in {leftover, leftover \cup {DeviceOf[asked[l]]}}
  BY DEF UpsertCompat, FailCompat, DropCompat, user, homeserver, jobs, runners, history
<1>2. asked[l] \in Sessions /\ DeviceOf[asked[l]] \in Devices
  BY <1>1 DEF StepTypes, DevicesAssumption
<1>3. RowTypes'
  BY <1>1, <1>2 DEF RowTypes
<1>4. /\ StepTypes' /\ LockInv' /\ RequestInv' /\ GivenInv' /\ ReadyInv' /\ FoundInv'
      /\ DevicesPresent'
  BY <1>1, SavedKeeps
<1> QED
  BY <1>3, <1>4

-----------------------------------------------------------------------------
(* The steps of a sync, failures of jobs, and the deletion of the user.    *)

LEMMA SyncKeeps ==
    ASSUME DevicesAssumption, DevicesInv, NEW r \in Runners,
           LockSync(r) \/ ReadCompat(r) \/ ReadOAuth2(r) \/ ReadPersonal(r) \/ EndSync(r)
    PROVE  DevicesInv'
<1> USE DEF DevicesInv
<1> DEFINE C == DevicesOf(Active \cap Compat)
           O == DevicesOf(Active \cap OAuth2)
           P == DevicesOf(Active \cap Personal)
<1>1. /\ UNCHANGED <<locked, deactivated, sess, hsDevices, hsLocked, hsDeactivated, sync, provision,
                     deactivate, reactivate, login, asked, flag, admin, events, leftover, cut,
                     given, missed>>
      /\ \/ run[r] = "sync" /\ run' = [run EXCEPT ![r] = "compat"] /\ found' = found
            /\ lock = "free" /\ lock' = r
         \/ run[r] = "compat" /\ run' = [run EXCEPT ![r] = "oauth2"]
            /\ found' = [found EXCEPT ![r] = C] /\ lock' = lock
         \/ run[r] = "oauth2" /\ run' = [run EXCEPT ![r] = "personal"]
            /\ found' = [found EXCEPT ![r] = @ \cup O] /\ lock' = lock
         \/ run[r] = "personal" /\ run' = [run EXCEPT ![r] = "devices"]
            /\ found' = [found EXCEPT ![r] = @ \cup P] /\ lock' = lock
         \/ run[r] = "synced" /\ run' = [run EXCEPT ![r] = "idle"]
            /\ found' = [found EXCEPT ![r] = {}] /\ lock' = IF lock = r THEN "free" ELSE lock
  BY DEF LockSync, ReadCompat, ReadOAuth2, ReadPersonal, EndSync, user, homeserver, jobs, logins, history
<1>2. C \subseteq Devices /\ O \subseteq Devices /\ P \subseteq Devices
  BY DEF DevicesOf, Active, DevicesAssumption
<1>3. Active' = Active
  BY <1>1 DEF Active
<1>4. /\ (run[r] \in {"oauth2", "personal", "devices"} => C \subseteq found[r])
      /\ (run[r] \in {"personal", "devices"} => O \subseteq found[r])
      /\ (run[r] = "devices" => P \subseteq found[r])
  BY DEF FoundInv
<1> HIDE DEF C, O, P
<1>5. RowTypes'
  BY <1>1 DEF RowTypes
<1>6. StepTypes'
  <2>1. {"idle", "compat", "oauth2", "personal", "devices"} \subseteq JobSteps
    BY DEF JobSteps, SyncSteps
  <2> QED
    BY <1>1, <1>2, <2>1 DEF StepTypes
<1>7. LockInv'
  BY <1>1 DEF LockInv, StepTypes, DevicesAssumption, Holding
<1>8. RequestInv' /\ GivenInv' /\ ReadyInv' /\ DevicesPresent'
  BY <1>1, <1>3 DEF RequestInv, GivenInv, ReadyInv, DevicesPresent
<1>9. \A q \in Runners \ {r} : run'[q] = run[q] /\ found'[q] = found[q]
  BY <1>1 DEF StepTypes
<1>10. /\ (run'[r] \in {"oauth2", "personal", "devices"} => C \subseteq found'[r])
       /\ (run'[r] \in {"personal", "devices"} => O \subseteq found'[r])
       /\ (run'[r] = "devices" => P \subseteq found'[r])
  BY <1>1, <1>4 DEF StepTypes
<1>11. FoundInv'
  BY <1>3, <1>9, <1>10 DEF FoundInv, C, O, P, DevicesOf, OAuth2
<1> QED
  BY <1>5, <1>6, <1>7, <1>8, <1>11

\* sync_devices deletes no device that a session needs: what was read under the lock
\* covers every session that is active.
LEMMA CallSyncKeeps ==
    ASSUME DevicesAssumption, DevicesInv, NEW r \in Runners, CallSync(r)
    PROVE  DevicesInv'
<1> USE DEF DevicesInv
<1>1. /\ run[r] = "devices" /\ hsDevices' = found[r] /\ run' = [run EXCEPT ![r] = "synced"]
      /\ leftover' \subseteq found[r]
      /\ UNCHANGED <<locked, deactivated, sess, hsLocked, hsDeactivated, sync, provision, deactivate,
                     reactivate, lock, login, asked, found, flag, admin, events, cut, given, missed>>
  BY DEF CallSync, user, jobs, logins
<1>2. RowTypes'
  BY <1>1 DEF RowTypes, StepTypes
<1>3. StepTypes'
  BY <1>1 DEF StepTypes, JobSteps, SyncSteps
<1>4. LockInv'
  BY <1>1 DEF LockInv, StepTypes, Holding
<1>5. \A l \in Logins : login[l] # "ready"
  BY <1>1 DEF LockInv, Holding, DevicesAssumption
<1>6. RequestInv' /\ GivenInv' /\ ReadyInv'
  BY <1>1, <1>5 DEF RequestInv, GivenInv, ReadyInv
<1>7. Active' = Active
  BY <1>1 DEF Active
<1>8. FoundInv'
  BY <1>1, <1>7 DEF FoundInv, StepTypes, DevicesOf, OAuth2
<1>9. \A s \in Active : DeviceOf[s] \in found[r]
  <2>1. DevicesOf(Active \cap Compat) \cup DevicesOf(Active \cap OAuth2)
          \cup DevicesOf(Active \cap Personal) \subseteq found[r]
    BY <1>1 DEF FoundInv
  <2>2. \A s \in Active : s \in Active \cap Compat \/ s \in Active \cap OAuth2 \/ s \in Active \cap Personal
    BY DEF OAuth2, Active
  <2> QED
    BY <2>1, <2>2 DEF DevicesOf
<1>10. DevicesPresent'
  BY <1>1, <1>7, <1>9 DEF DevicesPresent
<1> QED
  BY <1>2, <1>3, <1>4, <1>6, <1>8, <1>10

LEMMA AbortKeeps ==
    ASSUME DevicesAssumption, DevicesInv, NEW r \in Runners, FailJob(r) \/ LoseJob(r)
    PROVE  DevicesInv'
<1> USE DEF DevicesInv
<1>1. /\ run' = [run EXCEPT ![r] = "idle"] /\ found' = [found EXCEPT ![r] = {}]
      /\ flag' = [flag EXCEPT ![r] = "no"] /\ lock' = IF lock = r THEN "free" ELSE lock
      /\ events' = events + 1
      /\ sync' \in {sync, sync + 1} /\ provision' \in {provision, provision + 1}
      /\ deactivate' \in {deactivate, deactivate + 1} /\ reactivate' \in {reactivate, reactivate + 1}
      /\ UNCHANGED <<locked, deactivated, sess, hsDevices, hsLocked, hsDeactivated, login, asked,
                     admin, cut, given>>
      /\ leftover' \in {leftover, leftover \cup Stale} /\ missed' \in {"yes", missed}
  <2>1. CASE FailJob(r)
    BY <2>1 DEF FailJob, Abort, user, homeserver, logins, history
  <2>2. CASE LoseJob(r)
    BY <2>2 DEF LoseJob, Abort, user, homeserver, jobs, logins
  <2> QED
    BY <2>1, <2>2
<1>2. RowTypes'
  <2>1. Stale \subseteq Devices
    BY DEF Stale, RowTypes
  <2> QED
    BY <1>1, <2>1 DEF RowTypes, Flags
<1>3. StepTypes'
  BY <1>1 DEF StepTypes, JobSteps, Flags
<1>4. LockInv'
  BY <1>1 DEF LockInv, StepTypes, Holding, DevicesAssumption
<1>5. Active' = Active
  BY <1>1 DEF Active
<1>6. RequestInv' /\ GivenInv' /\ ReadyInv' /\ DevicesPresent'
  BY <1>1, <1>5 DEF RequestInv, GivenInv, ReadyInv, DevicesPresent
<1>7. \A q \in Runners : run'[q] # "idle" => run'[q] = run[q] /\ found'[q] = found[q]
  BY <1>1 DEF StepTypes
<1>8. FoundInv'
  BY <1>5, <1>7 DEF FoundInv, DevicesOf, OAuth2
<1> QED
  BY <1>2, <1>3, <1>4, <1>6, <1>8

LEMMA CallDeleteKeeps ==
    ASSUME DevicesAssumption, DevicesInv, NEW r \in Runners, CallDelete(r)
    PROVE  DevicesInv'
<1> USE DEF DevicesInv
<1>1. /\ run[r] = "delete" /\ run' = [run EXCEPT ![r] = "idle"]
      /\ hsDeactivated' = "yes" /\ hsDevices' = {}
      /\ cut' = cut \cup {s \in Sessions : sess[s] \in {"starting", "active"}}
      /\ UNCHANGED <<locked, deactivated, sess, hsLocked, sync, provision, deactivate, reactivate, lock,
                     login, asked, found, flag, admin, events, leftover, given, missed>>
  BY DEF CallDelete, user, jobs, logins
<1>2. RowTypes'
  BY <1>1 DEF RowTypes, Flags
<1>3. StepTypes'
  BY <1>1 DEF StepTypes, JobSteps
<1>4. LockInv'
  BY <1>1 DEF LockInv, StepTypes, Holding
<1>5. Active' = Active /\ Active \subseteq cut'
  BY <1>1 DEF Active
<1>6. RequestInv' /\ GivenInv' /\ DevicesPresent'
  BY <1>1, <1>5 DEF RequestInv, GivenInv, DevicesPresent
<1>7. ReadyInv'
  BY <1>1 DEF ReadyInv, RequestInv, StepTypes
<1>8. \A q \in Runners : run'[q] # "idle" => run'[q] = run[q]
  BY <1>1 DEF StepTypes
<1>9. FoundInv'
  BY <1>1, <1>5, <1>8 DEF FoundInv, DevicesOf, OAuth2
<1> QED
  BY <1>2, <1>3, <1>4, <1>6, <1>7, <1>9

-----------------------------------------------------------------------------

LEMMA QuietStep ==
    ASSUME DevicesAssumption, DevicesInv,
           \/ Ending \/ UserChange \/ UNCHANGED vars
           \/ \E r \in Runners : Aside(r) \/ CommitDeactivate(r)
    PROVE  DevicesInv'
<1> USE DEF DevicesInv
<1> SUFFICES Quiet /\ RowTypes' /\ flag' \in [Runners -> Flags]
  BY QuietTypes, QuietKeeps
<1>1. flag \in [Runners -> Flags]
  BY DEF StepTypes
<1>2. CASE Ending
  <2>1. {DeviceOf[s] : s \in Sessions} \subseteq Devices
    BY DEF DevicesAssumption
  <2>2. \A s \in Sessions : sess'[s] \in {"finished", sess[s]}
    BY <1>2, EndingQuiet DEF Quiet
  <2>3. sess' \in [Sessions -> {"none", "starting", "active", "finished"}]
    BY <1>2, <2>2, EndingQuiet DEF Quiet, RowTypes
  <2>4. hsDevices' = hsDevices /\ cut' = cut /\ given' = given
    BY <1>2, EndingQuiet DEF Quiet
  <2>5. RowTypes'
    BY <1>2, <2>1, <2>3, <2>4, EndingQuiet DEF RowTypes, user
  <2> QED
    BY <1>1, <1>2, <2>5, EndingQuiet
<1>3. CASE UserChange
  BY <1>1, <1>3, UserChangeQuiet
<1>4. CASE UNCHANGED vars
  <2> USE DEF vars, user, homeserver, jobs, logins, runners, history
  <2>1. Quiet
    BY <1>4, Unended
  <2> QED
    BY <1>1, <1>4, <2>1 DEF RowTypes
<1>5. CASE \E r \in Runners : Aside(r) \/ CommitDeactivate(r)
  BY <1>1, <1>5, AsideQuiet, DeactivateQuiet
<1> QED
  BY <1>2, <1>3, <1>4, <1>5

LEMMA DevicesStep == DevicesAssumption /\ DevicesInv /\ [Next]_vars => DevicesInv'
<1> SUFFICES ASSUME DevicesAssumption, DevicesInv, [Next]_vars PROVE DevicesInv'
  OBVIOUS
<1>1. CASE \E l \in Logins : LoginStep(l) \/ \E s \in Sessions : Login(l, s)
  BY <1>1, LoginKeeps, LockLoginKeeps, UpsertKeeps, CommitLoginKeeps, RollbackLoginKeeps,
     SaveCompatKeeps, CompatEndKeeps DEF LoginStep
<1>2. CASE \E r \in Runners : Step(r) \/ FailJob(r) \/ LoseJob(r)
  <2> SUFFICES ASSUME NEW r \in Runners, Step(r) \/ FailJob(r) \/ LoseJob(r) PROVE DevicesInv'
    BY <1>2
  <2>1. CASE FailJob(r) \/ LoseJob(r)
    BY <2>1, AbortKeeps
  <2>2. CASE LockSync(r) \/ ReadCompat(r) \/ ReadOAuth2(r) \/ ReadPersonal(r) \/ EndSync(r)
    BY <2>2, SyncKeeps
  <2>3. CASE CallSync(r)
    BY <2>3, CallSyncKeeps
  <2>4. CASE CallDelete(r)
    BY <2>4, CallDeleteKeeps
  <2>5. CASE Aside(r) \/ CommitDeactivate(r)
    BY <2>5, QuietStep
  <2> QED
    BY <2>1, <2>2, <2>3, <2>4, <2>5 DEF Step, Aside
<1>3. CASE Ending \/ UserChange \/ UNCHANGED vars
  BY <1>3, QuietStep
<1> QED
  BY <1>1, <1>2, <1>3 DEF Next

\* Type correctness, and the advisory lock (acquire_lock_for_sync) is held only by a login or
\* a SyncDevicesJob that is between taking it and the end of its transaction.
THEOREM DeviceTypes == DevicesAssumption /\ Spec => []TypeOK
<1> SUFFICES ASSUME DevicesAssumption PROVE Spec => []TypeOK
  OBVIOUS
<1>1. Init => DevicesInv
  BY DevicesInit
<1>2. DevicesInv /\ [Next]_vars => DevicesInv'
  BY DevicesStep
<1>3. DevicesInv => TypeOK
  BY TypesFollow DEF DevicesInv
<1> QED
  BY <1>1, <1>2, <1>3, PTL DEF Spec

\* However many logins and jobs of a user run at the same time and fail or are lost, the device
\* of a session whose client has its tokens is on the homeserver: no SyncDevicesJob deletes
\* the device of a login beside it (matrix.rs, token.rs, login.rs).
THEOREM DevicesStay == DevicesAssumption /\ Spec => []DevicesPresent
<1> SUFFICES ASSUME DevicesAssumption PROVE Spec => []DevicesPresent
  OBVIOUS
<1>1. Init => DevicesInv
  BY DevicesInit
<1>2. DevicesInv /\ [Next]_vars => DevicesInv'
  BY DevicesStep
<1>3. DevicesInv => DevicesPresent
  BY DEF DevicesInv
<1> QED
  BY <1>1, <1>2, <1>3, PTL DEF Spec
=============================================================================
