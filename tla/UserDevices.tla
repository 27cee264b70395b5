----------------------------- MODULE UserDevices -----------------------------
(***************************************************************************)
(* What the homeserver knows of one user: the devices of the sessions, the *)
(* lock and the deactivation.  OAuth 2.0 logins and new personal sessions  *)
(* create the device while they hold the user's advisory lock (handlers,   *)
(* oauth2/token.rs and admin/v1/personal_sessions/add.rs), compatibility   *)
(* logins once they have committed (compat/login.rs); every other change   *)
(* goes through the jobs of crates/tasks/src/matrix.rs and user.rs, which  *)
(* the module JobQueue delivers.                                           *)
(*                                                                         *)
(* A job or a request is a READ COMMITTED transaction; its calls to the    *)
(* homeserver take effect at once, whether the transaction commits or not. *)
(***************************************************************************)
EXTENDS Naturals

CONSTANTS
    Sessions,      \* sessions that are started, each at most once
    Compat,        \* the ones that are compatibility sessions
    Personal,      \* the ones that are personal sessions; the rest is OAuth 2.0
    Devices,
    DeviceOf,      \* the device each session asks for
    Logins,        \* slots for requests that start a session
    Runners,       \* slots for jobs that run at the same time
    MaxEvents      \* bound: logins, changes to the user and failures of jobs, together

ASSUME DevicesAssumption ==
    /\ Compat \subseteq Sessions /\ Personal \subseteq Sessions \ Compat
    /\ DeviceOf \in [Sessions -> Devices]
    /\ "none" \notin Sessions
    /\ Logins \cap Runners = {} /\ "free" \notin Logins \cup Runners
    /\ MaxEvents \in Nat

VARIABLES
    locked, deactivated,                    \* the user: "yes" or "no"
    sess,                                   \* none, starting, active or finished
    hsDevices, hsLocked, hsDeactivated,     \* the homeserver
    sync, provision, deactivate, reactivate,  \* how many jobs of a kind are queued
    lock,                                   \* who holds the advisory lock
    login, asked,                           \* each login, and the session it starts
    run, found, flag,                       \* each runner, and what its job has read
    admin,                                  \* a request that reactivates the user
    events,                                 \* counter for the bound
    leftover,                               \* (history) devices left without a sync
    cut,                                    \* (history) sessions the deletion of the user hit
    given,                                  \* (history) sessions whose client has its tokens
    missed                                  \* (history) a ProvisionUserJob was lost: "yes" or "no"

user == <<locked, deactivated>>
homeserver == <<hsDevices, hsLocked, hsDeactivated>>
jobs == <<sync, provision, deactivate, reactivate>>
logins == <<login, asked>>
runners == <<run, found, flag>>
history == <<leftover, cut, given, missed>>
vars == <<user, sess, homeserver, jobs, lock, logins, runners, admin, events, history>>

-----------------------------------------------------------------------------

Active == {s \in Sessions : sess[s] = "active"}
OAuth2 == Sessions \ (Compat \cup Personal)
DevicesOf(S) == {DeviceOf[s] : s \in S}

\* No request that reactivates the user.
Idle == [does |-> "nothing", locked |-> "no", deactivated |-> "no"]

Init ==
    /\ locked = "no" /\ deactivated = "no"
    /\ sess = [s \in Sessions |-> "none"]
    /\ hsDevices = {} /\ hsLocked = "no" /\ hsDeactivated = "no"
    /\ sync = 0 /\ provision = 0 /\ deactivate = 0 /\ reactivate = 0
    /\ lock = "free"
    /\ login = [l \in Logins |-> "idle"]
    /\ asked = [l \in Logins |-> "none"]
    /\ run = [r \in Runners |-> "idle"]
    /\ found = [r \in Runners |-> {}] /\ flag = [r \in Runners |-> "no"]
    /\ admin = Idle
    /\ events = 0
    /\ leftover = {} /\ cut = {} /\ given = {} /\ missed = "no"

-----------------------------------------------------------------------------
(* Logins: authorization_code_grant, device_code_grant, compat login, and  *)
(* personal sessions, which an administrator adds.                         *)

\* The request is checked and its session inserted.  A compatibility login wants a user
\* who is neither locked nor deactivated, a personal session one who is not deactivated
\* (is_valid_actor); the device code flow looks at neither.
Login(l, s) ==
    /\ login[l] = "idle" /\ sess[s] = "none" /\ events < MaxEvents
    /\ events' = events + 1
    /\ s \in Compat => locked = "no" /\ deactivated = "no"
    /\ s \in Personal => deactivated = "no"
    /\ sess' = [sess EXCEPT ![s] = "starting"]
    /\ login' = [login EXCEPT ![l] = "checked"]
    /\ asked' = [asked EXCEPT ![l] = s]
    /\ UNCHANGED <<user, homeserver, jobs, lock, runners, admin, history>>

\* Mutant of LockLogin: the device is created without the lock.
LockLogin_Free(l) ==
    /\ login[l] = "checked"
    /\ login' = [login EXCEPT ![l] = "locked"]
    /\ UNCHANGED <<user, sess, homeserver, jobs, lock, asked, runners, admin, events, history>>

\* acquire_lock_for_sync: "to make sure we don't get into a race condition".
LockLogin(l) ==
    /\ login[l] = "checked" /\ lock = "free"
    /\ lock' = l
    /\ login' = [login EXCEPT ![l] = "locked"]
    /\ UNCHANGED <<user, sess, homeserver, jobs, asked, runners, admin, events, history>>

\* authorization_code_grant, device_code_grant and the handler that adds a personal
\* session create the device before they commit and release the lock.
Upsert(l) ==
    /\ login[l] = "locked" /\ asked[l] \notin Compat
    /\ hsDevices' = hsDevices \cup {DeviceOf[asked[l]]}
    /\ login' = [login EXCEPT ![l] = "ready"]
    /\ UNCHANGED <<user, sess, hsLocked, hsDeactivated, jobs, lock, asked, runners,
                   admin, events, history>>

\* The request is over.
Over(l) ==
    /\ login' = [login EXCEPT ![l] = "idle"]
    /\ asked' = [asked EXCEPT ![l] = "none"]

\* save: the session is there and the lock is free.
CommitLogin(l) ==
    /\ login[l] = "ready"
    /\ sess' = [sess EXCEPT ![asked[l]] = "active"]
    /\ given' = given \cup {asked[l]}
    /\ lock' = IF lock = l THEN "free" ELSE lock
    /\ Over(l)
    /\ UNCHANGED <<user, homeserver, jobs, runners, admin, events, leftover, cut, missed>>

\* The sessions that the login l replaces (finish_sessions_to_replace_device, which leaves
\* personal sessions alone).
Replaced(l) == {s \in Active \ Personal : DeviceOf[s] = DeviceOf[asked[l]]}

\* compat login commits before it creates the device: "Ideally, we'd keep the lock whilst
\* we actually create the device".  It may evict the sessions E, and then schedules a
\* SyncDevicesJob.
SaveCompat(l, E) ==
    /\ login[l] = "locked" /\ asked[l] \in Compat
    /\ E \subseteq Active \cap Compat
    /\ sess' = [s \in Sessions |-> IF s = asked[l] THEN "active"
                                   ELSE IF s \in Replaced(l) \cup E THEN "finished"
                                   ELSE sess[s]]
    /\ sync' = IF E = {} THEN sync ELSE sync + 1
    /\ lock' = IF lock = l THEN "free" ELSE lock
    /\ login' = [login EXCEPT ![l] = "saved"]
    /\ UNCHANGED <<user, homeserver, provision, deactivate, reactivate, asked, runners, admin, events, history>>

\* upsert_device, and the answer.  A session that ended meanwhile leaves its device.
UpsertCompat(l) ==
    /\ login[l] = "saved"
    /\ hsDevices' = hsDevices \cup {DeviceOf[asked[l]]}
    /\ given' = given \cup {asked[l]}
    /\ leftover' = IF asked[l] \in Active THEN leftover
                   ELSE leftover \cup {DeviceOf[asked[l]]}
    /\ Over(l)
    /\ UNCHANGED <<user, sess, hsLocked, hsDeactivated, jobs, lock, runners,
                   admin, events, cut, missed>>

\* The call fails, whether it took effect or not: "let's end this session and schedule a
\* device sync".
FailCompat(l) ==
    /\ login[l] = "saved"
    /\ hsDevices' \in {hsDevices, hsDevices \cup {DeviceOf[asked[l]]}}
    /\ sess' = [sess EXCEPT ![asked[l]] = "finished"]
    /\ sync' = sync + 1
    /\ Over(l)
    /\ UNCHANGED <<user, hsLocked, hsDeactivated, provision, deactivate, reactivate, lock, runners,
                   admin, events, history>>

\* The request fails or is dropped before it commits; a device it created stays.
RollbackLogin(l) ==
    /\ login[l] \in {"checked", "locked", "ready"}
    /\ sess' = [sess EXCEPT ![asked[l]] = "finished"]
    /\ lock' = IF lock = l THEN "free" ELSE lock
    /\ Over(l)
    /\ leftover' = IF login[l] = "ready" THEN leftover \cup {DeviceOf[asked[l]]} ELSE leftover
    /\ UNCHANGED <<user, homeserver, jobs, runners, admin, events, cut, given, missed>>

\* The process dies between the commit and the device: the client has no tokens.
DropCompat(l) ==
    /\ login[l] = "saved"
    /\ Over(l)
    /\ UNCHANGED <<user, sess, homeserver, jobs, lock, runners, admin, events, history>>

-----------------------------------------------------------------------------
(* The end of sessions, and changes to the user.                           *)

\* Mutant of Finish: no job is scheduled.
Finish_Unsynced(S) ==
    /\ S # {} /\ S \subseteq Active
    /\ sess' = [s \in Sessions |-> IF s \in S THEN "finished" ELSE sess[s]]
    /\ UNCHANGED <<user, homeserver, jobs, lock, logins, runners, admin, events, history>>

\* The sessions S are finished, and a SyncDevicesJob is scheduled in the same
\* transaction (a request that finds nothing to finish changes nothing here).
Finish(S) ==
    /\ S # {} /\ S \subseteq Active
    /\ sess' = [s \in Sessions |-> IF s \in S THEN "finished" ELSE sess[s]]
    /\ sync' = sync + 1
    /\ UNCHANGED <<user, homeserver, provision, deactivate, reactivate, lock, logins, runners,
                   admin, events, history>>

\* The revocation endpoint ends the session of the token and, with the scope
\* urn:pg:mas-logout, the other OAuth 2.0 sessions of its browser session.
Revoke(S) == S \subseteq OAuth2 /\ Finish(S)

\* The admin API and the GraphQL API end one session.
AdminFinishOAuth2(s) == s \in OAuth2 /\ Finish({s})
AdminFinishCompat(s) == s \in Compat /\ Finish({s})
EndOAuth2Session(s) == s \in OAuth2 /\ Finish({s})
EndCompatSession(s) == s \in Compat /\ Finish({s})

\* The admin API revokes a personal session.
RevokePersonal(s) == s \in Personal /\ Finish({s})

\* The log-outs of the Matrix API: of one session, or of all compatibility sessions
\* of a user who is valid.
CompatLogout(s) == s \in Compat /\ Finish({s})
CompatLogoutAll == locked = "no" /\ deactivated = "no" /\ Finish(Active \cap Compat)

\* Jobs that end a page of inactive sessions, or of sessions past their lifetime.
ExpireOAuth2(S) == S \subseteq OAuth2 /\ Finish(S)
ExpireCompat(S) == S \subseteq Compat /\ Finish(S)
ExpirePgOAuth(S) == S \subseteq OAuth2 /\ Finish(S)

\* mas-cli manage kill-sessions ends all sessions but the personal ones, and schedules a
\* SyncDevicesJob even if there are none.
KillSessions ==
    \/ Finish(Active \ Personal)
    \/ /\ Active \subseteq Personal /\ events < MaxEvents
       /\ events' = events + 1
       /\ sync' = sync + 1
       /\ UNCHANGED <<user, sess, homeserver, provision, deactivate, reactivate, lock, logins,
                      runners, admin, history>>

\* A back-channel logout ends the sessions S of the browser sessions it reaches.
BackchannelLogout(S) == S \cap Personal = {} /\ Finish(S)

\* authorization_code_grant ends the session of a replayed code: no job.
EndReplayed(s) ==
    /\ s \in Active \cap OAuth2
    /\ sess' = [sess EXCEPT ![s] = "finished"]
    /\ leftover' = leftover \cup {DeviceOf[s]}
    /\ UNCHANGED <<user, homeserver, jobs, lock, logins, runners, admin, events, cut, given,
                   missed>>

\* A change to the user, with the jobs it schedules: a ProvisionUserJob that tells the
\* homeserver of the lock, a DeactivateUserJob, a ReactivateUserJob.
Change(l, d, jp, jd, jr) ==
    /\ events < MaxEvents
    /\ events' = events + 1
    /\ locked' = l /\ deactivated' = d
    /\ provision' = provision + jp /\ deactivate' = deactivate + jd
    /\ reactivate' = reactivate + jr
    /\ UNCHANGED <<sess, homeserver, sync, lock, logins, runners, admin, history>>

\* The admin API locks and unlocks.
AdminLock == Change("yes", deactivated, 1, 0, 0)
AdminUnlock == Change("no", deactivated, 1, 0, 0)

\* The GraphQL API and mas-cli manage lock-user may also ask for the deactivation, which
\* is then left to the job.
LockUser(asks) == Change("yes", deactivated, 1, IF asks THEN 1 ELSE 0, 0)

\* mas-cli manage unlock-user, which only unlocks when it does not reactivate.
CliUnlock(asks) ==
    IF asks THEN Change(locked, deactivated, 1, 0, 1) ELSE Change("no", deactivated, 1, 0, 0)

\* The admin API deactivates the user; so does the user in the GraphQL API.
AdminDeactivate == Change(locked, "yes", 0, 1, 0)
DeactivateUser == locked = "no" /\ deactivated = "no" /\ Change(locked, "yes", 0, 1, 0)

\* The admin API reactivates the user, or the GraphQL API unlocks and reactivates it:
\* the user is loaded, and reactivated on the homeserver ...
ReactivateCall(what) ==
    /\ admin = Idle /\ events < MaxEvents
    /\ events' = events + 1
    /\ admin' = [does |-> what, locked |-> locked, deactivated |-> deactivated]
    /\ hsDeactivated' = "no"
    /\ UNCHANGED <<user, sess, hsDevices, hsLocked, jobs, lock, logins, runners, history>>

\* reactivate and unlock do nothing if the user, as it was loaded, needs nothing.
Cleared(loaded, now) == IF loaded = "yes" THEN "no" ELSE now

\* ... then in the database, unless that fails.
ReactivateSave ==
    /\ admin.does = "reactivate" /\ admin' = Idle
    /\ deactivated' \in {Cleared(admin.deactivated, deactivated), deactivated}
    /\ UNCHANGED <<locked, sess, homeserver, jobs, lock, logins, runners, events, history>>

UnlockSave ==
    /\ admin.does = "unlock" /\ admin' = Idle
    /\ \/ /\ deactivated' = Cleared(admin.deactivated, deactivated)
          /\ locked' = Cleared(admin.locked, locked)
          /\ provision' = provision + 1
       \/ UNCHANGED <<user, provision>>
    /\ UNCHANGED <<sess, homeserver, sync, deactivate, reactivate, lock, logins, runners,
                   events, history>>

-----------------------------------------------------------------------------
(* SyncDevicesJob                                                          *)

Start(r, pc) ==
    /\ run[r] = "idle"
    /\ run' = [run EXCEPT ![r] = pc]
    /\ UNCHANGED <<user, sess, homeserver, lock, logins, found, flag, admin, events, history>>

StartSync(r) ==
    /\ sync > 0
    /\ sync' = sync - 1
    /\ Start(r, "sync")
    /\ UNCHANGED <<provision, deactivate, reactivate>>

\* acquire_lock_for_sync.
LockSync(r) ==
    /\ run[r] = "sync" /\ lock = "free"
    /\ lock' = r
    /\ run' = [run EXCEPT ![r] = "compat"]
    /\ UNCHANGED <<user, sess, homeserver, jobs, logins, found, flag, admin, events, history>>

\* The devices of the compatibility sessions, in one or more pages ...
ReadCompat(r) ==
    /\ run[r] = "compat"
    /\ found' = [found EXCEPT ![r] = DevicesOf(Active \cap Compat)]
    /\ run' = [run EXCEPT ![r] = "oauth2"]
    /\ UNCHANGED <<user, sess, homeserver, jobs, lock, logins, flag, admin, events, history>>

\* ... those of the OAuth 2.0 sessions ...
ReadOAuth2(r) ==
    /\ run[r] = "oauth2"
    /\ found' = [found EXCEPT ![r] = @ \cup DevicesOf(Active \cap OAuth2)]
    /\ run' = [run EXCEPT ![r] = "personal"]
    /\ UNCHANGED <<user, sess, homeserver, jobs, lock, logins, flag, admin, events, history>>

\* ... and those of the personal sessions.
ReadPersonal(r) ==
    /\ run[r] = "personal"
    /\ found' = [found EXCEPT ![r] = @ \cup DevicesOf(Active \cap Personal)]
    /\ run' = [run EXCEPT ![r] = "devices"]
    /\ UNCHANGED <<user, sess, homeserver, jobs, lock, logins, flag, admin, events, history>>

\* sync_devices: the homeserver has these devices and no others.  The deletion of
\* the user takes no lock, so this may put back what it has deleted.
CallSync(r) ==
    /\ run[r] = "devices"
    /\ hsDevices' = found[r]
    /\ leftover' = (leftover \cup (found[r] \ hsDevices)) \cap found[r]
    /\ run' = [run EXCEPT ![r] = "synced"]
    /\ UNCHANGED <<user, sess, hsLocked, hsDeactivated, jobs, lock, logins, found,
                   flag, admin, events, cut, given, missed>>

\* save, which releases the lock.
EndSync(r) ==
    /\ run[r] = "synced"
    /\ run' = [run EXCEPT ![r] = "idle"]
    /\ found' = [found EXCEPT ![r] = {}]
    /\ lock' = IF lock = r THEN "free" ELSE lock
    /\ UNCHANGED <<user, sess, homeserver, jobs, logins, flag, admin, events, history>>

-----------------------------------------------------------------------------
(* ProvisionUserJob                                                        *)

StartProvision(r) ==
    /\ provision > 0
    /\ provision' = provision - 1
    /\ Start(r, "lookup")
    /\ UNCHANGED <<sync, deactivate, reactivate>>

\* lookup of the user.
ReadUser(r) ==
    /\ run[r] = "lookup"
    /\ flag' = [flag EXCEPT ![r] = locked]
    /\ run' = [run EXCEPT ![r] = "provision"]
    /\ missed' = "no"
    /\ UNCHANGED <<user, sess, homeserver, jobs, lock, logins, found, admin, events, leftover, cut,
                   given>>

\* provision_user, with the lock flag as it was read.
CallProvision(r) ==
    /\ run[r] = "provision"
    /\ hsLocked' = flag[r]
    /\ run' = [run EXCEPT ![r] = "provisioned"]
    /\ UNCHANGED <<user, sess, hsDevices, hsDeactivated, jobs, lock, logins, found,
                   flag, admin, events, history>>

\* A SyncDevicesJob is scheduled; save.
EndProvision(r) ==
    /\ run[r] = "provisioned"
    /\ run' = [run EXCEPT ![r] = "idle"]
    /\ flag' = [flag EXCEPT ![r] = "no"]
    /\ sync' = sync + 1
    /\ UNCHANGED <<user, sess, homeserver, provision, deactivate, reactivate, lock, logins, found,
                   admin, events, history>>

-----------------------------------------------------------------------------
(* DeactivateUserJob                                                       *)

StartDeactivate(r) ==
    /\ deactivate > 0
    /\ deactivate' = deactivate - 1
    /\ Start(r, "deactivate")
    /\ UNCHANGED <<sync, provision, reactivate>>

\* deactivate, finish_bulk of every kind of session; save.
CommitDeactivate(r) ==
    /\ run[r] = "deactivate"
    /\ deactivated' = "yes"
    /\ sess' = [s \in Sessions |-> IF s \in Active THEN "finished" ELSE sess[s]]
    /\ run' = [run EXCEPT ![r] = "delete"]
    /\ UNCHANGED <<locked, homeserver, jobs, lock, logins, found, flag, admin, events, history>>

\* delete_user: the homeserver deactivates the user and deletes the devices.
CallDelete(r) ==
    /\ run[r] = "delete"
    /\ hsDeactivated' = "yes"
    /\ hsDevices' = {}
    /\ cut' = cut \cup {s \in Sessions : sess[s] \in {"starting", "active"}}
    /\ run' = [run EXCEPT ![r] = "idle"]
    /\ UNCHANGED <<user, sess, hsLocked, jobs, lock, logins, found, flag, admin,
                   events, leftover, given, missed>>

-----------------------------------------------------------------------------

(* ReactivateUserJob                                                       *)

StartReactivate(r) ==
    /\ reactivate > 0
    /\ reactivate' = reactivate - 1
    /\ Start(r, "reactivate")
    /\ UNCHANGED <<sync, provision, deactivate>>

\* The user is loaded, and reactivated on the homeserver ...
CallReactivate(r) ==
    /\ run[r] = "reactivate"
    /\ flag' = [flag EXCEPT ![r] = deactivated]
    /\ hsDeactivated' = "no"
    /\ run' = [run EXCEPT ![r] = "reactivated"]
    /\ UNCHANGED <<user, sess, hsDevices, hsLocked, jobs, lock, logins, found, admin,
                   events, history>>

\* ... and then reactivated here.
EndReactivate(r) ==
    /\ run[r] = "reactivated"
    /\ deactivated' = Cleared(flag[r], deactivated)
    /\ run' = [run EXCEPT ![r] = "idle"]
    /\ flag' = [flag EXCEPT ![r] = "no"]
    /\ UNCHANGED <<locked, sess, homeserver, jobs, lock, logins, found, admin, events, history>>

-----------------------------------------------------------------------------

SyncSteps == {"sync", "compat", "oauth2", "personal", "devices", "synced"}
ProvisionSteps == {"lookup", "provision", "provisioned"}
DeactivateSteps == {"deactivate", "delete"}
ReactivateSteps == {"reactivate", "reactivated"}

\* The transaction of a job is rolled back.
Abort(r) ==
    /\ run[r] # "idle" /\ events < MaxEvents
    /\ events' = events + 1
    /\ run' = [run EXCEPT ![r] = "idle"]
    /\ found' = [found EXCEPT ![r] = {}] /\ flag' = [flag EXCEPT ![r] = "no"]
    /\ lock' = IF lock = r THEN "free" ELSE lock

\* Mutant of FailJob: a job that fails is not run again.
FailJob_Dropped(r) ==
    /\ Abort(r)
    /\ UNCHANGED <<user, sess, homeserver, jobs, logins, admin, history>>

\* JobError::retry, or a panic: the job runs again.
FailJob(r) ==
    /\ Abort(r)
    /\ sync' = IF run[r] \in SyncSteps THEN sync + 1 ELSE sync
    /\ provision' = IF run[r] \in ProvisionSteps THEN provision + 1 ELSE provision
    /\ deactivate' = IF run[r] \in DeactivateSteps THEN deactivate + 1 ELSE deactivate
    /\ reactivate' = IF run[r] \in ReactivateSteps THEN reactivate + 1 ELSE reactivate
    /\ UNCHANGED <<user, sess, homeserver, logins, admin, history>>

\* Devices that the homeserver has for sessions that have ended.
Stale == (hsDevices \cap DevicesOf({s \in Sessions : sess[s] = "finished"})) \ DevicesOf(Active)

\* The worker dies, and nobody takes its job over ("TODO: mark tasks those workers had as
\* lost"); or it was the last of MAX_ATTEMPTS.
LoseJob(r) ==
    /\ Abort(r)
    /\ leftover' = IF run[r] \in SyncSteps \cup DeactivateSteps THEN leftover \cup Stale ELSE leftover
    /\ missed' = IF run[r] \in {"lookup", "provision"} THEN "yes" ELSE missed
    /\ UNCHANGED <<user, sess, homeserver, jobs, logins, admin, cut, given>>

LoginStep(l) ==
    \/ LockLogin(l) \/ Upsert(l) \/ CommitLogin(l) \/ RollbackLogin(l)
    \/ (\E E \in SUBSET (Active \cap Compat) : SaveCompat(l, E)) \/ UpsertCompat(l) \/ FailCompat(l) \/ DropCompat(l)

Step(r) ==
    \/ StartSync(r) \/ LockSync(r) \/ ReadCompat(r) \/ ReadOAuth2(r) \/ ReadPersonal(r)
    \/ CallSync(r) \/ EndSync(r)
    \/ StartProvision(r) \/ ReadUser(r) \/ CallProvision(r) \/ EndProvision(r)
    \/ StartDeactivate(r) \/ CommitDeactivate(r) \/ CallDelete(r)
    \/ StartReactivate(r) \/ CallReactivate(r) \/ EndReactivate(r)

Ending ==
    \/ \E S \in SUBSET Active : \/ Revoke(S) \/ BackchannelLogout(S)
                               \/ ExpireOAuth2(S) \/ ExpireCompat(S) \/ ExpirePgOAuth(S)
    \/ \E s \in Active : \/ AdminFinishOAuth2(s) \/ AdminFinishCompat(s)
                         \/ EndOAuth2Session(s) \/ EndCompatSession(s)
                         \/ CompatLogout(s) \/ EndReplayed(s) \/ RevokePersonal(s)
    \/ CompatLogoutAll \/ KillSessions

UserChange ==
    \/ AdminLock \/ AdminUnlock \/ AdminDeactivate \/ DeactivateUser
    \/ \E asks \in BOOLEAN : LockUser(asks) \/ CliUnlock(asks)
    \/ \E what \in {"reactivate", "unlock"} : ReactivateCall(what)
    \/ ReactivateSave \/ UnlockSave

Next ==
    \/ \E l \in Logins : LoginStep(l) \/ \E s \in Sessions : Login(l, s)
    \/ Ending \/ UserChange
    \/ \E r \in Runners : Step(r) \/ FailJob(r) \/ LoseJob(r)

Spec == Init /\ [][Next]_vars

\* The queue delivers the jobs that are queued, a job whose worker lives goes on, and jobs
\* fail or are lost a bounded number of times; whoever waits for the advisory lock gets it
\* in the end; a request ends.
Fairness ==
    /\ \A r \in Runners : WF_vars(Step(r)) /\ SF_vars(LockSync(r))
    /\ \A l \in Logins : /\ WF_vars(CommitLogin(l) \/ RollbackLogin(l))
                         /\ WF_vars(UpsertCompat(l) \/ FailCompat(l) \/ DropCompat(l))
    /\ WF_vars(ReactivateSave \/ UnlockSave)

FairSpec == Spec /\ Fairness

-----------------------------------------------------------------------------
(* Properties.                                                             *)

\* The rows, the jobs and the lock are well formed, and the lock is held by a
\* login or a job that is at work between taking and releasing it.
TypeOK ==
    /\ {locked, deactivated, hsLocked, hsDeactivated} \subseteq {"yes", "no"}
    /\ sess \in [Sessions -> {"none", "starting", "active", "finished"}]
    /\ hsDevices \subseteq Devices /\ leftover \subseteq Devices /\ cut \subseteq Sessions
    /\ given \subseteq Sessions /\ missed \in {"yes", "no"}
    /\ sync \in Nat /\ provision \in Nat /\ deactivate \in Nat /\ reactivate \in Nat
    /\ login \in [Logins -> {"idle", "checked", "locked", "ready", "saved"}]
    /\ asked \in [Logins -> Sessions \cup {"none"}]
    /\ \A l \in Logins : login[l] # "idle" => asked[l] \in Sessions
    /\ run \in [Runners -> {"idle"} \cup SyncSteps \cup ProvisionSteps \cup DeactivateSteps
                               \cup ReactivateSteps]
    /\ found \in [Runners -> SUBSET Devices] /\ flag \in [Runners -> {"yes", "no"}]
    /\ admin \in [does : {"nothing", "reactivate", "unlock"}, locked : {"yes", "no"},
                  deactivated : {"yes", "no"}]
    /\ events \in Nat
    /\ lock \in {"free"} \cup {l \in Logins : login[l] \in {"locked", "ready"}}
                       \cup {r \in Runners : run[r] \in {"compat", "oauth2", "personal", "devices", "synced"}}

\* "If the device doesn't exist on the homeserver side, token introspection from
\* Synapse to MAS will work but Synapse will return a 401": the device of every
\* session whose client has its tokens is on the homeserver, whatever a sync that runs
\* beside the login deletes, unless the user was deleted there in the meantime.
DevicesPresent == \A s \in (Active \cap given) \ cut : DeviceOf[s] \in hsDevices

\* Devices of sessions that have ended disappear from the homeserver, although jobs fail
\* half-way and run again, except those that a failed login, a replayed code, a
\* compatibility login that comes late or a sync beside the deletion of the user leaves
\* behind, and those that are there when the job that should delete them is lost: they stay
\* until the next sync, if there is one.
Converges == <>[](hsDevices \subseteq DevicesOf(Active) \cup leftover)

\* The homeserver ends up with the lock of the user, unless two ProvisionUserJobs run at
\* the same time (the job takes no lock, and what it has read may be stale by the time it
\* is sent), or the last of them is lost before it has told the homeserver.
LockFollows ==
    [](\A r, q \in Runners : {run[r], run[q]} \subseteq ProvisionSteps => r = q)
      => <>[](hsLocked = locked \/ missed = "yes")

\* "We want to reactivate the user from our side only once it has been reactivated
\* on the homeserver": a user who is not deactivated here is not deactivated there.
ReactivatedThere == deactivated = "no" => hsDeactivated = "no"
=============================================================================
