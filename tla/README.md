# A TLA+ verification of beam-mas

beam-mas is an authentication service for Matrix: an OAuth 2.0 / OpenID Connect
provider in Rust that keeps everything it knows in PostgreSQL, answers HTTP requests
from any number of processes, and does slow or recurring work through a job queue in
the same database. This directory holds the TLA+ models of its core, the TLC
configurations that check them on small instances, and theorems that TLAPS proves for
instances of every size.

Run a model with `tlc -config MCJobQueue_jobs.cfg MCJobQueue` and check the proofs with
`tlapm JobQueueProofs.tla`. `PROJECT.json` ties every definition to the source lines it
models, every property to a mutant of the model that breaks it, and lists the findings
and the hazards.

Contents: [inventory](#1-inventory), [models](#2-the-models),
[runs](#3-the-runs), [fairness](#4-fairness), [proofs](#5-the-proofs),
[findings and observations](#6-findings-and-observations),
[not modelled](#7-what-is-not-modelled), [plan](#8-plan).

## 1. Inventory

All state that matters is rows of PostgreSQL. A request or a job opens one transaction
(`BoxRepository`), reads, decides in Rust, writes and calls `save()`. Transactions run at
READ COMMITTED and mostly without `FOR UPDATE`: what was read may be stale when the write
comes, and an `UPDATE ... WHERE id = $1` that waited for another transaction writes over
the new version of the row. That, the job queue's leases and heartbeats, the calls to the
homeserver in the middle of transactions, and the clean-up jobs that delete rows behind
everyone's back are where the program is hard to get right and hard to test.

| Component | State | Operations | Hard behaviour | What makes it correct |
|---|---|---|---|---|
| Job queue (`tasks/src/new_queue.rs`, `storage-pg/src/queue`) | `queue_jobs`, `queue_workers`, `queue_leader`, `queue_schedules`; each worker's `JobTracker` | register, tick (heartbeat, record results, reserve, elect), leader duties (schedule, release, sweep dead workers), retry, clean-up, shutdown | crashes between any two steps, expiring leases, row and advisory locks | a job is run by one worker at a time; results are final; one unfinished job per schedule; progress |
| Tokens of a session (`handlers/src/oauth2/token.rs`, `storage-pg/src/oauth2/{refresh,access}_token.rs`) | `oauth2_refresh_tokens`, `oauth2_access_tokens`, `oauth2_sessions` | refresh, double refresh, introspect, revoke, clean-up | lost responses, concurrent refreshes, deletions | one active branch; the client is never locked out; rows stay readable |
| Authorization and device codes (`oauth2/authorization/consent.rs`, `oauth2/device/consent.rs`, `token.rs`) | `oauth2_authorization_grants`, `oauth2_device_code_grant`, `oauth2_sessions`, `user_sessions` | consent, reject, poll, exchange, replay, log-out, revocation, clean-up | two forms or two exchanges at once, log-out during an exchange | one session per code, of somebody who consented; an exchange or a rejection closes the code; a log-out ends its sessions |
| Sessions and the homeserver (`tasks/src/matrix.rs`, `tasks/src/user.rs`, every handler that starts or ends a session) | sessions, the user's lock and deactivation; devices, lock and deactivation there | log in, end sessions, lock, deactivate, reactivate; `SyncDevicesJob`, `ProvisionUserJob`, `DeactivateUserJob`, `ReactivateUserJob` | calls that take effect although the transaction fails; a sync beside a login; retries | a client with tokens has its device; devices of ended sessions go; the lock arrives |
| Upstream login (`handlers/src/upstream_oauth2`) | `upstream_oauth_authorization_sessions`, `upstream_oauth_links`, cookies | authorize, callback, link page, conflict resolution, back-channel log-out, clean-up | three requests of one browser, with others in between | a login is consumed once; a log-out reaches its sessions; an account stays with its user |
| Registration, email authentication, recovery (`views/register`, `views/recovery`, `graphql`) | `user_registrations`, `user_email_authentications`, `user_recovery_*`, `user_registration_tokens`, `user_emails`, `user_passwords` | multi-step forms, codes, links by mail | values checked long before they are used; jobs that send mail and fail | names, addresses, codes, links and tokens are used once |
| Compatibility API (`handlers/src/compat`) | `compat_sso_logins`, `compat_sessions`, `compat_refresh_tokens` | SSO form, login, refresh, log-out, clean-up | logins at the same time at the session limit | one session per device, the limit, one refresh token per session |
| Activity tracker and process (`handlers/src/activity_tracker`, `cli/src/lifecycle.rs`, `listener/src/server.rs`) | a channel, a map of pending records, shutdown tokens | record, flush on a timer or when full, reload, drain at shutdown | failing flushes, full channel, crash of a task | no activity is lost or goes back; the process stops |
| Migration from Synapse (`syn2mas`, `cli/src/commands/syn2mas.rs`) | the tables under their own or their temporary names, paused constraints, the restore tables, an advisory lock, write buffers and writer transactions | lock, check, rename, copy in batches over several connections, commit, restore, unlock | killed runs that are started again, one of several commits that fails, a lock that is lost while copying goes on | servers see nothing or the whole migration; any failed run can be repeated |
| Rate limiter, policy, client registration, configuration sync, templates, keys | see `PROJECT.json` | | | |

They interact through the database and the queue: handlers call `schedule_job` inside
their own transaction, so a job exists exactly if the transaction that asked for it
committed; jobs use the same repositories as handlers; clean-up and expiry jobs are started
by the queue's recurring schedules. The homeserver is called over HTTP in the middle of
transactions, some of them under the user's advisory lock (`acquire_lock_for_sync`).

## 2. The models

Common abstractions: ids are numbers handed out in creation order (ULIDs are ordered by
time); payloads, scopes, PKCE, policies and client authentication only decide whether a
step is taken, so they appear as the choice of taking it or of the "drop"/"abort" action.
NULL is 0, "none" or a model value. SELECTs whose result is used later are steps of their own and
the writes of a transaction appear together at its commit. A handler whose outcome rests on its
one write is one step. Clean-ups may run at any age of a row, which only adds behaviours.
Several of the handlers that have the same effect share a common action (`Finish`, `Change`,
`Give`, `AddPassword`), with one action per handler on top for its own condition.

### JobQueue

State: the four tables, the lock on the row of `queue_leader`, the advisory lock
`leader-duties`, and for each worker its position in `run_loop` and its `JobTracker`.

| Actions | Code |
|---|---|
| `Schedule` | `QueueJobRepository::schedule` in any request |
| `Register` | `QueueWorker::new`, `setup_schedules` |
| `TickBegin`, `HeartbeatRefused` | start of `tick`, the heartbeat (`UPDATE ... WHERE shutdown_at IS NULL`, an error ends the worker) |
| `TickExec` | `remove_leader_lease_if_expired`, which waits for the row of `queue_leader`; `process_jobs`; `reserve` with `SKIP LOCKED`; `spawn_job` |
| `TickCommit` | `try_get_leader_lease`, commit |
| `JobFinish` | a task of the `JoinSet` ends: success, failure without or with retry (a panic counts as a retry) |
| `DutiesBegin/Refused/Release/Commit` | `perform_leader_duties`: advisory lock, snapshot of the schedules, the release of the lock *before* the commit, the commit with due jobs and dead workers |
| `ShutdownBegin/Commit` | `shutdown`: tasks are waited for, results recorded, the lease given back |
| `Cleanup` | `CleanupQueueJobsJob`, at any age of a finished job |
| `Die`, `Crash` | the loss of the process at any point: its transaction is rolled back, its tasks are gone |

`PromptLoops` is a parameter: TRUE restricts the passing of time so that every iteration
of `run_loop` ends within the lease (5 s), which is what the code counts on; FALSE lets
iterations take any time.
`JobLifecycle` is the abstract specification of one job as producers see it;
`JobQueueRefinement` maps the queue to one copy of it per job id.
Queue names are left out; NOW() in SQL is the start of the tick.

### RefreshTokens

One session, its refresh tokens and access tokens. A request goes through `Find`,
`CheckSession`, `LookupNext`, `LookupNextAccess` (the SELECTs of `refresh_token_grant`, with
the double-refresh branch) and `Commit`; `Abort` is any refusal or failure. `Introspect` marks an
access token used; `Expire`, `Finish` and the four clean-ups are everyone else. The
foreign keys' `ON DELETE SET NULL` is `SetNull`. Requests present any token ever issued
(replays included); what the client received last is kept beside. A pair shares one id.
`record_user_agent`, an update of the session's row, only runs when the request has a
User-Agent header; the model leaves it out, so it also covers requests without it, which
nothing serialises.

### AuthorizationCodes and DeviceCodes

One grant, the browser sessions that may consent to it and the sessions started with its
code. `LoadConsent`/`SaveConsent` are the two halves of the consent form's handler,
`FindCode`, `CheckBrowser` and `ExchangeCode` the three of `authorization_code_grant`, and
`EndReplayed` its answer to a code that comes back more than 20 s after the exchange. A code that
was exchanged less than 20 s ago is refused without any effect and needs no
action. `Logout` is the log-out form, `RevokeWithLogout` a revocation with the
`urn:pg:mas-logout` scope by some session of the browser session, `Revoke` one without.
`Cleanup` deletes the grant at any time. `cancel` of the data model has no caller and the
stage Cancelled is not reachable. Any number of forms and requests may be under way. `consented` remembers whose consent was
saved, and `overlapped` which writes have met somebody who had read the rows before them: exchanges that met another exchange,
consents that met a rejection, log-outs that met an exchange past its check. The properties name these as their exceptions.

`DeviceCodes` EXTENDS this module, because a device code grant has the same columns and one more,
`rejected_at`: `LoadDevice`, `SaveDevice` and `DropDevice` are the form that allows or rejects
the device, `Poll`, `ExchangeDevice` and `DropPoll` the `device_code_grant`. `GrantSpec` has a
grant of either kind; `GrantNext` takes the steps of that kind.

### UserDevices

One user: sessions, lock and deactivation here, and devices, lock and deactivation on the
homeserver.

| Actions | Code |
|---|---|
| `Login`, `LockLogin`, `Upsert`, `CommitLogin`, `RollbackLogin` | `authorization_code_grant`, `device_code_grant`, and `personal_sessions/add.rs` of the admin API: the device is created under the lock, before the commit |
| `SaveCompat`, `UpsertCompat`, `FailCompat`, `DropCompat` | `compat/login.rs`: the commit comes before the device |
| `Revoke`, `AdminFinish*`, `RevokePersonal`, `End*Session`, `CompatLogout*`, `Expire*`, `KillSessions`, `BackchannelLogout`, `EndReplayed` | every handler, job and command that ends sessions |
| `AdminLock`, `AdminUnlock`, `LockUser`, `CliUnlock`, `AdminDeactivate`, `DeactivateUser`, `ReactivateCall/Save`, `UnlockSave` | the admin API, the GraphQL mutations and `mas-cli manage` |
| `StartSync` ... `EndSync` | `SyncDevicesJob`, with its pages of sessions, the call and the release of the lock |
| `StartProvision` ... `EndProvision` | `ProvisionUserJob`, which takes no lock |
| `StartDeactivate`, `CommitDeactivate`, `CallDelete` | `DeactivateUserJob`: commit first, then the homeserver |
| `StartReactivate`, `CallReactivate`, `EndReactivate` | `ReactivateUserJob`: the homeserver first |
| `FailJob` | `JobError::retry` or a panic at any point: the transaction is rolled back and the job runs again |
| `LoseJob` | the worker dies, and its job stays `running` for ever (the TODO of `perform_leader_duties`), or the last of MAX_ATTEMPTS fails: rolled back, and never run again |

What it uses of the queue: a job scheduled by a committed transaction is started, may fail half-way and run again, and may be
lost half-way. `leftover` collects the devices of ended sessions that a lost sync or deactivation leaves on the homeserver, and
`missed` says that a `ProvisionUserJob` was lost and none has read the user since.

### UpstreamLogin, Registration, Accounts

Three modules, each extending the one before, about the rows one browser reaches by several requests.

| Actions | Code |
|---|---|
| `Authorize`, `Callback` | `upstream_oauth2/authorize.rs`, `callback.rs`, with the cookie of `cookie.rs` |
| `LinkPage`, then `Renew`, `LogIn`, `SubmitLink`, `Resolve` and `LogInExisting`, `RegisterUpstream`, or `Drop` | `link.rs` get and post: what is loaded, then the branch that is taken |
| `BackchannelLogout` | `backchannel_logout.rs`, by `sub` or by `sid` |
| `AdminFind`, then `AdminLink` or `AdminDrop`; `AdminRemove` | `admin/v1/upstream_oauth_links` add and delete, whatever requests are in progress |
| `CleanupLink`, `Cleanup` | `CleanupUpstreamOAuthLinksJob`, and what its deletions do to registrations |
| `PasswordLogin`, `Logout` | `views/login.rs`, `views/logout.rs` |
| `RegisterPassword`, `VerifyEmail`, `SetToken`, `SetDisplayName` | `views/register/password.rs` and `steps` |
| `Finish`, `CheckName`, `CheckToken`, `CheckEmail`, `CheckUpstream`, `Write`, `Abandon` | `steps/finish.rs`: each last-minute check is a step, and the writes are one |
| `SetRevoked` | revocation of registration tokens |
| `StartEmail`, `ResendCode`, `SendCode`, `LoadProof`, `CountAddress`, `SaveProof`, `CleanupProof` | an address verified with a code (GraphQL, the job that sends it, clean-up) |
| `AdminAddEmail`/`AdminSaveEmail`, `AddEmail`, `CliAddEmail`, `RemoveEmail`, `AdminRemoveEmail`, `RemoveEmails` | addresses given and taken by others |
| `AddPassword`, `SetPassword`, `AdminSetPassword`, `CliSetPassword` | passwords |
| `StartRecovery`, `ResendRecovery`, `ResendLink`, `BeginLinks`, `SaveLinks`, `FailLinks`, `ExpireTicket`, `LoadTicket`, `Recover`, `CleanupRecovery` | account recovery: forms, the job that sends links, the link |

`Sites` lists the configurations (`SiteConfig`) with the users there at the start and the limit of
the registration token. Users are known by their names and `Fold` is `LOWER(username)`. The expiry
of codes only refuses a step and is not told apart; that of recovery tickets is, because an expired
link can be sent again. Calls that add a link have slots of their own (`Admins`), beside those of forms and finishing requests
(`Requests`), and a link is deleted at any time, also between the check of it in `finish.rs` and the writes. `Callback` is one step,
although the handler asks the provider between reading its session and writing it: a second callback with the same code is
refused by the provider. The trigger of migration 20260121121140, which sets an upstream session's `user_session_id` when an authentication
with it is inserted and the column is NULL, is not modelled: `consume` writes the same value in the same transaction.

### CompatLogin

The compatibility API of one user. `SsoRedirect`, `SsoCheck`, `SsoFulfill`, `SsoDrop` are the
SSO pages; `StartPassword`/`StartToken`, `Acquire`, `Count`, `Commit`, `Provision`, `Rollback` the
parts of `login.rs`. The limit on sessions is the Rego policy's, with `max_session_threshold` (`Limited`): above it nothing is
limited. Sessions of other kinds count, and come and go without the lock (`OtherSession`), also between `Count` and `Commit`.
Which sessions are the least recently used is left open, and so is time: the 30 s for the exchange of an SSO token only refuse
it. `room` remembers how many compatibility sessions the policy left room for; `StartRefresh`/`Refresh` is `refresh.rs`; `Logout` and `Cleanup` the rest. A session
imported by syn2mas may start with several refresh tokens.

### ActivityTracker

One process: connections that handle requests and send records (`Handle`, `SendRecord`, `SendFails`,
`Respond`, `Drop`), `flush_loop` (`LoopTick`, `SendFlush`, `FlushFails`, `LoopExit`), the worker
(`ReceiveRecord`, `ReceiveFlush`, `ReceiveNone`, `FlushOk`, `FlushError`, `Close`, `Crash`), the lifecycle
manager (`Reload`, `ReloadDone`, `Signal`, `NoticeCrash`, `Abort`, `Exit`) and the listener (`StopListening`,
`StopServing`). A request that creates a session records its activity before its transaction
commits, so the worker may meet records of rows that are not there yet, or never will be.

### Migration

Runs of `syn2mas migrate`, dry or not, on one MAS database. `Databases` are the contents that
Synapse's tables may have at the start; they do not change, since Synapse is to be offline (and
its tables are locked unless the run is dry).

| Actions | Code |
|---|---|
| `Begin`, `Check`, `LockSynapse` | `Options::run`: the advisory lock, `mas_pre_migration_checks` and `synapse_database_check`, `SynapseReader::new` |
| `StartNew`, `Resume` | the two branches of `MasWriter::new`: tables renamed and constraints dropped in the order of `pause_indices`, or tables truncated and the order taken from the restore tables |
| `MigrateUser`, `MigrateThreepid`, `MigrateExternalId`, `MigrateAccessToken`, `MigrateTokenPair`, `MigrateDevice`, `MigrateFails`, `EndStage` | the stages of `migrate`, one row each, and the end of each stage |
| `Flush`, `WriteBatch` | `MasWriteBuffer::flush` and `finish`, `spawn_with_connection`, and the spawned `write_batch` |
| `CommitWriter`, `CommitFails`, `AllCommitted` | `WriterConnectionPool::finish` |
| `Finish`, `Unlock` | the last transaction of `MasWriter::finish`, and `unlock` |
| `ReaderFails`, `WriteFails`, `Crash` | a read or a batch that fails, a process that is killed |
| `LoseLock`, `LockGone` | the main connection goes away, and the next query on it fails |

A row of MAS is its table, the id of the Synapse row it stands for, the rows it refers to, and the run
that made it: ids are drawn anew by every run, so a reference is met only by a row of the same run. A device
stands for a user and a device id. Connections come back to the pool in any order. What one Synapse row becomes
is pushed to its buffers together. `TRUNCATE` and `ALTER TABLE` wait for the open transactions that
wrote to a table, so the transaction around them is one step that is taken when there are
none. The end of a process rolls its transactions back at once. Indices are left out: they are handled like
constraints, and nothing depends on their order.

### Composition

`JobQueueRefinement` composes the queue with the life of its jobs. `DeviceCodes` and
`Accounts` compose what shares rows: a consent with browser sessions, registrations with logins,
addresses and recovery. `UserDevices` is where all the ways to start and to end a
session meet; the code and compatibility modules are about the rows those sessions come from.

## 3. The runs

| Run | Question | Instance | Result |
|---|---|---|---|
| `jobqueue_jobs` | Is a job run by one worker at a time and its result final, through crashes, retries, expired leases and dead-worker sweeps? Does the queue implement `JobLifecycle`? | 2 workers (symmetric, both may crash), 2 jobs, 1 retry, time to 2 | holds |
| `jobqueue_schedules` | Is there one leader at a time, at most one unfinished job per schedule, and is nobody at work declared dead? | 2 workers, 1 schedule, 2 ticks, prompt loops, time to 5 | holds |
| `jobqueue_live` | Are available jobs done and due jobs released? | 2 workers, 1 job with a retry, graceful shutdowns | holds under `FairSpec` |
| `tokens` | Does the token tree keep one active branch when any token is presented, do rows stay readable, can a client that loses responses continue? | 1 request at a time, 4 pairs | holds |
| `tokens_branches` | And with two refreshes at once? | 2 requests, 3 pairs | violated |
| `codes` | Is anybody signed in who did not consent? Is a code that was exchanged or rejected closed for good? One session per code, a row that can be read, no session after a log-out, but for the overlaps named? | an authorization or a device code, 2 browser sessions, 2 forms and 2 requests at a time, room for 2 sessions, time to 5 | holds |
| `sync` | Has every client its device, do devices of ended sessions go, does the lock arrive? | 3 sessions (compatibility, OAuth 2.0, personal) of one device, 1 login slot, 2 jobs at a time, 3 events (logins, changes to the user, jobs that fail or are lost) | holds under `FairSpec` |
| `upstream` | Are upstream sessions readable and consumed once, does a log-out reach its sessions, does an account stay with its user, has a new user a way to log in? | 2 upstream accounts that claim the same name, 2 upstream sessions, 2 browser sessions, 1 registration, 1 administrator, 1 old link, conflicts resolved by `replace`, with or without a user of that name; or no provider and a token that is asked for | holds, 1 form at a time beside the administrator |
| `accounts` | Are names, addresses, token uses, codes and recovery links used once? | 2 registrations for names of which two differ in case only, 1 address, 1 email authentication, 1 recovery; token limit 1 or 2 | holds, 1 request at a time; registrations and changes of addresses are in sites of their own |
| `compat` | One session per device, room under the hard limit, one refresh token, one session per SSO token? | 2 requests and 1 form at a time, 2 devices, 3 sessions and up to 2 of other kinds, 3 tokens of which 2 are imported, limit 2 with eviction and a threshold of 3 | holds |
| `activity` | Is activity lost? Does the process stop whoever waits for whom, are records written? | 2 sessions, channel of 1, map of 1 | holds under `FairSpec` |
| `migration` | Do servers see nothing or the whole migration, can every failed run be repeated, does a finished migration stay? | 2 runs with 2 writer connections each, batches of 2 rows, 7 contents of Synapse's tables, 1 fault, 1 lost lock, a chain of foreign keys over affected and other tables | holds |

Why the bounds are enough. The conflicts of the queue are between two workers (one that
holds or held a lease, lock or job and one that wants it); two jobs let a worker
reserve one while the other one is in progress, and one retry per job exercises the chain
and its end at MAX_ATTEMPTS. `LeaseDuration`, `HeartbeatEvery` and `DeadAfter` keep the
order the code has (5 s + 1 min <= 2 min), in `jobqueue_jobs` all are 0, so that everything that can
expire does. Four token pairs allow a pair, its successor, the successor's replacement
after a lost response and one more after that. The code's lifetime and replay grace are small enough for both
sides of both limits to be reached within the clock's bound. In `sync` a device has a session
of either kind, one of which may replace the other, a second job can run beside a login and the
first job, and three events allow a login, a change to the user, and a second login, a failure or a lost job. Two forms and two requests let
each of the overlaps of `codes` happen, one of them with a third party's log-out in between. In `upstream` the administrator can find a
link free, and link or delete it, at every stage of a form or a registration; two browser sessions are one that is there and one that the form starts. In `compat` two
requests meet at the limit with an imported session in their way. A channel of one makes every
sender wait, and a map of one is full when the second session's record arrives; that records come out of order is left to
the proof of `ActivityMonotonic` and `ActivityKept`, for any number of times. In `migration` the contents of Synapse hold between them
every kind of row and of user the stages tell apart, more rows than a batch of one table, and batches on two connections; two runs are
one that leaves something behind and one that meets it, and the fault can hit either of them, in addition to
the lock that is lost. The theorems of section 5 remove
these bounds for the safety properties that they cover.

"One request at a time" means that a handler's transaction does not overlap with another
*form or finishing request of the same kind*; every other step, of one-step handlers, jobs and clean-ups, and in `upstream` an administrator's
calls to link and to delete, still falls between its steps. It is an instance, not a property of the code, and what
overlapping requests do is said in section 6. It is used by `tokens`, `upstream` and `accounts`. `codes` runs with overlapping requests, and its
properties name the overlaps that break them; `compat`, `activity` and `migration` need no
restriction, because there the code takes a lock or has one worker.

Deadlock checking is off where the bounds on time, jobs and rows stop an instance; it is on for
`activity`, whose process ends only in `Done`, and for `migration`, where every run must come to an end.

Each property has a mutant (see `PROJECT.json`), a plausible slip in the code that the run
must notice: a heartbeat sent too late, a lease taken at its last instant, a device created without the
lock, an end of a session without a sync, a second run that keeps the rows of the
first, and so on. The mutants stand before the definition they vary.

## 4. Fairness

`FairSpec` of `JobQueue` assumes:

- time passes (`WF(Advance)`);
- a worker that can take the next step of its loop takes it (`WF(WorkerStep)`):
  `wait_until_wakeup` wakes up at least once per second even without a notification;
- a worker that waits for the row of `queue_leader` gets it eventually although others
  take it again and again (`SF` for `TickExec` and `ShutdownCommit`): PostgreSQL
  queues the waiters of a row lock;
- tasks end (`WF(JobFinish)`): jobs have time-outs or finite work.

Nothing is assumed about new jobs, registrations, clean-ups, shutdowns or crashes, nor about the
outcome of a task.

`FairSpec` of `UserDevices` assumes that the steps of jobs are taken (the queue delivers them:
`AvailableJobsAreDone`), that a job which waits for the advisory lock gets it although logins take it again
and again (PostgreSQL queues its waiters), and that requests past their start end, one way or
another. Nothing is assumed about logins, ends of sessions or changes to the user; jobs fail or are lost as often as the
bound allows.

`FairSpec` of `ActivityTracker` assumes that tasks which can go on are run (tokio), that
`select!` takes each of two ready branches in turn (it picks at random), that the channel serves its
senders in order, and that flushes succeed again and again while every row they
write is there, which is to say that the database comes back. Nothing is assumed about signals,
reloads, requests (one may take for ever) or crashes.

The other models are checked for safety only.

## 5. The proofs

TLAPS checks all of them with its SMT and LS4 backends; no statement is assumed without
proof. The assumptions on constants are `ConstantsAssumption`, `TimingAssumption`
(the heartbeat interval and one lease fit in the dead-worker threshold: 60 s + 5 s <=
120 s), `DelayAssumption`, `TokensAssumption`, `CodesAssumption`, `UpstreamAssumption`, `RegistrationAssumption`,
`AccountsAssumption`, `CompatAssumption`, `DevicesAssumption`, `ActivityAssumption`, and those of `Migration` that are
explained below.

**JobQueueProofs.** `LeaseSafety`: with prompt loops, who does leader duties holds the lease.
`LeaseInv` adds what makes this inductive: within the loop the clock is at most one lease after
the start of the tick, and the leader's lease ends one lease after the start of *its*
tick, so nobody's `remove_leader_lease_if_expired` can hit it. `HeartbeatSafety`: nobody at work is
declared dead. `BeatInv` relates the three copies of the last heartbeat (the worker's own, the open
transaction's, the row's) and bounds how old they can be. `QueueTypes` and `Ownership` need no timing
at all: `QueueInv` = `TypeOK` /\ `JobOwnership` /\ `TxnInv`, where `TxnInv` says that only the open
transaction of a tick has reserved or joined jobs and that a worker that does not live has no tasks. The step of `process_jobs` is the hard
one: results recorded, retries inserted under new ids and links to them must leave every other
worker's rows alone.
`Chains` (`RetryChains`) rests on `QueueInv` and on the ids, which only grow: a retry gets one nobody has pointed to.
`OneJobPerSchedule` is `OnePendingJobPerSchedule` with prompt loops: `SchedInv` adds to `LeaseInv` that a schedule
some leader is about to plan a job for has no unfinished one until it commits, since nobody else can be elected meanwhile; a
retry takes the place of the attempt that the schedule pointed to. `Lifecycle` is the refinement: every step of `Next` is, for each job,
a step of `JobLifecycle` or a stutter under the mapping of `JobQueueRefinement`, with no assumption about timing.

**RefreshTokensProofs.** Under `OneAtATime` (refresh requests of a session do not overlap) the tables stay
well formed (`TokenTables`), rows readable (`SerialRows`), one branch active
(`SerialBranches`), access tokens that are not revoked belong to it (`SerialAccess`), and a client that uses
what it received last can go on (`ClientNeverLockedOut`).
`TokensInv` adds `RequestInv`: what a request has read is still true of the row, up to deletions
and the SET NULLs they cause. The assumption is needed: `tokens_branches` is the
counterexample without it.

**AuthorizationCodesProofs.** For any number of browser sessions, forms and token requests at the same time. `CodeTypes` and `CodeReadable` are about
`Spec` of `AuthorizationCodes`, the rest about `GrantSpec`, with a grant of either kind: `GrantsTyped`, `ExchangedOnce` (`OneSessionPerCode`),
`Consented` (`SessionsConsented`), `Closed` (`ClosedForGood`), `RowsReadable` (`RowReadable`) and `LoggedOut` (`LogoutEndsSessions`).
`RowInv` adds to the types that a grant some request has found stays fulfilled. For the sessions, `GrantEffects` shows that a step of
either flow saves a consent, finds the code good, starts a session, or leaves all that alone (`Saves`, `Finds`, `Starts`, `Quiet`), and `GrantInv` adds
`ExchangeInv` (a session was started exactly if the row says so, and then, as long as no exchanges have overlapped, nobody holds the code as good) and `ConsentInv` (who is named on a
fulfilled row that can be read, in the copy of a request that is exchanging, or on a session has consented). `AnswersInv` says that, as long as no
opposite answers were open together, the row can be read and the forms still open have the answer that was saved, and
`LogoutInv` that an exchange past its check is in a browser session that was not ended since. Section 6 says what the exceptions do.

**AccountsProofs** is about `Spec` of `Registration` (which contains that of upstream logins) and `AccountsSpec` of `Accounts`. For any number
of requests at the same time: `SessionsLoad` (`SessionsReadable`) and `AddsOnce` (`AddedOnce`). `RowsInv` says which rows exist and refer
to which others (cookies, upstream sessions, registrations, and what each request in progress has loaded); `AccountsInv` adds the rows of
email authentications and recoveries, that an authentication that is not completed has added nothing, and that whoever has a
ticket was sent a link. A completed authentication is refused by the write itself, which is why `AddedOnce` needs no more.
For any number of requests and of administrators' calls as well: `IdentityKept` (`IdentityStays`) and `CredentialsKept` (`Credentials`). They rest on
`HeldInv`: whoever is about to associate a link had found it free, and a finishing request holds a link that had a row; and on `CredentialsInv`, which
says which registrations still have the means to give their user credentials.

Under `OneAtATime` (`Requests` has at most one element): `SerialConsumption`, `SerialLimit`, `SerialLogout`, `SerialAddresses` (`EmailOnce`), `SerialRecovery` (`RecoveredOnce`) and, if the users at the start have names that
differ in more than case (`SitesDistinct`), `SerialNames`. `SerialInv` is one idea applied to every check: what the request in progress has
established, by the step it has reached (`ChecksStand`, `NamesStand`, `AddressesStand`), still holds, in spite of jobs, clean-ups,
administrators and other browsers' one-step requests. `AuthInv` ties an authentication to the browser session
that its upstream session names, which is what a log-out looks at. Calls that link or delete upstream accounts may overlap with the one request. The theorems with `OneAtATime` say nothing about requests that overlap: there the properties fail (section 6).

**CompatLoginProofs.** For any number of requests at the same time, `CompatTypes`, `DeviceUnique`, `HardLimitKept`,
`RefreshTokensUnique` and `SsoExchangedOnce`. `TypeOK` carries the mutual exclusion: the holder of the advisory
lock is exactly the request between `Acquire` and `Commit`. On top of it `LoginInv` adds `CountInv`: what the holder
has counted, less what it evicts, bounds the compatibility sessions that are there when it commits, because
only log-outs and clean-up can touch them meanwhile. `HardLimitKept` assumes nothing about the limits, the threshold or how many sessions
there are at the start; sessions of other kinds may start after the count, and the theorem is about the room there was at the count. `ExchangeInv` adds `SsoInv`, which relates the
sessions an SSO login has given to its row and to the requests that have loaded it. Refresh tokens need
no lock, since each refresh invalidates every token of the session it can see.

**UserDevicesProofs.** For any number of logins and jobs of a user at the same time, `DeviceTypes` and `DevicesStay`.
`DevicesInv` adds to the types `LockInv` (the user's lock is held exactly by the login or sync between taking it
and the end of its transaction), `RequestInv` (a login that has not committed has a session of its own that nobody else sees),
`GivenInv`, `ReadyInv` (a device created under the lock is there until the commit), and the heart of the argument, `FoundInv`: what a
sync has read so far under the lock stays complete for the kinds of session it has read, since
sessions that would need another device can only be added with the lock it holds. `Quiet` collects what the steps
that only end sessions or change the user leave alone, so that they are proved once.

**ActivityTrackerProofs.** `TrackerTypes` (the map's bound included), `ActivityKept` and `ActivityMonotonic`, for any number of
sessions and connections and any size of channel and map. `TrackerInv` gives the shape of the worker's state in each phase of a flush;
`ActivityInv` adds `Kept` for each session not given up: the latest activity
that the channel took is in the row, in the map, in the worker's hand at a full map, or in the channel. The step that
needs care is the flush, which empties the map: only when the transaction has committed.

**MigrationProofs.** For any content of Synapse's tables, any number of runs, writer connections, faults and runs that go on without the
lock: `SeenWhole` (`AllOrNothing`), `FailuresHaveCauses` (`FailsForACause`) and `SuccessIsKept` (`SuccessStays`). `MigrationInv` has five parts
beside the types: `SchemaInv` (tables under their own names have all constraints and no open transaction has written to them; otherwise the restore
tables hold an order of exactly the constraints that are missing), `HandSound` (what a run holds in its buffer, batches and
transactions, and when it holds nothing), `LockSound` (what the holder of the lock has checked is still so), `NothingLost` (every row that
the holder of the lock has read is committed or in its hands, unless one of its connections was lost and it knows) and `Whole`.
The heart is `Finish`: the run has everything committed (`CopiedAll`), but a run without the lock may have committed rows as well. `OneRun` shows that
the constraints then refuse: every row refers, directly or through its session, to a user of its own run, and the names of users are unique. With that,
`RowsComplete` compares what the stages made with `Complete`. For `FailuresHaveCauses`, `CauseInv` adds that while no run has lost the
lock the runs follow one another; `SchemaDroppable` and `SchemaRestorable` show that the order of
`pause_indices`, and the reverse order in which constraints are put back, never drop a key that is needed or add a foreign key
without its key; and `RowsValid` that the constraints accept whatever one run has copied. `SuccessIsKept` has the premise `Somebody`: there
is a user to migrate. Without one a migration leaves no rows, and a later run cannot know of it and starts again.

The assumptions on the constants are what the schemas guarantee. `DatabasesAssumption`: names of users and a user's
devices are unique in Synapse (and the model's ids of devices and tokens are told apart). `TokensAssumption`: so are links and tokens; and a hidden device of an
active user has no token, because such devices only store cross-signing keys (section 6 says what happens if one has).
`SchemaAssumption`: a key refers to no affected table, and a foreign key has the key that it needs. TLC evaluates them on the run's instance.

Only model-checked: the liveness properties `AvailableJobsAreDone`, `DueJobsBecomeAvailable`, `Converges`, `LockFollows`, `Stops` and `Written`
(fairness is out of TLAPS's reach). Every safety property of a passing run is stated by a theorem. The type invariants of `Registration` and
`Migration` bound the runs' instances (the number of uses of a token, the tables that rows are in); the proofs use
types of their own (`RowTypes`, `MigrationTypes`).

## 6. Findings and observations

The one finding with a run of its own is `tokens_branches`: two overlapping refreshes of one token leave two valid refresh tokens, although
a comment of `token.rs` says that the primary goal is not to keep two active branches. (The
same overlap can leave a row both consumed and revoked, which the repository refuses to read.)

What else the models showed. Some of it is kept as a property that no run checks
(named here); the properties of section 3 state the exception or the instance they need.

*Checks on a row read earlier, and a write that does not repeat them.*

- Two overlapping exchanges of one code start two sessions (the exception of `OneSessionPerCode`), and the grant names the second only, so that
  a replay ends one of them. A session can be started in a browser session that a
  mas-logout has just ended (the exception of `LogoutEndsSessions`); `device_code_grant` does not test that
  the browser session is active at all, which is why that property is about authorization codes.
- Two consent forms for one grant in two browser sessions both succeed, and the later one puts its browser session on the row, also when
  the code was found or exchanged for the other one; the session stays with the one it was found for, who has consented too.
- Two overlapping forms of a device code can set `fulfilled_at` and `rejected_at`, which the
  migration 20231207090532 calls mutually exclusive (the exception of `RowReadable`). The row cannot be read any more, so that the device is
  not signed in, but a request that had found it fulfilled before still exchanges it.
- An upstream account that two forms, or a form and an administrator, have both found without a user goes to the one that comes
  last (the exception of `IdentityStays`).
- A link that is deleted between its check in `finish.rs` and `associate_to_user`, which does not look at how many rows it
  changed, leaves a user without credentials (an exception of `Credentials`).
- With two requests at a time, `NamesDistinct`, `EmailOnce`, `LimitKept`, `ConsumedOnce`,
  `LogoutReaches` and `RecoveredOnce` fail: the "last minute checks" of `finish.rs`
  narrow the race and do not close it. The unique constraint on user names compares
  exactly, the limit of a registration token (docs/reference/cli/manage.md) is not repeated by `use_token`, and
  two overlapping `set_password_by_recovery` both succeed.
- An SSO login fulfilled twice is overwritten (`FulfilledOnce`), where `login_sso_complete.rs` notes that
  it fails and aborts; its token can be exchanged twice by requests that overlap, because it is loaded before the lock is taken.
- A login past `max_session_threshold` is not limited, as the policy says, and sessions of other kinds can start between the
  count and the commit of a compatibility login: the total can pass the hard limit by either way.
- The upgrade of a password hash at login inserts the password that was checked, also when another one was set meanwhile.

*Jobs.*

- `.max(MAX_JOBS_TO_FETCH)` where a minimum is meant: a worker at its limit fetches on
  (`ConcurrencyBound`).
- The advisory lock around the leader duties is released before the commit; if an
  iteration outlasts the lease, two leaders can insert two jobs for one schedule
  (`OnePendingJobPerSchedule` without `PromptLoops`).
- Jobs of a dead worker stay `running`; a TODO marks the gap (`LostJobsAreRetried`). What such a job was to bring to
  the homeserver does not arrive until something else schedules a job of its kind: the devices of sessions that have ended stay there (`leftover` in
  `Converges`), and so does the old lock flag (`missed` in `LockFollows`).
- The deprecated `ProvisionDeviceJob` and `DeleteDeviceJob` schedule a `SyncDevicesJob` but never call
  `repo.save()`.
- Mails are sent before the commit of the code or ticket in them.

*The homeserver.*

- A login that is rolled back after it created its device, the end of a replayed code's session, a
  compatibility login whose session ends before its device is created, and a sync beside the
  deletion of the user leave a device that nothing removes until the next sync (`leftover` in `Converges`). `manage
  issue-compatibility-token` creates the device before the session and without the lock.
- `ProvisionUserJob` sends the lock flag it read; two of them can end with the older one (the premise of `LockFollows`).
- A user can be active here and deactivated there after a reactivation beside a deactivation
  (`ReactivatedThere`). `unlock-user --reactivate` leaves a locked user locked.

*Accounts and upstream logins.*

- `add_email` and `manage add-email` give an address that another user has; `find_by_email`
  then finds nobody (`forced` in `EmailOnce`).
- The clean-up of orphaned links deletes an old link that nobody has yet, and the
  session of a registration in progress; its column becomes NULL (migration 20251121145458)
  and `finish.rs` then makes a user with no credentials (`CredentialsRegardless`).
- `consume_link` of the cookie removes the first entry for a link where `lookup_link` takes the
  latest.
- The form `verify_email` does not look at the code's `expires_at`.

*Activity.*

- A record of a session whose transaction did not commit makes every later flush fail,
  until the map is full and the process is restarted (`WrittenRegardless`).

*The migration from Synapse.*

- A run that loses its main connection, which is idle for as long as rows are copied, goes on and commits what it has. The
  lock is free then; that its rows do not end up in the tables of another run rests on the lock on Synapse's tables (which
  a dry run does not take exclusively), on the TRUNCATE that waits for open transactions, on the renamed tables, and on the
  foreign keys and unique names when constraints are restored.
- A run that is killed between its last COMMIT and the release of the lock has succeeded, and the next one says that the
  database is not empty (`not_empty` in `FailsForACause`).
- The users of application services with an invalid name are ignored, but a threepid, link, device or token of theirs makes the
  run fail.
- The queries for tokens join `devices` with its hidden rows, which `read_devices` leaves out: a token of a hidden device
  gets a session that is never written, and its foreign key makes every attempt fail at the end. `Databases` has no such token.
- The schema migrations and the configuration sync come before the lock, also beside a run that has renamed the tables.

## 7. What is not modelled

Cryptography, encodings, templates, the front end, HTTP plumbing and generated types have no state
the properties tell apart. The policy engine runs WebAssembly compiled from Rego; its
answer is a free choice, except for the session limit. The rate limiter is a library's. Client registration and the authorization endpoint
insert a row after validation. The configuration sync is one transaction under a lock of its own. Of syn2mas, the
checks of the configuration files and the progress reports are left out, and no server writes while it runs. The token of a personal session, and its replacement
(`regenerate.rs`), are rows written singly. The
batch loops of the clean-up and expiry jobs (cursor, batch size) are abstracted to their effect. In the code model, the
clean-up of browser sessions, which sets `user_session_id` to NULL, is left out: it only concerns
sessions finished for weeks.

The models cover the handlers, repositories and jobs that decide the state described in section 1. That is
a small part of the lines of the repository: most are tests inside the source files, list and filter handlers of the
admin and GraphQL APIs, protocol and configuration types, templates' contexts, and SQL rows
copied into records. They hold no protocol that a state
machine would tell more about than the code does.

## 8. Plan

Written: all modules of section 2, and a theorem for every safety property that a passing run checks. What could be added:

1. For the properties that still need `OneAtATime`: what holds when requests overlap (who can be given an address twice, how far a token's limit
   can be passed), stated and proved for any number of requests.
2. The safety halves of the liveness arguments, such as the variant by which a queue with prompt loops empties.
3. The token of a personal session and its replacement, if they ever get more than one write.
