------------------------------ MODULE JobQueue ------------------------------
(***************************************************************************)
(* The background job queue: QueueWorker and its JobTracker                *)
(* (crates/tasks/src/new_queue.rs) over the PostgreSQL tables queue_jobs,  *)
(* queue_workers, queue_leader and queue_schedules                         *)
(* (crates/storage-pg/src/queue/).                                         *)
(*                                                                         *)
(* Transactions run at READ COMMITTED.  A transaction is a begin step, the *)
(* steps at which it may have to wait for a row lock, and a commit step    *)
(* that makes its writes visible; what it did locally before the commit    *)
(* (spawned tasks, joined tasks) is visible in the worker at once.  A      *)
(* worker that dies rolls its open transaction back and drops its tasks.   *)
(***************************************************************************)
EXTENDS Naturals, FiniteSets, Functions

CONSTANTS
    Workers,          \* worker registrations (a restarted process is a new one)
    NoWorker,         \* "no row" / NULL where a worker is expected
    Schedules,        \* names of the recurring schedules
    NoSchedule,       \* queue_jobs.schedule_name IS NULL
    Faulty,           \* the workers whose process may be lost at any point
    PromptLoops,      \* TRUE: every iteration of run_loop ends within a lease
    LeaseDuration,    \* 5 seconds
    HeartbeatEvery,   \* 1 minute
    DeadAfter,        \* 2 minutes
    Period,           \* distance of two ticks of a schedule's cron expression
    RetryUnit,        \* 5 seconds
    MaxAttempts,      \* MAX_ATTEMPTS
    MaxConcurrent,    \* MAX_CONCURRENT_JOBS
    MaxFetch,         \* MAX_JOBS_TO_FETCH
    MaxTime,          \* bound: the clock stops there
    MaxPushed,        \* bound: how many jobs requests and other jobs create
    MaxPlanned        \* bound: how many jobs the schedules create

ASSUME ConstantsAssumption ==
    /\ NoWorker \notin Workers
    /\ NoSchedule \notin Schedules
    /\ IsFiniteSet(Schedules)
    /\ Faulty \subseteq Workers
    /\ PromptLoops \in BOOLEAN
    /\ LeaseDuration \in Nat /\ HeartbeatEvery \in Nat /\ DeadAfter \in Nat
    /\ Period \in Nat \ {0} /\ RetryUnit \in Nat \ {0}
    /\ MaxAttempts \in Nat /\ MaxConcurrent \in Nat /\ MaxFetch \in Nat
    /\ MaxTime \in Nat /\ MaxPushed \in Nat /\ MaxPlanned \in Nat

(***************************************************************************)
(* A dead worker is told from a live one only if the heartbeat interval    *)
(* and one loop iteration fit in the threshold of shutdown_dead_workers.   *)
(***************************************************************************)
ASSUME TimingAssumption == HeartbeatEvery + LeaseDuration =< DeadAfter

VARIABLES
    now,         \* the clock, shared by the workers and the database
    jobs,        \* table queue_jobs: job id -> row
    nextId,      \* ULIDs grow with time: the next one
    registry,    \* table queue_workers: worker -> absent / alive / shutdown
    lastSeen,    \* queue_workers.last_seen_at
    leader,      \* the single row of queue_leader: queue_worker_id
    leaseEnd,    \* queue_leader.expires_at
    schedAt,     \* queue_schedules.last_scheduled_at (0: NULL)
    schedJob,    \* queue_schedules.last_scheduled_job_id (0: NULL)
    pushed,      \* bookkeeping for the bound MaxPushed
    planned,     \* bookkeeping for the bound MaxPlanned
    leaderLock,  \* the transaction that holds the queue_leader row lock
    dutiesLock,  \* the session that holds the advisory lock "leader-duties"
    pc,          \* where each worker is in its loop
    txnNow,      \* start of the tick of this iteration: NOW() in its SQL
    lastBeat,    \* QueueWorker.last_heartbeat
    beating,     \* the open tick updated last_seen_at (row lock held)
    tasks,       \* JobTracker: the worker's tasks, by job id
    joined,      \* finished tasks the open transaction has processed
    reserved,    \* jobs the open transaction has reserved
    plan         \* schedules the open duties transaction gives a new job -> its time

dbVars    == <<jobs, nextId, registry, lastSeen, leader, leaseEnd, schedAt, schedJob>>
lockVars  == <<leaderLock, dutiesLock>>
localVars == <<pc, txnNow, lastBeat, beating, tasks, joined, reserved, plan>>
counters  == <<pushed, planned>>
vars      == <<now, counters, dbVars, lockVars, localVars>>

-----------------------------------------------------------------------------

Statuses  == {"scheduled", "available", "running", "completed", "failed"}
Pending   == {"scheduled", "available", "running"}
Terminal  == {"completed", "failed"}
Outcomes  == {"ok", "fail", "retry"}      \* a panicked task counts as "retry"

Loop   == {"begin", "exec", "leader", "duties", "released"}
Duties == {"duties", "released"}
Live   == Loop \cup {"idle", "stopping"}
PCs    == Live \cup {"off", "stopped", "dead"}

JobRow == [status : Statuses, attempt : Nat, at : Nat, sched : Schedules \cup {NoSchedule},
           by : Workers \cup {NoWorker}, next : Nat]

\* A job that has just been inserted.
NewRow(status, attempt, at, sched) ==
    [status |-> status, attempt |-> attempt, at |-> at, sched |-> sched,
     by |-> NoWorker, next |-> 0]

\* Functions with an empty domain: no row, no task, no planned schedule.
EmptyTable == [j \in {} |-> 0]
NoTasks == [j \in {} |-> "running"]
NoPlan == [s \in {} |-> 0]

\* retry_delay: exponential backoff.
retry_delay(attempt) == RetryUnit * 2^attempt

ASSUME DelayAssumption == \A a \in 0 .. MaxAttempts : retry_delay(a) \in Nat

\* schedule.expression.after(now).next(): the first tick strictly after t.
NextTick(t) == (t \div Period + 1) * Period

\* Jobs in a table (a function from ids to rows) that have a given status.
WithStatus(S) == {j \in DOMAIN jobs : jobs[j].status \in S}

\* A worker's tasks that have not finished yet: JobTracker::running_jobs after
\* process_jobs has joined the finished ones.
running_jobs(w) == {j \in DOMAIN tasks[w] : tasks[w][j] = "running"}

\* The ULIDs of the |S| rows inserted for the elements of S, in any order.
NewIds(S) == {f \in [S -> nextId .. (nextId + Cardinality(S) - 1)] : IsInjective(f)}

-----------------------------------------------------------------------------

Init ==
    /\ now = 1
    /\ jobs = EmptyTable
    /\ nextId = 1
    /\ registry = [w \in Workers |-> "absent"]
    /\ lastSeen = [w \in Workers |-> 0]
    /\ leader = NoWorker
    /\ leaseEnd = 0
    /\ schedAt = [s \in Schedules |-> 0]
    /\ schedJob = [s \in Schedules |-> 0]
    /\ pushed = 0
    /\ planned = 0
    /\ leaderLock = NoWorker
    /\ dutiesLock = NoWorker
    /\ pc = [w \in Workers |-> "off"]
    /\ txnNow = [w \in Workers |-> 0]
    /\ lastBeat = [w \in Workers |-> 0]
    /\ beating = [w \in Workers |-> FALSE]
    /\ tasks = [w \in Workers |-> NoTasks]
    /\ joined = [w \in Workers |-> {}]
    /\ reserved = [w \in Workers |-> {}]
    /\ plan = [w \in Workers |-> NoPlan]

\* Time passes.  With PromptLoops, not while that would let the lease of a
\* worker in the middle of its loop run out.
Advance ==
    /\ now < MaxTime
    /\ PromptLoops => \A w \in Workers : pc[w] \in Loop => now < txnNow[w] + LeaseDuration
    /\ now' = now + 1
    /\ UNCHANGED <<counters, dbVars, lockVars, localVars>>

-----------------------------------------------------------------------------
(* Jobs enter the queue and leave it.                                      *)

\* QueueJobRepository::schedule, from any request or job transaction.
Schedule ==
    /\ pushed < MaxPushed
    /\ pushed' = pushed + 1
    /\ jobs' = [j \in DOMAIN jobs \cup {nextId} |->
                  IF j = nextId
                  THEN NewRow("available", 0, 0, NoSchedule)
                  ELSE jobs[j]]
    /\ nextId' = nextId + 1
    /\ UNCHANGED <<now, planned, registry, lastSeen, leader, leaseEnd, schedAt, schedJob,
                   lockVars, localVars>>

\* Mutant of Cleanup: only the running jobs are spared.
Cleanup_Pending(until) ==
    LET gone == {j \in WithStatus(Statuses \ {"running"}) : j =< until}
        keep(j) == IF j \in gone THEN 0 ELSE j
    IN  /\ gone # {}
        /\ jobs' = [j \in DOMAIN jobs \ gone |-> [jobs[j] EXCEPT !.next = keep(@)]]
        /\ schedJob' = [s \in Schedules |-> keep(schedJob[s])]
        /\ UNCHANGED <<now, counters, nextId, registry, lastSeen, leader, leaseEnd,
                       schedAt, lockVars, localVars>>

\* CleanupQueueJobsJob: QueueJobRepository::cleanup removes the finished jobs up
\* to an id; foreign keys that pointed to them are set to NULL.
Cleanup(until) ==
    LET gone == {j \in WithStatus(Terminal) : j =< until}
        keep(j) == IF j \in gone THEN 0 ELSE j
    IN  /\ gone # {}
        /\ jobs' = [j \in DOMAIN jobs \ gone |-> [jobs[j] EXCEPT !.next = keep(@)]]
        /\ schedJob' = [s \in Schedules |-> keep(schedJob[s])]
        /\ UNCHANGED <<now, counters, nextId, registry, lastSeen, leader, leaseEnd,
                       schedAt, lockVars, localVars>>

-----------------------------------------------------------------------------
(* The worker's loop.                                                      *)

\* QueueWorker::new and setup_schedules: register a worker and start its loop.
Register(w) ==
    /\ pc[w] = "off"
    /\ pc' = [pc EXCEPT ![w] = "idle"]
    /\ registry' = [registry EXCEPT ![w] = "alive"]
    /\ lastSeen' = [lastSeen EXCEPT ![w] = now]
    /\ lastBeat' = [lastBeat EXCEPT ![w] = now]
    /\ UNCHANGED <<now, counters, jobs, nextId, leader, leaseEnd, schedAt, schedJob,
                   lockVars, txnNow, beating, tasks, joined, reserved, plan>>

\* The process of worker w is lost, or run_inner returned an error: the open
\* transaction is rolled back, locks are released, the JoinSet is dropped.
Die(w) ==
    /\ pc' = [pc EXCEPT ![w] = "dead"]
    /\ leaderLock' = IF leaderLock = w THEN NoWorker ELSE leaderLock
    /\ dutiesLock' = IF dutiesLock = w THEN NoWorker ELSE dutiesLock
    /\ beating' = [beating EXCEPT ![w] = FALSE]
    /\ tasks' = [tasks EXCEPT ![w] = NoTasks]
    /\ joined' = [joined EXCEPT ![w] = {}]
    /\ reserved' = [reserved EXCEPT ![w] = {}]
    /\ plan' = [plan EXCEPT ![w] = NoPlan]
    /\ txnNow' = [txnNow EXCEPT ![w] = 0]
    /\ UNCHANGED <<now, counters, dbVars, lastBeat>>

Crash(w) ==
    /\ w \in Faulty
    /\ pc[w] \in Live
    /\ Die(w)

\* Mutant of HeartbeatDue: sent only past the threshold of shutdown_dead_workers.
HeartbeatDue_Late(w) == now > lastBeat[w] + DeadAfter

\* One minute has passed since the last heartbeat of worker w.
HeartbeatDue(w) == now >= lastBeat[w] + HeartbeatEvery

\* tick: begin the transaction; send the heartbeat if it is due.
TickBegin(w) ==
    /\ pc[w] = "idle"
    /\ HeartbeatDue(w) => registry[w] = "alive"
    /\ pc' = [pc EXCEPT ![w] = "begin"]
    /\ txnNow' = [txnNow EXCEPT ![w] = now]
    /\ beating' = [beating EXCEPT ![w] = HeartbeatDue(w)]
    /\ lastBeat' = [lastBeat EXCEPT ![w] = IF HeartbeatDue(w) THEN now ELSE @]
    /\ UNCHANGED <<now, counters, dbVars, lockVars, tasks, joined, reserved, plan>>

\* tick: the heartbeat finds the worker shut down, and the error ends run_inner.
HeartbeatRefused(w) ==
    /\ pc[w] = "idle"
    /\ HeartbeatDue(w)
    /\ registry[w] # "alive"
    /\ Die(w)

\* Mutant of max_jobs_to_fetch: fetches only into spare slots, one too few.
max_jobs_to_fetch_Spare(n) == IF n + 1 < MaxConcurrent THEN MaxConcurrent - n - 1 ELSE 0

\* max_jobs_to_fetch: MAX_CONCURRENT_JOBS.saturating_sub(n).max(MAX_JOBS_TO_FETCH).
max_jobs_to_fetch(n) ==
    LET free == IF n < MaxConcurrent THEN MaxConcurrent - n ELSE 0
    IN  IF free < MaxFetch THEN MaxFetch ELSE free

\* Mutant of Reservable: also takes over what workers that were shut down had.
Reservable_Takeover(count) ==
    LET lost == {j \in WithStatus({"running"}) : registry[jobs[j].by] = "shutdown"}
        free == {j \in WithStatus({"available"}) \cup lost :
                    \A v \in Workers : j \notin reserved[v]}
    IN  {R \in SUBSET free : Cardinality(R) =< count}

\* reserve: ... WHERE status = 'available' ORDER BY queue_job_id LIMIT count
\* FOR UPDATE SKIP LOCKED.
Reservable(count) ==
    LET free == {j \in WithStatus({"available"}) : \A v \in Workers : j \notin reserved[v]}
    IN  {R \in SUBSET free :
            /\ \A j \in R, k \in free \ R : j < k
            /\ Cardinality(R) = IF count < Cardinality(free) THEN count ELSE Cardinality(free)}

\* tick: wait for the queue_leader row, take it, process the finished tasks,
\* reserve jobs and spawn a task for each.
TickExec(w) ==
    LET done == DOMAIN tasks[w] \ running_jobs(w)
    IN  /\ pc[w] = "begin"
        /\ leaderLock = NoWorker
        /\ leaderLock' = w
        /\ pc' = [pc EXCEPT ![w] = "exec"]
        /\ joined' = [joined EXCEPT ![w] = done]
        /\ \E R \in Reservable(max_jobs_to_fetch(Cardinality(running_jobs(w)))) :
              /\ reserved' = [reserved EXCEPT ![w] = R]
              /\ tasks' = [tasks EXCEPT ![w] =
                             [j \in DOMAIN tasks[w] \cup R |->
                                IF j \in DOMAIN tasks[w] THEN tasks[w][j] ELSE "running"]]
        /\ UNCHANGED <<now, counters, dbVars, dutiesLock, txnNow, lastBeat, beating, plan>>

\* A spawned task ends: Ok, Err with decision Fail, or Err with decision Retry
\* (a panic is handled like the last).
JobFinish(w, j, outcome) ==
    /\ pc[w] \in Live
    /\ j \in running_jobs(w)
    /\ tasks' = [tasks EXCEPT ![w] = [@ EXCEPT ![j] = outcome]]
    /\ UNCHANGED <<now, counters, dbVars, lockVars, pc, txnNow, lastBeat, beating,
                   joined, reserved, plan>>

\* Mutant of Retried: one retry too many.
Retried_Once_More(w, J) ==
    {j \in J : tasks[w][j] = "retry" /\ jobs[j].attempt =< MaxAttempts}

\* Among the finished tasks J of worker w, the ones process_jobs retries.
Retried(w, J) ==
    {j \in J : tasks[w][j] = "retry" /\ jobs[j].attempt < MaxAttempts}

\* mark_as_completed or mark_as_failed: the row of a finished task.
Recorded(w, j) ==
    [jobs[j] EXCEPT !.status = IF tasks[w][j] = "ok" THEN "completed" ELSE "failed"]

\* QueueJobRepository::retry: the row of the next attempt of job j.
retry(j) == NewRow("scheduled", jobs[j].attempt + 1, now + retry_delay(jobs[j].attempt),
                   jobs[j].sched)

\* process_jobs on the finished tasks J: mark_as_completed, mark_as_failed and,
\* with id[j] the id of the new row, retry(j).  The jobs in R become running.
ProcessJobs(w, J, id, R) ==
    LET again == Retried(w, J)
        old(n) == CHOOSE j \in again : id[j] = n
        Row(j) ==
          IF j \in J THEN [Recorded(w, j) EXCEPT !.next = IF j \in again THEN id[j] ELSE @]
          ELSE IF j \in R THEN [jobs[j] EXCEPT !.status = "running", !.by = w]
          ELSE jobs[j]
    IN  /\ jobs' = [j \in DOMAIN jobs \cup {id[k] : k \in again} |->
                      IF j \in DOMAIN jobs THEN Row(j) ELSE retry(old(j))]
        /\ nextId' = nextId + Cardinality(again)
        /\ schedJob' = [s \in Schedules |->
                          IF schedJob[s] \in again THEN id[schedJob[s]] ELSE schedJob[s]]
        /\ schedAt' = [s \in Schedules |->
                          IF schedJob[s] \in again
                          THEN now + retry_delay(jobs[schedJob[s]].attempt)
                          ELSE schedAt[s]]

\* Mutant of GetsLease: a lease is taken over while it is still valid.
GetsLease_Early(w) == leader \in {NoWorker, w} \/ leaseEnd =< txnNow[w]

\* remove_leader_lease_if_expired, then try_get_leader_lease: the upsert affects
\* a row if there was none left, or if it is our own.
GetsLease(w) == leader \in {NoWorker, w} \/ leaseEnd < txnNow[w]

\* tick: commit, and keep in am_i_leader whether this worker leads now.
TickCommit(w) ==
    /\ pc[w] = "exec"
    /\ \E id \in NewIds(Retried(w, joined[w])) : ProcessJobs(w, joined[w], id, reserved[w])
    /\ pc' = [pc EXCEPT ![w] = IF GetsLease(w) THEN "leader" ELSE "idle"]
    /\ leader' = IF GetsLease(w) THEN w ELSE leader
    /\ leaseEnd' = IF GetsLease(w) THEN txnNow[w] + LeaseDuration ELSE leaseEnd
    /\ txnNow' = [txnNow EXCEPT ![w] = IF GetsLease(w) THEN @ ELSE 0]
    /\ lastSeen' = [lastSeen EXCEPT ![w] = IF beating[w] THEN txnNow[w] ELSE @]
    /\ tasks' = [tasks EXCEPT ![w] = [j \in DOMAIN tasks[w] \ joined[w] |-> tasks[w][j]]]
    /\ leaderLock' = NoWorker
    /\ beating' = [beating EXCEPT ![w] = FALSE]
    /\ joined' = [joined EXCEPT ![w] = {}]
    /\ reserved' = [reserved EXCEPT ![w] = {}]
    /\ UNCHANGED <<now, counters, registry, dutiesLock, lastBeat, plan>>

-----------------------------------------------------------------------------
(* perform_leader_duties: a transaction of its own, under an advisory lock *)
(* of the session.                                                         *)

\* Mutant of ScheduleDue: does not wait for the last job to complete.
ScheduleDue_NoWait(s) == schedAt[s] =< now

\* QueueScheduleRepository::list: TRUE also when there is no such job.
last_scheduled_job_completed(s) ==
    schedJob[s] \in DOMAIN jobs => jobs[schedJob[s]].status \in Terminal

\* Whether the leader gives s a new job.
ScheduleDue(s) ==
    schedAt[s] # 0 => schedAt[s] =< now /\ last_scheduled_job_completed(s)

\* Try to take the advisory lock; read the schedules and decide.
DutiesBegin(w) ==
    LET due == {s \in Schedules : ScheduleDue(s)}
        new == IF planned + Cardinality(due) =< MaxPlanned THEN due ELSE {}
    IN  /\ pc[w] = "leader"
        /\ dutiesLock = NoWorker
        /\ dutiesLock' = w
        /\ pc' = [pc EXCEPT ![w] = "duties"]
        /\ plan' = [plan EXCEPT ![w] = [s \in new |-> NextTick(now)]]
        /\ planned' = planned + Cardinality(new)
        /\ UNCHANGED <<now, pushed, dbVars, leaderLock, txnNow, lastBeat, beating, tasks,
                       joined, reserved>>

\* Another session has the lock: roll back and return.
DutiesRefused(w) ==
    /\ pc[w] = "leader"
    /\ dutiesLock # NoWorker
    /\ pc' = [pc EXCEPT ![w] = "idle"]
    /\ txnNow' = [txnNow EXCEPT ![w] = 0]
    /\ UNCHANGED <<now, counters, dbVars, lockVars, lastBeat, beating, tasks,
                   joined, reserved, plan>>

\* Mutant of DutiesRelease: the advisory lock stays with the session.
DutiesRelease_Kept(w) ==
    /\ pc[w] = "duties"
    /\ pc' = [pc EXCEPT ![w] = "released"]
    /\ UNCHANGED <<now, counters, dbVars, lockVars, txnNow, lastBeat, beating, tasks,
                   joined, reserved, plan>>

\* The writes are sent, which waits for the queue_schedules rows another open
\* transaction has written; then release_now gives the lock back.
DutiesRelease(w) ==
    /\ pc[w] = "duties"
    /\ \A v \in Workers : pc[v] = "released" => DOMAIN plan[v] \cap DOMAIN plan[w] = {}
    /\ dutiesLock' = NoWorker
    /\ pc' = [pc EXCEPT ![w] = "released"]
    /\ UNCHANGED <<now, counters, dbVars, leaderLock, txnNow, lastBeat, beating, tasks,
                   joined, reserved, plan>>

\* shutdown_dead_workers: WHERE shutdown_at IS NULL AND last_seen_at < now - 2min.
DeadWorkers ==
    {v \in Workers : registry[v] = "alive" /\ lastSeen[v] + DeadAfter < now}

\* schedule_available_jobs on one row: ... WHERE status = 'scheduled' AND
\* scheduled_at <= now.
schedule_available_job(row) ==
    IF row.status = "scheduled" /\ row.at =< now
    THEN [row EXCEPT !.status = "available"]
    ELSE row

\* Commit: schedule_later for each planned schedule, shutdown_dead_workers (which
\* waits for a heartbeat that is being written), schedule_available_jobs.
DutiesCommit(w) ==
    /\ pc[w] = "released"
    /\ \A v \in DeadWorkers : ~beating[v]
    /\ \E id \in NewIds(DOMAIN plan[w]) :
          LET new == {id[s] : s \in DOMAIN plan[w]}
              for(j) == CHOOSE s \in DOMAIN plan[w] : id[s] = j
              Row(j) == IF j \in DOMAIN jobs THEN jobs[j]
                        ELSE NewRow("scheduled", 0, plan[w][for(j)], for(j))
          IN  /\ jobs' = [j \in DOMAIN jobs \cup new |-> schedule_available_job(Row(j))]
              /\ schedJob' = [s \in Schedules |->
                                IF s \in DOMAIN plan[w] THEN id[s] ELSE schedJob[s]]
    /\ schedAt' = [s \in Schedules |->
                      IF s \in DOMAIN plan[w] THEN plan[w][s] ELSE schedAt[s]]
    /\ nextId' = nextId + Cardinality(DOMAIN plan[w])
    /\ registry' = [v \in Workers |-> IF v \in DeadWorkers THEN "shutdown" ELSE registry[v]]
    /\ pc' = [pc EXCEPT ![w] = "idle"]
    /\ txnNow' = [txnNow EXCEPT ![w] = 0]
    /\ plan' = [plan EXCEPT ![w] = NoPlan]
    /\ UNCHANGED <<now, counters, lastSeen, leader, leaseEnd, lockVars, lastBeat,
                   beating, tasks, joined, reserved>>

-----------------------------------------------------------------------------
(* shutdown: the cancellation token ends the loop; one transaction waits   *)
(* for every task and records all of them.                                 *)

ShutdownBegin(w) ==
    /\ pc[w] = "idle"
    /\ pc' = [pc EXCEPT ![w] = "stopping"]
    /\ UNCHANGED <<now, counters, dbVars, lockVars, txnNow, lastBeat, beating, tasks,
                   joined, reserved, plan>>

ShutdownCommit(w) ==
    /\ pc[w] = "stopping"
    /\ running_jobs(w) = {}
    /\ leader = w => leaderLock = NoWorker
    /\ \E id \in NewIds(Retried(w, DOMAIN tasks[w])) : ProcessJobs(w, DOMAIN tasks[w], id, {})
    /\ pc' = [pc EXCEPT ![w] = "stopped"]
    /\ registry' = [registry EXCEPT ![w] = "shutdown"]
    /\ leader' = IF leader = w THEN NoWorker ELSE leader
    /\ tasks' = [tasks EXCEPT ![w] = NoTasks]
    /\ UNCHANGED <<now, counters, lastSeen, leaseEnd, lockVars, txnNow, lastBeat, beating,
                   joined, reserved, plan>>

-----------------------------------------------------------------------------

\* One iteration of a worker, its shutdown excepted.
WorkerStep(w) ==
    \/ TickBegin(w) \/ HeartbeatRefused(w) \/ TickExec(w) \/ TickCommit(w)
    \/ DutiesBegin(w) \/ DutiesRefused(w) \/ DutiesRelease(w) \/ DutiesCommit(w)

Next ==
    \/ Advance
    \/ Schedule
    \/ \E j \in DOMAIN jobs : Cleanup(j)
    \/ \E w \in Workers :
          \/ Register(w)
          \/ WorkerStep(w)
          \/ \E j \in running_jobs(w), o \in Outcomes : JobFinish(w, j, o)
          \/ ShutdownBegin(w)
          \/ ShutdownCommit(w)
          \/ Crash(w)

Spec == Init /\ [][Next]_vars

\* What the scheduler and PostgreSQL guarantee: a worker that lives wakes up at
\* least every second and runs its loop, a row lock is granted in turn (strong
\* fairness for the steps that wait for queue_leader), tasks end, time passes.
Fairness ==
    /\ WF_vars(Advance)
    /\ \A w \in Workers :
          /\ WF_vars(WorkerStep(w))
          /\ SF_vars(TickExec(w))
          /\ WF_vars(\E j \in running_jobs(w), o \in Outcomes : JobFinish(w, j, o))
          /\ SF_vars(ShutdownCommit(w))

FairSpec == Spec /\ Fairness

-----------------------------------------------------------------------------
(* Properties.                                                             *)

\* The tables, the locks and the local state of each worker are well formed; in
\* particular every id in queue_jobs was handed out before.
TypeOK ==
    /\ now \in Nat /\ pushed \in Nat /\ planned \in Nat
    /\ nextId \in Nat \ {0}
    /\ DOMAIN jobs \subseteq 1 .. (nextId - 1)
    /\ \A j \in DOMAIN jobs : jobs[j] \in JobRow
    /\ registry \in [Workers -> {"absent", "alive", "shutdown"}]
    /\ lastSeen \in [Workers -> Nat]
    /\ leader \in Workers \cup {NoWorker} /\ leaseEnd \in Nat
    /\ schedAt \in [Schedules -> Nat] /\ schedJob \in [Schedules -> Nat]
    /\ leaderLock \in Workers \cup {NoWorker}
    /\ dutiesLock \in Workers \cup {NoWorker}
    /\ pc \in [Workers -> PCs]
    /\ txnNow \in [Workers -> Nat] /\ lastBeat \in [Workers -> Nat]
    /\ beating \in [Workers -> BOOLEAN]
    /\ DOMAIN tasks = Workers
    /\ \A w \in Workers : tasks[w] \in [DOMAIN tasks[w] -> Outcomes \cup {"running"}]
    /\ DOMAIN joined = Workers /\ DOMAIN reserved = Workers
    /\ \A w \in Workers : joined[w] \cup reserved[w] \subseteq DOMAIN tasks[w]
    /\ DOMAIN plan = Workers
    /\ \A w \in Workers : DOMAIN plan[w] \subseteq Schedules
                           /\ plan[w] \in [DOMAIN plan[w] -> Nat]

\* Whatever crashes, rollbacks, shutdowns and dead-worker sweeps happen, a task
\* of a live worker is the only one for its job, and the row is 'running' for that
\* worker as soon as the reservation commits: mark_as_completed, mark_as_failed
\* and retry never fail on "0 rows affected", which would end the worker.
JobOwnership ==
    \A w \in Workers : \A j \in DOMAIN tasks[w] :
        /\ j \in DOMAIN jobs
        /\ IF j \in reserved[w]
           THEN jobs[j].status = "available" /\ j \notin joined[w]
           ELSE jobs[j].status = "running" /\ jobs[j].by = w
        /\ \A v \in Workers \ {w} : j \notin DOMAIN tasks[v]

\* Attempts of a job form a chain: a job has a next attempt only once it failed,
\* no two jobs share it, it counts one attempt more, keeps the schedule, and no
\* chain is longer than MAX_ATTEMPTS retries, even when attempts are cleaned up.
RetryChains ==
    \A j \in DOMAIN jobs :
        /\ jobs[j].attempt =< MaxAttempts
        /\ jobs[j].next # 0 =>
              /\ jobs[j].status = "failed"
              /\ jobs[j].next \in DOMAIN jobs
              /\ jobs[jobs[j].next].attempt = jobs[j].attempt + 1
              /\ jobs[jobs[j].next].sched = jobs[j].sched
              /\ \A k \in DOMAIN jobs \ {j} : jobs[k].next # jobs[j].next

\* perform_leader_duties skips a schedule whose last job has not completed: a
\* schedule never has two unfinished jobs, and the one it has is the one
\* queue_schedules points to, across retries, cleanups and changes of leader.
OnePendingJobPerSchedule ==
    \A j \in WithStatus(Pending) : jobs[j].sched # NoSchedule => schedJob[jobs[j].sched] = j

\* A worker in the middle of an iteration has not been declared dead: the
\* heartbeat interval, the lease and the threshold of shutdown_dead_workers agree.
WorkersInLoopAreAlive ==
    \A w \in Workers : pc[w] \in Loop => registry[w] = "alive"

\* Between the commit of its tick and the end of its leader duties a worker holds
\* the lease: no two workers are doing the duties.
LeaderHoldsLease ==
    \A w \in Workers : pc[w] \in Duties \cup {"leader"} => leader = w

\* "How many jobs can we run concurrently": a worker never runs more tasks than
\* MAX_CONCURRENT_JOBS.
ConcurrencyBound ==
    \A w \in Workers : Cardinality(running_jobs(w)) =< MaxConcurrent

\* No worker is left to do anything.
NobodyLives == \A w \in Workers : pc[w] \notin Live

\* The status of job j, "gone" when there is no such row.
StatusOf(j) == IF j \in DOMAIN jobs THEN jobs[j].status ELSE "gone"

\* As long as a worker lives, a job that is available is picked up and recorded
\* as completed or failed, unless the worker that took it died.
AvailableJobsAreDone ==
    \A j \in 1 .. MaxPushed :
        StatusOf(j) = "available" ~>
            \/ StatusOf(j) \in Terminal \cup {"gone"}
            \/ StatusOf(j) = "running" /\ pc[jobs[j].by] = "dead"
            \/ NobodyLives

\* As long as a worker lives, some worker is elected and makes a scheduled job
\* available once its time has come.
DueJobsBecomeAvailable ==
    \A j \in 1 .. ((MaxPushed + MaxPlanned) * (MaxAttempts + 1)) :
        (StatusOf(j) = "scheduled" /\ jobs[j].at =< now) ~>
            (StatusOf(j) # "scheduled" \/ NobodyLives)

\* "its tasks would be considered, later retried by another worker": a job whose
\* worker was declared dead does not stay 'running' forever while others live.
LostJobsAreRetried ==
    \A j \in 1 .. MaxPushed :
        (StatusOf(j) = "running" /\ registry[jobs[j].by] = "shutdown") ~>
            (StatusOf(j) # "running" \/ NobodyLives)
=============================================================================
