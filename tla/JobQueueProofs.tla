--------------------------- MODULE JobQueueProofs ---------------------------
(***************************************************************************)
(* Theorems about JobQueue, for any number of workers, jobs and schedules. *)
(***************************************************************************)
EXTENDS JobQueueRefinement, FiniteSetTheorems, TLAPS

(***************************************************************************)
(* Leases.                                                                 *)
(***************************************************************************)

\* What the lease is made of: a worker in its loop began its tick at txnNow, not
\* in the future and, if loops are prompt, at most a lease ago; a worker that
\* acts on its election still has the lease it got then.
LeaseInv ==
    /\ now \in Nat /\ leaseEnd \in Nat
    /\ pc \in [Workers -> PCs]
    /\ txnNow \in [Workers -> Nat]
    /\ \A w \in Workers : pc[w] \in Loop =>
          txnNow[w] =< now /\ now =< txnNow[w] + LeaseDuration
    /\ \A w \in Workers : pc[w] \in Duties \cup {"leader"} =>
          leader = w /\ leaseEnd = txnNow[w] + LeaseDuration

\* LeaseInv is inductive.
LEMMA LeaseStep ==
    ASSUME PromptLoops, LeaseInv, [Next]_vars
    PROVE  LeaseInv'
<1> USE ConstantsAssumption DEF LeaseInv, Loop, Duties, Live, PCs
<1>1. CASE Advance
  BY <1>1 DEF Advance, dbVars, lockVars, localVars
<1>2. CASE Schedule
  BY <1>2 DEF Schedule, lockVars, localVars
<1>3. ASSUME NEW j \in DOMAIN jobs, Cleanup(j)
      PROVE  LeaseInv'
  BY <1>3 DEF Cleanup, lockVars, localVars
<1>4. ASSUME NEW w \in Workers, Register(w)
      PROVE  LeaseInv'
  BY <1>4 DEF Register, lockVars
<1>5. ASSUME NEW w \in Workers, Die(w)
      PROVE  LeaseInv'
  BY <1>5 DEF Die, dbVars
<1>6. ASSUME NEW w \in Workers, TickBegin(w)
      PROVE  LeaseInv'
  BY <1>6 DEF TickBegin, dbVars
<1>7. ASSUME NEW w \in Workers, TickExec(w)
      PROVE  LeaseInv'
  BY <1>7 DEF TickExec, dbVars
<1>8. ASSUME NEW w \in Workers, TickCommit(w)
      PROVE  LeaseInv'
  \* A worker with the lease keeps it: the other one's tick began before it ends.
  <2>1. ASSUME NEW v \in Workers \ {w}, pc[v] \in Duties \cup {"leader"}
        PROVE  ~GetsLease(w)
    BY <1>8, <2>1 DEF TickCommit, GetsLease
  <2>2. /\ now' = now
        /\ pc' = [pc EXCEPT ![w] = IF GetsLease(w) THEN "leader" ELSE "idle"]
        /\ leader' = IF GetsLease(w) THEN w ELSE leader
        /\ leaseEnd' = IF GetsLease(w) THEN txnNow[w] + LeaseDuration ELSE leaseEnd
        /\ txnNow' = [txnNow EXCEPT ![w] = IF GetsLease(w) THEN @ ELSE 0]
        /\ pc[w] = "exec"
    BY <1>8 DEF TickCommit
  <2> QED BY <2>1, <2>2
<1>9. ASSUME NEW w \in Workers, DutiesBegin(w) \/ DutiesRefused(w)
      PROVE  LeaseInv'
  BY <1>9 DEF DutiesBegin, DutiesRefused, dbVars
<1>10. ASSUME NEW w \in Workers, DutiesRelease(w)
       PROVE  LeaseInv'
  BY <1>10 DEF DutiesRelease, dbVars
<1>11. ASSUME NEW w \in Workers, DutiesCommit(w)
       PROVE  LeaseInv'
  BY <1>11 DEF DutiesCommit
<1>12. ASSUME NEW w \in Workers,
              NEW j \in running_jobs(w), NEW o \in Outcomes, JobFinish(w, j, o)
       PROVE  LeaseInv'
  BY <1>12 DEF JobFinish, dbVars
<1>13. ASSUME NEW w \in Workers, ShutdownBegin(w)
       PROVE  LeaseInv'
  BY <1>13 DEF ShutdownBegin, dbVars
<1>14. ASSUME NEW w \in Workers, ShutdownCommit(w)
       PROVE  LeaseInv'
  BY <1>14 DEF ShutdownCommit
<1>15. CASE UNCHANGED vars
  BY <1>15 DEF vars, dbVars, localVars
<1> QED
  BY <1>1, <1>2, <1>3, <1>4, <1>5, <1>6, <1>7, <1>8, <1>9, <1>10, <1>11, <1>12,
     <1>13, <1>14, <1>15 DEF Next, WorkerStep, Crash, HeartbeatRefused

\* If every loop iteration ends within a lease, a worker between the commit of its
\* tick and the end of perform_leader_duties is the one queue_leader names: the
\* duties are never done by two workers at once.
THEOREM LeaseSafety ==
    ASSUME PromptLoops
    PROVE  Spec => []LeaderHoldsLease
<1>1. Init => LeaseInv
  BY ConstantsAssumption DEF Init, LeaseInv, Loop, Duties, Live, PCs
<1>2. LeaseInv /\ [Next]_vars => LeaseInv'
  BY LeaseStep
<1>3. LeaseInv => LeaderHoldsLease
  BY DEF LeaseInv, LeaderHoldsLease
<1> QED BY <1>1, <1>2, <1>3, PTL DEF Spec

(***************************************************************************)
(* Heartbeats.                                                             *)
(***************************************************************************)

\* last_heartbeat is what the worker's row says, unless a heartbeat is being
\* written; an iteration starts less than HeartbeatEvery after it; a worker whose
\* row was shut down while it slept has a heartbeat due.
BeatInv ==
    /\ registry \in [Workers -> {"absent", "alive", "shutdown"}]
    /\ lastSeen \in [Workers -> Nat] /\ lastBeat \in [Workers -> Nat]
    /\ beating \in [Workers -> BOOLEAN]
    /\ \A w \in Workers : pc[w] \in Loop => registry[w] = "alive"
    /\ \A w \in Workers : pc[w] \in Live /\ ~beating[w] => lastBeat[w] = lastSeen[w]
    /\ \A w \in Workers : pc[w] \in Loop /\ ~beating[w] =>
          txnNow[w] =< lastSeen[w] + HeartbeatEvery
    /\ \A w \in Workers : pc[w] \notin {"begin", "exec"} => ~beating[w]
    /\ \A w \in Workers : beating[w] => lastBeat[w] = txnNow[w]
    /\ \A w \in Workers : pc[w] = "idle" /\ registry[w] # "alive" =>
          lastSeen[w] + DeadAfter < now

\* BeatInv is inductive, given LeaseInv.
LEMMA BeatStep ==
    ASSUME LeaseInv, BeatInv, [Next]_vars
    PROVE  BeatInv'
<1> USE ConstantsAssumption, TimingAssumption DEF BeatInv, LeaseInv, Loop, Duties, Live, PCs
<1>1. CASE Advance
  BY <1>1 DEF Advance, dbVars, lockVars, localVars
<1>2. CASE Schedule
  BY <1>2 DEF Schedule, lockVars, localVars
<1>3. ASSUME NEW j \in DOMAIN jobs, Cleanup(j)
      PROVE  BeatInv'
  BY <1>3 DEF Cleanup, lockVars, localVars
<1>4. ASSUME NEW w \in Workers, Register(w)
      PROVE  BeatInv'
  BY <1>4 DEF Register, lockVars
<1>5. ASSUME NEW w \in Workers, Die(w)
      PROVE  BeatInv'
  BY <1>5 DEF Die, dbVars
<1>6. ASSUME NEW w \in Workers, TickBegin(w)
      PROVE  BeatInv'
  <2>1. CASE HeartbeatDue(w)
    BY <1>6, <2>1 DEF TickBegin, HeartbeatDue, dbVars
  <2>2. CASE ~HeartbeatDue(w)
    <3>1. lastSeen[w] + HeartbeatEvery > now /\ registry[w] = "alive"
      BY <1>6, <2>2 DEF TickBegin, HeartbeatDue
    <3>2. beating' = [beating EXCEPT ![w] = FALSE]
      <4>1. HeartbeatDue(w) = FALSE
        BY <2>2 DEF HeartbeatDue
      <4> QED BY <1>6, <4>1, Zenon DEF TickBegin
    <3>3. /\ now' = now /\ registry' = registry /\ lastSeen' = lastSeen
          /\ lastBeat' = lastBeat
          /\ pc' = [pc EXCEPT ![w] = "begin"] /\ pc[w] = "idle"
          /\ txnNow' = [txnNow EXCEPT ![w] = now]
      BY <1>6, <2>2 DEF TickBegin, dbVars
    <3> QED BY <3>1, <3>2, <3>3
  <2> QED BY <2>1, <2>2
<1>7. ASSUME NEW w \in Workers, TickExec(w)
      PROVE  BeatInv'
  BY <1>7 DEF TickExec, dbVars
<1>8. ASSUME NEW w \in Workers, TickCommit(w)
      PROVE  BeatInv'
  <2>1. /\ now' = now /\ registry' = registry /\ lastBeat' = lastBeat
        /\ pc' = [pc EXCEPT ![w] = IF GetsLease(w) THEN "leader" ELSE "idle"]
        /\ txnNow' = [txnNow EXCEPT ![w] = IF GetsLease(w) THEN @ ELSE 0]
        /\ lastSeen' = [lastSeen EXCEPT ![w] = IF beating[w] THEN txnNow[w] ELSE @]
        /\ beating' = [beating EXCEPT ![w] = FALSE]
        /\ pc[w] = "exec"
    BY <1>8 DEF TickCommit
  <2>2. CASE beating[w]
    BY <2>1, <2>2
  <2>3. CASE ~beating[w]
    <3>1. lastSeen' = lastSeen /\ beating' = beating
      BY <2>1, <2>3
    <3> QED BY <2>1, <2>3, <3>1
  <2> QED BY <2>2, <2>3
<1>9. ASSUME NEW w \in Workers, DutiesBegin(w) \/ DutiesRefused(w)
      PROVE  BeatInv'
  BY <1>9 DEF DutiesBegin, DutiesRefused, dbVars
<1>10. ASSUME NEW w \in Workers, DutiesRelease(w)
       PROVE  BeatInv'
  BY <1>10 DEF DutiesRelease, dbVars
<1>11. ASSUME NEW w \in Workers, DutiesCommit(w)
       PROVE  BeatInv'
  \* The sweep spares every worker in its loop.
  <2>1. ASSUME NEW v \in Workers, pc[v] \in Loop
        PROVE  v \notin DeadWorkers
    BY <1>11, <2>1 DEF DutiesCommit, DeadWorkers
  <2>2. /\ now' = now /\ lastSeen' = lastSeen /\ lastBeat' = lastBeat /\ beating' = beating
        /\ registry' = [v \in Workers |-> IF v \in DeadWorkers THEN "shutdown" ELSE registry[v]]
        /\ pc' = [pc EXCEPT ![w] = "idle"]
        /\ txnNow' = [txnNow EXCEPT ![w] = 0]
        /\ pc[w] = "released"
        /\ \A v \in DeadWorkers : ~beating[v]
    BY <1>11 DEF DutiesCommit
  <2> QED BY <2>1, <2>2 DEF DeadWorkers
<1>12. ASSUME NEW w \in Workers,
              NEW j \in running_jobs(w), NEW o \in Outcomes, JobFinish(w, j, o)
       PROVE  BeatInv'
  BY <1>12 DEF JobFinish, dbVars
<1>13. ASSUME NEW w \in Workers, ShutdownBegin(w)
       PROVE  BeatInv'
  BY <1>13 DEF ShutdownBegin, dbVars
<1>14. ASSUME NEW w \in Workers, ShutdownCommit(w)
       PROVE  BeatInv'
  BY <1>14 DEF ShutdownCommit
<1>15. CASE UNCHANGED vars
  BY <1>15 DEF vars, dbVars, localVars
<1> QED
  BY <1>1, <1>2, <1>3, <1>4, <1>5, <1>6, <1>7, <1>8, <1>9, <1>10, <1>11, <1>12,
     <1>13, <1>14, <1>15 DEF Next, WorkerStep, Crash, HeartbeatRefused

\* If every loop iteration ends within a lease, and a heartbeat interval and a
\* lease fit in the threshold of shutdown_dead_workers, no worker is declared dead
\* while it is in its loop, whatever the number of workers and the real durations.
THEOREM HeartbeatSafety ==
    ASSUME PromptLoops
    PROVE  Spec => []WorkersInLoopAreAlive
<1>1. Init => LeaseInv /\ BeatInv
  BY ConstantsAssumption DEF Init, LeaseInv, BeatInv, Loop, Duties, Live, PCs
<1>2. LeaseInv /\ BeatInv /\ [Next]_vars => (LeaseInv /\ BeatInv)'
  BY LeaseStep, BeatStep
<1>3. BeatInv => WorkersInLoopAreAlive
  BY DEF BeatInv, WorkersInLoopAreAlive
<1> QED BY <1>1, <1>2, <1>3, PTL DEF Spec

(***************************************************************************)
(* Types and ownership of jobs.                                            *)
(***************************************************************************)

\* Only an executed, uncommitted tick has joined or reserved jobs, and a worker
\* that does not run has no task.
TxnInv ==
    \A w \in Workers :
        /\ pc[w] # "exec" => joined[w] = {} /\ reserved[w] = {}
        /\ pc[w] \notin Live => DOMAIN tasks[w] = {}

\* The inductive invariant: well-formed rows, owned tasks.
QueueInv == TypeOK /\ JobOwnership /\ TxnInv

\* A set of jobs of the table is finite, so it has a number of elements.
LEMMA JobSetsFinite ==
    ASSUME TypeOK, NEW S \in SUBSET DOMAIN jobs
    PROVE  IsFiniteSet(S) /\ Cardinality(S) \in Nat
<1>1. IsFiniteSet(1 .. (nextId - 1))
  BY FS_Interval DEF TypeOK
<1>2. S \subseteq 1 .. (nextId - 1)
  BY DEF TypeOK
<1> QED BY <1>1, <1>2, FS_Subset, FS_CardinalityType

\* Fresh ids are distinct, are not in the table yet, and lie below the next one.
LEMMA FreshIds ==
    ASSUME TypeOK, NEW S, Cardinality(S) \in Nat, NEW id \in NewIds(S)
    PROVE  /\ id \in [S -> Nat]
           /\ \A s \in S : /\ id[s] \in nextId .. (nextId + Cardinality(S) - 1)
                          /\ id[s] \notin DOMAIN jobs
           /\ \A s, t \in S : id[s] = id[t] => s = t
BY DEF NewIds, IsInjective, TypeOK

\* A cron expression has a next tick, which is not at time 0.
LEMMA NextTickType == ASSUME NEW t \in Nat PROVE NextTick(t) \in Nat \ {0}
<1>1. t \div Period \in Nat
  BY ConstantsAssumption
<1> QED BY <1>1, ConstantsAssumption DEF NextTick

\* Setting next_attempt_id leaves the rest of a row alone.
LEMMA NextUpdate ==
    ASSUME NEW row \in JobRow, NEW n \in Nat
    PROVE  /\ [row EXCEPT !.next = n] \in JobRow
           /\ [row EXCEPT !.next = n].status = row.status
           /\ [row EXCEPT !.next = n].by = row.by
BY DEF JobRow

\* The row retry inserts has the type of a row.
LEMMA RetryRow ==
    ASSUME NEW row \in JobRow, NEW at \in Nat
    PROVE  [status |-> "scheduled", attempt |-> row.attempt + 1, at |-> at,
            sched |-> row.sched, by |-> NoWorker, next |-> 0] \in JobRow
BY DEF JobRow, Statuses

\* process_jobs followed by reservation keeps the table well formed, and rows it
\* does not process stay as they are.
LEMMA ProcessJobsRows ==
    ASSUME QueueInv, NEW w \in Workers, NEW J \in SUBSET DOMAIN tasks[w],
           NEW R \in SUBSET DOMAIN tasks[w],
           NEW id \in NewIds(Retried(w, J)), ProcessJobs(w, J, id, R)
    PROVE  /\ nextId' \in Nat \ {0}
           /\ DOMAIN jobs \subseteq DOMAIN jobs'
           /\ DOMAIN jobs' \subseteq 1 .. (nextId' - 1)
           /\ \A j \in DOMAIN jobs' : jobs'[j] \in JobRow
           /\ \A j \in DOMAIN jobs \ (J \cup R) : jobs'[j] = jobs[j]
           /\ \A j \in R \ J : jobs'[j].status = "running" /\ jobs'[j].by = w
           /\ schedAt' \in [Schedules -> Nat] /\ schedJob' \in [Schedules -> Nat]
<1> DEFINE again == Retried(w, J)
<1>1. again \in SUBSET DOMAIN jobs /\ J \subseteq DOMAIN jobs /\ R \subseteq DOMAIN jobs
  BY DEF Retried, QueueInv, JobOwnership
<1>2. Cardinality(again) \in Nat
  BY <1>1, JobSetsFinite DEF QueueInv
<1>3. /\ id \in [again -> Nat]
      /\ \A s \in again : /\ id[s] \in nextId .. (nextId + Cardinality(again) - 1)
                          /\ id[s] \notin DOMAIN jobs
  BY <1>2, FreshIds DEF QueueInv
<1>4. ASSUME NEW j \in again
      PROVE  jobs[j] \in JobRow /\ now + retry_delay(jobs[j].attempt) \in Nat
  BY <1>1, <1>4, DelayAssumption, ConstantsAssumption DEF QueueInv, TypeOK, Retried, JobRow
<1>5. DOMAIN jobs' = DOMAIN jobs \cup {id[k] : k \in again} /\ nextId' = nextId + Cardinality(again)
  BY DEF ProcessJobs
<1>6. nextId' \in Nat \ {0} /\ DOMAIN jobs' \subseteq 1 .. (nextId' - 1)
  BY <1>2, <1>3, <1>5 DEF QueueInv, TypeOK
<1>7. ASSUME NEW j \in DOMAIN jobs
      PROVE  /\ jobs'[j] \in JobRow
             /\ j \notin J \cup R => jobs'[j] = jobs[j]
             /\ j \in R \ J => jobs'[j].status = "running" /\ jobs'[j].by = w
  BY <1>3, <1>7 DEF ProcessJobs, Recorded, retry, NewRow, QueueInv, TypeOK, JobRow, Statuses
<1>8. ASSUME NEW n \in DOMAIN jobs', n \notin DOMAIN jobs
      PROVE  jobs'[n] \in JobRow
  <2> DEFINE old == CHOOSE j \in again : id[j] = n
  <2>1. old \in again
    BY <1>5, <1>8
  <2>2. jobs'[n] = [status |-> "scheduled", attempt |-> jobs[old].attempt + 1,
                    at |-> now + retry_delay(jobs[old].attempt), sched |-> jobs[old].sched,
                    by |-> NoWorker, next |-> 0]
    BY <1>8 DEF ProcessJobs, Recorded, retry, NewRow
  <2> HIDE DEF old
  <2>3. jobs[old] \in JobRow /\ now + retry_delay(jobs[old].attempt) \in Nat
    BY <2>1, <1>4
  <2> QED BY <2>2, <2>3, RetryRow
<1>9. schedAt' \in [Schedules -> Nat] /\ schedJob' \in [Schedules -> Nat]
  BY <1>3, <1>4 DEF ProcessJobs, Recorded, retry, NewRow, QueueInv, TypeOK
<1> QED BY <1>1, <1>5, <1>6, <1>7, <1>8, <1>9

\* Steps that change neither the table of jobs nor any task.
LEMMA QueueStepOther ==
    ASSUME QueueInv, NEW w \in Workers,
           Advance \/ Register(w) \/ TickBegin(w) \/ DutiesBegin(w) \/ DutiesRefused(w)
             \/ DutiesRelease(w) \/ ShutdownBegin(w) \/ UNCHANGED vars
    PROVE  QueueInv'
<1> USE ConstantsAssumption DEF QueueInv, TypeOK, Live, Loop, PCs
<1>1. /\ UNCHANGED <<jobs, tasks, joined, reserved, nextId, schedAt, schedJob>>
      /\ \A v \in Workers : pc'[v] # pc[v] =>
            pc[v] \in Live \cup {"off"} /\ pc[v] # "exec" /\ pc'[v] \in Live /\ pc'[v] # "exec"
  BY DEF Advance, Register, TickBegin, DutiesBegin, DutiesRefused, DutiesRelease,
         ShutdownBegin, vars, counters, dbVars, lockVars, localVars
<1>2. JobOwnership' /\ TxnInv'
  BY <1>1 DEF JobOwnership, TxnInv
<1>3. TypeOK'
  <2>1. CASE Advance
    BY <2>1 DEF Advance, counters, dbVars, lockVars, localVars, JobRow
  <2>2. CASE Register(w)
    BY <2>2 DEF Register, counters, lockVars, JobRow
  <2>3. CASE TickBegin(w)
    BY <2>3 DEF TickBegin, HeartbeatDue, counters, dbVars, lockVars, JobRow
  <2>4. CASE DutiesBegin(w)
    <3> DEFINE due == {s \in Schedules : ScheduleDue(s)}
               new == IF planned + Cardinality(due) =< MaxPlanned THEN due ELSE {}
    <3>1. new \subseteq Schedules /\ Cardinality(new) \in Nat
      <4>1. due \subseteq Schedules /\ {} \subseteq Schedules
        OBVIOUS
      <4>2. new = due \/ new = {}
        OBVIOUS
      <4> HIDE DEF due, new
      <4>3. IsFiniteSet(new)
        BY <4>1, <4>2, FS_Subset
      <4> QED BY <4>1, <4>2, <4>3, FS_CardinalityType
    <3>2. NextTick(now) \in Nat
      BY NextTickType
    <3>3. /\ plan' = [plan EXCEPT ![w] = [s \in new |-> NextTick(now)]]
          /\ planned' = planned + Cardinality(new)
          /\ pc' = [pc EXCEPT ![w] = "duties"] /\ dutiesLock' = w
          /\ UNCHANGED <<now, pushed, dbVars, leaderLock, txnNow, lastBeat, beating, tasks,
                         joined, reserved>>
      BY <2>4 DEF DutiesBegin
    <3> HIDE DEF new
    <3>4. /\ DOMAIN plan' = Workers
          /\ \A v \in Workers : DOMAIN plan'[v] \subseteq Schedules
                               /\ plan'[v] \in [DOMAIN plan'[v] -> Nat]
      BY <3>1, <3>2, <3>3
    <3>5. planned' \in Nat
      BY <3>1, <3>3
    <3> QED BY <3>3, <3>4, <3>5 DEF dbVars, JobRow
  <2>5. CASE DutiesRefused(w)
    BY <2>5 DEF DutiesRefused, counters, dbVars, lockVars, JobRow
  <2>6. CASE DutiesRelease(w)
    BY <2>6 DEF DutiesRelease, counters, dbVars, JobRow
  <2>7. CASE ShutdownBegin(w)
    BY <2>7 DEF ShutdownBegin, counters, dbVars, lockVars, JobRow
  <2>8. CASE UNCHANGED vars
    BY <2>8 DEF vars, counters, dbVars, lockVars, localVars, JobRow
  <2> QED BY <2>1, <2>2, <2>3, <2>4, <2>5, <2>6, <2>7, <2>8
<1> QED BY <1>2, <1>3

\* A worker dies, or one of its tasks ends.
LEMMA QueueStepTasks ==
    ASSUME QueueInv, NEW w \in Workers,
           \/ Die(w)
           \/ \E j \in running_jobs(w), o \in Outcomes : JobFinish(w, j, o)
    PROVE  QueueInv'
<1> USE ConstantsAssumption DEF QueueInv, TypeOK, Live, Loop, PCs
<1>1. CASE Die(w)
  BY <1>1 DEF Die, NoTasks, NoPlan, JobOwnership, TxnInv, counters, dbVars, JobRow
<1>2. ASSUME NEW j \in running_jobs(w), NEW o \in Outcomes, JobFinish(w, j, o)
      PROVE  QueueInv'
  <2>1. \A v \in Workers : DOMAIN tasks'[v] = DOMAIN tasks[v]
    BY <1>2 DEF JobFinish, running_jobs
  <2>2. \A v \in Workers : tasks'[v] \in [DOMAIN tasks'[v] -> Outcomes \cup {"running"}]
    BY <1>2 DEF JobFinish, running_jobs
  <2>3. DOMAIN tasks' = Workers /\ UNCHANGED <<jobs, joined, reserved, pc>>
    BY <1>2 DEF JobFinish, dbVars
  <2>4. JobOwnership' /\ TxnInv'
    BY <2>1, <2>3 DEF JobOwnership, TxnInv
  <2>5. TypeOK'
    BY <1>2, <2>1, <2>2, <2>3 DEF JobFinish, counters, dbVars, lockVars, JobRow
  <2> QED BY <2>4, <2>5
<1> QED BY <1>1, <1>2

\* Jobs enter the table, finished jobs leave it.
LEMMA QueueStepTable ==
    ASSUME QueueInv, Schedule \/ \E j \in DOMAIN jobs : Cleanup(j)
    PROVE  QueueInv'
<1> USE ConstantsAssumption DEF QueueInv, TypeOK
<1>1. CASE Schedule
  <2>1. /\ DOMAIN jobs' = DOMAIN jobs \cup {nextId}
        /\ \A j \in DOMAIN jobs : jobs'[j] = jobs[j]
        /\ jobs'[nextId] \in JobRow
        /\ nextId' = nextId + 1
    BY <1>1 DEF Schedule, NewRow, JobRow, Statuses
  <2>2. \A j \in DOMAIN jobs' : jobs'[j] \in JobRow
    BY <2>1
  <2>3. JobOwnership' /\ TxnInv'
    BY <1>1, <2>1 DEF Schedule, localVars, JobOwnership, TxnInv
  <2>4. TypeOK'
    BY <1>1, <2>1, <2>2 DEF Schedule, lockVars, localVars
  <2> QED BY <2>3, <2>4
<1>2. ASSUME NEW i \in DOMAIN jobs, Cleanup(i)
      PROVE  QueueInv'
  <2>1. /\ DOMAIN jobs' \subseteq DOMAIN jobs
        /\ \A j \in DOMAIN jobs' : jobs'[j] \in JobRow
        /\ \A j \in DOMAIN jobs : jobs[j].status \notin Terminal => j \in DOMAIN jobs'
        /\ \A j \in DOMAIN jobs' : /\ jobs'[j].status = jobs[j].status
                                  /\ jobs'[j].by = jobs[j].by
    <3> DEFINE gone == {j \in WithStatus(Terminal) : j =< i}
               keep(j) == IF j \in gone THEN 0 ELSE j
    <3>1. jobs' = [j \in DOMAIN jobs \ gone |-> [jobs[j] EXCEPT !.next = keep(@)]]
      BY <1>2 DEF Cleanup
    <3>2. \A j \in gone : jobs[j].status \in Terminal
      BY DEF WithStatus
    <3>3. \A n \in Nat : keep(n) \in Nat
      OBVIOUS
    <3> HIDE DEF gone, keep
    <3>4. \A j \in DOMAIN jobs \ gone : keep(jobs[j].next) \in Nat
      BY <3>3 DEF JobRow
    <3>5. ASSUME NEW j \in DOMAIN jobs \ gone
          PROVE  /\ jobs'[j] \in JobRow
                 /\ jobs'[j].status = jobs[j].status /\ jobs'[j].by = jobs[j].by
      BY <3>1, <3>4, NextUpdate
    <3>6. DOMAIN jobs' = DOMAIN jobs \ gone
      BY <3>1
    <3> QED BY <3>2, <3>5, <3>6
  <2>2. schedJob' \in [Schedules -> Nat]
    BY <1>2 DEF Cleanup
  <2>3. JobOwnership' /\ TxnInv'
    <3>1. UNCHANGED <<tasks, joined, reserved, pc>>
      BY <1>2 DEF Cleanup, localVars
    <3>2. TxnInv'
      BY <3>1 DEF TxnInv
    <3>3. \A v \in Workers : \A j \in DOMAIN tasks[v] : jobs[j].status \notin Terminal
      BY DEF JobOwnership, Terminal
    <3> QED BY <2>1, <3>1, <3>2, <3>3 DEF JobOwnership
  <2>4. TypeOK'
    BY <1>2, <2>1, <2>2 DEF Cleanup, counters, lockVars, localVars
  <2> QED BY <2>3, <2>4
<1> QED BY <1>1, <1>2

\* The tick takes jobs nobody has.
LEMMA QueueStepExec ==
    ASSUME QueueInv, NEW w \in Workers, TickExec(w)
    PROVE  QueueInv'
<1> USE ConstantsAssumption DEF QueueInv, TypeOK, Live, Loop, PCs
<1>1. PICK R \in Reservable(max_jobs_to_fetch(Cardinality(running_jobs(w)))) :
          /\ reserved' = [reserved EXCEPT ![w] = R]
          /\ tasks' = [tasks EXCEPT ![w] =
                         [j \in DOMAIN tasks[w] \cup R |->
                            IF j \in DOMAIN tasks[w] THEN tasks[w][j] ELSE "running"]]
  BY DEF TickExec
<1>2. \A j \in R : /\ j \in DOMAIN jobs /\ jobs[j].status = "available"
                   /\ \A v \in Workers : j \notin reserved[v]
  BY DEF Reservable, WithStatus
<1>3. \A j \in R, v \in Workers : j \notin DOMAIN tasks[v]
  BY <1>2 DEF JobOwnership
<1>4. pc[w] = "begin" /\ reserved[w] = {} /\ joined[w] = {}
  BY DEF TickExec, TxnInv
<1>5. /\ joined' = [joined EXCEPT ![w] = DOMAIN tasks[w] \ running_jobs(w)]
      /\ pc' = [pc EXCEPT ![w] = "exec"] /\ leaderLock' = w
      /\ UNCHANGED <<now, counters, dbVars, dutiesLock, txnNow, lastBeat, beating, plan>>
  BY DEF TickExec
<1>6. /\ DOMAIN tasks' = Workers /\ DOMAIN tasks'[w] = DOMAIN tasks[w] \cup R
      /\ \A v \in Workers \ {w} : tasks'[v] = tasks[v]
      /\ tasks'[w] \in [DOMAIN tasks[w] \cup R -> Outcomes \cup {"running"}]
  BY <1>1
<1>7. JobOwnership'
  BY <1>1, <1>2, <1>3, <1>4, <1>5, <1>6 DEF JobOwnership, dbVars
<1>8. TxnInv'
  BY <1>1, <1>4, <1>5, <1>6 DEF TxnInv
<1>9. TypeOK'
  BY <1>1, <1>5, <1>6 DEF counters, dbVars, JobRow
<1> QED BY <1>7, <1>8, <1>9

\* The tick commits: joined tasks leave the tracker, reserved jobs become owned.
LEMMA QueueStepCommit ==
    ASSUME QueueInv, NEW w \in Workers, TickCommit(w)
    PROVE  QueueInv'
<1> USE ConstantsAssumption DEF QueueInv
<1>1. PICK id \in NewIds(Retried(w, joined[w])) : ProcessJobs(w, joined[w], id, reserved[w])
  BY DEF TickCommit
<1>2. joined[w] \in SUBSET DOMAIN tasks[w] /\ reserved[w] \in SUBSET DOMAIN tasks[w]
  BY DEF TypeOK
<1>3. /\ nextId' \in Nat \ {0}
      /\ DOMAIN jobs \subseteq DOMAIN jobs'
      /\ DOMAIN jobs' \subseteq 1 .. (nextId' - 1)
      /\ \A j \in DOMAIN jobs' : jobs'[j] \in JobRow
      /\ \A j \in DOMAIN jobs \ (joined[w] \cup reserved[w]) : jobs'[j] = jobs[j]
      /\ \A j \in reserved[w] \ joined[w] : jobs'[j].status = "running" /\ jobs'[j].by = w
      /\ schedAt' \in [Schedules -> Nat] /\ schedJob' \in [Schedules -> Nat]
  BY <1>1, <1>2, ProcessJobsRows
<1>4. /\ pc[w] = "exec"
      /\ pc' = [pc EXCEPT ![w] = IF GetsLease(w) THEN "leader" ELSE "idle"]
      /\ leader' = IF GetsLease(w) THEN w ELSE leader
      /\ leaseEnd' = IF GetsLease(w) THEN txnNow[w] + LeaseDuration ELSE leaseEnd
      /\ txnNow' = [txnNow EXCEPT ![w] = IF GetsLease(w) THEN @ ELSE 0]
      /\ lastSeen' = [lastSeen EXCEPT ![w] = IF beating[w] THEN txnNow[w] ELSE @]
      /\ tasks' = [tasks EXCEPT ![w] = [j \in DOMAIN tasks[w] \ joined[w] |-> tasks[w][j]]]
      /\ leaderLock' = NoWorker
      /\ beating' = [beating EXCEPT ![w] = FALSE]
      /\ joined' = [joined EXCEPT ![w] = {}]
      /\ reserved' = [reserved EXCEPT ![w] = {}]
      /\ UNCHANGED <<now, counters, registry, dutiesLock, lastBeat, plan>>
  BY DEF TickCommit
<1>5. /\ DOMAIN tasks' = Workers /\ DOMAIN tasks'[w] = DOMAIN tasks[w] \ joined[w]
      /\ \A v \in Workers \ {w} : tasks'[v] = tasks[v]
      /\ tasks'[w] \in [DOMAIN tasks'[w] -> Outcomes \cup {"running"}]
  BY <1>4 DEF TypeOK
<1>6. JobOwnership'
  <2>1. ASSUME NEW v \in Workers \ {w}, NEW j \in DOMAIN tasks[v]
        PROVE  j \notin DOMAIN tasks[w] /\ jobs'[j] = jobs[j]
    BY <1>2, <1>3, <2>1 DEF JobOwnership
  <2>2. ASSUME NEW j \in DOMAIN tasks[w] \ joined[w]
        PROVE  j \in DOMAIN jobs' /\ jobs'[j].status = "running" /\ jobs'[j].by = w
    BY <1>2, <1>3, <2>2 DEF JobOwnership
  <2>3. reserved'[w] = {} /\ joined'[w] = {}
        /\ \A v \in Workers \ {w} : reserved'[v] = reserved[v] /\ joined'[v] = joined[v]
    BY <1>4 DEF TypeOK
  <2> QED BY <1>3, <1>5, <2>1, <2>2, <2>3 DEF JobOwnership
<1>7. TxnInv'
  BY <1>4, <1>5 DEF TxnInv, TypeOK, Live, Loop
<1>8. TypeOK'
  BY <1>3, <1>4, <1>5 DEF TypeOK, counters, PCs, Live, Loop
<1> QED BY <1>6, <1>7, <1>8

\* The shutdown transaction commits: every task is accounted for.
LEMMA QueueStepShutdown ==
    ASSUME QueueInv, NEW w \in Workers, ShutdownCommit(w)
    PROVE  QueueInv'
<1> USE ConstantsAssumption DEF QueueInv
<1> DEFINE J == DOMAIN tasks[w]
<1>1. PICK id \in NewIds(Retried(w, J)) : ProcessJobs(w, J, id, {})
  BY DEF ShutdownCommit
<1>2. J \in SUBSET DOMAIN tasks[w] /\ {} \in SUBSET DOMAIN tasks[w]
  OBVIOUS
<1>3. /\ nextId' \in Nat \ {0}
      /\ DOMAIN jobs \subseteq DOMAIN jobs'
      /\ DOMAIN jobs' \subseteq 1 .. (nextId' - 1)
      /\ \A j \in DOMAIN jobs' : jobs'[j] \in JobRow
      /\ \A j \in DOMAIN jobs \ J : jobs'[j] = jobs[j]
      /\ schedAt' \in [Schedules -> Nat] /\ schedJob' \in [Schedules -> Nat]
  <2> HIDE DEF J
  <2>1. \A j \in DOMAIN jobs \ J : jobs'[j] = jobs[j]
    BY <1>1 DEF ProcessJobs
  <2>2. /\ nextId' \in Nat \ {0}
        /\ DOMAIN jobs \subseteq DOMAIN jobs'
        /\ DOMAIN jobs' \subseteq 1 .. (nextId' - 1)
        /\ \A j \in DOMAIN jobs' : jobs'[j] \in JobRow
        /\ schedAt' \in [Schedules -> Nat] /\ schedJob' \in [Schedules -> Nat]
    BY <1>1, <1>2, ProcessJobsRows
  <2> QED BY <2>1, <2>2
<1>4. /\ pc' = [pc EXCEPT ![w] = "stopped"] /\ pc[w] = "stopping"
      /\ registry' = [registry EXCEPT ![w] = "shutdown"]
      /\ leader' = IF leader = w THEN NoWorker ELSE leader
      /\ tasks' = [tasks EXCEPT ![w] = NoTasks]
      /\ UNCHANGED <<now, counters, lastSeen, leaseEnd, lockVars, txnNow, lastBeat, beating,
                     joined, reserved, plan>>
  BY DEF ShutdownCommit
<1>5. /\ DOMAIN tasks' = Workers /\ DOMAIN tasks'[w] = {}
      /\ \A v \in Workers \ {w} : tasks'[v] = tasks[v]
      /\ tasks'[w] \in [DOMAIN tasks'[w] -> Outcomes \cup {"running"}]
      /\ joined[w] = {} /\ reserved[w] = {}
  BY <1>4 DEF TypeOK, TxnInv, NoTasks
<1>6. JobOwnership'
  BY <1>3, <1>4, <1>5 DEF JobOwnership
<1>7. TxnInv'
  BY <1>4, <1>5 DEF TxnInv, TypeOK, Live, Loop
<1>8. TypeOK'
  BY <1>3, <1>4, <1>5 DEF TypeOK, counters, lockVars, PCs, Live, Loop
<1> QED BY <1>6, <1>7, <1>8

\* The duties commit: new jobs have new ids, running jobs are left alone.
LEMMA QueueStepDuties ==
    ASSUME QueueInv, NEW w \in Workers, DutiesCommit(w)
    PROVE  QueueInv'
<1> USE ConstantsAssumption DEF QueueInv
<1> DEFINE S == DOMAIN plan[w]
<1>1. S \subseteq Schedules /\ IsFiniteSet(S) /\ Cardinality(S) \in Nat
  BY FS_Subset, FS_CardinalityType DEF TypeOK
<1> DEFINE Row(id, j) ==
             IF j \in DOMAIN jobs THEN jobs[j]
             ELSE NewRow("scheduled", 0, plan[w][CHOOSE s \in S : id[s] = j],
                         CHOOSE s \in S : id[s] = j)
<1>2. PICK id \in NewIds(S) :
          /\ jobs' = [j \in DOMAIN jobs \cup {id[s] : s \in S} |->
                        schedule_available_job(Row(id, j))]
          /\ schedJob' = [s \in Schedules |-> IF s \in S THEN id[s] ELSE schedJob[s]]
  BY DEF DutiesCommit
<1>3. /\ id \in [S -> Nat]
      /\ \A s \in S : /\ id[s] \in nextId .. (nextId + Cardinality(S) - 1)
                     /\ id[s] \notin DOMAIN jobs
  BY <1>1, FreshIds
<1>4. \A j \in DOMAIN jobs' : Row(id, j) \in JobRow
  <2>1. ASSUME NEW j \in DOMAIN jobs' \ DOMAIN jobs
        PROVE  (CHOOSE s \in S : id[s] = j) \in S
    BY <1>2, <2>1
  <2> QED BY <1>1, <1>2, <2>1 DEF TypeOK, JobRow, Statuses, NewRow
<1>5. ASSUME NEW row \in JobRow
      PROVE  /\ schedule_available_job(row) \in JobRow
             /\ row.status # "scheduled" => schedule_available_job(row) = row
  BY <1>5 DEF schedule_available_job, JobRow, Statuses
<1>6. \A j \in DOMAIN jobs' : jobs'[j] \in JobRow
  BY <1>2, <1>4, <1>5
<1>7. \A j \in DOMAIN jobs : jobs[j].status # "scheduled" => jobs'[j] = jobs[j]
  <2>1. \A j \in DOMAIN jobs : Row(id, j) = jobs[j] /\ jobs[j] \in JobRow
    BY DEF TypeOK
  <2> HIDE DEF Row
  <2> QED BY <1>2, <1>5, <2>1
<1>8. /\ schedAt' = [s \in Schedules |-> IF s \in S THEN plan[w][s] ELSE schedAt[s]]
      /\ nextId' = nextId + Cardinality(S)
      /\ registry' = [v \in Workers |-> IF v \in DeadWorkers THEN "shutdown" ELSE registry[v]]
      /\ pc' = [pc EXCEPT ![w] = "idle"] /\ pc[w] = "released"
      /\ txnNow' = [txnNow EXCEPT ![w] = 0]
      /\ plan' = [plan EXCEPT ![w] = NoPlan]
      /\ UNCHANGED <<now, counters, lastSeen, leader, leaseEnd, lockVars, lastBeat, beating,
                     tasks, joined, reserved>>
  BY DEF DutiesCommit
<1>9. DOMAIN jobs \subseteq DOMAIN jobs' /\ DOMAIN jobs' \subseteq 1 .. (nextId' - 1)
      /\ nextId' \in Nat \ {0}
  BY <1>1, <1>2, <1>3, <1>8 DEF TypeOK
<1>10. JobOwnership'
  BY <1>7, <1>8, <1>9 DEF JobOwnership
<1>11. TxnInv'
  BY <1>8 DEF TxnInv, TypeOK, Live, Loop
<1>12. schedAt' \in [Schedules -> Nat] /\ schedJob' \in [Schedules -> Nat]
  BY <1>2, <1>3, <1>8 DEF TypeOK
<1>13. /\ DOMAIN plan' = Workers
       /\ \A v \in Workers : DOMAIN plan'[v] \subseteq Schedules
                            /\ plan'[v] \in [DOMAIN plan'[v] -> Nat]
  BY <1>8 DEF TypeOK, NoPlan
<1>14. TypeOK'
  BY <1>6, <1>8, <1>9, <1>12, <1>13 DEF TypeOK, counters, lockVars, PCs, Live, Loop
<1> QED BY <1>10, <1>11, <1>14

\* QueueInv is inductive.
LEMMA QueueStep ==
    ASSUME QueueInv, [Next]_vars
    PROVE  QueueInv'
<1>1. CASE \E w \in Workers : TRUE
  <2>1. PICK v \in Workers : TRUE
    BY <1>1
  <2>2. CASE Advance \/ UNCHANGED vars
    BY <2>1, <2>2, QueueStepOther
  <2>3. CASE Schedule \/ \E j \in DOMAIN jobs : Cleanup(j)
    BY <2>3, QueueStepTable
  <2>4. ASSUME NEW w \in Workers,
               \/ Register(w) \/ WorkerStep(w) \/ ShutdownBegin(w) \/ ShutdownCommit(w)
               \/ Crash(w)
               \/ \E j \in running_jobs(w), o \in Outcomes : JobFinish(w, j, o)
        PROVE  QueueInv'
    BY <2>4, QueueStepOther, QueueStepTasks, QueueStepExec, QueueStepCommit,
       QueueStepShutdown, QueueStepDuties DEF WorkerStep, Crash, HeartbeatRefused
  <2> QED BY <2>2, <2>3, <2>4 DEF Next
<1>2. CASE Workers = {}
  <2>1. Advance \/ UNCHANGED vars \/ Schedule \/ \E j \in DOMAIN jobs : Cleanup(j)
    BY <1>2 DEF Next
  <2>2. CASE Schedule \/ \E j \in DOMAIN jobs : Cleanup(j)
    BY <2>2, QueueStepTable
  <2>3. CASE Advance \/ UNCHANGED vars
    BY <2>3 DEF Advance, vars, counters, dbVars, lockVars, localVars, QueueInv, TypeOK,
                JobOwnership, TxnInv, JobRow
  <2> QED BY <2>1, <2>2, <2>3
<1> QED BY <1>1, <1>2

\* Every id, row, lock and task is well formed, for any number of jobs.
THEOREM QueueTypes == Spec => []TypeOK
<1>1. Init => QueueInv
  BY ConstantsAssumption DEF Init, QueueInv, TypeOK, JobOwnership, TxnInv, EmptyTable,
                             NoTasks, NoPlan, Live, Loop, PCs
<1>2. QueueInv /\ [Next]_vars => QueueInv'
  BY QueueStep
<1>3. QueueInv => TypeOK
  BY DEF QueueInv
<1> QED BY <1>1, <1>2, <1>3, PTL DEF Spec

\* Whatever workers crash, are shut down or declared dead, and however their
\* transactions interleave, a task of a live worker is the only one for its job,
\* and its row is 'running' in that worker's name from the commit of the
\* reservation to the commit of the result.
THEOREM Ownership == Spec => []JobOwnership
<1>1. Init => QueueInv
  BY ConstantsAssumption DEF Init, QueueInv, TypeOK, JobOwnership, TxnInv, EmptyTable,
                             NoTasks, NoPlan, Live, Loop, PCs
<1>2. QueueInv /\ [Next]_vars => QueueInv'
  BY QueueStep
<1>3. QueueInv => JobOwnership
  BY DEF QueueInv
<1> QED BY <1>1, <1>2, <1>3, PTL DEF Spec

(***************************************************************************)
(* Retries.                                                                *)
(***************************************************************************)

\* The fresh ids are used up: every id below the next one was given to a row.
LEMMA AllIdsUsed ==
    ASSUME TypeOK, NEW S, IsFiniteSet(S), NEW id \in NewIds(S),
           NEW n \in nextId .. (nextId + Cardinality(S) - 1)
    PROVE  \E s \in S : id[s] = n
<1> DEFINE ids == nextId .. (nextId + Cardinality(S) - 1)
<1>1. nextId \in Int /\ Cardinality(S) \in Nat
  BY FS_CardinalityType DEF TypeOK
<1>2. IsFiniteSet(ids) /\ Cardinality(ids) = Cardinality(S)
  <2>1. nextId + Cardinality(S) - 1 \in Int
    BY <1>1
  <2> QED BY <1>1, <2>1, FS_Interval
<1>3. id \in Injection(S, ids)
  BY DEF NewIds, Injection, IsInjective
<1> HIDE DEF ids
<1>4. id \in Surjection(S, ids)
  BY <1>2, <1>3, FS_Injection
<1> QED BY <1>4 DEF Surjection, ids

\* What process_jobs does to the rows: the finished jobs J get their result and their
\* next attempt, the reserved jobs R their owner, each retry a row of its own.
ProcessEffect(w, J, id, R) ==
    LET again == Retried(w, J) IN
    /\ again \subseteq J /\ J \subseteq DOMAIN jobs /\ R \subseteq DOMAIN jobs
    /\ IsFiniteSet(again)
    /\ DOMAIN jobs' = DOMAIN jobs \cup {id[k] : k \in again}
    /\ nextId' = nextId + Cardinality(again)
    /\ id \in [again -> Nat \ {0}]
    /\ \A s \in again : id[s] \notin DOMAIN jobs
    /\ \A s, t \in again : id[s] = id[t] => s = t
    /\ \A j \in DOMAIN jobs \ (J \cup R) : jobs'[j] = jobs[j]
    /\ \A j \in J :
         /\ jobs'[j].status = IF tasks[w][j] = "ok" THEN "completed" ELSE "failed"
         /\ jobs'[j].next = IF j \in again THEN id[j] ELSE jobs[j].next
         /\ jobs'[j].attempt = jobs[j].attempt /\ jobs'[j].sched = jobs[j].sched
         /\ jobs'[j].by = jobs[j].by
    /\ \A j \in R :
         /\ jobs'[j].status = "running" /\ jobs'[j].next = jobs[j].next
         /\ jobs'[j].attempt = jobs[j].attempt /\ jobs'[j].sched = jobs[j].sched
         /\ jobs'[j].by = w
    /\ \A k \in again :
         /\ jobs'[id[k]].status = "scheduled" /\ jobs'[id[k]].next = 0
         /\ jobs'[id[k]].attempt = jobs[k].attempt + 1
         /\ jobs'[id[k]].sched = jobs[k].sched
         /\ jobs'[id[k]].by = NoWorker

LEMMA ProcessJobsEffect ==
    ASSUME QueueInv, NEW w \in Workers, NEW J \in SUBSET DOMAIN tasks[w],
           NEW R \in SUBSET DOMAIN tasks[w], J \cap R = {},
           NEW id \in NewIds(Retried(w, J)), ProcessJobs(w, J, id, R)
    PROVE  ProcessEffect(w, J, id, R)
<1> DEFINE again == Retried(w, J)
<1>1. again \in SUBSET DOMAIN jobs /\ J \subseteq DOMAIN jobs /\ R \subseteq DOMAIN jobs
      /\ again \subseteq J
  BY DEF Retried, QueueInv, JobOwnership
<1>2. IsFiniteSet(again) /\ Cardinality(again) \in Nat
  BY <1>1, JobSetsFinite DEF QueueInv
<1>3. /\ id \in [again -> Nat \ {0}]
      /\ \A s \in again : id[s] \notin DOMAIN jobs
      /\ \A s, t \in again : id[s] = id[t] => s = t
  <2>1. TypeOK /\ nextId \in Nat \ {0}
    BY DEF QueueInv, TypeOK
  <2> QED BY <1>2, <2>1, FreshIds
<1>4. DOMAIN jobs' = DOMAIN jobs \cup {id[k] : k \in again} /\ nextId' = nextId + Cardinality(again)
  BY DEF ProcessJobs
<1>5. ASSUME NEW j \in DOMAIN jobs
      PROVE  /\ j \notin J \cup R => jobs'[j] = jobs[j]
             /\ j \in J =>
                  /\ jobs'[j].status = IF tasks[w][j] = "ok" THEN "completed" ELSE "failed"
                  /\ jobs'[j].next = IF j \in again THEN id[j] ELSE jobs[j].next
                  /\ jobs'[j].attempt = jobs[j].attempt /\ jobs'[j].sched = jobs[j].sched
                  /\ jobs'[j].by = jobs[j].by
             /\ j \in R =>
                  /\ jobs'[j].status = "running" /\ jobs'[j].next = jobs[j].next
                  /\ jobs'[j].attempt = jobs[j].attempt /\ jobs'[j].sched = jobs[j].sched
                  /\ jobs'[j].by = w
  <2>1. jobs[j] \in JobRow
    BY DEF QueueInv, TypeOK
  <2>2. jobs'[j] = IF j \in J THEN [Recorded(w, j) EXCEPT !.next = IF j \in again THEN id[j] ELSE @]
                   ELSE IF j \in R THEN [jobs[j] EXCEPT !.status = "running", !.by = w]
                   ELSE jobs[j]
    BY <1>4 DEF ProcessJobs
  <2> HIDE DEF again
  <2> QED BY <2>1, <2>2 DEF Recorded, JobRow
<1>6. ASSUME NEW k \in again
      PROVE  /\ jobs'[id[k]].status = "scheduled" /\ jobs'[id[k]].next = 0
             /\ jobs'[id[k]].attempt = jobs[k].attempt + 1
             /\ jobs'[id[k]].sched = jobs[k].sched
             /\ jobs'[id[k]].by = NoWorker
  <2> DEFINE old == CHOOSE j \in again : id[j] = id[k]
  <2>1. old = k
    BY <1>3
  <2>2. jobs'[id[k]] = retry(old)
    BY <1>3, <1>4 DEF ProcessJobs
  <2> HIDE DEF old, again
  <2> QED BY <2>1, <2>2 DEF retry, NewRow
<1> HIDE DEF again
<1> QED BY <1>1, <1>2, <1>3, <1>4, <1>5, <1>6 DEF again, ProcessEffect

\* process_jobs keeps the chains: what it retries was running, so it had no next
\* attempt, and the new ids are nobody else's.
LEMMA ProcessJobsChains ==
    ASSUME QueueInv, RetryChains, NEW w \in Workers, NEW J \in SUBSET DOMAIN tasks[w],
           NEW R \in SUBSET DOMAIN tasks[w], J \cap R = {},
           \A j \in J : jobs[j].status = "running",
           \A j \in R : jobs[j].status = "available",
           NEW id \in NewIds(Retried(w, J)), ProcessJobs(w, J, id, R)
    PROVE  RetryChains'
<1> DEFINE again == Retried(w, J)
<1>1. ProcessEffect(w, J, id, R)
  BY ProcessJobsEffect
<1>2. J \subseteq DOMAIN jobs /\ R \subseteq DOMAIN jobs /\ again \subseteq J
  BY <1>1 DEF ProcessEffect
<1>4. \A k \in again : tasks[w][k] = "retry" /\ jobs[k].attempt < MaxAttempts
  BY DEF Retried
<1>5. \A j \in DOMAIN jobs : jobs[j] \in JobRow /\ j \in Nat /\ jobs[j].attempt \in Nat
  BY DEF QueueInv, TypeOK, JobRow
<1> HIDE DEF again
\* Only what was retried has a new next attempt.
<1>6. ASSUME NEW j \in DOMAIN jobs', jobs'[j].next # 0
      PROVE  \/ j \in again /\ jobs'[j].next = id[j]
             \/ /\ j \in DOMAIN jobs \ (J \cup R) /\ jobs'[j] = jobs[j]
                /\ jobs[j].next \in DOMAIN jobs
  BY <1>1, <1>2, <1>6 DEF RetryChains, ProcessEffect, again
<1>7. ASSUME NEW j \in DOMAIN jobs
      PROVE  /\ j \in DOMAIN jobs'
             /\ jobs'[j].attempt = jobs[j].attempt /\ jobs'[j].sched = jobs[j].sched
  BY <1>1, <1>2 DEF ProcessEffect, again
<1>8. ASSUME NEW j \in DOMAIN jobs'
      PROVE  jobs'[j].attempt =< MaxAttempts
  BY <1>1, <1>2, <1>4, <1>5, <1>7, ConstantsAssumption DEF RetryChains, ProcessEffect, again
<1>9. ASSUME NEW j \in DOMAIN jobs', jobs'[j].next # 0
      PROVE  /\ jobs'[j].status = "failed"
             /\ jobs'[j].next \in DOMAIN jobs'
             /\ jobs'[jobs'[j].next].attempt = jobs'[j].attempt + 1
             /\ jobs'[jobs'[j].next].sched = jobs'[j].sched
  <2>1. CASE j \in again /\ jobs'[j].next = id[j]
    BY <1>1, <1>2, <1>4, <2>1 DEF ProcessEffect, again
  <2>2. CASE /\ j \in DOMAIN jobs \ (J \cup R) /\ jobs'[j] = jobs[j]
             /\ jobs[j].next \in DOMAIN jobs
    BY <1>7, <1>9, <2>2 DEF RetryChains
  <2> QED BY <1>6, <1>9, <2>1, <2>2
<1>10. ASSUME NEW j \in DOMAIN jobs', jobs'[j].next # 0, NEW k \in DOMAIN jobs' \ {j}
       PROVE  jobs'[k].next # jobs'[j].next
  <2>1. SUFFICES ASSUME jobs'[k].next # 0 PROVE jobs'[k].next # jobs'[j].next
    BY <1>10
  <2>2. CASE j \in again /\ jobs'[j].next = id[j]
    BY <1>1, <1>6, <1>10, <2>1, <2>2 DEF ProcessEffect, again
  <2>3. CASE /\ j \in DOMAIN jobs \ (J \cup R) /\ jobs'[j] = jobs[j]
             /\ jobs[j].next \in DOMAIN jobs
    BY <1>1, <1>6, <1>10, <2>1, <2>3 DEF RetryChains, ProcessEffect, again
  <2> QED BY <1>6, <1>10, <2>2, <2>3
<1> QED BY <1>8, <1>9, <1>10 DEF RetryChains

\* What the commit of the duties does to the rows: a job for each planned schedule,
\* and the scheduled jobs whose time has come are available.
DutiesEffect(w, id) ==
    LET S == DOMAIN plan[w] IN
    /\ S \subseteq Schedules /\ IsFiniteSet(S)
    /\ DOMAIN jobs' = DOMAIN jobs \cup {id[s] : s \in S}
    /\ nextId' = nextId + Cardinality(S)
    /\ id \in [S -> Nat \ {0}]
    /\ \A s \in S : id[s] \notin DOMAIN jobs
    /\ \A s, t \in S : id[s] = id[t] => s = t
    /\ \A j \in DOMAIN jobs :
         /\ jobs[j].status # "scheduled" => jobs'[j] = jobs[j]
         /\ jobs[j].status = "scheduled" => jobs'[j].status \in {"scheduled", "available"}
         /\ jobs'[j].next = jobs[j].next /\ jobs'[j].attempt = jobs[j].attempt
         /\ jobs'[j].sched = jobs[j].sched /\ jobs'[j].by = jobs[j].by
    /\ \A s \in S :
         /\ jobs'[id[s]].status \in {"scheduled", "available"} /\ jobs'[id[s]].next = 0
         /\ jobs'[id[s]].attempt = 0 /\ jobs'[id[s]].sched = s
         /\ jobs'[id[s]].by = NoWorker
    /\ schedJob' = [s \in Schedules |-> IF s \in S THEN id[s] ELSE schedJob[s]]

LEMMA DutiesCommitEffect ==
    ASSUME QueueInv, NEW w \in Workers, DutiesCommit(w)
    PROVE  \E id \in NewIds(DOMAIN plan[w]) : DutiesEffect(w, id)
<1> USE ConstantsAssumption DEF QueueInv
<1> DEFINE S == DOMAIN plan[w]
<1>1. S \subseteq Schedules /\ IsFiniteSet(S) /\ Cardinality(S) \in Nat
  BY FS_Subset, FS_CardinalityType DEF TypeOK
<1> DEFINE for(id, j) == CHOOSE s \in S : id[s] = j
           Row(id, j) ==
             IF j \in DOMAIN jobs THEN jobs[j]
             ELSE NewRow("scheduled", 0, plan[w][for(id, j)], for(id, j))
<1>2. PICK id \in NewIds(S) :
          /\ jobs' = [j \in DOMAIN jobs \cup {id[s] : s \in S} |->
                        schedule_available_job(Row(id, j))]
          /\ schedJob' = [s \in Schedules |-> IF s \in S THEN id[s] ELSE schedJob[s]]
  BY DEF DutiesCommit
<1>3. /\ id \in [S -> Nat \ {0}]
      /\ \A s \in S : id[s] \notin DOMAIN jobs
      /\ \A s, t \in S : id[s] = id[t] => s = t
  <2>1. TypeOK /\ nextId \in Nat \ {0}
    BY DEF TypeOK
  <2> QED BY <1>1, <2>1, FreshIds
<1>4. ASSUME NEW row \in JobRow
      PROVE  /\ row.status # "scheduled" => schedule_available_job(row) = row
             /\ row.status = "scheduled" =>
                  schedule_available_job(row).status \in {"scheduled", "available"}
             /\ schedule_available_job(row).next = row.next
             /\ schedule_available_job(row).attempt = row.attempt
             /\ schedule_available_job(row).sched = row.sched
             /\ schedule_available_job(row).by = row.by
  BY <1>4 DEF schedule_available_job, JobRow
<1>5. ASSUME NEW j \in DOMAIN jobs
      PROVE  jobs'[j] = schedule_available_job(jobs[j]) /\ jobs[j] \in JobRow
  BY <1>2, <1>5 DEF TypeOK
<1>6. ASSUME NEW s \in S
      PROVE  /\ jobs'[id[s]] = schedule_available_job(NewRow("scheduled", 0, plan[w][s], s))
             /\ NewRow("scheduled", 0, plan[w][s], s) \in JobRow
  <2>1. for(id, id[s]) = s
    BY <1>3
  <2>2. jobs'[id[s]] = schedule_available_job(Row(id, id[s]))
    BY <1>2
  <2>3. Row(id, id[s]) = NewRow("scheduled", 0, plan[w][s], s)
    BY <1>3, <2>1
  <2>4. NewRow("scheduled", 0, plan[w][s], s) \in JobRow
    BY <1>1 DEF NewRow, JobRow, Statuses, TypeOK
  <2> QED BY <2>2, <2>3, <2>4
<1>7. ASSUME NEW s \in S
      PROVE  /\ jobs'[id[s]].status \in {"scheduled", "available"} /\ jobs'[id[s]].next = 0
             /\ jobs'[id[s]].attempt = 0 /\ jobs'[id[s]].sched = s
             /\ jobs'[id[s]].by = NoWorker
  <2> DEFINE row == NewRow("scheduled", 0, plan[w][s], s)
  <2>1. /\ row.status = "scheduled" /\ row.next = 0 /\ row.attempt = 0 /\ row.sched = s
        /\ row.by = NoWorker
    BY DEF NewRow
  <2>2. jobs'[id[s]] = schedule_available_job(row) /\ row \in JobRow
    BY <1>6
  <2> HIDE DEF row
  <2> QED BY <1>4, <2>1, <2>2
<1>8. nextId' = nextId + Cardinality(S) /\ DOMAIN jobs' = DOMAIN jobs \cup {id[s] : s \in S}
  BY <1>2 DEF DutiesCommit
<1> HIDE DEF Row, for
<1>9. DutiesEffect(w, id)
  BY <1>1, <1>2, <1>3, <1>4, <1>5, <1>7, <1>8 DEF DutiesEffect
<1> QED BY <1>9

\* Steps that leave the rows alone, or only their status, keep the chains.
LEMMA ChainsKept ==
    ASSUME TypeOK, RetryChains, DOMAIN jobs \subseteq DOMAIN jobs',
           \A j \in DOMAIN jobs :
             /\ jobs'[j].attempt = jobs[j].attempt /\ jobs'[j].sched = jobs[j].sched
             /\ jobs'[j].next = jobs[j].next
             /\ jobs[j].status = "failed" => jobs'[j].status = "failed",
           \A j \in DOMAIN jobs' \ DOMAIN jobs : jobs'[j].attempt = 0 /\ jobs'[j].next = 0
    PROVE  RetryChains'
<1>1. \A j \in DOMAIN jobs' : jobs'[j].next # 0 => j \in DOMAIN jobs
  OBVIOUS
<1>2. ASSUME NEW j \in DOMAIN jobs'
      PROVE  jobs'[j].attempt =< MaxAttempts
  BY ConstantsAssumption DEF RetryChains
<1>3. ASSUME NEW j \in DOMAIN jobs, jobs[j].next # 0
      PROVE  /\ jobs'[j].status = "failed"
             /\ jobs'[j].next \in DOMAIN jobs'
             /\ jobs'[jobs'[j].next].attempt = jobs'[j].attempt + 1
             /\ jobs'[jobs'[j].next].sched = jobs'[j].sched
             /\ \A k \in DOMAIN jobs' \ {j} : jobs'[k].next # jobs'[j].next
  BY <1>1, <1>3 DEF RetryChains
<1> QED BY <1>1, <1>2, <1>3 DEF RetryChains

LEMMA ChainsStep ==
    ASSUME QueueInv, RetryChains, [Next]_vars
    PROVE  RetryChains'
<1> USE DEF QueueInv
<1>1. CASE UNCHANGED jobs
  BY <1>1, ChainsKept
<1>2. CASE Schedule
  <2>1. /\ DOMAIN jobs' = DOMAIN jobs \cup {nextId} /\ nextId \notin DOMAIN jobs
        /\ \A j \in DOMAIN jobs : jobs'[j] = jobs[j]
        /\ jobs'[nextId].attempt = 0 /\ jobs'[nextId].next = 0
    BY <1>2 DEF Schedule, NewRow, TypeOK
  <2> QED BY <2>1, ChainsKept
<1>3. ASSUME NEW i \in DOMAIN jobs, Cleanup(i)
      PROVE  RetryChains'
  <2> DEFINE gone == {j \in WithStatus(Terminal) : j =< i}
             keep(j) == IF j \in gone THEN 0 ELSE j
  <2>1. jobs' = [j \in DOMAIN jobs \ gone |-> [jobs[j] EXCEPT !.next = keep(@)]]
    BY <1>3 DEF Cleanup
  <2>2. \A j \in DOMAIN jobs : jobs[j] \in JobRow
    BY DEF TypeOK
  <2>3. \A n \in Nat : keep(n) \in {0, n} /\ (n \in gone => keep(n) = 0)
    OBVIOUS
  <2> HIDE DEF keep, gone
  <2>4. DOMAIN jobs' = DOMAIN jobs \ gone
    BY <2>1
  <2>5. ASSUME NEW j \in DOMAIN jobs'
        PROVE  /\ jobs'[j].attempt = jobs[j].attempt /\ jobs'[j].sched = jobs[j].sched
               /\ jobs'[j].status = jobs[j].status
               /\ jobs'[j].next # 0 => jobs'[j].next = jobs[j].next /\ jobs[j].next \notin gone
    <3>1. jobs[j] \in JobRow /\ jobs'[j] = [jobs[j] EXCEPT !.next = keep(@)]
      BY <2>1, <2>2, <2>4
    <3>2. jobs[j].next \in Nat
      BY <3>1 DEF JobRow
    <3> QED BY <2>3, <3>1, <3>2 DEF JobRow
  <2>6. ASSUME NEW j \in DOMAIN jobs', jobs'[j].next # 0
        PROVE  /\ jobs'[j].status = "failed"
               /\ jobs'[j].next \in DOMAIN jobs'
               /\ jobs'[jobs'[j].next].attempt = jobs'[j].attempt + 1
               /\ jobs'[jobs'[j].next].sched = jobs'[j].sched
               /\ \A k \in DOMAIN jobs' \ {j} : jobs'[k].next # jobs'[j].next
    <3>1. j \in DOMAIN jobs /\ jobs[j].next # 0 /\ jobs'[j].next = jobs[j].next
          /\ jobs[j].next \notin gone
      BY <2>4, <2>5, <2>6
    <3>2. jobs[j].next \in DOMAIN jobs'
      BY <2>4, <3>1 DEF RetryChains
    <3>3. \A k \in DOMAIN jobs' \ {j} : jobs'[k].next # jobs'[j].next
      BY <2>4, <2>5, <3>1 DEF RetryChains
    <3> QED BY <2>4, <2>5, <3>1, <3>2, <3>3 DEF RetryChains
  <2>7. \A j \in DOMAIN jobs' : jobs'[j].attempt =< MaxAttempts
    BY <2>4, <2>5 DEF RetryChains
  <2> QED BY <2>6, <2>7 DEF RetryChains
<1>4. ASSUME NEW w \in Workers, TickCommit(w)
      PROVE  RetryChains'
  <2>1. PICK id \in NewIds(Retried(w, joined[w])) : ProcessJobs(w, joined[w], id, reserved[w])
    BY <1>4 DEF TickCommit
  <2>2. /\ joined[w] \in SUBSET DOMAIN tasks[w] /\ reserved[w] \in SUBSET DOMAIN tasks[w]
        /\ joined[w] \cap reserved[w] = {}
        /\ \A j \in joined[w] : jobs[j].status = "running"
        /\ \A j \in reserved[w] : jobs[j].status = "available"
    BY DEF TypeOK, JobOwnership
  <2> QED BY <2>1, <2>2, ProcessJobsChains
<1>5. ASSUME NEW w \in Workers, ShutdownCommit(w)
      PROVE  RetryChains'
  <2> DEFINE J == DOMAIN tasks[w]
  <2>1. PICK id \in NewIds(Retried(w, J)) : ProcessJobs(w, J, id, {})
    BY <1>5 DEF ShutdownCommit
  <2>2. \A j \in J : jobs[j].status = "running"
    BY <1>5 DEF ShutdownCommit, JobOwnership, TxnInv
  <2> QED BY <2>1, <2>2, ProcessJobsChains
<1>6. ASSUME NEW w \in Workers, DutiesCommit(w)
      PROVE  RetryChains'
  <2>1. PICK id \in NewIds(DOMAIN plan[w]) : DutiesEffect(w, id)
    BY <1>6, DutiesCommitEffect
  <2>2. /\ DOMAIN jobs \subseteq DOMAIN jobs'
        /\ \A j \in DOMAIN jobs :
             /\ jobs'[j].attempt = jobs[j].attempt /\ jobs'[j].sched = jobs[j].sched
             /\ jobs'[j].next = jobs[j].next
             /\ jobs[j].status = "failed" => jobs'[j].status = "failed"
        /\ \A j \in DOMAIN jobs' \ DOMAIN jobs : jobs'[j].attempt = 0 /\ jobs'[j].next = 0
    BY <2>1 DEF DutiesEffect
  <2> QED BY <2>2, ChainsKept
<1>7. ASSUME NEW w \in Workers,
             \/ Register(w) \/ TickBegin(w) \/ Die(w) \/ TickExec(w) \/ ShutdownBegin(w)
             \/ DutiesBegin(w) \/ DutiesRefused(w) \/ DutiesRelease(w)
             \/ \E j \in running_jobs(w), o \in Outcomes : JobFinish(w, j, o)
      PROVE  UNCHANGED jobs
  BY <1>7 DEF Register, TickBegin, Die, TickExec, ShutdownBegin, DutiesBegin, DutiesRefused,
              DutiesRelease, JobFinish, dbVars
<1>8. Advance \/ UNCHANGED vars => UNCHANGED jobs
  BY DEF Advance, vars, dbVars
<1> QED
  BY <1>1, <1>2, <1>3, <1>4, <1>5, <1>6, <1>7, <1>8 DEF Next, WorkerStep, Crash, HeartbeatRefused

\* The attempts of a job form a chain of at most MAX_ATTEMPTS retries in which every
\* attempt but the last has failed, for any number of workers and jobs: no attempt is
\* retried twice, not even one that a worker records while it shuts down, and the
\* clean-up leaves no attempt pointing to a row that is gone.
THEOREM Chains == Spec => []RetryChains
<1>1. Init => QueueInv /\ RetryChains
  BY ConstantsAssumption DEF Init, QueueInv, TypeOK, JobOwnership, TxnInv, EmptyTable,
                             NoTasks, NoPlan, Live, Loop, PCs, RetryChains
<1>2. (QueueInv /\ RetryChains) /\ [Next]_vars => (QueueInv /\ RetryChains)'
  BY QueueStep, ChainsStep
<1> QED BY <1>1, <1>2, PTL DEF Spec

(***************************************************************************)
(* Recurring schedules.                                                    *)
(***************************************************************************)

\* Schedule s has an unfinished job.
HasPending(s) == \E j \in WithStatus(Pending) : jobs[j].sched = s

\* The unfinished job of a schedule is the one its row points to, the row has a date
\* from its first job on, and a schedule that an open duties transaction is about to
\* give a job has none that is unfinished.
SchedInv ==
    /\ OnePendingJobPerSchedule
    /\ now # 0
    /\ \A s \in Schedules : HasPending(s) => schedAt[s] # 0
    /\ \A w \in Workers :
          /\ pc[w] \notin Duties => DOMAIN plan[w] = {}
          /\ \A s \in DOMAIN plan[w] : plan[w][s] # 0 /\ ~HasPending(s)

\* What no step but the commits of ticks, shutdowns and duties can disturb: the
\* unfinished jobs and the rows of the schedules stay, and nothing new is planned.
LEMMA SchedKept ==
    ASSUME QueueInv, SchedInv, now' \in Nat, now' >= now,
           UNCHANGED schedAt,
           \A j \in WithStatus(Pending)' : jobs'[j].sched # NoSchedule =>
              /\ j \in WithStatus(Pending) /\ jobs'[j].sched = jobs[j].sched
              /\ schedJob'[jobs[j].sched] = schedJob[jobs[j].sched],
           \A w \in Workers :
              \/ DOMAIN plan'[w] = {}
              \/ plan'[w] = plan[w] /\ pc[w] \in Duties /\ pc'[w] \in Duties
    PROVE  SchedInv'
<1>1. ASSUME NEW s \in Schedules, HasPending(s)'
      PROVE  HasPending(s)
  BY <1>1, ConstantsAssumption DEF HasPending
<1>2. OnePendingJobPerSchedule'
  BY DEF SchedInv, OnePendingJobPerSchedule
<1>3. now' # 0 /\ \A s \in Schedules : HasPending(s)' => schedAt'[s] # 0
  BY <1>1 DEF SchedInv, QueueInv, TypeOK
<1>4. \A w \in Workers : DOMAIN plan[w] \subseteq Schedules
  BY DEF QueueInv, TypeOK
<1>5. ASSUME NEW w \in Workers
      PROVE  /\ pc'[w] \notin Duties => DOMAIN plan'[w] = {}
             /\ \A s \in DOMAIN plan'[w] : plan'[w][s] # 0 /\ ~HasPending(s)'
  BY <1>1, <1>4 DEF SchedInv
<1> QED BY <1>2, <1>3, <1>5 DEF SchedInv

\* A retried job is the unfinished one of its schedule, and its next attempt takes
\* over: process_jobs moves the row of the schedule along.
LEMMA ProcessJobsSched ==
    ASSUME QueueInv, SchedInv, NEW w \in Workers, NEW J \in SUBSET DOMAIN tasks[w],
           NEW R \in SUBSET DOMAIN tasks[w], J \cap R = {},
           \A j \in J : jobs[j].status = "running",
           \A j \in R : jobs[j].status = "available",
           NEW id \in NewIds(Retried(w, J)), ProcessJobs(w, J, id, R),
           UNCHANGED <<now, plan>>,
           \A v \in Workers : pc'[v] # pc[v] => pc[v] \notin Duties
    PROVE  SchedInv'
<1> DEFINE again == Retried(w, J)
<1>1. ProcessEffect(w, J, id, R)
  BY ProcessJobsEffect
<1>2. J \subseteq DOMAIN jobs /\ R \subseteq DOMAIN jobs /\ again \subseteq J
  BY <1>1 DEF ProcessEffect
<1>3. /\ schedJob' = [s \in Schedules |->
                        IF schedJob[s] \in again THEN id[schedJob[s]] ELSE schedJob[s]]
      /\ schedAt' = [s \in Schedules |->
                        IF schedJob[s] \in again
                        THEN now + retry_delay(jobs[schedJob[s]].attempt)
                        ELSE schedAt[s]]
  BY DEF ProcessJobs
<1>4. \A k \in again : now + retry_delay(jobs[k].attempt) # 0
  <2>1. ASSUME NEW k \in again
        PROVE  retry_delay(jobs[k].attempt) \in Nat
    BY <1>2, <2>1, DelayAssumption, ConstantsAssumption DEF QueueInv, TypeOK, Retried, JobRow
  <2> QED BY <2>1 DEF SchedInv, QueueInv, TypeOK
<1>5. \A j \in DOMAIN jobs : jobs[j] \in JobRow
  BY DEF QueueInv, TypeOK
<1> HIDE DEF again
\* An unfinished job was unfinished before, or is the next attempt of one that was.
<1>6. ASSUME NEW n \in WithStatus(Pending)'
      PROVE  \/ /\ n \in WithStatus(Pending) \ J /\ jobs'[n].sched = jobs[n].sched
             \/ \E k \in again : /\ n = id[k] /\ k \in WithStatus(Pending)
                                 /\ jobs'[n].sched = jobs[k].sched
  <2>1. n \in DOMAIN jobs' /\ jobs'[n].status \in Pending
    BY <1>6 DEF WithStatus
  <2>2. CASE n \in DOMAIN jobs
    <3>1. n \notin J
      BY <1>1, <2>1 DEF ProcessEffect, Pending
    <3>2. CASE n \in R
      BY <1>1, <2>2, <3>1, <3>2 DEF ProcessEffect, WithStatus, Pending
    <3>3. CASE n \notin R
      BY <1>1, <2>1, <2>2, <3>1, <3>3 DEF ProcessEffect, WithStatus
    <3> QED BY <3>2, <3>3
  <2>3. CASE n \notin DOMAIN jobs
    <3>1. PICK k \in again : n = id[k]
      BY <1>1, <2>1, <2>3 DEF ProcessEffect, again
    <3>2. jobs'[n].sched = jobs[k].sched
      BY <1>1, <3>1 DEF ProcessEffect, again
    <3>3. k \in WithStatus(Pending)
      BY <1>2, <3>1 DEF WithStatus, Pending
    <3> QED BY <3>1, <3>2, <3>3
  <2> QED BY <2>2, <2>3
<1>7. \A s \in Schedules : HasPending(s)' => HasPending(s)
  BY <1>6 DEF HasPending
<1>8. OnePendingJobPerSchedule'
  <2>1. SUFFICES ASSUME NEW n \in WithStatus(Pending)', jobs'[n].sched # NoSchedule
                 PROVE  schedJob'[jobs'[n].sched] = n
    BY DEF OnePendingJobPerSchedule
  <2>2. CASE n \in WithStatus(Pending) \ J /\ jobs'[n].sched = jobs[n].sched
    <3>1. schedJob[jobs[n].sched] = n /\ jobs[n].sched \in Schedules /\ n \notin again
      BY <1>2, <1>5, <2>1, <2>2 DEF SchedInv, OnePendingJobPerSchedule, JobRow, WithStatus
    <3> QED BY <1>3, <2>2, <3>1
  <2>3. ASSUME NEW k \in again, n = id[k], k \in WithStatus(Pending), jobs'[n].sched = jobs[k].sched
        PROVE  schedJob'[jobs'[n].sched] = n
    <3>1. schedJob[jobs[k].sched] = k /\ jobs[k].sched \in Schedules
      BY <1>2, <1>5, <2>1, <2>3 DEF SchedInv, OnePendingJobPerSchedule, JobRow, WithStatus
    <3> QED BY <1>3, <2>3, <3>1
  <2> QED BY <1>6, <2>1, <2>2, <2>3
<1>9. \A s \in Schedules : HasPending(s)' => schedAt'[s] # 0
  BY <1>3, <1>4, <1>7 DEF SchedInv
<1>10. \A v \in Workers : DOMAIN plan[v] \subseteq Schedules
  BY DEF QueueInv, TypeOK
<1> QED BY <1>7, <1>8, <1>9, <1>10 DEF SchedInv

\* The duties plan a job only for a schedule that has none unfinished, and no two
\* workers plan at once.
LEMMA DutiesSched ==
    ASSUME QueueInv, LeaseInv, SchedInv, NEW w \in Workers,
           DutiesBegin(w) \/ DutiesCommit(w)
    PROVE  SchedInv'
<1>1. CASE DutiesBegin(w)
  <2> DEFINE due == {s \in Schedules : ScheduleDue(s)}
             new == IF planned + Cardinality(due) =< MaxPlanned THEN due ELSE {}
  <2>1. /\ plan' = [plan EXCEPT ![w] = [s \in new |-> NextTick(now)]]
        /\ pc' = [pc EXCEPT ![w] = "duties"] /\ pc[w] = "leader"
        /\ UNCHANGED <<now, jobs, schedJob, schedAt>>
    BY <1>1 DEF DutiesBegin, dbVars
  <2>2. new \subseteq due
    OBVIOUS
  <2> HIDE DEF new
  <2>3. NextTick(now) # 0
    <3>1. now \in Nat
      BY DEF QueueInv, TypeOK
    <3> QED BY <3>1, NextTickType
  <2>4. ASSUME NEW s \in new
        PROVE  ~HasPending(s)
    <3>1. s \in Schedules /\ ScheduleDue(s) /\ s # NoSchedule
      BY <2>2, ConstantsAssumption
    <3>2. SUFFICES ASSUME NEW j \in WithStatus(Pending), jobs[j].sched = s PROVE FALSE
      BY DEF HasPending
    <3>3. schedJob[s] = j /\ j \in DOMAIN jobs /\ jobs[j].status \notin Terminal
      BY <3>1, <3>2 DEF SchedInv, OnePendingJobPerSchedule, WithStatus, Pending, Terminal
    <3>4. schedAt[s] # 0
      BY <3>1, <3>2 DEF SchedInv, HasPending
    <3> QED BY <3>1, <3>3, <3>4 DEF ScheduleDue, last_scheduled_job_completed
  <2>5. \A s \in Schedules : HasPending(s)' = HasPending(s)
    BY <2>1 DEF HasPending, WithStatus
  <2>6. /\ plan'[w] = [s \in new |-> NextTick(now)] /\ pc'[w] = "duties"
        /\ \A v \in Workers \ {w} : plan'[v] = plan[v] /\ pc'[v] = pc[v]
    BY <2>1 DEF QueueInv, TypeOK
  <2>7. ASSUME NEW v \in Workers
        PROVE  /\ pc'[v] \notin Duties => DOMAIN plan'[v] = {}
               /\ \A s \in DOMAIN plan'[v] : plan'[v][s] # 0 /\ ~HasPending(s)'
    <3>1. CASE v = w
      BY <2>2, <2>3, <2>4, <2>5, <2>6, <3>1 DEF Duties
    <3>2. CASE v # w
      BY <2>5, <2>6, <3>2 DEF SchedInv, QueueInv, TypeOK
    <3> QED BY <3>1, <3>2
  <2>8. OnePendingJobPerSchedule'
    BY <2>1 DEF SchedInv, OnePendingJobPerSchedule, WithStatus
  <2> QED BY <2>1, <2>5, <2>7, <2>8 DEF SchedInv
<1>2. CASE DutiesCommit(w)
  <2>1. PICK id \in NewIds(DOMAIN plan[w]) : DutiesEffect(w, id)
    BY <1>2, DutiesCommitEffect
  <2>2. /\ schedAt' = [s \in Schedules |-> IF s \in DOMAIN plan[w] THEN plan[w][s] ELSE schedAt[s]]
        /\ schedJob' = [s \in Schedules |-> IF s \in DOMAIN plan[w] THEN id[s] ELSE schedJob[s]]
        /\ pc' = [pc EXCEPT ![w] = "idle"] /\ pc[w] = "released"
        /\ plan' = [plan EXCEPT ![w] = NoPlan]
        /\ now' = now
    BY <1>2, <2>1 DEF DutiesCommit, DutiesEffect
  \* The leader is alone.
  <2>3. \A v \in Workers : DOMAIN plan'[v] = {}
    <3>1. ASSUME NEW v \in Workers \ {w}
          PROVE  pc[v] \notin Duties
      BY <2>2 DEF LeaseInv, Duties
    <3> QED BY <2>2, <3>1 DEF SchedInv, NoPlan, QueueInv, TypeOK
  <2>4. DOMAIN plan[w] \subseteq Schedules /\ \A j \in DOMAIN jobs : jobs[j] \in JobRow
    BY DEF QueueInv, TypeOK
  <2>5. ASSUME NEW n \in WithStatus(Pending)'
        PROVE  \/ n \in WithStatus(Pending) /\ jobs'[n].sched = jobs[n].sched
               \/ \E s \in DOMAIN plan[w] : n = id[s] /\ jobs'[n].sched = s
    <3>1. n \in DOMAIN jobs' /\ jobs'[n].status \in Pending
      BY <2>5 DEF WithStatus
    <3>2. CASE n \in DOMAIN jobs
      <4>1. jobs[n].status \in Pending
        BY <2>1, <3>1, <3>2 DEF DutiesEffect, Pending
      <4> QED BY <2>1, <3>2, <4>1 DEF DutiesEffect, WithStatus
    <3>3. CASE n \notin DOMAIN jobs
      BY <2>1, <3>1, <3>3 DEF DutiesEffect
    <3> QED BY <3>2, <3>3
  <2>6. OnePendingJobPerSchedule'
    <3>1. SUFFICES ASSUME NEW n \in WithStatus(Pending)', jobs'[n].sched # NoSchedule
                   PROVE  schedJob'[jobs'[n].sched] = n
      BY DEF OnePendingJobPerSchedule
    <3>2. CASE n \in WithStatus(Pending) /\ jobs'[n].sched = jobs[n].sched
      <4>1. schedJob[jobs[n].sched] = n /\ jobs[n].sched \in Schedules
        BY <2>4, <3>1, <3>2 DEF SchedInv, OnePendingJobPerSchedule, JobRow, WithStatus
      <4>2. HasPending(jobs[n].sched)
        BY <3>2 DEF HasPending
      <4>3. jobs[n].sched \notin DOMAIN plan[w]
        BY <4>2 DEF SchedInv
      <4> QED BY <2>2, <3>2, <4>1, <4>3
    <3>3. ASSUME NEW s \in DOMAIN plan[w], n = id[s], jobs'[n].sched = s
          PROVE  schedJob'[jobs'[n].sched] = n
      BY <2>2, <2>4, <3>3
    <3> QED BY <2>5, <3>1, <3>2, <3>3
  <2>7. ASSUME NEW s \in Schedules, HasPending(s)'
        PROVE  schedAt'[s] # 0
    <3>1. HasPending(s) \/ s \in DOMAIN plan[w]
      BY <2>5, <2>7 DEF HasPending
    <3> QED BY <2>2, <3>1 DEF SchedInv
  <2> QED BY <2>2, <2>3, <2>6, <2>7 DEF SchedInv
<1> QED BY <1>1, <1>2

LEMMA SchedStep ==
    ASSUME QueueInv, LeaseInv, SchedInv, [Next]_vars
    PROVE  SchedInv'
<1> USE DEF QueueInv
<1>1. ASSUME UNCHANGED <<jobs, schedJob, schedAt>>, now' \in {now, now + 1},
             \A w \in Workers :
                \/ DOMAIN plan'[w] = {}
                \/ plan'[w] = plan[w] /\ (pc[w] \in Duties => pc'[w] \in Duties)
      PROVE  SchedInv'
  <2>1. \A w \in Workers : pc[w] \notin Duties => DOMAIN plan[w] = {}
    BY DEF SchedInv
  <2>2. now' \in Nat /\ now' >= now /\ WithStatus(Pending)' = WithStatus(Pending)
    BY <1>1 DEF TypeOK, WithStatus
  <2>3. \A w \in Workers :
           \/ DOMAIN plan'[w] = {}
           \/ plan'[w] = plan[w] /\ pc[w] \in Duties /\ pc'[w] \in Duties
    BY <1>1, <2>1
  <2> QED BY <1>1, <2>2, <2>3, SchedKept
<1>2. CASE Advance \/ UNCHANGED vars
  BY <1>1, <1>2 DEF Advance, vars, dbVars, localVars
<1>3. CASE Schedule
  <2>1. /\ DOMAIN jobs' = DOMAIN jobs \cup {nextId}
        /\ \A j \in DOMAIN jobs : jobs'[j] = jobs[j]
        /\ jobs'[nextId].sched = NoSchedule
        /\ UNCHANGED <<now, schedJob, schedAt, plan, pc>>
    BY <1>3 DEF Schedule, NewRow, TypeOK, localVars
  <2>2. \A j \in WithStatus(Pending)' : jobs'[j].sched # NoSchedule =>
              j \in WithStatus(Pending) /\ jobs'[j] = jobs[j]
    BY <2>1 DEF WithStatus
  <2>3. \A w \in Workers : DOMAIN plan'[w] = {} \/ pc[w] \in Duties
    BY <2>1 DEF SchedInv
  <2>4. now' \in Nat /\ now' >= now
    BY <2>1 DEF TypeOK
  <2> QED BY <2>1, <2>2, <2>3, <2>4, SchedKept
<1>4. ASSUME NEW i \in DOMAIN jobs, Cleanup(i)
      PROVE  SchedInv'
  <2> DEFINE gone == {j \in WithStatus(Terminal) : j =< i}
             keep(j) == IF j \in gone THEN 0 ELSE j
  <2>1. /\ jobs' = [j \in DOMAIN jobs \ gone |-> [jobs[j] EXCEPT !.next = keep(@)]]
        /\ schedJob' = [s \in Schedules |-> keep(schedJob[s])]
        /\ UNCHANGED <<now, schedAt, plan, pc>>
    BY <1>4 DEF Cleanup, localVars
  <2>2. \A j \in DOMAIN jobs : jobs[j] \in JobRow
    BY DEF TypeOK
  <2>3. \A n : n \notin gone => keep(n) = n
    OBVIOUS
  <2>4. \A j \in WithStatus(Pending) : j \notin gone
    BY DEF WithStatus, Pending, Terminal
  <2> HIDE DEF keep, gone
  <2>5. ASSUME NEW j \in WithStatus(Pending)', jobs'[j].sched # NoSchedule
        PROVE  /\ j \in WithStatus(Pending) /\ jobs'[j].sched = jobs[j].sched
               /\ schedJob'[jobs[j].sched] = schedJob[jobs[j].sched]
    <3>1. j \in DOMAIN jobs \ gone /\ jobs'[j] = [jobs[j] EXCEPT !.next = keep(@)]
      BY <2>1, <2>5 DEF WithStatus
    <3>2. /\ jobs'[j].status = jobs[j].status /\ jobs'[j].sched = jobs[j].sched
          /\ jobs[j].sched \in Schedules \cup {NoSchedule}
      BY <2>2, <3>1 DEF JobRow
    <3>3. j \in WithStatus(Pending)
      BY <2>5, <3>1, <3>2 DEF WithStatus
    <3>4. schedJob[jobs[j].sched] = j /\ jobs[j].sched \in Schedules
      BY <2>5, <3>2, <3>3 DEF SchedInv, OnePendingJobPerSchedule
    <3> QED BY <2>1, <2>3, <2>4, <3>2, <3>3, <3>4
  <2>6. \A w \in Workers : DOMAIN plan'[w] = {} \/ pc[w] \in Duties
    BY <2>1 DEF SchedInv
  <2>7. now' \in Nat /\ now' >= now
    BY <2>1 DEF TypeOK
  <2> QED BY <2>1, <2>5, <2>6, <2>7, SchedKept
<1>5. ASSUME NEW w \in Workers, TickCommit(w)
      PROVE  SchedInv'
  <2>1. PICK id \in NewIds(Retried(w, joined[w])) : ProcessJobs(w, joined[w], id, reserved[w])
    BY <1>5 DEF TickCommit
  <2>2. /\ joined[w] \in SUBSET DOMAIN tasks[w] /\ reserved[w] \in SUBSET DOMAIN tasks[w]
        /\ joined[w] \cap reserved[w] = {}
        /\ \A j \in joined[w] : jobs[j].status = "running"
        /\ \A j \in reserved[w] : jobs[j].status = "available"
    BY DEF TypeOK, JobOwnership
  <2>3. UNCHANGED <<now, plan>> /\ \A v \in Workers : pc'[v] # pc[v] => pc[v] \notin Duties
    BY <1>5 DEF TickCommit, TypeOK, Duties
  <2> QED BY <2>1, <2>2, <2>3, ProcessJobsSched
<1>6. ASSUME NEW w \in Workers, ShutdownCommit(w)
      PROVE  SchedInv'
  <2> DEFINE J == DOMAIN tasks[w]
  <2>1. PICK id \in NewIds(Retried(w, J)) : ProcessJobs(w, J, id, {})
    BY <1>6 DEF ShutdownCommit
  <2>2. \A j \in J : jobs[j].status = "running"
    BY <1>6 DEF ShutdownCommit, JobOwnership, TxnInv
  <2>3. UNCHANGED <<now, plan>> /\ \A v \in Workers : pc'[v] # pc[v] => pc[v] \notin Duties
    BY <1>6 DEF ShutdownCommit, TypeOK, Duties
  <2> QED BY <2>1, <2>2, <2>3, ProcessJobsSched
<1>7. ASSUME NEW w \in Workers,
             \/ Register(w) \/ TickBegin(w) \/ TickExec(w) \/ ShutdownBegin(w)
             \/ \E j \in running_jobs(w), o \in Outcomes : JobFinish(w, j, o)
      PROVE  SchedInv'
  <2>1. UNCHANGED <<jobs, schedJob, schedAt, now, plan>>
    BY <1>7 DEF Register, TickBegin, TickExec, ShutdownBegin, JobFinish, dbVars
  <2>2. \A v \in Workers : pc[v] \in Duties => pc'[v] \in Duties
    BY <1>7 DEF Register, TickBegin, TickExec, ShutdownBegin, JobFinish, TypeOK, Duties
  <2> QED BY <1>1, <2>1, <2>2
<1>8. ASSUME NEW w \in Workers, DutiesRefused(w) \/ DutiesRelease(w)
      PROVE  SchedInv'
  <2>1. UNCHANGED <<jobs, schedJob, schedAt, now, plan>>
    BY <1>8 DEF DutiesRefused, DutiesRelease, dbVars
  <2>2. \A v \in Workers : pc[v] \in Duties => pc'[v] \in Duties
    BY <1>8 DEF DutiesRefused, DutiesRelease, TypeOK, Duties
  <2> QED BY <1>1, <2>1, <2>2
<1>9. ASSUME NEW w \in Workers, Die(w)
      PROVE  SchedInv'
  <2>1. UNCHANGED <<jobs, schedJob, schedAt, now>>
    BY <1>9 DEF Die, dbVars
  <2>2. /\ DOMAIN plan'[w] = {}
        /\ \A v \in Workers \ {w} : plan'[v] = plan[v] /\ pc'[v] = pc[v]
    BY <1>9 DEF Die, TypeOK, NoPlan
  <2> QED BY <1>1, <2>1, <2>2
<1> QED
  BY <1>2, <1>3, <1>4, <1>5, <1>6, <1>7, <1>8, <1>9, DutiesSched
  DEF Next, WorkerStep, Crash, HeartbeatRefused

\* If every loop iteration ends within a lease, a schedule never has two unfinished
\* jobs, for any number of workers and schedules: a leader that was elected while
\* another one is still at its duties would plan a second one, and the lease rules
\* that out; a retry takes the place of the attempt it follows.
THEOREM OneJobPerSchedule ==
    ASSUME PromptLoops
    PROVE  Spec => []OnePendingJobPerSchedule
<1>1. Init => QueueInv /\ LeaseInv /\ SchedInv
  <2>1. Init => QueueInv /\ LeaseInv
    BY ConstantsAssumption DEF Init, QueueInv, TypeOK, JobOwnership, TxnInv, EmptyTable,
                               NoTasks, NoPlan, LeaseInv, Live, Loop, Duties, PCs
  <2>2. Init => DOMAIN jobs = {} /\ now # 0 /\ \A w \in Workers : DOMAIN plan[w] = {}
    BY DEF Init, EmptyTable, NoPlan
  <2>3. Init => SchedInv
    BY <2>2 DEF SchedInv, OnePendingJobPerSchedule, HasPending, WithStatus
  <2> QED BY <2>1, <2>3
<1>2. (QueueInv /\ LeaseInv /\ SchedInv) /\ [Next]_vars => (QueueInv /\ LeaseInv /\ SchedInv)'
  BY QueueStep, LeaseStep, SchedStep
<1>3. SchedInv => OnePendingJobPerSchedule
  BY DEF SchedInv
<1> QED BY <1>1, <1>2, <1>3, PTL DEF Spec

(***************************************************************************)
(* The life of a job: JobQueue implements JobLifecycle for every job id.   *)
(***************************************************************************)

\* The moves of JobLifecycle, spelled out on the state of the queue.
LEMMA LifeMoves ==
    ASSUME NEW j \in Nat \ {0},
           \/ /\ AbstractStatus(j)' = AbstractStatus(j)
              /\ AbstractOwner(j)' = AbstractOwner(j)
              /\ AbstractExecuting(j)' = AbstractExecuting(j)
           \/ /\ \/ /\ AbstractStatus(j) = "none"
                    /\ AbstractStatus(j)' \in {"available", "scheduled"}
                 \/ AbstractStatus(j) = "scheduled" /\ AbstractStatus(j)' = "available"
              /\ AbstractOwner(j)' = AbstractOwner(j)
              /\ AbstractExecuting(j)' = AbstractExecuting(j)
           \/ \E w \in Workers :
                 \/ /\ AbstractStatus(j) = "available" /\ AbstractStatus(j)' = "available"
                    /\ AbstractOwner(j)' = AbstractOwner(j)
                    /\ AbstractExecuting(j) = {} /\ AbstractExecuting(j)' = {w}
                 \/ /\ AbstractStatus(j) = "available" /\ AbstractStatus(j)' = "running"
                    /\ AbstractOwner(j)' = w
                    /\ AbstractExecuting(j) = {w} /\ AbstractExecuting(j)' = {w}
                 \/ /\ AbstractStatus(j) = "running"
                    /\ AbstractStatus(j)' \in {"completed", "failed"}
                    /\ AbstractOwner(j) = w /\ AbstractOwner(j)' = w
                    /\ AbstractExecuting(j) = {w} /\ AbstractExecuting(j)' = {}
                 \/ /\ AbstractStatus(j)' = AbstractStatus(j)
                    /\ AbstractOwner(j)' = AbstractOwner(j)
                    /\ AbstractExecuting(j) = {w} /\ AbstractExecuting(j)' = {}
           \/ /\ AbstractStatus(j) \in {"completed", "failed"} /\ AbstractStatus(j)' = "gone"
              /\ AbstractOwner(j)' = NoWorker
              /\ AbstractExecuting(j)' = AbstractExecuting(j)
    PROVE  [Job(j)!Next]_(Job(j)!vars)
BY DEF Job!Next, Job!vars, Job!Create, Job!Release, Job!Start, Job!HandOver, Job!Finish,
       Job!Lose, Job!Remove

\* Who executes a job: its owner, or the worker that is about to own it.
LEMMA Executors ==
    ASSUME QueueInv, NEW j
    PROVE  /\ \A w \in Workers : j \in DOMAIN tasks[w] => AbstractExecuting(j) = {w}
           /\ j \notin DOMAIN jobs => AbstractExecuting(j) = {}
BY DEF QueueInv, JobOwnership, AbstractExecuting

\* An id is not handed out, or has a row, or its row is gone.
LEMMA IdCases ==
    ASSUME TypeOK, NEW j \in Nat \ {0}
    PROVE  /\ j >= nextId => /\ AbstractStatus(j) = "none" /\ AbstractOwner(j) = NoWorker
                             /\ j \notin DOMAIN jobs
           /\ j \in DOMAIN jobs => /\ AbstractStatus(j) = jobs[j].status
                                   /\ AbstractOwner(j) = jobs[j].by /\ j < nextId
           /\ j < nextId /\ j \notin DOMAIN jobs =>
                 AbstractStatus(j) = "gone" /\ AbstractOwner(j) = NoWorker
BY DEF TypeOK, AbstractStatus, AbstractOwner

\* The same of the next state.
LEMMA IdCasesNext ==
    ASSUME TypeOK', NEW j \in Nat \ {0}
    PROVE  /\ j >= nextId' => AbstractStatus(j)' = "none" /\ AbstractOwner(j)' = NoWorker
           /\ j \in DOMAIN jobs' => /\ AbstractStatus(j)' = jobs'[j].status
                                    /\ AbstractOwner(j)' = jobs'[j].by
           /\ j < nextId' /\ j \notin DOMAIN jobs' =>
                 AbstractStatus(j)' = "gone" /\ AbstractOwner(j)' = NoWorker
BY DEF TypeOK, AbstractStatus, AbstractOwner

\* process_jobs finishes jobs of the worker that owns them, hands over the ones it has
\* reserved, and creates the retries.
LEMMA ProcessJobsLife ==
    ASSUME QueueInv, TypeOK', NEW w \in Workers, NEW J \in SUBSET DOMAIN tasks[w],
           NEW R \in SUBSET DOMAIN tasks[w], J \cap R = {},
           \A j \in J : jobs[j].status = "running" /\ jobs[j].by = w,
           \A j \in R : jobs[j].status = "available",
           NEW id \in NewIds(Retried(w, J)), ProcessJobs(w, J, id, R),
           DOMAIN tasks'[w] = DOMAIN tasks[w] \ J,
           \A v \in Workers \ {w} : tasks'[v] = tasks[v],
           NEW j \in Nat \ {0}
    PROVE  [Job(j)!Next]_(Job(j)!vars)
<1> DEFINE again == Retried(w, J)
<1>1. ProcessEffect(w, J, id, R)
  BY ProcessJobsEffect
<1>2. /\ \A s \in again : id[s] >= nextId
      /\ J \subseteq DOMAIN jobs /\ R \subseteq DOMAIN jobs
      /\ nextId' = nextId + Cardinality(again) /\ Cardinality(again) \in Nat
      /\ IsFiniteSet(again) /\ TypeOK /\ nextId \in Nat
      /\ DOMAIN jobs' = DOMAIN jobs \cup {id[k] : k \in again}
  <2>1. IsFiniteSet(again) /\ TypeOK /\ nextId \in Nat
    BY <1>1 DEF ProcessEffect, QueueInv, TypeOK
  <2>2. Cardinality(again) \in Nat
    BY <2>1, FS_CardinalityType
  <2>3. \A s \in again : id[s] >= nextId
    BY <2>1, <2>2, FreshIds
  <2> QED BY <1>1, <2>1, <2>2, <2>3 DEF ProcessEffect
<1> HIDE DEF again
<1>3. j \notin J => AbstractExecuting(j)' = AbstractExecuting(j)
  BY DEF AbstractExecuting
<1>4. CASE j \in J
  <2>1. AbstractExecuting(j) = {w}
    BY <1>4, Executors
  <2>2. AbstractExecuting(j)' = {}
    BY <1>4, <2>1 DEF AbstractExecuting
  <2>3. jobs'[j].status \in {"completed", "failed"} /\ jobs'[j].by = jobs[j].by
        /\ j \in DOMAIN jobs'
    BY <1>1, <1>2, <1>4 DEF ProcessEffect
  <2> QED BY <1>2, <1>4, <2>1, <2>2, <2>3, IdCases, IdCasesNext, LifeMoves
<1>5. CASE j \in R
  <2>1. AbstractExecuting(j) = {w} /\ j \notin J
    BY <1>5, Executors
  <2>2. jobs'[j].status = "running" /\ jobs'[j].by = w /\ j \in DOMAIN jobs'
    BY <1>1, <1>2, <1>5 DEF ProcessEffect
  <2> QED BY <1>2, <1>3, <1>5, <2>1, <2>2, IdCases, IdCasesNext, LifeMoves
<1>6. CASE j \in DOMAIN jobs \ (J \cup R)
  <2>1. jobs'[j] = jobs[j] /\ j \in DOMAIN jobs'
    BY <1>1, <1>2, <1>6 DEF ProcessEffect
  <2> QED BY <1>2, <1>3, <1>6, <2>1, IdCases, IdCasesNext, LifeMoves
<1>7. CASE j < nextId /\ j \notin DOMAIN jobs
  <2>1. j \notin DOMAIN jobs' /\ j < nextId' /\ j \notin J
    BY <1>2, <1>7
  <2> QED BY <1>2, <1>3, <1>7, <2>1, IdCases, IdCasesNext, LifeMoves
<1>8. CASE \E k \in again : j = id[k]
  <2>1. j >= nextId /\ j \in DOMAIN jobs' /\ j \notin DOMAIN jobs /\ j \notin J
    BY <1>1, <1>2, <1>8 DEF ProcessEffect, again
  <2>2. jobs'[j].status = "scheduled" /\ jobs'[j].by = NoWorker
    BY <1>1, <1>8 DEF ProcessEffect, again
  <2> QED BY <1>2, <1>3, <2>1, <2>2, IdCases, IdCasesNext, LifeMoves
<1>9. CASE j >= nextId /\ ~\E k \in again : j = id[k]
  <2>1. j \notin nextId .. (nextId + Cardinality(again) - 1)
    BY <1>2, <1>9, AllIdsUsed DEF again
  <2>2. j >= nextId' /\ j \notin DOMAIN jobs /\ j \notin J
    BY <1>2, <1>9, <2>1, IdCases
  <2> QED BY <1>2, <1>3, <1>9, <2>2, IdCases, IdCasesNext, LifeMoves
<1> QED BY <1>2, <1>4, <1>5, <1>6, <1>7, <1>8, <1>9

\* The commit of the duties creates jobs and releases the ones that are due.
LEMMA DutiesLife ==
    ASSUME QueueInv, TypeOK', NEW w \in Workers, DutiesCommit(w), NEW j \in Nat \ {0}
    PROVE  [Job(j)!Next]_(Job(j)!vars)
<1> DEFINE S == DOMAIN plan[w]
<1>1. PICK id \in NewIds(S) : DutiesEffect(w, id)
  BY DutiesCommitEffect
<1>2. /\ \A s \in S : id[s] >= nextId
      /\ nextId' = nextId + Cardinality(S) /\ Cardinality(S) \in Nat
      /\ IsFiniteSet(S) /\ TypeOK /\ nextId \in Nat
      /\ DOMAIN jobs' = DOMAIN jobs \cup {id[s] : s \in S}
  <2>1. IsFiniteSet(S) /\ TypeOK /\ nextId \in Nat
    BY <1>1 DEF DutiesEffect, QueueInv, TypeOK
  <2>2. Cardinality(S) \in Nat
    BY <2>1, FS_CardinalityType
  <2>3. \A s \in S : id[s] >= nextId
    BY <2>1, <2>2, FreshIds
  <2> QED BY <1>1, <2>1, <2>2, <2>3 DEF DutiesEffect
<1> HIDE DEF S
<1>3. AbstractExecuting(j)' = AbstractExecuting(j)
  BY DEF DutiesCommit, AbstractExecuting
<1>4. CASE j \in DOMAIN jobs
  <2>1. /\ \/ jobs'[j].status = jobs[j].status
           \/ jobs[j].status = "scheduled" /\ jobs'[j].status = "available"
        /\ jobs'[j].by = jobs[j].by /\ j \in DOMAIN jobs'
    BY <1>1, <1>2, <1>4 DEF DutiesEffect
  <2> QED BY <1>2, <1>3, <1>4, <2>1, IdCases, IdCasesNext, LifeMoves
<1>5. CASE j < nextId /\ j \notin DOMAIN jobs
  <2>1. j \notin DOMAIN jobs' /\ j < nextId'
    BY <1>2, <1>5
  <2> QED BY <1>2, <1>3, <1>5, <2>1, IdCases, IdCasesNext, LifeMoves
<1>6. CASE \E s \in S : j = id[s]
  <2>1. j >= nextId /\ j \in DOMAIN jobs'
    BY <1>2, <1>6
  <2>2. jobs'[j].status \in {"scheduled", "available"} /\ jobs'[j].by = NoWorker
    BY <1>1, <1>6 DEF DutiesEffect, S
  <2> QED BY <1>2, <1>3, <2>1, <2>2, IdCases, IdCasesNext, LifeMoves
<1>7. CASE j >= nextId /\ ~\E s \in S : j = id[s]
  <2>1. j \notin nextId .. (nextId + Cardinality(S) - 1)
    BY <1>1, <1>2, <1>7, AllIdsUsed
  <2>2. j >= nextId'
    BY <1>2, <1>7, <2>1
  <2> QED BY <1>2, <1>3, <1>7, <2>2, IdCases, IdCasesNext, LifeMoves
<1> QED BY <1>2, <1>4, <1>5, <1>6, <1>7

\* Every step of the queue is, for every job, a step of its life or none.
LEMMA LifeStep ==
    ASSUME QueueInv, [Next]_vars, NEW j \in Nat \ {0}
    PROVE  [Job(j)!Next]_(Job(j)!vars)
<1> USE DEF QueueInv
<1>1. TypeOK'
  BY QueueStep
<1>2. ASSUME UNCHANGED <<jobs, nextId>>,
             \A v \in Workers : DOMAIN tasks'[v] = DOMAIN tasks[v]
      PROVE  [Job(j)!Next]_(Job(j)!vars)
  <2>1. /\ AbstractStatus(j)' = AbstractStatus(j) /\ AbstractOwner(j)' = AbstractOwner(j)
        /\ AbstractExecuting(j)' = AbstractExecuting(j)
    BY <1>2 DEF AbstractStatus, AbstractOwner, AbstractExecuting
  <2> QED BY <2>1, LifeMoves
<1>3. CASE Advance \/ UNCHANGED vars
  BY <1>2, <1>3 DEF Advance, vars, dbVars, localVars
<1>4. CASE Schedule
  <2>1. /\ DOMAIN jobs' = DOMAIN jobs \cup {nextId} /\ nextId \notin DOMAIN jobs
        /\ \A k \in DOMAIN jobs : jobs'[k] = jobs[k]
        /\ jobs'[nextId].status = "available" /\ jobs'[nextId].by = NoWorker
        /\ nextId' = nextId + 1 /\ nextId \in Nat
        /\ UNCHANGED tasks
    BY <1>4 DEF Schedule, NewRow, TypeOK, localVars
  <2>2. AbstractExecuting(j)' = AbstractExecuting(j)
    BY <2>1 DEF AbstractExecuting
  <2>3. CASE j = nextId
    BY <1>1, <2>1, <2>2, <2>3, IdCases, IdCasesNext, LifeMoves
  <2>4. CASE j # nextId
    BY <1>1, <2>1, <2>2, <2>4, IdCases, IdCasesNext, LifeMoves
  <2> QED BY <2>3, <2>4
<1>5. ASSUME NEW i \in DOMAIN jobs, Cleanup(i)
      PROVE  [Job(j)!Next]_(Job(j)!vars)
  <2> DEFINE gone == {k \in WithStatus(Terminal) : k =< i}
             keep(k) == IF k \in gone THEN 0 ELSE k
  <2>1. /\ jobs' = [k \in DOMAIN jobs \ gone |-> [jobs[k] EXCEPT !.next = keep(@)]]
        /\ UNCHANGED <<nextId, tasks>>
    BY <1>5 DEF Cleanup, localVars
  <2>2. gone \subseteq DOMAIN jobs /\ \A k \in gone : jobs[k].status \in {"completed", "failed"}
    BY DEF WithStatus, Terminal
  <2> HIDE DEF gone, keep
  <2>3. AbstractExecuting(j)' = AbstractExecuting(j)
    BY <2>1 DEF AbstractExecuting
  <2>4. CASE j \in gone
    BY <1>1, <2>1, <2>2, <2>3, <2>4, IdCases, IdCasesNext, LifeMoves
  <2>5. CASE j \in DOMAIN jobs \ gone
    <3>1. jobs[j] \in JobRow /\ jobs'[j] = [jobs[j] EXCEPT !.next = keep(@)] /\ j \in DOMAIN jobs'
      BY <2>1, <2>5 DEF TypeOK
    <3>2. jobs'[j].status = jobs[j].status /\ jobs'[j].by = jobs[j].by
      BY <3>1 DEF JobRow
    <3> QED BY <1>1, <2>3, <2>5, <3>1, <3>2, IdCases, IdCasesNext, LifeMoves
  <2>6. CASE j \notin DOMAIN jobs
    <3>1. nextId \in Nat /\ nextId' = nextId /\ j \notin DOMAIN jobs'
      BY <2>1, <2>6 DEF TypeOK
    <3> QED BY <1>1, <2>3, <2>6, <3>1, IdCases, IdCasesNext, LifeMoves
  <2> QED BY <2>4, <2>5, <2>6
<1>6. ASSUME NEW w \in Workers, TickExec(w)
      PROVE  [Job(j)!Next]_(Job(j)!vars)
  <2>1. PICK R \in Reservable(max_jobs_to_fetch(Cardinality(running_jobs(w)))) :
            tasks' = [tasks EXCEPT ![w] =
                         [k \in DOMAIN tasks[w] \cup R |->
                            IF k \in DOMAIN tasks[w] THEN tasks[w][k] ELSE "running"]]
    BY <1>6 DEF TickExec
  <2>2. \A k \in R : /\ k \in DOMAIN jobs /\ jobs[k].status = "available"
                     /\ \A v \in Workers : k \notin reserved[v]
    BY DEF Reservable, WithStatus
  <2>3. \A k \in R, v \in Workers : k \notin DOMAIN tasks[v]
    BY <2>2 DEF JobOwnership
  <2>4. /\ DOMAIN tasks'[w] = DOMAIN tasks[w] \cup R
        /\ \A v \in Workers \ {w} : tasks'[v] = tasks[v]
    BY <2>1 DEF TypeOK
  <2>5. UNCHANGED <<jobs, nextId>>
    BY <1>6 DEF TickExec, dbVars
  <2>6. CASE j \in R
    <3>1. AbstractExecuting(j) = {} /\ AbstractExecuting(j)' = {w}
      BY <2>3, <2>4, <2>6 DEF AbstractExecuting
    <3>2. AbstractStatus(j) = "available"
      BY <2>2, <2>6, IdCases
    <3>3. AbstractStatus(j)' = AbstractStatus(j) /\ AbstractOwner(j)' = AbstractOwner(j)
      BY <2>5 DEF AbstractStatus, AbstractOwner
    <3> QED BY <3>1, <3>2, <3>3, LifeMoves
  <2>7. CASE j \notin R
    <3>1. AbstractExecuting(j)' = AbstractExecuting(j)
      BY <2>4, <2>7 DEF AbstractExecuting
    <3>2. AbstractStatus(j)' = AbstractStatus(j) /\ AbstractOwner(j)' = AbstractOwner(j)
      BY <2>5 DEF AbstractStatus, AbstractOwner
    <3> QED BY <3>1, <3>2, LifeMoves
  <2> QED BY <2>6, <2>7
<1>7. ASSUME NEW w \in Workers, TickCommit(w)
      PROVE  [Job(j)!Next]_(Job(j)!vars)
  <2>1. PICK id \in NewIds(Retried(w, joined[w])) : ProcessJobs(w, joined[w], id, reserved[w])
    BY <1>7 DEF TickCommit
  <2>2. /\ joined[w] \in SUBSET DOMAIN tasks[w] /\ reserved[w] \in SUBSET DOMAIN tasks[w]
        /\ joined[w] \cap reserved[w] = {}
        /\ \A k \in joined[w] : jobs[k].status = "running" /\ jobs[k].by = w
        /\ \A k \in reserved[w] : jobs[k].status = "available"
    BY DEF TypeOK, JobOwnership
  <2>3. /\ DOMAIN tasks'[w] = DOMAIN tasks[w] \ joined[w]
        /\ \A v \in Workers \ {w} : tasks'[v] = tasks[v]
    BY <1>7 DEF TickCommit, TypeOK
  <2> QED BY <1>1, <2>1, <2>2, <2>3, ProcessJobsLife
<1>8. ASSUME NEW w \in Workers, ShutdownCommit(w)
      PROVE  [Job(j)!Next]_(Job(j)!vars)
  <2> DEFINE J == DOMAIN tasks[w]
  <2>1. PICK id \in NewIds(Retried(w, J)) : ProcessJobs(w, J, id, {})
    BY <1>8 DEF ShutdownCommit
  <2>2. \A k \in J : jobs[k].status = "running" /\ jobs[k].by = w
    BY <1>8 DEF ShutdownCommit, JobOwnership, TxnInv
  <2>3. /\ DOMAIN tasks'[w] = DOMAIN tasks[w] \ J
        /\ \A v \in Workers \ {w} : tasks'[v] = tasks[v]
    BY <1>8 DEF ShutdownCommit, TypeOK, NoTasks
  <2> QED BY <1>1, <2>1, <2>2, <2>3, ProcessJobsLife
<1>9. ASSUME NEW w \in Workers, Die(w)
      PROVE  [Job(j)!Next]_(Job(j)!vars)
  <2>1. /\ DOMAIN tasks'[w] = {} /\ \A v \in Workers \ {w} : tasks'[v] = tasks[v]
        /\ UNCHANGED <<jobs, nextId>>
    BY <1>9 DEF Die, TypeOK, NoTasks, dbVars
  <2>2. AbstractStatus(j)' = AbstractStatus(j) /\ AbstractOwner(j)' = AbstractOwner(j)
    BY <2>1 DEF AbstractStatus, AbstractOwner
  <2>3. CASE j \in DOMAIN tasks[w]
    <3>1. AbstractExecuting(j) = {w}
      BY <2>3, Executors
    <3>2. AbstractExecuting(j)' = {}
      BY <2>1, <3>1 DEF AbstractExecuting
    <3> QED BY <2>2, <3>1, <3>2, LifeMoves
  <2>4. CASE j \notin DOMAIN tasks[w]
    <3>1. AbstractExecuting(j)' = AbstractExecuting(j)
      BY <2>1, <2>4 DEF AbstractExecuting
    <3> QED BY <2>2, <3>1, LifeMoves
  <2> QED BY <2>3, <2>4
<1>10. ASSUME NEW w \in Workers,
              \/ Register(w) \/ TickBegin(w) \/ ShutdownBegin(w)
              \/ DutiesBegin(w) \/ DutiesRefused(w) \/ DutiesRelease(w)
       PROVE  [Job(j)!Next]_(Job(j)!vars)
  BY <1>2, <1>10 DEF Register, TickBegin, ShutdownBegin, DutiesBegin, DutiesRefused,
                     DutiesRelease, dbVars
<1>11. ASSUME NEW w \in Workers, NEW k \in running_jobs(w), NEW o \in Outcomes,
              JobFinish(w, k, o)
       PROVE  [Job(j)!Next]_(Job(j)!vars)
  BY <1>2, <1>11 DEF JobFinish, dbVars, TypeOK
<1> QED
  BY <1>1, <1>3, <1>4, <1>5, <1>6, <1>7, <1>8, <1>9, <1>10, <1>11, DutiesLife
  DEF Next, WorkerStep, Crash, HeartbeatRefused

\* JobQueue refines JobLifecycle, for any number of workers and every id: whatever
\* tick, shutdown, perform_leader_duties, cleanup and crashes interleave, a job is
\* executed by one worker at a time, after it was released, and only its owner records
\* a result, once.
THEOREM Lifecycle == Spec => JobsFollowLifecycle
<1>1. Init => QueueInv
  BY ConstantsAssumption DEF Init, QueueInv, TypeOK, JobOwnership, TxnInv, EmptyTable,
                             NoTasks, NoPlan, Live, Loop, PCs
<1>2. QueueInv /\ [Next]_vars => QueueInv'
  BY QueueStep
<1>3. ASSUME NEW j \in JobIds
      PROVE  j \in Nat \ {0}
  BY ConstantsAssumption DEF JobIds
<1>4. Init => \A j \in JobIds : Job(j)!Init
  <2>1. ASSUME Init, NEW j \in JobIds
        PROVE  /\ AbstractStatus(j) = "none" /\ AbstractOwner(j) = NoWorker
               /\ AbstractExecuting(j) = {}
    BY <1>3, <2>1 DEF Init, EmptyTable, NoTasks, AbstractStatus, AbstractOwner, AbstractExecuting
  <2> QED BY <2>1 DEF Job!Init
<1>5. QueueInv /\ [Next]_vars => \A j \in JobIds : [Job(j)!Next]_(Job(j)!vars)
  BY <1>3, LifeStep
<1> QED BY <1>1, <1>2, <1>4, <1>5, PTL DEF Spec, JobsFollowLifecycle
=============================================================================
