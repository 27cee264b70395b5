------------------------- MODULE JobQueueRefinement -------------------------
(* JobQueue implements JobLifecycle for every job id.                      *)
EXTENDS JobQueue

\* The row of job j, as JobLifecycle sees it.
AbstractStatus(j) ==
    IF j >= nextId THEN "none" ELSE IF j \in DOMAIN jobs THEN jobs[j].status ELSE "gone"
AbstractOwner(j) == IF j \in DOMAIN jobs THEN jobs[j].by ELSE NoWorker
AbstractExecuting(j) == {w \in Workers : j \in DOMAIN tasks[w]}

Job(j) == INSTANCE JobLifecycle
            WITH status <- AbstractStatus(j),
                 owner <- AbstractOwner(j),
                 executing <- AbstractExecuting(j)

\* The ids a bounded instance can hand out.
JobIds == 1 .. ((MaxPushed + MaxPlanned) * (MaxAttempts + 1))

\* Every job, retries included, lives the life JobLifecycle describes: executed by
\* one worker at a time, results recorded only by its owner and final.  This holds
\* for whatever tick, shutdown, perform_leader_duties and cleanup interleave.
\* (\A j \in JobIds : Job(j)!Spec, in the form TLC evaluates.)
JobsFollowLifecycle ==
    /\ \A j \in JobIds : Job(j)!Init
    /\ [][\A j \in JobIds : [Job(j)!Next]_(Job(j)!vars)]_vars
=============================================================================
