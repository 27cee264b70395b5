---------------------------- MODULE JobLifecycle ----------------------------
(***************************************************************************)
(* What the job queue promises about one job, as its producers and the     *)
(* authors of the job handlers see it: the job is executed by at most one  *)
(* worker at a time, only after it was released, only the worker that      *)
(* executes it can record a result, and a recorded result is final.        *)
(***************************************************************************)
CONSTANTS Workers, NoWorker

VARIABLES
    status,      \* none, scheduled, available, running, completed, failed, gone
    owner,       \* the worker the job was handed to
    executing    \* the workers with a task for this job

vars == <<status, owner, executing>>

Init == status = "none" /\ owner = NoWorker /\ executing = {}

\* The job is created, to run at once or later.
Create ==
    /\ status = "none"
    /\ status' \in {"available", "scheduled"}
    /\ UNCHANGED <<owner, executing>>

\* Its time has come.
Release ==
    /\ status = "scheduled"
    /\ status' = "available"
    /\ UNCHANGED <<owner, executing>>

\* Worker w starts a task for it.
Start(w) ==
    /\ status = "available"
    /\ executing = {}
    /\ executing' = {w}
    /\ UNCHANGED <<status, owner>>

\* The worker that executes the job is on record as its owner.
HandOver(w) ==
    /\ status = "available"
    /\ executing = {w}
    /\ status' = "running"
    /\ owner' = w
    /\ UNCHANGED executing

\* The owner's task has ended and its result is recorded.
Finish(w) ==
    /\ status = "running"
    /\ owner = w
    /\ executing = {w}
    /\ status' \in {"completed", "failed"}
    /\ executing' = {}
    /\ UNCHANGED owner

\* The worker died: its task is lost, the record stays as it is.
Lose(w) ==
    /\ executing = {w}
    /\ executing' = {}
    /\ UNCHANGED <<status, owner>>

\* Finished jobs are removed after a while.
Remove ==
    /\ status \in {"completed", "failed"}
    /\ status' = "gone"
    /\ owner' = NoWorker
    /\ UNCHANGED executing

Next ==
    \/ Create \/ Release \/ Remove
    \/ \E w \in Workers : Start(w) \/ HandOver(w) \/ Finish(w) \/ Lose(w)

Spec == Init /\ [][Next]_vars
=============================================================================
