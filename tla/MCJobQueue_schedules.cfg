\* Schedules and leader duties: two workers that may crash, one recurring
\* schedule; every loop iteration ends within the lease.
CONSTANTS
    w1 = w1
    w2 = w2
    Workers = {w1, w2}
    NoWorker = NoWorker
    Schedules = {"cleanup"}
    NoSchedule = "none"
    Faulty = {w1, w2}
    PromptLoops = TRUE
    LeaseDuration = 1
    HeartbeatEvery = 1
    DeadAfter = 2
    Period = 1
    RetryUnit = 1
    MaxAttempts = 1
    MaxConcurrent = 2
    MaxFetch = 1
    MaxTime = 5
    MaxPushed = 0
    MaxPlanned = 2
SPECIFICATION Spec
SYMMETRY WorkerSymmetry
CHECK_DEADLOCK FALSE
INVARIANTS
    OnePendingJobPerSchedule
    WorkersInLoopAreAlive
    LeaderHoldsLease
