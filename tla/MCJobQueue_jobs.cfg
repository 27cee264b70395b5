\* Jobs, reservations and retries: two workers that may crash; loops of any length, so
\* leases run out and live workers are declared dead.
CONSTANTS
    w1 = w1
    w2 = w2
    Workers = {w1, w2}
    NoWorker = NoWorker
    Schedules = {}
    NoSchedule = "none"
    Faulty = {w1, w2}
    PromptLoops = FALSE
    LeaseDuration = 0
    HeartbeatEvery = 0
    DeadAfter = 0
    Period = 1
    RetryUnit = 1
    MaxAttempts = 1
    MaxConcurrent = 1
    MaxFetch = 1
    MaxTime = 2
    MaxPushed = 2
    MaxPlanned = 0
SPECIFICATION Spec
SYMMETRY WorkerSymmetry
CHECK_DEADLOCK FALSE
INVARIANTS
    JobOwnership
    RetryChains
PROPERTIES
    JobsFollowLifecycle
