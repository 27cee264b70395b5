\* Progress: nobody crashes, workers may be shut down gracefully.
CONSTANTS
    w1 = w1
    w2 = w2
    Workers = {w1, w2}
    NoWorker = NoWorker
    Schedules = {}
    NoSchedule = "none"
    Faulty = {}
    PromptLoops = FALSE
    LeaseDuration = 0
    HeartbeatEvery = 1
    DeadAfter = 1
    Period = 1
    RetryUnit = 1
    MaxAttempts = 1
    MaxConcurrent = 1
    MaxFetch = 1
    MaxTime = 3
    MaxPushed = 1
    MaxPlanned = 0
SPECIFICATION FairSpec
CHECK_DEADLOCK FALSE
PROPERTIES
    AvailableJobsAreDone
    DueJobsBecomeAvailable
