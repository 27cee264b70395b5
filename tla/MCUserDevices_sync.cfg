\* A login beside two jobs, and sessions of every kind for one device.
CONSTANTS
    Sessions = {"c1", "o1", "p1"}
    Compat = {"c1"}
    Personal = {"p1"}
    Devices = {"d1"}
    DeviceOf <- DeviceOfSession
    Logins = {"l1"}
    Runners = {"r1", "r2"}
    MaxEvents = 3
SPECIFICATION FairSpec
CHECK_DEADLOCK FALSE
INVARIANTS
    DevicesPresent
PROPERTIES
    Converges
    LockFollows
