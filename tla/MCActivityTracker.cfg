\* Two sessions, one connection; reloads, crashes, and the signal to stop at any point.
CONSTANTS
    Sessions = {"s1", "s2"}
    Connections = {"c1"}
    QueueSize = 1
    MaxPending = 1
    MaxTime = 1
SPECIFICATION FairSpec
INVARIANTS
    NoActivityLost
PROPERTIES
    Stops
    Written
