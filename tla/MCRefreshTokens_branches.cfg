\* A client that sends the same refresh twice at the same time.
CONSTANTS
    Requests = {"r1", "r2"}
    MaxIssued = 3
SPECIFICATION Spec
CHECK_DEADLOCK FALSE
INVARIANTS
    OneActiveBranch
