\* One refresh request at a time presents any token ever issued.
CONSTANTS
    Requests = {"r1"}
    MaxIssued = 4
SPECIFICATION Spec
CHECK_DEADLOCK FALSE
INVARIANTS
    RowsAreReadable
    OneActiveBranch
    AccessFollowsRefresh
    ClientCanContinue
