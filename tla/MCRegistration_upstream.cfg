SPECIFICATION Spec
CONSTANTS
    Browsers = {"b1"}
    MaxSessions = 2
    MaxLogins = 2
    Links = {"l1", "l2"}
    SubjectOf <- LinkSubject
    Names = {"ann", "bob"}
    Fold <- FoldCase
    NameOf <- ClaimedName
    OnConflict = "replace"
    Old = {"l1"}
    Requests = {"r1"}
    Admins = {"a1"}
    Regs = {g1}
    Emails = {"e1"}
    EmailOf <- ClaimedEmail
    Sites <- WithBob
INVARIANTS SessionsReadable ConsumedOnce
PROPERTIES LogoutReaches IdentityStays Credentials
CHECK_DEADLOCK FALSE
