\* Registrations by password with a token, and the accounts they make.
SPECIFICATION AccountsSpec
CONSTANTS
    Browsers = {"b1"}
    MaxSessions = 0
    MaxLogins = 2
    Links = {}
    SubjectOf <- NoSubject
    Names = {"ann", "ANN", "bob", "cat"}
    Fold <- FoldCase
    NameOf <- NoName
    OnConflict = "suggest"
    Old = {}
    Requests = {"r1"}
    Admins = {}
    Regs = {g1, g2}
    Emails = {"e1"}
    EmailOf <- NoEmail
    Sites <- SomeSites
    Auths = {"a1"}
    Recoveries = {"s1"}
INVARIANTS NamesDistinct EmailOnce LimitKept AddedOnce RecoveredOnce
SYMMETRY Symmetry
CHECK_DEADLOCK FALSE
