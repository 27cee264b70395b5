SPECIFICATION Spec
CONSTANTS
    BrowserSessions = {"b1"}
    SsoLogins = {"l1"}
    Devices = {d1, d2}
    Requests = {r1, r2}
    Posts = {"p1"}
    MaxSessions = 3
    MaxTokens = 3
    Imported = 2
    MaxOthers = 2
    SoftLimit = 2
    HardLimit = 2
    Threshold = 3
    Eviction = "yes"
INVARIANTS OnePerDevice OneRefreshToken ExchangedOnce
PROPERTIES WithinLimit
SYMMETRY Symmetry
CHECK_DEADLOCK FALSE
