\* An authorization code or a device code: two forms and two token requests at a time.
CONSTANTS
    Browsers = {"b1", "b2"}
    NoBrowser = "none"
    Posts = {"p1", "p2"}
    Requests = {"r1", "r2"}
    CodeLifetime = 2
    ReplayGrace = 0
    MaxTime = 5
    MaxSessions = 2
SPECIFICATION GrantSpec
CHECK_DEADLOCK FALSE
INVARIANTS
    RowReadable
    OneSessionPerCode
    SessionsConsented
    LogoutEndsSessions
PROPERTIES
    ClosedForGood
