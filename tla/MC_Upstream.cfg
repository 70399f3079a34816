CONSTANTS
    Conns = {c1, c2, c3}
    Daemons = {d1, d2}
    IPs = {ip1}
    MaxID = 3
    RestartGuard = 1
    TTL = 0
    SecTicks = 1
    MaxTime = 0
    OpsCap = 1
    AllowAnyIP = FALSE
    IdleReap = TRUE
    Persistent = FALSE
    Faults = {}
    None = None
    NoOp = NoOp
    Inside = d1
SPECIFICATION UpstreamSpec
CHECK_DEADLOCK FALSE
INVARIANTS
    HandedOutLeadsHome
    ContactIsCurrent
PROPERTIES
    ContactAnnounced
