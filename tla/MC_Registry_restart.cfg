CONSTANTS
    Conns = {c1, c2, c3}
    Daemons = {d1, d2}
    IPs = {ip1}
    MaxID = 4
    RestartGuard = 1
    TTL = 0
    SecTicks = 1
    MaxTime = 0
    OpsCap = 1
    AllowAnyIP = FALSE
    IdleReap = TRUE
    Persistent = TRUE
    Faults = {"crash", "commit", "key"}
    None = None
    NoOp = NoOp
SYMMETRY Symmetry
SPECIFICATION Spec
CHECK_DEADLOCK FALSE
INVARIANTS
    NoDanglingTarget
    ClaimStaysWithDaemon
PROPERTIES
    CookieStable
