CONSTANTS
    Conns = {c1, c2, c3}
    Daemons = {d1}
    IPs = {ip1}
    MaxID = 3
    RestartGuard = 1
    TTL = 0
    SecTicks = 1
    MaxTime = 1
    OpsCap = 1
    AllowAnyIP = FALSE
    IdleReap = TRUE
    Persistent = TRUE
    Faults = {}
    None = None
    NoOp = NoOp
SYMMETRY Symmetry
SPECIFICATION Spec
CHECK_DEADLOCK FALSE
INVARIANTS
    ConnectedNeverSwept
