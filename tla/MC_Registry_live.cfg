CONSTANTS
    Conns = {c1, c2}
    Daemons = {d1, d2}
    IPs = {ip1}
    MaxID = 3
    RestartGuard = 1
    TTL = 0
    SecTicks = 1
    MaxTime = 1
    OpsCap = 1
    AllowAnyIP = FALSE
    IdleReap = TRUE
    Persistent = TRUE
    Faults = {"crash"}
    None = None
    NoOp = NoOp
SPECIFICATION FairSpec
CHECK_DEADLOCK FALSE
INVARIANTS
    StoreCatchesUp
PROPERTIES
    ShutdownKeepsRecords
    DeadTargetReaped
    HandlerAnswers
    StaleSwept
