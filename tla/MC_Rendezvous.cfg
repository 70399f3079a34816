CONSTANTS
    Requests = {r1, r2}
    Targets = {t1, t2}
    RevConns = {v1, v2}
    ConnectIDs = {k1, k2}
    Modes = {"standard", "proxy", "relay"}
    MaxAtStop = 1
    None = None
SPECIFICATION FairSpec
CHECK_DEADLOCK FALSE
INVARIANTS
    AnswerIsOurs
    SplicedToAskedTarget
    SessionFindable
    NothingLeftOpen
PROPERTIES
    RequestEnds
    SplicedHandlerReturns
