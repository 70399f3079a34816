CONSTANTS
    Requests = {r1}
    Targets = {t1}
    RevConns = {v1}
    ConnectIDs = {k1}
    Modes = {"proxy"}
    MaxAtStop = 0
    None = None
SPECIFICATION FairSpec
CHECK_DEADLOCK FALSE
PROPERTIES
    HandedOffReturns
