CONSTANTS
    Parts = 2
    MaxSeg = 4
    Window = 2
    NetModes = {TRUE, FALSE}
    MaxDrops = 1
    MaxData = 3
    MaxCtl = 1
SPECIFICATION FairSpec
CHECK_DEADLOCK FALSE
INVARIANTS
    ExactUnlessDropped
    ReapedDataRead
    NoUnsyncedTail
PROPERTIES
    DeliversInOrder
    OnlyReapStrands
