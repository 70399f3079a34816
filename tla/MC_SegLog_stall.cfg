CONSTANTS
    Parts = 1
    MaxSeg = 2
    Window = 2
    NetModes = {FALSE}
    MaxDrops = 0
    MaxData = 3
    MaxCtl = 3
SPECIFICATION FairSpec
CHECK_DEADLOCK FALSE
PROPERTIES
    DeliversAll
