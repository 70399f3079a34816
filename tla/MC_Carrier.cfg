CONSTANTS
    NCalls = 2
    NPipes = 2
    Backlog = 1
SPECIFICATION FairSpec
CHECK_DEADLOCK FALSE
INVARIANTS
    SoleSession
PROPERTIES
    CallEnds
    StreamSettles
    PipeGoesDown
    CloseEndsAll
