CONSTANTS
    Window <- Windows
    maxFrame = 3
    ToWrite <- Lengths
    Closers = {"acceptor"}
    Crashers = {"initiator", "acceptor"}
    NetFS = TRUE
SPECIFICATION FairSpec
CHECK_DEADLOCK FALSE
INVARIANTS
    WindowKept
    AckedWasRead
PROPERTIES
    WriteGetsOn
    ReadWakes
    SilenceNoticed
