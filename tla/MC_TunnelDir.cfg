CONSTANTS
    Dials = {k1, k2}
    Flaky = {k2}
    doorbellRescans = 1
    MaxCrashes = 1
SPECIFICATION FairSpec
CHECK_DEADLOCK FALSE
INVARIANTS
    EngagedIsSeen
PROPERTIES
    
    DialGetsThrough
    ResidueGoes
