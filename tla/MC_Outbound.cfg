CONSTANTS
    Brokers = {b1, b2, b3}
    Hosts = {lo, h1, h2}
    LocalHosts = {lo}
    OutboundTTL = 0
    DefaultTTL = 1
    MaxTTL = 2
    MaxHops = 4
    None = None
SPECIFICATION FairSpec
CHECK_DEADLOCK FALSE
INVARIANTS
    HopsBounded
    SuccessIsReal
PROPERTIES
    RequesterAnswered
    ChainFolds
