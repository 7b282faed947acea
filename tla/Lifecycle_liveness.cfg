SPECIFICATION FairSpec
CONSTANTS
    RestCalls = {h1}
    Probes = {p1}
    Rpcs = {g1}
    Limits <- SmallLimits
    MaxRefills = 1
    MaxAttempts = 20
    BrokerFaults = TRUE
PROPERTIES
    MainMovesOn
CHECK_DEADLOCK FALSE
