SPECIFICATION Spec
CONSTANTS
    RestCalls = {h1, h2}
    Probes = {p1}
    Rpcs = {g1}
    Limits <- SmallLimits
    MaxRefills = 1
    MaxAttempts = 20
    BrokerFaults = TRUE
SYMMETRY CallSymmetry
INVARIANTS
    LifecycleTypeOK
    StopLosesNoEvent
    RateIsBounded
PROPERTIES
    RpcsAreDrained
    RestIsDrainedUntilItsDeadline
CHECK_DEADLOCK FALSE
