SPECIFICATION Spec
CONSTANTS
    i1 = i1
    e1 = e1
    n1 = n1
    p1 = p1
    Ids = {i1}
    Emails = {e1, e2}
    Nicknames = {n1}
    Profiles = {p1}
    Requests = {r1, r2}
    Seed = Seed
    NoUser = NoUser
    InitialTables <- OnlySeeded
    MaxInFlight = 2
    DbFaults = FALSE
    RedisFaults = FALSE
    ProcessCrashes = FALSE
    CacheTTL = 1
SYMMETRY RequestSymmetry
INVARIANTS
    CoherentAtRest
CHECK_DEADLOCK FALSE
