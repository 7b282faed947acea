SPECIFICATION Spec
CONSTANTS
    i1 = i1
    e1 = e1
    n1 = n1
    p1 = p1
    Ids = {i1, i2}
    Emails = {e1, e2}
    Nicknames = {n1, n2}
    Profiles = {p1}
    Requests = {r1, r2}
    Seed = Seed
    NoUser = NoUser
    InitialTables <- EmptyOrSeeded
    MaxInFlight = 1
    DbFaults = FALSE
    RedisFaults = FALSE
    ProcessCrashes = FALSE
    CacheTTL = 1
INVARIANTS
    CoherentAtRest
PROPERTIES
    ImplementsRepository
CHECK_DEADLOCK FALSE
