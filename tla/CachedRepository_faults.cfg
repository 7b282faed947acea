SPECIFICATION FairSpec
CONSTANTS
    i1 = i1
    e1 = e1
    n1 = n1
    p1 = p1
    Ids = {i1, i2}
    Emails = {e1, e2}
    Nicknames = {n1, n2}
    Profiles = {p1}
    Requests = {r1, r2}
    Seed = Seed
    NoUser = NoUser
    InitialTables <- EmptyOrSeeded
    MaxInFlight = 2
    DbFaults = TRUE
    RedisFaults = TRUE
    ProcessCrashes = TRUE
    CacheTTL = 1
INVARIANTS
    TypeOK
    CacheHoldsCommittedRows
    ReadsReturnCommittedRows
    UniqueIdentity
    NotFoundIsTrue
    ConflictWritesNothing
PROPERTIES
    NoResurrection
    EventuallyCoherent
CHECK_DEADLOCK FALSE
