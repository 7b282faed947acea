SPECIFICATION ServiceSpec
CONSTANTS
    i1 = i1
    e1 = e1
    n1 = n1
    p1 = p1
    Ids = {i1, i2}
    Emails = {e1, e2}
    Nicknames = {n1, n2}
    Profiles = {p1}
    Requests = {r1, r2}
    Seed = Seed
    NoUser = NoUser
    InitialTables <- EmptyOrSeeded
    MaxInFlight = 2
    DbFaults = FALSE
    RedisFaults = FALSE
    ProcessCrashes = FALSE
    CacheTTL = 0
    Operations = {"create", "get", "update", "delete"}
    NotGiven = NotGiven
    PublishFaults = TRUE
SYMMETRY RequestSymmetry
INVARIANTS
    ServiceTypeOK
    SuccessIsCommitted
    RefusalWritesNothing
    MissingIsGone
    EventsTellTheTruth
    OneDeletedEvent
CHECK_DEADLOCK FALSE
