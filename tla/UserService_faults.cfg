SPECIFICATION FairServiceSpec
CONSTANTS
    i1 = i1
    e1 = e1
    n1 = n1
    p1 = p1
    Ids = {i1, i2}
    Emails = {e1, e2}
    Nicknames = {n1}
    Profiles = {p1}
    Requests = {r1, r2}
    Seed = Seed
    NoUser = NoUser
    InitialTables <- EmptyOrSeeded
    MaxInFlight = 1
    DbFaults = TRUE
    RedisFaults = TRUE
    ProcessCrashes = TRUE
    CacheTTL = 0
    Operations = {"create", "get", "update", "delete"}
    NotGiven = NotGiven
    PublishFaults = TRUE
INVARIANTS
    SuccessIsCommitted
    RefusalWritesNothing
    MissingIsGone
    EventsTellTheTruth
PROPERTIES
    OnlyPostgresHoldsRequests
CHECK_DEADLOCK FALSE
