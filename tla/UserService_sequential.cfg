SPECIFICATION ServiceSpec
CONSTANTS
    i1 = i1
    e1 = e1
    n1 = n1
    p1 = p1
    Ids = {i1, i2}
    Emails = {e1, e2}
    Nicknames = {n1}
    Profiles = {p1}
    Requests = {r1, r2, r3}
    Seed = Seed
    NoUser = NoUser
    InitialTables <- EmptyOrSeeded
    MaxInFlight = 1
    DbFaults = FALSE
    RedisFaults = FALSE
    ProcessCrashes = FALSE
    CacheTTL = 1
    Operations = {"create", "get", "update", "delete"}
    NotGiven = NotGiven
    PublishFaults = FALSE
SYMMETRY RequestSymmetry
INVARIANTS
    EveryChangeIsAnnounced
PROPERTIES
    OnlyProvidedFieldsChange
    ReplyIsCurrent
CHECK_DEADLOCK FALSE
