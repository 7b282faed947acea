SPECIFICATION ServiceSpec
CONSTANTS
    i1 = i1
    e1 = e1
    n1 = n1
    p1 = p1
    Ids = {i1}
    Emails = {e1, e2}
    Nicknames = {n1}
    Profiles = {p1, p2}
    Requests = {r1, r2}
    Seed = Seed
    NoUser = NoUser
    InitialTables <- OnlySeeded
    MaxInFlight = 2
    DbFaults = FALSE
    RedisFaults = FALSE
    ProcessCrashes = FALSE
    CacheTTL = 1
    Operations = {"update"}
    NotGiven = NotGiven
    PublishFaults = FALSE
PROPERTIES
    OnlyProvidedFieldsChange
CHECK_DEADLOCK FALSE
