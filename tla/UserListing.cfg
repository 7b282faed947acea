SPECIFICATION Spec
CONSTANTS
    MaxRows = 3
    MaxWrites = 2
    Countries = {1, 2}
    Queries <- SmallQueries
    DefaultLimit = 2
    MaxInt32 = 7
    DbFaults = TRUE
INVARIANTS
    TypeOK
    QuietWalkIsExact
    AscendingWalkMissesNobody
    ParametersAreSafe
    DeepPagesAreEmpty
    NextPageShowsUsers
CHECK_DEADLOCK FALSE
