CONSTANTS
    WorkSize = 4
    Routines = 3
    InitFails = TRUE
    DoFails = TRUE
    HasErrorFunc = TRUE
SPECIFICATION AllSpec
CHECK_DEADLOCK FALSE
INVARIANTS
    MainChainIsKnown CacheSurvives HashIsOfKey SelectionsArrive
PROPERTIES
    DoesTheWork WorkCompletes RemembersRecent
