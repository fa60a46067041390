SPECIFICATION PartSpec
CONSTANTS
    Parts = {"block status", "queries", "exports"}
    Half = 8
    MAX_EXTENTS = 2
    DiskSize = 5
    U32 = 3
    MaxSum = 7
    MaxCalls = 3
    NULL = NULL
INVARIANTS
    ListIsWellFormed
    ReplyIsTrue
    QueriesAreSound
    NamesAreCurrent
    RulesDecide
CHECK_DEADLOCK FALSE
