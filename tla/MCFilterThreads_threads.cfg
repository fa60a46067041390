SPECIFICATION Spec
CONSTANTS
    c1 = c1
    c2 = c2
    Conns = {c1, c2}
    NoOwner = NoOwner
    NoLock = NoLock
    NoContext = NoContext
    FConfigs <- MCConfigs
INVARIANTS
    
    FlushCovers
    RetryIsHonest
    PrefetchIsValid
PROPERTIES
    ExitsWhenAlone
    NobodyWaitsForEver
CHECK_DEADLOCK FALSE
