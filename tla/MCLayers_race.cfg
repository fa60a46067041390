SPECIFICATION FairSpec
CONSTANTS
    Half = 64
    MAX_EXTENTS = 8
    Threads = {1, 2}
    Configs <- MCConfigs
    Parts = {"race"}
    MaxOps = 3
    Unknown = Unknown
INVARIANT CacheIsFresh
