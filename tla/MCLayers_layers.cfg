SPECIFICATION FairSpec
CONSTANTS
    Half = 64
    MAX_EXTENTS = 8
    Threads = {1, 2}
    Configs <- MCConfigs
    Parts = {"windows", "modes", "checks", "extras", "images", "stores", "data",
             "files", "disks"}
    MaxOps = 2
    Unknown = Unknown
INVARIANTS
    
    ReadsMatchWrites
    OnlyTheWindowChanges
    ExtentsAreSafe
    DiskIsWhatWasGiven
    FlushIsDurable
PROPERTIES
    RequestsAnswered
