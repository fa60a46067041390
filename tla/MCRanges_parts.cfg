SPECIFICATION PartSpec
CONSTANTS
    Parts = {"requests", "blocks"}
    ExportSize = 5
    MaxRequest = 2
    Wrap = 16
    Plugins <- AllPlugins
    RequestSet <- MixedRequests
    Errnos = {"EIO", "ENOTSUP"}
    t1 = t1
    t2 = t2
    Threads = {t1, t2}
    NoThread = NoThread
    MaxOps = 3
    MaxFaults = 1
SYMMETRY Symmetry
INVARIANTS
    AssertionsHold
    FastZeroNeverWrites
    WholeRangeDone
    FuaIsStable
    ReadsAreCurrent
    AnsweredIsDurable
