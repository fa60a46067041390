SPECIFICATION Spec
CONSTANTS
    Workers = {w1, w2}
    NoThread = NoThread
    Messages = {"READ", "WRITE", "FLUSH", "BLOCK_STATUS", "INVALID", "INVALID_WRITE", "HUGE_WRITE", "CUT_HEADER", "CUT_WRITE", "BAD_MAGIC", "DISC"}
    MaxMessages = 2
    structured_replies = TRUE
    Transport = "other"
SYMMETRY Symmetry
INVARIANTS
    RepliesNotInterleaved
    SockinOpenForWorkers
    NothingAfterDisc
    GracefulEnd
PROPERTIES
    KeepsPromise
CHECK_DEADLOCK FALSE
