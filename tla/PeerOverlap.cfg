SPECIFICATION Spec
CONSTANTS
    Limit <- TwoAndOne
    Chunks = 0
    MaxCancels = 0
    MayAbandon = FALSE
    ThreadWriters = {}
    SlowCancel = {}
    Oversize = {}
    MaySuppress = FALSE
    MayStop = {}
    MayLose = FALSE
INVARIANT RepliesMatch
CHECK_DEADLOCK FALSE
