SPECIFICATION Spec
CONSTANTS
    Limit <- OneUp
    Chunks = 1
    MaxCancels = 1
    MayAbandon = TRUE
    ThreadWriters = {"worker"}
    SlowCancel = {"supervisor"}
    Oversize = {"invoke"}
    MaySuppress = TRUE
    MayStop = {"worker"}
    MayLose = TRUE
INVARIANT NoSilentEnd
PROPERTY ImplementsContract
CHECK_DEADLOCK FALSE
