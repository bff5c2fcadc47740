SPECIFICATION Spec
CONSTANTS
    Limit <- OneDown
    Chunks = 2
    MaxCancels = 1
    MayAbandon = TRUE
    ThreadWriters = {"worker"}
    SlowCancel = {"supervisor"}
    Oversize = {"delta"}
    MaySuppress = FALSE
    MayStop = {}
    MayLose = TRUE
INVARIANTS TypeOK FailureReleasesCallers StreamInOrder StreamsReclaimed
CHECK_DEADLOCK FALSE
