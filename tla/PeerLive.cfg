SPECIFICATION LoopSpec
CONSTANTS
    Limit <- OneDown
    Chunks = 0
    MaxCancels = 0
    MayAbandon = TRUE
    ThreadWriters = {"worker"}
    SlowCancel = {"supervisor"}
    Oversize = {}
    MaySuppress = FALSE
    MayStop = {"worker"}
    MayLose = TRUE
PROPERTIES CallsEnd AbandonedWorkEnds
CHECK_DEADLOCK FALSE
