SPECIFICATION LoopSpec
CONSTANTS
    Core = Core
    a = a
    b = b
    None = None
    Workers <- Two
    MaxId = 1
    Asks <- Chain
    MayCancel = {Core}
    MayDie = {b}
PROPERTIES CallersEnd CancelReaches
CHECK_DEADLOCK FALSE
