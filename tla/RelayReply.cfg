SPECIFICATION Spec
CONSTANTS
    Core = Core
    a = a
    b = b
    None = None
    Workers <- Two
    MaxId = 1
    Asks <- BothAskB
    MayCancel = {}
    MayDie = {}
INVARIANT OwnReply
CHECK_DEADLOCK FALSE
