SPECIFICATION Spec
CONSTANTS
    Core = Core
    a = a
    b = b
    None = None
    Workers <- Two
    MaxId = 1
    Asks <- CoreAsksA
    MayCancel = {Core}
    MayDie = {a}
INVARIANT CrashIsContained
CHECK_DEADLOCK FALSE
