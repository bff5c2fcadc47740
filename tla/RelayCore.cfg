SPECIFICATION Spec
CONSTANTS
    Core = Core
    a = a
    b = b
    None = None
    Workers <- Two
    MaxId = 2
    Asks <- CoreAsksBoth
    MayCancel = {Core}
    MayDie = {b}
INVARIANTS TypeOK CallsKeptApart ActiveIsRelayed NothingForgotten
PROPERTY RelayImplementsContract
CHECK_DEADLOCK FALSE
