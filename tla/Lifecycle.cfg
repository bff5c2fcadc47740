SPECIFICATION MCLifecycleSpec
CONSTANTS
    w1 = w1
    w2 = w2
    r = r
    s = s
    p = p
    q = q
    x = x
    cp = cp
    cx = cx
    builtin = builtin
    Nobody = Nobody
    Sessions <- LifecycleSessions
    RemoteOnes = {r, s}
    Declared <- LifecycleDeclared
    Exports <- LifecycleExports
    PrefixOf <- LifecyclePrefix
    BuiltIn = {builtin}
    MayBeLost = {w1, r, s}
    Parts <- LifecycleParts
    Versions <- LifecycleVersions
    OddVersion = OddVersion
    Rejected = Rejected
    NoVersion = NoVersion
    o1 = o1
    o2 = o2
    o3 = o3
    Owners = {o1, o2, o3}
    Scheduled = Scheduled
    NoTask = NoTask
    p1 = p1
    p2 = p2
    FirstPins <- LifecyclePins
    NumPlugins = 3
    PythonOf <- LifecyclePythonOf
    Pins = {p1, p2}
    NoPin = NoPin
    NoFile = NoFile
    Broken = Broken
    Mixed = Mixed
    Edited = {1}
    MaxStarts = 3
INVARIANTS LifecycleTypeOK RoutesAgree WorkerKeepsItsWord
           BothAgree NobodyIsLeft EnvironmentsFit
PROPERTIES LostIsForgotten StopCompletes InitializeEnds FailedIsClosed
CHECK_DEADLOCK FALSE
