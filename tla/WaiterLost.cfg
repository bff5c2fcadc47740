SPECIFICATION Spec
CONSTANTS
    a = a
    b = b
    c = c
    m = m
    n = n
    f = f
    l1 = l1
    l2 = l2
    l3 = l3
    l4 = l4
    l5 = l5
    l6 = l6
    None = None
    Waiters = {a, b}
    FollowUps = {m}
    Failures = {}
    Locks = {l1, l2, l3, l4}
    MayRefuse = FALSE
    MayCancel = FALSE
INVARIANT WaiterIsReached
CHECK_DEADLOCK FALSE
