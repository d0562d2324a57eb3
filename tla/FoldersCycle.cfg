SPECIFICATION MCSpec
CONSTANTS
    u1 = u1
    u2 = u2
    o1 = o1
    o2 = o2
    N = 2
    Users = {u1, u2}
    Ops = {o1, o2}
    MaxDepth = 2
    MaxFaults = 0
INVARIANT
    Forest
CHECK_DEADLOCK FALSE
