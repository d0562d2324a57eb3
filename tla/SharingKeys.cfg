SPECIFICATION MCSpec
CONSTANTS
    a = a
    b = b
    c = c
    o1 = o1
    o2 = o2
    o3 = o3
    Users = {a, b, c}
    d1 = d1
    Docs = {d1}
    Ops = {o1, o2, o3}
    NFolders = 2
    MaxFaults = 0
SYMMETRY Symmetry
INVARIANT
    SharedKeysOpen
CHECK_DEADLOCK FALSE
