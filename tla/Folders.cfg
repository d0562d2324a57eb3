SPECIFICATION MCSpec
CONSTANTS
    u1 = u1
    u2 = u2
    o1 = o1
    o2 = o2
    N = 3
    Users = {u1, u2}
    Ops = {o1, o2}
    MaxDepth = 1
    MaxFaults = 1
SYMMETRY Symmetry
INVARIANTS
    TypeOK
    ForestUnlessRaced
    OutcomeTrue
PROPERTY
    StepsSound
CHECK_DEADLOCK FALSE
