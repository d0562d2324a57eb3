SPECIFICATION Spec
CONSTANTS
  Instances = {i1, i2}
  Requests = {r1, r2}
  NoInstance = NoInstance
  MaxWrites = 3
  MaxFaults = 2
SYMMETRY CacheSymmetry
INVARIANTS TypeOK CoherentAtRest TakenOnce
CHECK_DEADLOCK FALSE
