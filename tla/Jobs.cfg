SPECIFICATION Spec
CONSTANTS
  Instances = {i1, i2}
  Copies = {c1, c2}
  NoOwner = NoOwner
  Lease = 2
  Interval = 1
  Latency = 1
  MaxTime = 4
  MaxFaults = 1
  Period = 2
  JobTimeout = 3
INVARIANTS TypeOK OnlyOneUnlessTainted OverlapBounded
PROPERTY OncePerFiring
SYMMETRY JobSymmetry
CHECK_DEADLOCK FALSE
