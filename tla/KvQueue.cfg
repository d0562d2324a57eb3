SPECIFICATION Spec
CONSTANTS
  Procs = {p1, p2, p3}
  Value = {a, b}
  NoValue = NoValue
  MaxItems = 3
  MaxRetries = 2
INVARIANT TypeOK
PROPERTIES ImplementsFifo NullOnlyWhenEmpty ConflictMeansProgress
