SPECIFICATION MCSpec
CONSTANTS
  Chunkers = {k1, k2, k3}
  Thumbs = {t1}
  Completers = {c1, c2}
  Aborters = {a1}
  NoKey = NoKey
  NoSession = NoSession
  Total = 2
  Stray = {"again", "complete"}
  MaxStrays = 1
  MaxFaults = 1
INVARIANTS TypeOK Readable NoLeftovers CompletedMeansDocument HalfOnlyTorn
SYMMETRY UploadSymmetry
CHECK_DEADLOCK FALSE
