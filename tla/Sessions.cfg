SPECIFICATION Spec
CONSTANTS
  Logins = {l1, l2, l3}
  Rotations = {r1, r2}
  Logouts = {o1}
  Wipes = {w1, w2}
  NoOp = NoOp
  MaxActive = 2
  MaxRequests = 4
  MaxFaults = 2
INVARIANTS TypeOK Retired LogoutEndsSession WipeCoversAll UsableTokensListed OneEntryPerSession
SYMMETRY RequestSymmetry
CHECK_DEADLOCK FALSE
