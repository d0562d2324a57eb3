SPECIFICATION FairLockSpec
CONSTANTS
  Callers = {c1, c2, c3}
  NoCaller = NoCaller
  Providers = {"redis", "memory", "denokv"}
  Ttl = 2
  Wait = 2
INVARIANTS LockTypeOK AtomicExclusion
PROPERTIES NoForeignRelease PollingEnds LockComesFree
