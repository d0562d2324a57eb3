SPECIFICATION FairLockSpec
CONSTANTS
  Callers = {c1, c2, c3}
  NoCaller = NoCaller
  Providers = {"denokv"}
  Ttl = 2
  Wait = 2
INVARIANT LeaseExclusion
