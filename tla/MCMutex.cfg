CONSTANTS
  t1 = t1
  t2 = t2
  t3 = t3
  nobody = nobody
  Threads = {t1, t2, t3}
  NoOwner = nobody
  SpinLimit = 1
  MaxCalls = 2
SPECIFICATION FairSpec
INVARIANTS TypeOK MutualExclusion WaitersExact NoLostWakeup
PROPERTIES ImplementsLock EveryLockReturns
CHECK_DEADLOCK FALSE
