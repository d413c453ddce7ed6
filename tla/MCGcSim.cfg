CONSTANTS
  root = root
  a = a
  b = b
  t1 = t1
  t2 = t2
  x = x
  none = none
  Objects = {root, a, b}
  Root = root
  Null = none
  Names = {x}
  Threads = {t1, t2}
  StackLimit = 2
  NumCycles = 3
SPECIFICATION FairSpec
INVARIANTS TypeOK WhitesProtected SweepKeepsReachable NoGToNLinks SweepsGarbage QueuedAtMostTwice
PROPERTIES HeapSpec DrainEnds
CHECK_DEADLOCK FALSE
