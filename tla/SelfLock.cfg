CONSTANTS
  NumThreads = 2
  Collector = 2
  LocksItself = TRUE
  MaxGen = 2
  FenceSpin = 0
  MaxBarriers = 1
SPECIFICATION FairSpec
PROPERTY LateThreadsSynchronize
CHECK_DEADLOCK FALSE
