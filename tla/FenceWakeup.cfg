CONSTANTS
  NumThreads = 2
  Collector = 2
  LocksItself = FALSE
  MaxGen = 2
  FenceSpin = 0
  MaxBarriers = 1
SPECIFICATION FairSpec
PROPERTY CheckpointReturns
CHECK_DEADLOCK FALSE
