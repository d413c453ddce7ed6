CONSTANTS
  NumThreads = 3
  Collector = 2
  LocksItself = FALSE
  MaxGen = 2
  FenceSpin = 0
  MaxBarriers = 3
SPECIFICATION FairSpec
INVARIANTS TypeOK MarkersAgree BarrierIsExclusive NobodyLeftBehind NoCircularWait
PROPERTIES BarrierEnds LateThreadsSynchronize
CHECK_DEADLOCK FALSE
