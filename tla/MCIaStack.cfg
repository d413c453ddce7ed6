CONSTANTS
  a = a
  b = b
  t1 = t1
  t2 = t2
  marks = marks
  sweep = sweep
  null = null
  Nodes = {a, b}
  Null = null
  Threads = {t1, t2}
  Stacks = {marks}
  SweepStack = sweep
  MaxOps = 6
SPECIFICATION FairSpec
INVARIANTS TypeOK ListsInOnePlace
PROPERTIES ImplementsStacks EveryCallReturns
CHECK_DEADLOCK FALSE
