CONSTANTS
  a = a
  b = b
  t1 = t1
  t2 = t2
  gc = gc
  left = left
  null = null
  Objects = {a, b}
  Leaves = {}
  Null = null
  Fields = {left}
  Mutators = {t1, t2}
  GcThread = gc
  ListSize = 1
  MaxLinks = 1
  MaxStores = 2
  MaxGen = 3
SPECIFICATION Spec
SYMMETRY Symmetry
INVARIANTS TypeOK NoHiddenReference
PROPERTY OverwrittenIsKept
CHECK_DEADLOCK FALSE
