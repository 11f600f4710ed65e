CONSTANTS
  b0101 = b0101
  b0102 = b0102
  b1001 = b1001
  p1 = p1
  p2 = p2
  Procs = {p1, p2}
  s1 = s1
  s2 = s2
  Systems = {s1, s2}
  Ids = {b0101, b0102, b1001}
  SlotOf <- SlotOfDef
  Primary101 = b0101
  Primary102 = b0102
  Keep = 1
  Earlier = 1
  MaxRecords = 3
  MaxRestarts = 1
  None = None
SPECIFICATION MCSpec
SYMMETRY Symmetric
INVARIANTS   LatestIsTrue
CHECK_DEADLOCK FALSE
