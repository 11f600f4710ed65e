CONSTANTS
  b0101 = b0101
  b0102 = b0102
  b1001 = b1001
  p1 = p1
  p2 = p2
  Procs = {p1}
  s1 = s1
  s2 = s2
  Systems = {s1, s2}
  Ids = {b0101, b0102, b1001}
  SlotOf <- SlotOfDef
  Primary101 = b0101
  Primary102 = b0102
  Keep = 1
  Earlier = 0
  MaxRecords = 1
  MaxRestarts = 1
  None = None
SPECIFICATION Spec
INVARIANT DocAlternateSlot
CHECK_DEADLOCK FALSE
