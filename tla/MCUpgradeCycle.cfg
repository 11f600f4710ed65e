CONSTANTS
  s1 = s1
  s2 = s2
  i1 = i1
  i2 = i2
  v1 = v1
  v2 = v2
  v3 = v3
  None = None
  Torn = Torn
  Blocks = 2
  Versions = {v1, v2, v3}
  Slots = {s1, s2}
  Installers = {i1}
  SlotOf <- MCSlotOf
  KernelOf <- MCKernelOf
SPECIFICATION MCSpec
INVARIANTS Recoverable InterruptionIsVisible SlotInv 
PROPERTY AtomicReplacement 
