CONSTANTS
  k1 = k1
  k2 = k2
  p1 = p1
  p2 = p2
  Verifiers = {p1, p2}
  MaxWrites = 1
  Keys = {k1, k2}
  Lists <- ListsDef
  MaxLists = 2
  MaxFaults = 1
  None = None
SPECIFICATION MCSpec
INVARIANTS StartedIsSigned InstalledStarts InitosAccepts  InstalledIsAccepted
PROPERTY LoaderEnds
CHECK_DEADLOCK FALSE
