CONSTANTS
  p1 = p1
  p2 = p2
  Procs = {p1, p2}
  Secrets = {"k"}
  MaxExtends = 2
  None = None
SPECIFICATION Spec
SYMMETRY Symmetric
INVARIANTS UnlocksOwnMode EmptyOnlyInBetween TpmInv
PROPERTY LockHolds
