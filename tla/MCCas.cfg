CONSTANTS
  d1 = d1
  d2 = d2
  r1 = r1
  r2 = r2
  i1 = i1
  i2 = i2
  good = good
  bad = bad
  p1 = p1
  p2 = p2
  Digests = {d1, d2}
  Revisions = {r1, r2}
  Images = {i1, i2}
  Bundles = {good, bad}
  Slots = {101}
  Procs = {p1, p2}
  Blobs <- BlobsDef
  Objects <- ObjectsDef
  Payload <- PayloadDef
  None = None
SPECIFICATION Spec
SYMMETRY Symmetric
INVARIANTS CasSound SlotFirmwareComplete  CasInv
PROPERTY AppendOnly
