CONSTANTS
  a1 = a1
  a101 = a101
  b101 = b101
  A = A
  B = B
  Partitions = {a1, a101, b101}
  DiskOf <- DiskDef
  Number <- NumberDef
  Boot = a101
  Entries <- EntriesDef
  Deadline = 5
  Attempts = 2
  MaxSlow = 6
  None = None
  Direct = Direct
SPECIFICATION FairSpec
INVARIANTS PrefersBootDisk  RightDisk
PROPERTIES ReadsBootPartition SearchEnds
CHECK_DEADLOCK FALSE
