SPECIFICATION Spec
CONSTANTS
  MaxStored = 2
  Calls = {c}
  NoRow = NoRow
  Thresholds = {2}
  ChunkSize = 1
  MaxLog = 2
  Misreads = TRUE
CONSTANTS
  c = c
  d = d
INVARIANT
  NothingLost
CHECK_DEADLOCK FALSE
