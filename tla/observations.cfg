SPECIFICATION Spec
CONSTANTS
  MaxStored = 2
  Calls = {c, d}
  NoRow = NoRow
  Thresholds = {2}
  ChunkSize = 1
  MaxLog = 2
  Misreads = FALSE
CONSTANTS
  c = c
  d = d
SYMMETRY Symmetry
INVARIANTS
  NothingLost
  CountBehindLog
PROPERTY
  PhaseNeverRegresses
CHECK_DEADLOCK FALSE
