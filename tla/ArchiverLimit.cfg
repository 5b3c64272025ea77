SPECIFICATION ASpec
CONSTANTS
  MaxRow = 3
  BatchLimit = 2
  Sweeps = {s1}
  AFaults = {}
INVARIANT NothingLost
CHECK_DEADLOCK FALSE
