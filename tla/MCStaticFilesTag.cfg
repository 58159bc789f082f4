SPECIFICATION Spec
CONSTANTS
  Ull = 64
  Sizes = {1, 2}
  Second = 2
  Ranges <- SmallRanges
  Configs <- MCConfigs
  MaxClock = 4
  MaxWrites = 2
  MaxRequests = 2
INVARIANTS
  TagDecides
CHECK_DEADLOCK FALSE
