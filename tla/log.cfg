SPECIFICATION FairSpec
CONSTANTS
  Capacity = 2
  MaxCalls = 5
  MaxFiles = 1
INVARIANTS
  Lossless
  PausedIsFlushed
PROPERTIES
  AllPrinted
CHECK_DEADLOCK FALSE
