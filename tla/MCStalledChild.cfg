CONSTANTS
  Viewers = {}
  Idle = {}
  MaxChunks = 3
  Partial = {}
  MaxTail = 1
  SubCap = 1
  ConnCap = 1
  TermCap = 1
  InputCap = 1
  MaxTyped = 0
  MaxFaults = 1
SPECIFICATION FairSpec
PROPERTIES
  NothingStallsTheChild
CHECK_DEADLOCK FALSE
