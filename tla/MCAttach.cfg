CONSTANTS
  Removers = {}
  Attachers = {a1}
  Followers = {}
  Selectors = {"id"}
  BufCap = 2
  MaxMoves = 1
  MaxNoise = 0
  MaxLines = 0
SPECIFICATION FairSpec
PROPERTIES
  AttachReturns
CHECK_DEADLOCK FALSE
