CONSTANTS
  Removers = {}
  Attachers = {}
  Followers = {f1}
  Selectors = {"id"}
  BufCap = 2
  MaxMoves = 0
  MaxNoise = 0
  MaxLines = 2
SPECIFICATION Spec
INVARIANTS
  FollowIsComplete
CHECK_DEADLOCK FALSE
