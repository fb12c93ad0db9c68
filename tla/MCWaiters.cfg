CONSTANTS
  Removers = {r1}
  Attachers = {a1}
  Followers = {f1}
  Selectors = {"id", "prefix"}
  BufCap = 2
  MaxMoves = 2
  MaxNoise = 1
  MaxLines = 1
SPECIFICATION FairSpec
INVARIANTS
  NoMissedEnd
PROPERTIES
  OnlyEndedIsDeleted
  EveryWaiterReturns
\* When every request is answered nothing is left to do.
CHECK_DEADLOCK FALSE
