CONSTANTS
  v1 = v1
  v2 = v2
  Viewers = {v1, v2}
  Idle = {v2}
  MaxChunks = 3
  Partial = {3}
  MaxTail = 2
  SubCap = 1
  ConnCap = 1
  TermCap = 2
  InputCap = 1
  MaxTyped = 1
  MaxFaults = 1
SPECIFICATION FairSpec
INVARIANTS
  RenderedIsTheOutput
  ExitSeesWholeLog
PROPERTIES
  AttemptEnds
  BothEndsReturn
\* The attempt ends, the viewers detach, and nothing is left to do.
CHECK_DEADLOCK FALSE
