CONSTANTS
  Senders = {s1, s2}
  s1 = s1
  s2 = s2
  Kinds = {"single", "fail", "panic", "shutdown", "stream", "wait", "input", "unknown", "huge"}
  MaxCalls = 3
  MaxChunks = 2
  SockCap = 2
SPECIFICATION FairSpec
INVARIANTS
  OneTerminalResponse
  EachCallItsAnswer
PROPERTIES
  CallReturns
  ShutdownEndsConnections
\* When the command is over and its connection closed, nothing is left to do.
CHECK_DEADLOCK FALSE
