CONSTANTS
  Senders = {s1}
  s1 = s1
  Kinds = {"stream"}
  MaxCalls = 1
  MaxChunks = 1
  SockCap = 1
SPECIFICATION FairSpec
PROPERTIES
  DisconnectEndsHandler
CHECK_DEADLOCK FALSE
