CONSTANTS
  Clients = {c1, c2}
  UserActions = {"user_pause", "user_resume", "user_stop"}
  Outcomes = {"SUCCESS", "QUOTA_EXHAUSTED", "RATE_LIMIT"}
  OnUnknown = "retry"
  OnInterrupt = "backoff"
  MaxAttempts = 3
  OtherCaps = FALSE
  ProbeConfigured = TRUE
  ChanCap = 3
  MaxUser = 2
  MaxCrashes = 1
  MaxShutdowns = 0
  MaxFaults = 1
  MaxSteps = 1
SPECIFICATION Spec
SYMMETRY ClientSymmetry
INVARIANTS
  RowsAgree
  MemoryIsStore
  AwaitedIsComing
  AttemptsAreBounded
PROPERTIES
  ImplementsLifecycle
  WaitIsAccountedByOneDaemon
\* A finished task leaves nothing to do.
CHECK_DEADLOCK FALSE
