CONSTANTS
  Clients = {c1}
  UserActions = {"user_pause", "user_resume", "user_stop"}
  Outcomes = {"SUCCESS", "QUOTA_EXHAUSTED", "RATE_LIMIT"}
  OnUnknown = "retry"
  OnInterrupt = "backoff"
  MaxAttempts = 2
  OtherCaps = FALSE
  ProbeConfigured = TRUE
  ChanCap = 1
  MaxUser = 2
  MaxCrashes = 1
  MaxShutdowns = 1
  MaxFaults = 0
  MaxSteps = 0
SPECIFICATION FairSpecChildrenExit
PROPERTIES
  AcceptedStopStops
  EveryTaskEnds
  ShutdownCompletes
\* A finished task leaves nothing to do.
CHECK_DEADLOCK FALSE
