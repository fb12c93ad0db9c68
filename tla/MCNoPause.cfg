CONSTANTS
  Clients = {c1, c2}
  UserActions = {"user_resume", "user_stop"}
  Outcomes = {"SUCCESS", "FATAL_ERROR", "UNKNOWN", "QUOTA_EXHAUSTED", "RATE_LIMIT"}
  OnUnknown = "fail"
  OnInterrupt = "resume_now"
  MaxAttempts = 2
  OtherCaps = TRUE
  ProbeConfigured = TRUE
  ChanCap = 3
  MaxUser = 2
  MaxCrashes = 1
  MaxShutdowns = 1
  MaxFaults = 1
  MaxSteps = 1
SPECIFICATION Spec
SYMMETRY ClientSymmetry
INVARIANTS
  ChildIsInReach
PROPERTIES
  OutcomeClosesItsAttempt
\* A finished task leaves nothing to do.
CHECK_DEADLOCK FALSE
