CONSTANTS
  None = None
  MaxDur = 15
  Policies <- MCPolicies
  ResetDelays = {1, 3}
  Milli = 2
  ProbeInterval = 1
  ProbeTimeout = 1
  ProbeBase = 2
  ProbeMax = 2
  MaxNow = 9
  MaxAttemptNo = 4
  MaxCrashes = 2
SPECIFICATION Spec
INVARIANTS
  WakeInsideDeadline
  LateAttemptsAreBounded
  TotalWaitIsCapped
  AvailabilityIsNoticed
PROPERTIES
  ResetIsAwaited
\* A Task that has ended, and a clock at its bound, leave nothing to do.
CHECK_DEADLOCK FALSE
