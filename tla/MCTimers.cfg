CONSTANTS
  Tasks = {t1, t2}
  Goroutines = {g1, g2, g3}
  NoTimer = NoTimer
SPECIFICATION FairSpec
INVARIANTS
  ArmIsLive
PROPERTIES
  EveryWaitEnds
  ImplementsWakeTimer
