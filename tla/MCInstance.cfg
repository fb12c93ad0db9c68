CONSTANTS
  d1 = d1
  d2 = d2
  d3 = d3
  Daemons = {d1, d2, d3}
  Starters = {c1}
  Stoppers = {s1}
  NoOne = NoOne
  Stale = Stale
  MaxEnds = 1
SPECIFICATION FairSpec
INVARIANTS
  ReachableIsAlone
  FilesLeadToTheDaemon
PROPERTIES
  StartFindsADaemon
  StopSeesItGone
\* When no daemon is left to start and every command has returned, all stops.
CHECK_DEADLOCK FALSE
