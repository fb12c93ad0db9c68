CONSTANTS
  d1 = d1
  d2 = d2
  Daemons = {d1, d2}
  Starters = {c1}
  Stoppers = {}
  NoOne = NoOne
  Stale = Stale
  MaxEnds = 0
SPECIFICATION Spec
INVARIANTS
  OneDaemonOwns
CHECK_DEADLOCK FALSE
