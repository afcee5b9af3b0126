SPECIFICATION ServiceFairSpec
CONSTANTS
  Starts = {s1, s2}
  Stops = {t1, t2}
  Connections = {c1, c2}
  Ports = {p1, p2}
  None = None
CHECK_DEADLOCK FALSE
INVARIANTS
  StopMeansReleased
  NoOrphan
PROPERTY StopReturns
