SPECIFICATION FairSpec
CONSTANTS
  Conns = {c1, c2}
  Dpids = {d1}
  Ports = {p1}
  QCap = 2
  MaxPortChanges = 0
  LiveDictViews = FALSE
  OtherObservers = FALSE
  None = None
INVARIANT NeverHeldUp
PROPERTY DeadIsForgotten
CHECK_DEADLOCK FALSE
