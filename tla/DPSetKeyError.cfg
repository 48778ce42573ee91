SPECIFICATION Spec
CONSTANTS
  Conns = {c1, c2}
  Dpids = {d1}
  Ports = {p1}
  QCap = 9
  MaxPortChanges = 2
  LiveDictViews = FALSE
  OtherObservers = FALSE
  None = None
INVARIANT NoHandlerRaises
CHECK_DEADLOCK FALSE
