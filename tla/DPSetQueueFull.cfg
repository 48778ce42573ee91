SPECIFICATION Spec
CONSTANTS
  Conns = {c1, c2}
  Dpids = {d1}
  Ports = {p1}
  QCap = 2
  MaxPortChanges = 1
  LiveDictViews = FALSE
  OtherObservers = TRUE
  None = None
INVARIANTS TypeOK RegistryConsistent ObserversKnow MainIsRegistered RegisteredIsServed
PROPERTY DeadIsFinal
CHECK_DEADLOCK FALSE
