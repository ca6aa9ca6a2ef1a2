SPECIFICATION Spec
CONSTANTS
  u1 = u1
  u2 = u2
  u3 = u3
  o1 = o1
  s1 = s1
  s2 = s2
  p1 = p1
  p2 = p2
  p3 = p3
  Users = {u1, u2, u3}
  Operators = {o1}
  Sessions = {s1}
  Handlers = {p1, p2}
  None = None
  Access <- MCAccess
  Keys <- MCKeys
  ViolationKey <- MCViolationKey
  PauseThreshold = 3
  Ops = {"bind", "relay", "patch", "stop"}
  Failures = FALSE
  MaxRequests = 5
SYMMETRY MCSymmetry
INVARIANTS
  TypeOK
  DeliveredToCounterpart
  AcceptedWhileActive
  PendingCloseHasRequester
PROPERTIES
  ImplementsMailbox
  ReopenedForCause
