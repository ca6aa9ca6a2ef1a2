SPECIFICATION Spec
CONSTANTS
  u1 = u1
  u2 = u2
  u3 = u3
  o1 = o1
  s1 = s1
  s2 = s2
  p1 = p1
  p2 = p2
  p3 = p3
  Users = {u1, u2}
  Operators = {o1}
  Sessions = {s1, s2}
  Handlers = {p1, p2}
  None = None
  Access <- MCAccess
  Keys <- MCKeys
  ViolationKey <- MCViolationKey
  PauseThreshold = 3
  Ops = {"bind", "switch", "lang"}
  Failures = FALSE
  MaxRequests = 5
PROPERTIES
  LanguageKeepsActive
