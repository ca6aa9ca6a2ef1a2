SPECIFICATION Spec
CONSTANTS
  c1 = c1
  c2 = c2
  c3 = c3
  Checks = {c1, c2, c3}
  PauseThreshold = 3
  ViolationTTL = 2
  MaxCount = 4
SYMMETRY MCSymmetry
INVARIANTS TypeOK WindowEnds ThirdAsksForPause
