SPECIFICATION FairSpec
CONSTANTS
  p1 = p1
  o1 = o1
  o2 = o2
  People = {p1}
  Operators = {o1, o2}
  Requests = {1}
  MaxSessions = 3
  MaxFailures = 1
INVARIANTS TypeOK ProcessedHasSession GreetedIsStored
PROPERTIES ProcessedLeavesLists
