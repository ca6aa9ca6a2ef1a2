SPECIFICATION FairSpec
CONSTANTS
  anna = anna
  boris = boris
  clara = clara
  s1 = s1
  s2 = s2
  Users = {anna, boris, clara}
  Sessions = {s1, s2}
  None = None
  Clients <- MCClients
  Executors <- MCExecutors
  Current <- MCCurrent
  Contents <- MCContents
  Fatal <- MCFatal
  MaxUpdates = 3
  Concurrency = 2
  MaxCrashes = 1
  PauseThreshold = 1
  Failures = FALSE
INVARIANTS TypeOK ToldIsActive StoredOncePerProcess SilenceMeansStored MenuOnlyForActive
PROPERTIES EverythingIsAnswered
