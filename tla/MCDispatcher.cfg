SPECIFICATION FairSpec
CONSTANTS
  MaxUpdates = 4
  Concurrency = 2
  Buffer = 1
  MaxCrashes = 1
  Closes = TRUE
  Hanging <- FirstUpdate
INVARIANTS TypeOK ReturnsAfterHandlers
PROPERTIES ImplementsPool EveryUpdateIsHandled
