SPECIFICATION Spec
CONSTANTS
  alice = alice
  bob = bob
  cron = cron
  manual = manual
  NULL = NULL
  NSessions = 2
  Users <- MCUsers
  ClientUserID <- MCClientUserID
  ExecutorUserID <- MCExecutorUserID
  MessageSession <- MCPhoto
  Media = {1}
  Jobs = {cron, manual}
  Scheduled = {cron}
  Speakers = {bob}
  Unreadable = {}
  PIIRetentionPeriod = 1
  MessageRetentionPeriod = 2
  MaxTime = 3
  MaxChanges = 2
  MaxFailures = 1
  MaxKills = 0
INVARIANTS TypeOK OnlyDueIsErased CleanExitMeansDone
CHECK_DEADLOCK FALSE
