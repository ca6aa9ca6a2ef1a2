SPECIFICATION FairSpec
CONSTANTS
  alice = alice
  bob = bob
  cron = cron
  manual = manual
  NULL = NULL
  NSessions = 2
  Users <- MCUsers
  ClientUserID <- MCClientUserID
  ExecutorUserID <- MCExecutorUserID
  MessageSession <- MCPhotoAndText
  Media = {1}
  Jobs = {cron}
  Scheduled = {cron}
  Speakers = {bob}
  Unreadable = {alice}
  PIIRetentionPeriod = 1
  MessageRetentionPeriod = 2
  MaxTime = 4
  MaxChanges = 2
  MaxFailures = 1
  MaxKills = 1
INVARIANTS DeletedLeavesNoFile
PROPERTIES RetentionHappens
CHECK_DEADLOCK FALSE
