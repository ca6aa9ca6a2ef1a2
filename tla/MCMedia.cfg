SPECIFICATION FairSpec
CONSTANTS
  photo = photo
  voice = voice
  Photos = {photo}
  Voices = {voice}
  MaxChanges = 2
INVARIANTS TypeOK PromisedIsKept FilesAreAccountedFor OriginalsAreRemoved
PROPERTIES StoredIsSettled
CHECK_DEADLOCK FALSE
