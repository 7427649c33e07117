CONSTANTS
  Items = {i1, i2}
  ValueCount = 2
  OfflineValue = 1
  MaxChanges = 2
  MaxFaults = 2
  Polling = TRUE
SPECIFICATION FairSpec
CHECK_DEADLOCK FALSE
INVARIANTS TypeOK ShownIsCached NoOldReplyApplied
PROPERTIES QuietAfterStop EntitiesCatchUp
