CONSTANTS
  Items = {i1}
  ValueCount = 2
  OfflineValue = 9
  MaxChanges = 1
  MaxFaults = 1
  Polling = TRUE
SPECIFICATION FairSpec
CHECK_DEADLOCK FALSE
PROPERTY AvailabilityCatchesUp
