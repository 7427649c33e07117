CONSTANTS
  Requests = {r1, r2}
  Sup = sup
  MaxFaults = 2
  BackoffInit = 1
  BackoffCap = 1
  Backpressure = FALSE
SPECIFICATION FairSpec
CHECK_DEADLOCK FALSE
PROPERTIES ServesOrStops CallsEnd
