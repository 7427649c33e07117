CONSTANTS
  Requests = {r1}
  Sup = sup
  MaxFaults = 2
  BackoffInit = 1
  BackoffCap = 3
  Backpressure = FALSE
SPECIFICATION FairSpec
CHECK_DEADLOCK FALSE
PROPERTY LoginTimeoutRecovers
