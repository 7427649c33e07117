CONSTANTS
  Requests = {r1, r2}
  Sup = sup
  MaxFaults = 2
  BackoffInit = 1
  BackoffCap = 3
  Backpressure = TRUE
SPECIFICATION Spec
SYMMETRY RequestSymmetry
CHECK_DEADLOCK FALSE
INVARIANTS TypeOK WaiterResolvable NoLeakedSocket RefusalNeedsExpiry AtMostOnceExecuted StoppedMeansDown PendingBounded InductiveInv
PROPERTIES StopIsFinal ImplementsCalls ImplementsConnection WedgedByRelogin
