CONSTANTS
  Clients = {c1, c2, c3, c4, c5, c6}
  Flows = {f1}
  Probes = {}
  MaxTroubles = 2
  MaxOptions = 2
  NoClient = NoClient
SPECIFICATION Spec
CHECK_DEADLOCK FALSE
INVARIANTS FailedSetupStopsClient
