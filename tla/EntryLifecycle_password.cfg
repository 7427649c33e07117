CONSTANTS
  Clients = {c1, c2, c3}
  Flows = {f1}
  Probes = {}
  MaxTroubles = 1
  MaxOptions = 0
  NoClient = NoClient
SPECIFICATION RecoveringSpec
CHECK_DEADLOCK FALSE
PROPERTY FormAnswered
