CONSTANTS
  Clients = {c1, c2, c3, c4, c5, c6}
  Flows = {f1, p1}
  Probes = {p1}
  MaxTroubles = 2
  MaxOptions = 2
  NoClient = NoClient
SPECIFICATION RecoveringSpec
CHECK_DEADLOCK FALSE
INVARIANTS TypeOK NoOrphanClient LoadedIsServed OneClientPerEntry
PROPERTIES NoSavingMissed SetupSucceeds
