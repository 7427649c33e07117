CONSTANTS
  button = button
  light = light
  sensor = sensor
  switch = switch
  foreign = foreign
  lamp = lamp
  probe = probe
  relay = relay
  lampItem = lampItem
  probeItem = probeItem
  relayItem = relayItem
  twinItem = twinItem
  hall = hall
  attic = attic
  NoItem = NoItem
  NoDevice = NoDevice
  NoArea = NoArea
  NoDir = NoDir
  noPlatform = noPlatform
  NoPlatform = noPlatform
  Entities <- AllEntities
  Identify = {button}
  Foreign = {foreign}
  Devices <- AllDevices
  DeviceOf <- DeviceOfEntity
  Shared = {}
  Items <- AllItems
  Serial <- SerialOfDevice
  Named <- NamesOfEntity
  Zone <- ZoneOfItem
  KeptItems = {probeItem}
  Areas = {hall, attic}
  Domain <- DomainOfEntity
  Platform <- PlatformOfItem
  CuMac = "normalized"
  Dirs = {d1, d2, d3, t1}
  TmpDirs = {t1}
  MaxRuns = 3
SPECIFICATION Spec
CHECK_DEADLOCK FALSE
INVARIANTS TypeOK BackupKept ConvergesToMapping  RowsAdopted
