CONSTANTS
  boiler = boiler
  lamp = lamp
  blind = blind
  awning = awning
  evening = evening
  sensor = sensor
  Items <- AllItems
  TypeOf <- TypeOfItem
  Scenes <- AllScenes
  Brightnesses = {1, 2}
  Positions = {0, 40, 100}
  MaxServices = 2
  MaxChanges = 1
  MaxFaults = 2
SPECIFICATION FairSpec
CHECK_DEADLOCK FALSE
INVARIANTS TypeOK PayloadUnderstood CuHoldsWhatWasMeant OfflineNotShownAsState
PROPERTY ShowsWhatWasMeant
