CONSTANTS
  Wrap = 12
  MaxTick = 2
  ConnectTime = 1
  ScanInterval = 3
  ConnectionCheck = 4
  Sensors = {1, 2, 3}
  MaxSensors = 2
  Starts <- MCStarts
  MaxMissed = 1
SPECIFICATION FairSpec
INVARIANTS TypeOK MappingStable AllMapped ScanOnSchedule
PROPERTIES ReportsGoOn
