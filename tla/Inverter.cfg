SPECIFICATION FairSpec
CONSTANTS
  Wrap = 32
  MaxTick = 2
  ConnectTime = 2
  LinkTime = 1
  MonitorCount = 2
  ControlCount = 2
  Defaults <- Usual
  Choices <- Varied
  StationRetry = 4
  ConnectionCheck = 4
  Starts <- MCStarts
INVARIANTS TypeOK ScansOnSchedule
PROPERTIES ReadsSpaced ScansComplete Reconnects
