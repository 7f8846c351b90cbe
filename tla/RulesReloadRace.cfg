SPECIFICATION PumpSpec
CONSTANTS
  RuleIds = {1, 2}
  RuleFiles <- ExampleFiles
  Addresses = {15206}
  Values = {245, 260, 270}
  Keys = {}
  Relays = {3}
  DayTimes = {0}
  Requests <- Reloading
  Absent = Absent
  MaxVariable = 0
  MaxCrashes = 0
  MaxFailures = 0
  MaxEdits = 0
INVARIANTS MemoryMatchesFile
