SPECIFICATION PumpSpec
CONSTANTS
  RuleIds = {1, 2}
  RuleFiles <- ExampleFiles
  Addresses = {15206}
  Values = {245, 260, 270}
  Keys = {}
  Relays = {3}
  DayTimes = {0}
  Requests <- Steering
  Absent = Absent
  MaxVariable = 0
  MaxCrashes = 1
  MaxFailures = 1
  MaxEdits = 0
INVARIANTS TypeOK PairHandsOver MemoryMatchesFile
PROPERTIES PumpStopsWhenLow RequestAnswered PassCompletes
