SPECIFICATION Spec
CONSTANTS
  RuleIds = {1, 2, 3}
  RuleFiles <- Files
  Addresses = {1}
  Values = {0, 1}
  Keys = {1}
  Relays = {1}
  DayTimes = {7, 9}
  Requests <- AllKinds
  Absent = Absent
  MaxVariable = 1
  MaxCrashes = 1
  MaxFailures = 1
  MaxEdits = 1
INVARIANTS LockProtocol FileWholeAfterSave
PROPERTIES FiresOncePerEdge
