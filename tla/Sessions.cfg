CONSTANTS
  s1 = s1
  s2 = s2
  NoSession = NoSession
  Ids <- MCIds
  Lifetime = 1
  CleanupInterval = 2
  MaxTime = 6
SPECIFICATION FairSpec
CONSTRAINT MCNow
INVARIANTS TypeOK Swept
PROPERTIES TableSpec AcceptedInTime IdleRemoved
CHECK_DEADLOCK FALSE
