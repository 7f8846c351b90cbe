CONSTANTS
  s1 = s1
  s2 = s2
  c1 = c1
  c2 = c2
  NoSession = NoSession
  Ids <- MCIds
  Calls <- MCCalls
  Lifetime = 1
  SessionDuration = 1
  MaxTime = 3
SYMMETRY Symmetry
SPECIFICATION PanelSpec
INVARIANTS PageOutlastsUse
PROPERTIES ClosesForCause
CHECK_DEADLOCK FALSE
