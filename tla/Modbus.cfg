CONSTANTS
  None = None
  SlaveIds = {4, 5}
  Polled = {20101, 15206}
  Written <- MCWritten
  NewValues = {2}
  MaxFaults = 1
  MaxStalls = 1
SPECIFICATION FairSpec
INVARIANTS TypeOK NoExceptions
PROPERTIES IntactAnswered OutcomesTrue Resynchronises
