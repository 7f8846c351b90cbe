CONSTANTS
  d1 = d1
  d2 = d2
  h1 = h1
  None = None
  Devices <- MCDevices
  Requests <- MCRequests
  Descriptors <- MCDescriptors
  Environments <- MCEnvironments
  MaxLines = 1
SPECIFICATION Spec
INVARIANTS
  TypeOK
  ClientsMatch
  AnswersReachClient
  LinesWhole
  RecvNeverBlocks
  MonitorGoesOn
CHECK_DEADLOCK FALSE
