CONSTANTS
  d1 = d1
  d2 = d2
  h1 = h1
  None = None
  Devices <- MCDevices
  Requests <- MCRequests
  Descriptors <- MCDescriptors
  Environments <- MCResets
  MaxLines = 1
SPECIFICATION FairSpec
PROPERTY ConnectionsAccepted
CHECK_DEADLOCK FALSE
