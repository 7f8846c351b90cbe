CONSTANTS
  d1 = d1
  d2 = d2
  h1 = h1
  None = None
  Devices <- MCOneDevice
  Requests <- MCRequests
  Descriptors <- MCDescriptors
  Environments <- MCHttp
  MaxLines = 2
SPECIFICATION FairSpec
PROPERTIES
  ConnectionsAccepted
  DevicesServed
  Shutdown
CHECK_DEADLOCK FALSE
