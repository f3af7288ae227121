\* Behind a proxy; the backend wants a header too.
CHECK_DEADLOCK FALSE
SPECIFICATION FairSpec
CONSTANTS
  Token <- MCToken
  ClientData <- MCClientData
  BackendData <- MCBackendData
  HeaderLen = 1
  HelloLen = 2
  Prologue <- MCPrologue
  Window = 2
PROPERTIES
  BothAreStreams
  CloseReachesBackend
  BothClosedEnds
