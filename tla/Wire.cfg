SPECIFICATION MCSpec
CONSTANTS
  Streams <- MCStreams
  Requests <- MCRequests
  TotalLength = 22
  BlockSize = 4
  BlocksPerPiece = 2
INVARIANTS
  
  AsksWithinMessage
  TextOrderIsIdOrder
  
PROPERTIES
  BodyEnds
CHECK_DEADLOCK FALSE
