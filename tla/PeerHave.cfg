SPECIFICATION MCSpec
CONSTANTS
  Streams <- HaveStreams
  Requests <- MCRequests
  TotalLength = 22
  BlockSize = 4
  BlocksPerPiece = 2
INVARIANTS
  ReadsWhatWasSent
CHECK_DEADLOCK FALSE
