\* Connections end.
CHECK_DEADLOCK FALSE
SPECIFICATION FairSpec
CONSTANTS
  Streams <- MixedStreams
  MaxLine = 16
  Reply = 2
  BufCap = 4
INVARIANT HandledInOrder
 
