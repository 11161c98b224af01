SPECIFICATION Spec
CONSTANTS
  Reports      <- MCMixed
  MappingTable <- MCTable
  FileOf       <- MCFiles
  BufferSize   = 3
  MaxLoss      = 0
  MaxFailures  = 1
  Pauses       = TRUE
  MidPacket    = TRUE
INVARIANTS
  ReceiverTypeOK
  StoredWasReported
  IdleMeansUpToDate
  NoReadOnClosedPort
PROPERTIES
  InterruptClosesPort
  BodyReadEnds
CHECK_DEADLOCK FALSE
