SPECIFICATION BusySpec
CONSTANTS
  Reports      <- MCSingles
  MappingTable <- MCTable
  FileOf       <- MCFiles
  BufferSize   = 1
  MaxLoss      = 1
  MaxFailures  = 0
  Pauses       = FALSE
  MidPacket    = TRUE
PROPERTIES
  KeepsFindingPackets
CHECK_DEADLOCK FALSE
