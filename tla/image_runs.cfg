SPECIFICATION Spec
CONSTANTS
  Cameras    = 2
  Parts      = 2
  Backlog    = 0
  BufferSize = 1
  MaxRuns    = 2
  MaxFaults  = 1
  MaxExits   = 1
  MaxCuts    = 1
INVARIANTS
  TypeOK
  ReceivedInOrder
  
  SentIsFresh
PROPERTIES
  RunEnds
  EveryConnectionServed
CHECK_DEADLOCK FALSE
