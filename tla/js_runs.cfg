SPECIFICATION JsSpec
CONSTANTS
  Cameras    = 2
  Parts      = 2
  Backlog    = 0
  BufferSize = 1
  MaxRuns    = 2
  MaxFaults  = 1
  MaxExits   = 1
  MaxCuts    = 1

  
PROPERTIES
  JsRunEnds
CHECK_DEADLOCK FALSE
