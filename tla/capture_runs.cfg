CONSTANTS
  Cameras = 3
  Frames = 5
  MaxRuns = 2
  MaxFaults = 2
  MaxCuts = 1
SPECIFICATION Spec
CHECK_DEADLOCK FALSE
INVARIANTS SavesSettledFrame
PROPERTIES CaptureEnds ImplementsPhotography
