CONSTANTS
  Keys = {"a", "b", "c"}
  Values = {1, 2}
  NoValue = 0
  FileOf <- FileOfMC
  MaxStops = 2
  MaxFaults = 1
SPECIFICATION Spec
INVARIANTS SavedStays
PROPERTY ImplementsStore
