CONSTANTS
  Clients = {c1, c2}
  Words <- WordsMC
  Requests <- RequestsMC
  Networks <- NetworksMC
  NmHotspot = TRUE
  SplitBody = TRUE
  MaxFaults = 1
  MaxHangups = 1
SPECIFICATION Spec
CHECK_DEADLOCK FALSE
INVARIANTS NeverStranded ConnectsAsTyped
PROPERTY EveryRequestServed
