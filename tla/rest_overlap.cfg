SPECIFICATION Spec
CONSTANTS
  ann  = ann
  bob  = bob
  home = home
  shop = shop
  Factory = Factory
  Torn    = Torn
  Users    <- MCUsers
  Networks <- MCNetworks
  MaxCuts    = 0
  MaxFaults  = 0
  MaxHangups = 0
INVARIANTS
  StartLoadsUsers
CHECK_DEADLOCK FALSE
