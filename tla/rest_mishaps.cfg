SPECIFICATION Spec
CONSTANTS
  ann  = ann
  bob  = bob
  home = home
  shop = shop
  Factory = Factory
  Torn    = Torn
  Users    <- MCUsers
  Networks <- MCNetworks
  MaxCuts    = 2
  MaxFaults  = 1
  MaxHangups = 1
INVARIANTS
  MemoryIsOnFile
  AcknowledgedIsOnFile
  RefusedWereAcknowledged
PROPERTIES
  RebootsConfigured
  RegistrationReboots
CHECK_DEADLOCK FALSE
