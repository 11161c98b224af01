SPECIFICATION Spec
CONSTANTS
  Instances = {1, 2}
  Programs = {"softap_restapi", "softap", "softap_rockchip_hj", "softap_webserver2", "softap_webserver2_v001"}
  Overlapping = {"softap_restapi"}
  MaxStarts = 3
  MaxFaults = 1
  MaxKills  = 1
  MaxCuts   = 1
INVARIANTS
  TypeOK
  ServerHasAccessPoint
  RulesOnce
PROPERTIES
  StartBringsAccessPoint
CHECK_DEADLOCK FALSE
