SPECIFICATION RetrySpec
CONSTANTS
  Reports       <- MCReports
  MappingTable  <- MCTable
  FileOf        <- MCFiles
  TestMishaps   = FALSE
  NoisyBytes    = {3, 7}
  Masks         = {1}
  MaxRetries    = 2
  MaxReports    = 2
  MaxNoise      = 2
  MaxFaults     = 1
INVARIANTS
  RetryTypeOK
  QuietMeansCurrent
PROPERTIES
  ExchangeEnds
  TestGoesOn
CHECK_DEADLOCK FALSE
