\* One process, with every configuration.
SPECIFICATION FairSpec
CONSTANTS
  Configs <- EveryConfig
  MaxClusters = 2
  NoSnapshot = NoSnapshot
INVARIANTS
  TypeOK
  ExitStatusNamesFailure
  AggregatorIsNotKeptOpen
  SuccessMeansClosed
  GatewayShowsFinalCounters
PROPERTIES
  Termination
  StepsRunOut
\* The process ends.
CHECK_DEADLOCK FALSE
