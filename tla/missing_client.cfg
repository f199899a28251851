\* The Service Log job when the OCM client cannot be created.
SPECIFICATION Spec
CONSTANTS
  Configs <- ServiceLogJob
  MaxClusters = 2
  NoSnapshot = NoSnapshot
INVARIANTS
  MissingClientIsReported
\* The process ends.
CHECK_DEADLOCK FALSE
