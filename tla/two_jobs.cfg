\* Both jobs on one database, cleanups and broken result sets included.
SPECIFICATION Spec
CONSTANTS
  o1 = o1
  o2 = o2
  c1 = c1
  c2 = c2
  a = a
  b = b
  Malformed = Malformed
  NoWork = NoWork
  Org = {o1}
  Cluster = {c1}
  Issue = {a}
  Cooldown = 2
  MaxAge = 1
  Allowed = {}
  Blocked = {}
  FilterAllowedClusters = FALSE
  FilterBlockedClusters = FALSE
  Deployed <- BothTargets
  Important <- AllImportant
  CleanupOnStartup = TRUE
  IgnoreDisabledRules = TRUE
  Uploads <- JustA
  MayToggle <- Nothing
  MayAck <- Nothing
  BrokenStreams = TRUE
  MaxTime = 3
  MaxReports = 1
  MaxReadErrors = 3
INVARIANTS
  NotificationBackendClaimsAreTrue
  SentRecordHasDelivery
  ReadErrorsAreStoredOncePerJob
\* The clock stops at MaxTime, and the jobs with it.
CHECK_DEADLOCK FALSE
