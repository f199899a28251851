\* What a sent record of the Service Log job claims.
SPECIFICATION Spec
CONSTANTS
  o1 = o1
  o2 = o2
  c1 = c1
  c2 = c2
  a = a
  b = b
  Malformed = Malformed
  NoWork = NoWork
  Org = {o1}
  Cluster = {c1}
  Issue = {a, b}
  Cooldown = 2
  MaxAge = 2
  Allowed = {}
  Blocked = {}
  FilterAllowedClusters = FALSE
  FilterBlockedClusters = FALSE
  Deployed <- ServiceLogOnly
  Important <- AllImportant
  CleanupOnStartup = FALSE
  IgnoreDisabledRules = TRUE
  Uploads <- AThenBoth
  MayToggle <- Nothing
  MayAck <- Nothing
  BrokenStreams = FALSE
  MaxTime = 4
  MaxReports = 2
  MaxReadErrors = 0
INVARIANTS
  ServiceLogSentClaimsAreTrue
\* The clock stops at MaxTime, and the jobs with it.
CHECK_DEADLOCK FALSE
