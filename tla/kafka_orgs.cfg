\* Two clusters that may change their organization; one of the two acks the rule.
SPECIFICATION Spec
CONSTANTS
  o1 = o1
  o2 = o2
  c1 = c1
  c2 = c2
  a = a
  b = b
  Malformed = Malformed
  NoWork = NoWork
  Org = {o1, o2}
  Cluster = {c1, c2}
  Issue = {a}
  Cooldown = 2
  MaxAge = 2
  Allowed = {}
  Blocked = {}
  FilterAllowedClusters = FALSE
  FilterBlockedClusters = FALSE
  Deployed <- KafkaOnly
  Important <- AllImportant
  CleanupOnStartup = FALSE
  IgnoreDisabledRules = TRUE
  Uploads <- JustA
  MayToggle <- Nothing
  MayAck <- Nothing
  BrokenStreams = FALSE
  MaxTime = 3
  MaxReports = 3
  MaxReadErrors = 0
SYMMETRY ClustersAreAlike
INVARIANTS
  NotificationBackendClaimsAreTrue
  RepeatsAreExplained
\* The clock stops at MaxTime, and the jobs with it.
CHECK_DEADLOCK FALSE
