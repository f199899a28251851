\* The cool down per issue, with two issues that take turns.
SPECIFICATION Spec
CONSTANTS
  o1 = o1
  o2 = o2
  c1 = c1
  c2 = c2
  a = a
  b = b
  Malformed = Malformed
  NoWork = NoWork
  Org = {o1}
  Cluster = {c1}
  Issue = {a, b}
  Cooldown = 3
  MaxAge = 4
  Allowed = {}
  Blocked = {}
  FilterAllowedClusters = FALSE
  FilterBlockedClusters = FALSE
  Deployed <- KafkaOnly
  Important <- AllImportant
  CleanupOnStartup = FALSE
  IgnoreDisabledRules = TRUE
  Uploads <- AThenB
  MayToggle <- Nothing
  MayAck <- Nothing
  BrokenStreams = FALSE
  MaxTime = 3
  MaxReports = 3
  MaxReadErrors = 0
INVARIANTS
  CooldownPerIssue
\* The clock stops at MaxTime, and the jobs with it.
CHECK_DEADLOCK FALSE
