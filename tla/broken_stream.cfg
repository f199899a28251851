\* The cool down when the result set of the baseline query ends early.
SPECIFICATION Spec
CONSTANTS
  o1 = o1
  o2 = o2
  c1 = c1
  c2 = c2
  a = a
  b = b
  Malformed = Malformed
  NoWork = NoWork
  Org = {o1}
  Cluster = {c1}
  Issue = {a}
  Cooldown = 2
  MaxAge = 2
  Allowed = {}
  Blocked = {}
  FilterAllowedClusters = FALSE
  FilterBlockedClusters = FALSE
  Deployed <- KafkaOnly
  Important <- AllImportant
  CleanupOnStartup = FALSE
  IgnoreDisabledRules = TRUE
  Uploads <- JustA
  MayToggle <- Nothing
  MayAck <- Nothing
  BrokenStreams = TRUE
  MaxTime = 4
  MaxReports = 2
  MaxReadErrors = 0
INVARIANTS
  CooldownPerIssue
\* The clock stops at MaxTime, and the jobs with it.
CHECK_DEADLOCK FALSE
