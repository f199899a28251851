\* The Kafka job of one cluster: cleanup on startup, disabled rules, read errors.
SPECIFICATION Spec
CONSTANTS
  o1 = o1
  o2 = o2
  c1 = c1
  c2 = c2
  a = a
  b = b
  Malformed = Malformed
  NoWork = NoWork
  Org = {o1}
  Cluster = {c1}
  Issue = {a, b}
  Cooldown = 2
  MaxAge = 2
  Allowed = {}
  Blocked = {}
  FilterAllowedClusters = FALSE
  FilterBlockedClusters = FALSE
  Deployed <- KafkaOnly
  Important <- AllImportant
  CleanupOnStartup = TRUE
  IgnoreDisabledRules = FALSE
  Uploads <- EveryKindOfReport
  MayToggle <- ToggleB
  MayAck <- FirstOrgAcksB
  BrokenStreams = FALSE
  MaxTime = 4
  MaxReports = 2
  MaxReadErrors = 0
INVARIANTS
  TypeOK
  NotificationBackendClaimsAreTrue
PROPERTIES
  KeepsPromise
  DisabledRulesStaySilent
