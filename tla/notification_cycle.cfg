\* One cluster for ever, with both targets.
SPECIFICATION Spec
CONSTANTS
  a = a
  b = b
  c = c
  Issue = {a, b, c}
  Uploads <- TakingTurns
  Cooldown = 2
INVARIANT
  SilencedIssuesAreTold
PROPERTIES
  SilenceIsRenewedByNews
  PersistentIssuesAreTold
  SteadyReportsAreRepeated
