\* The filters and the Service Log entries, for reports of up to two rule hits.
SPECIFICATION Spec
CONSTANTS
  p = p
  q = q
  n = n
  m = m
  k = k
  tag = tag
  other = other
  Path = {p, q}
  RuleName = {n, m}
  ErrorKey = {k}
  Tag = {tag, other}
  Reports <- UpToTwoHits
  Contents <- SomeContents
  ToggleRows <- SomeToggles
  AckRows <- SomeAcks
  Baselines <- SomeBaselines
  Configurations <- SomeConfigurations
  Texts <- SomeTexts
  Link <- OneCharacter
  SummaryMaxLength = 4
  DescriptionMaxLength = 4
INVARIANTS
  LoopsImplementDecision
  EntriesAreOfTheirIssues
  EntriesFit
\* The loops end.
CHECK_DEADLOCK FALSE
