\* Two entries, with the delays of the code, two expired tokens, and a
\* timeout that is a plain number (15), as time.Second * Timeout expects.
SPECIFICATION FairSpec
CONSTANTS
  m1 = m1
  m2 = m2
  Message = {m1, m2}
  NoMessage = NoMessage
  TokenRefreshmentStartDelay = 1
  TokenRefreshmentThreshold = 30
  Second = 4
  Timeout = 15
  MaxDuration = 127
  FreshTokensAccepted = TRUE
  MaxExpiries = 2
INVARIANTS
  TypeOK
  PausesAreBounded
PROPERTIES
  KeepsContract
  RefreshIsGivenTime
  CallsReturn
\* The jobs end once every entry has been handled.
CHECK_DEADLOCK FALSE
