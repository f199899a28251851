\* The timeout of config.toml, 15 seconds; a second is 4 units and 8 bits stand for
\* the 64 of a duration.
SPECIFICATION FairSpec
CONSTANTS
  m1 = m1
  m2 = m2
  Message = {m1, m2}
  NoMessage = NoMessage
  TokenRefreshmentStartDelay = 1
  TokenRefreshmentThreshold = 30
  Second = 4
  Timeout = 60
  MaxDuration = 127
  FreshTokensAccepted = TRUE
  MaxExpiries = 2
PROPERTIES
  RequestsEnd
\* The jobs end once every entry has been handled.
CHECK_DEADLOCK FALSE
