SPECIFICATION FairSpec
CONSTANTS
  r1 = r1
  r2 = r2
  c1 = c1
  Admin = admin
  N = 2
  Client = {c1}
  Request = {r1}
  ClientOf <- MCClientOf
  Code = {"invalid_token"}
  ResetIn <- MCResetIn
  RateLimitCooldown = 1
  HardCooldown = 1
  Permanent = 2
  RebalanceInterval = 0
  AffinityTTL = 0
  MaxAffinity = 1
  CounterWrap = 1
  MaxTokens = 0
  MaxInFlight = 2
  WakeUpCooldown = 1
  MaxRetries = 1
  MaxActive = 2
  MaxBlocked = 2
  MaxFailures = 2
PROPERTIES
  EveryProcessEnds
