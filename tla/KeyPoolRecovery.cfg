SPECIFICATION FairPoolSpec
CONSTANTS
  N = 2
  Client = {c1}
  Code = {}
  ResetIn <- MCResetIn
  RateLimitCooldown = 1
  HardCooldown = 2
  Permanent = 4
  RebalanceInterval = 1
  AffinityTTL = 2
  MaxAffinity = 1
  CounterWrap = 3
  MaxTokens = 0
  MaxInFlight = 1
PROPERTIES
  RateLimitedKeyRecovers
