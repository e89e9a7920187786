SPECIFICATION FairPoolSpec
CONSTANTS
  N = 2
  Client = {c1, c2}
  Code = {"invalid_token", "quota_exceeded", "Arrearage"}
  ResetIn <- MCResetIn
  RateLimitCooldown = 1
  HardCooldown = 2
  Permanent = 4
  RebalanceInterval = 1
  AffinityTTL = 2
  MaxAffinity = 1
  CounterWrap = 3
  MaxTokens = 1
  MaxInFlight = 1
INVARIANTS
  PoolTypeOK
  AffinityWithinCapacity
PROPERTIES
  BindsOnlyActiveKeys
  LiveBindingMovesOnlyToLessLoaded
  PermanentStaysExhausted
  CooldownNeverExtended
  PoolComesBack
