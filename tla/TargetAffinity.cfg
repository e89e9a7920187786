SPECIFICATION Spec
CONSTANTS
  r1 = r1
  r2 = r2
  c1 = c1
  NoModel = "none"
  Target = {1, 2}
  NoTarget = 0
  Request = {r1, r2}
  Client = {c1}
  ClientOf <- MCClientOf
  Model = {"gpt-4o", "deployment-4o"}
  Asked = "gpt-4o"
  Configs <- MCOneName
  Asks <- MCAnyTarget
  QuietPeriod = 1
  AffinityTTL = 0
PROPERTIES
  FailoverKeepsAffinity
