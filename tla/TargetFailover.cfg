SPECIFICATION FairSpec
CONSTANTS
  r1 = r1
  r2 = r2
  c1 = c1
  NoModel = "none"
  Target = {1, 2}
  NoTarget = 0
  Request = {r1, r2}
  Client = {c1}
  ClientOf <- MCClientOf
  Model = {"gpt-4o", "deployment-4o"}
  Asked = "gpt-4o"
  Configs <- MCChanging
  Asks <- MCAsks
  QuietPeriod = 2
  AffinityTTL = 0
INVARIANTS
  TypeOK
  OutcomeCountedOnce
  RightsRespected
  StaleEntryMisleadsNobody
PROPERTIES
  EveryRequestEnds
  MuteEnds
  StaleEntriesFade
