SPECIFICATION FairSpec
CONSTANTS
  s1 = s1
  s2 = s2
  c1 = c1
  c2 = c2
  Servers <- TwoServers
  Callers <- TwoCallers
  Home <- AllHome
  None = None
  Torn = Torn
  Pending = Pending
  MaxEdits = 1
  MaxReloads <- AloneReloads
  Warms = {1, 2}
  Teams <- AloneOrNot
INVARIANTS
  TypeOK
  WaitersWoken
  ErrorIsNews
  CacheFollowsSync
PROPERTIES
  ModelNeverAges
  AnsweredWithoutTimer
