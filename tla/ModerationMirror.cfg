SPECIFICATION GuardsSpec
CONSTANTS
  r1 = r1  r2 = r2  r3 = r3  i1 = i1  s1 = s1
  ann = ann  bob = bob  sue = sue  hire = hire  chat = chat
  Ip = Ip  Redis = Redis  None = None  Nobody = Nobody  NoOne = NoOne
  Parts <- OnlyAccount
  Instance <- OneInstance
  Request <- ThreeRequests
  Subject <- TwoSubjects
  WindowMs <- Windows
  Limit <- Limits
  Cost = 2
  Horizon = 2
  MaxKeys = 1
  SweepInterval = 2
  LastTick = 2
  LinkFaults = 1
  Restarts = 1
  Capacity = 3
  RefillTokens = 2
  RefillInterval = 3
  Take = 2
  IdleTime = 5
  LastClock = 14
  Check <- ThreeRequests
  Sanction <- OneSanction
  Account <- OneAccount
  Capability <- TwoCapabilities
  CacheTime = 2
  MaxEntries = 1
  LastTime = 2
  Outside = 1
  Call <- ThreeRequests
  Moderator <- Admins
  Senior <- Seniors
  Super <- Seniors
  Begins = 4
SYMMETRY Symmetry
INVARIANT BanMirrored
CHECK_DEADLOCK FALSE
