SPECIFICATION LiveSpec
CONSTANTS
  p1 = p1  f1 = f1  u1 = u1  k1 = k1  t1 = t1  t2 = t2
  c1 = c1  b1 = b1  h1 = h1  a1 = a1  a2 = a2
  r1 = r1  r2 = r2  r3 = r3  i1 = i1  s1 = s1
  ann = ann  bob = bob  sue = sue  hire = hire  chat = chat
  Ip = Ip  Redis = Redis  None = None  Nobody = Nobody  NoOne = NoOne
  Parts <- LiveParts
  Instance <- OneInstance
  Request <- TwoRequests
  Subject <- TwoSubjects
  WindowMs <- Windows
  Limit <- Limits
  Cost = 2
  Horizon = 2
  MaxKeys = 1
  SweepInterval = 2
  LastTick = 1
  LinkFaults = 1
  Restarts = 1
  Capacity = 3
  RefillTokens = 2
  RefillInterval = 3
  Take = 2
  IdleTime = 5
  LastClock = 14
  Check <- TwoRequests
  Sanction <- OneSanction
  Account <- OneAccount
  Capability <- TwoCapabilities
  CacheTime = 2
  MaxEntries = 1
  LastTime = 2
  Outside = 1
  Call <- TwoRequests
  Moderator <- Admins
  Senior <- Seniors
  Super <- Seniors
  Begins = 4
PROPERTIES
  PayoutsSettle
  QueuedGetsLocked
  ArrivedIsDecided
  CallEnds
CHECK_DEADLOCK FALSE
