SPECIFICATION ScenesSpec
CONSTANTS
  c1 = c1  c2 = c2  b1 = b1  b2 = b2  h1 = h1  h2 = h2  d1 = d1
  a1 = a1  a2 = a2  a3 = a3
  None = None
  Client <- OneClient
  Callback <- TwoCallbacks
  Tick <- OneTick
  Replay <- OneReplay
  Archiver <- OneArchiver
  Attempt <- ThreeAttempts
  MaxRetries = 3
  MaxFaults = 1
SYMMETRY Symmetry
INVARIANTS
  RowMatchesPhone
  ProcessedMeansLocked
PROPERTIES
  RepointsOnlyFailed
  SettledNeverResurrected
  HeldFundsBlockArchive
CHECK_DEADLOCK FALSE
