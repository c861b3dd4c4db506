SPECIFICATION Spec
CONSTANTS
  c1 = c1  c2 = c2  b1 = b1  b2 = b2  h1 = h1  h2 = h2  d1 = d1
  a1 = a1  a2 = a2  a3 = a3
  None = None
  Client <- OneClient
  Callback <- OneCallback
  Tick <- OneTick
  Replay <- Nobody
  Archiver <- Nobody
  Attempt <- TwoAttempts
  MaxRetries = 3
  MaxFaults = 0
INVARIANTS
  FundedOnce
CHECK_DEADLOCK FALSE
