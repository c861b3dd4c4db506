SPECIFICATION ServicesSpec
CONSTANTS
  ann = ann  bob = bob  d1 = d1  w1 = w1  p1 = p1  r1 = r1  e1 = e1  e2 = e2
  None = None
  Process <- OneProcess
  Slot <- TwoTicks
  Events = 2
  Replay <- OneReplay
  Batch = 1
  MaxReplays = 1
  QueueFaults = 1
  Admin <- Admins
  Senior <- Admins
  Super <- Supers
  Desk <- OneRequest
  Sweeper <- OneSweep
  MaxFaults = 1
  Errand <- TwoErrands
  Purchase <- TwoPurchases
  Days = 2
  LastDay = 4
  Upsets = 1
INVARIANTS
  RetriesCounted
  PaidForOnce
  PurchasedDaysKept
PROPERTIES
  ShutdownCutsNothing
  EventEnds
  SweepEscalates
CHECK_DEADLOCK FALSE
