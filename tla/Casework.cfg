SPECIFICATION CaseworkSpec
CONSTANTS
  ann = ann  sue = sue  bob = bob  d1 = d1  d2 = d2  w1 = w1  r1 = r1
  None = None  Nobody = Nobody
  Parts <- AllParts
  Admin <- Admins
  Senior <- Admins
  Super <- Supers
  Desk <- TwoRequests
  Sweeper <- OneSweep
  Repair <- OneRepair
  Owed <- OneShare
  Provider <- TwoPeople
  JobCall <- TwoRequests
  MaxRows = 2
  MaxFaults = 1
  Number <- TwoNumbers
  Rows = 2
  Codes = 2
  Tries = 2
  Asker <- TwoRequests
  Payments = 1
  LostWrites = 1
SYMMETRY Symmetry
INVARIANTS
  CaseLock
  ResolvedUnfreezes
  HandPaidNeverSent
  OneProviderThroughout
  
  DisputeHoldsJob
  SpentCodeActivates
  PaidWhereProven
PROPERTY ClosedToNewCalls
CHECK_DEADLOCK FALSE
