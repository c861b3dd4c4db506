SPECIFICATION CaseworkSpec
CONSTANTS
  ann = ann  sue = sue  bob = bob  d1 = d1  d2 = d2  w1 = w1  r1 = r1
  None = None  Nobody = Nobody
  Parts <- OnlyPayouts
  Admin <- Admins
  Senior <- Admins
  Super <- Supers
  Desk <- NoCall
  Sweeper <- NoCall
  Repair <- OneRepair
  Owed <- OneShare
  Provider <- TwoPeople
  JobCall <- TwoRequests
  MaxRows = 2
  MaxFaults = 1
  Number <- TwoNumbers
  Rows = 2
  Codes = 2
  Tries = 2
  Asker <- OneRequest
  Payments = 2
  LostWrites = 0
SYMMETRY Symmetry
INVARIANT FrozenWhenFunded
CHECK_DEADLOCK FALSE
