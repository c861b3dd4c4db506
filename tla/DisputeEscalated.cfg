SPECIFICATION CaseworkSpec
CONSTANTS
  ann = ann  sue = sue  bob = bob  d1 = d1  d2 = d2  w1 = w1  r1 = r1
  None = None  Nobody = Nobody
  Parts <- OnlyCase
  Admin <- Admins
  Senior <- Admins
  Super <- Supers
  Desk <- TwoRequests
  Sweeper <- OneSweep
  Repair <- OneRepair
  Owed <- OneShare
  Provider <- TwoPeople
  JobCall <- TwoRequests
  MaxRows = 2
  MaxFaults = 0
  Number <- TwoNumbers
  Rows = 2
  Codes = 2
  Tries = 2
  Asker <- TwoRequests
  Payments = 1
  LostWrites = 0
SYMMETRY Symmetry
INVARIANT EscalatedCanBeDecided
CHECK_DEADLOCK FALSE
