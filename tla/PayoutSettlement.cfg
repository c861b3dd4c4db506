SPECIFICATION Spec
CONSTANTS
  p1 = p1  p2 = p2  s1 = s1  s2 = s2  f1 = f1  r1 = r1  r2 = r2
  k1 = k1  k2 = k2  t1 = t1  t2 = t2
  None = None
  Release <- OnePayer
  Settle <- TwoSettles
  Freeze <- OneFreeze
  Rule <- OneRule
  Case <- TwoCases
  Transfer <- TwoTransfers
  MaxFaults = 1
SYMMETRY Symmetry
INVARIANTS
  MoneyLeavesOnce
  ReleasedMeansDelivered
  PendingCanBeQueried
  AnnouncedOnce
  EscrowFollowsTx
  QuietDisplay
PROPERTIES
  SettledStaysSettled
  KeepsPromise
CHECK_DEADLOCK FALSE
