\* p1 stays up, p2 may crash at any step
CONSTANTS
  Owner = {p1, p2}
  Steady = {p1}
  NoOwner = NoOwner
  NoLease = NoLease
  MaxGen = 2
  LeaseTicks = 1
  Lag = 0
SPECIFICATION FairSpec
CHECK_DEADLOCK FALSE
PROPERTIES PendingRunStarts CrashedRunReclaimed
