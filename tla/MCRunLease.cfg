\* two processes, two generations, leases of two ticks, statements up to one tick late
CONSTANTS
  Owner = {p1, p2}
  Steady = {}
  NoOwner = NoOwner
  NoLease = NoLease
  MaxGen = 2
  LeaseTicks = 2
  Lag = 1
SPECIFICATION Spec
SYMMETRY Symmetry
CHECK_DEADLOCK FALSE
INVARIANTS TypeOK FencedWriterIsCurrent
PROPERTIES TerminalIsFinal OnlyAHumanEndsTheWait LeaseIsExclusive
CONSTRAINT NotTorn
