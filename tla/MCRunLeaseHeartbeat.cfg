\* a driver that replays a stale node
CONSTANTS
  Owner = {p1, p2}
  Steady = {}
  NoOwner = NoOwner
  NoLease = NoLease
  MaxGen = 2
  LeaseTicks = 2
  Lag = 1
SPECIFICATION Spec
SYMMETRY Symmetry
CHECK_DEADLOCK FALSE
PROPERTIES HeartbeatStopsOnlyWhenLost
