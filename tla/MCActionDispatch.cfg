\* two processes, two holders, two calls and one retry in the budget
CONSTANTS
  Owner = {p1, p2}
  MaxEpoch = 2
  MaxToolCalls = 2
  MaxRetries = 1
  MaxAttempts = 2
SPECIFICATION Spec
SYMMETRY Symmetry
CHECK_DEADLOCK FALSE
INVARIANTS TypeOK AtMostOneOpenCall OpenCallOnRecord CallsWithinBudget
PROPERTIES CancelStopsDispatch
