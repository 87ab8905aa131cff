\* a reservation of one process racing a cancellation through another
CONSTANTS
  Owner = {p1, p2}
  MaxEpoch = 2
  MaxToolCalls = 2
  MaxRetries = 1
  MaxAttempts = 2
SPECIFICATION Spec
SYMMETRY Symmetry
CHECK_DEADLOCK FALSE
PROPERTIES CancelStopsDispatchAnywhere
