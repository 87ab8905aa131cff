\* a risky event in a template with a risk gate
CONSTANTS
  Exec = {e1, e2}
  NoExec = NoExec
  k1 = k1
  k2 = k2
  Key = {k1, k2}
  NoKey = NoKey
  Templates <- ATemplate
  Planned <- APlan
  MaxAttempts = 2
  MaxManual = 2
SPECIFICATION Spec
SYMMETRY Symmetry
CHECK_DEADLOCK FALSE
INVARIANTS RiskyRunAsksHuman
