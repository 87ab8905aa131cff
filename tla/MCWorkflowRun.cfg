\* two executions, two templates, two plans with two keys, two attempts
CONSTANTS
  Exec = {e1, e2}
  NoExec = NoExec
  k1 = k1
  k2 = k2
  Key = {k1, k2}
  NoKey = NoKey
  Templates <- ATemplate
  Planned <- APlan
  MaxAttempts = 2
  MaxManual = 2
SPECIFICATION FairSpec
CHECK_DEADLOCK FALSE
INVARIANTS TypeOK OnlyApprovedCalls AtMostOneCall
PROPERTIES DriverRespectsTheEnd OneGatePlanEnds
