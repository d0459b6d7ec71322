CONSTANTS
  Box = {b1}
  Value = {v1, v2}
  Absent = absent
  None = none
  Null = null
  Loose = {l1}
  RequestId = {1, 2, 3}
  MaxPrepared = 1
  Concurrent = FALSE
  TimersFire = TRUE
  Allowance <- EditAllowance
SPECIFICATION Spec
INVARIANTS
  RevisionRecoverable
CHECK_DEADLOCK FALSE
