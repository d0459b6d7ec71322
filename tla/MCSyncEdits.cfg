CONSTANTS
  Box = {b1, b2}
  Value = {v1, v2}
  Absent = absent
  None = none
  Null = null
  Loose = {l1}
  RequestId = {1, 2}
  MaxPrepared = 2
  Concurrent = TRUE
  TimersFire = TRUE
  Allowance <- EditAllowance
SPECIFICATION Spec
SYMMETRY DataSymmetry
PROPERTIES
  ManualEditsSurvive
  PromiseKept
CHECK_DEADLOCK FALSE
