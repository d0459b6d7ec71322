CONSTANTS
  Box = {b1}
  Value = {v1, v2}
  Absent = absent
  None = none
  Null = null
  Loose = {l1}
  RequestId = {1, 2}
  MaxPrepared = 1
  Concurrent = TRUE
  TimersFire = FALSE
  Allowance <- LiveAllowance
SPECIFICATION FairSpec
INVARIANTS
  SlotCanEnd
PROPERTIES
  SlotIsReleased
  RegistryConverges
CHECK_DEADLOCK FALSE
