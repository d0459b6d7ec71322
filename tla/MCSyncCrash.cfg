CONSTANTS
  Box = {b1}
  Value = {v1, v2}
  Absent = absent
  None = none
  Null = null
  Loose = {l1, l2}
  RequestId = {1, 2}
  MaxPrepared = 1
  Concurrent = FALSE
  TimersFire = FALSE
  Allowance <- CrashAllowance
SPECIFICATION Spec
SYMMETRY DataSymmetry
INVARIANTS
  AcknowledgedWasCommitted
  BaselineDescribesManaged
  RevisionRecoverable
PROPERTIES
  RecoveryIsExplicit
  ReceiptIsBornFresh
CHECK_DEADLOCK FALSE
