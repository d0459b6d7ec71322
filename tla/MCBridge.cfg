CONSTANTS
  Client = {c1, c2}
  k = k
  p1 = p1
  s1 = s1
  s2 = s2
  Patcher = {k, p1}
  Scope = {s1, s2}
  Revision = {r1, r2}
  RequestId = {q1, q2}
  None = none
  Announcement <- Objects
  TokenRequired = TRUE
  RegistersAgain = FALSE
SPECIFICATION Spec
SYMMETRY RequestSymmetry
INVARIANTS
  SlotIsTheRequest
  NothingOutlivesItsConnection
PROPERTIES
  SlotsKept
  NobodySpeaksForAnother
CHECK_DEADLOCK FALSE
