CONSTANTS
  b0 = b0
  Process = {b0, b1}
  f1 = f1
  f2 = f2
  q1 = q1
  Frontend = {f1, f2}
  Port = {q1}
  PortOf <- SamePort
  Nobody = nobody
  NoFile = nofile
  Garbled = garbled
  PidReuse = FALSE
  MaxCrashes = 2
  MaxUnremoved = 1
SPECIFICATION SuccessorSpec
PROPERTIES
  SessionsAreServed
  ClosingEnds
  IdleBrokersStop
CHECK_DEADLOCK FALSE
