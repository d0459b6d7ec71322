CONSTANTS
  Process = {b1, b2, b3}
  f1 = f1
  q1 = q1
  q2 = q2
  Frontend = {}
  Port = {q1, q2}
  PortOf <- OtherPort
  CommandPort = q1
  Nobody = nobody
  NoFile = nofile
  Garbled = garbled
  PidReuse = FALSE
  MaxCrashes = 1
  MaxUnremoved = 2
SPECIFICATION CommandSpec
VIEW OwnershipView
SYMMETRY ProcessSymmetry
INVARIANTS
  OnlyFaultsLeaveALease
  RestartWaits
PROPERTIES
  WritesOneByOne
CHECK_DEADLOCK FALSE
