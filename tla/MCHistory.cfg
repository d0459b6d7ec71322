CONSTANTS
  Identity = {p1, p2, p3}
  ScopeOf <- SharedScope
  None = none
  RingSize = 2
  ChunkLines = 2
  RetainedLines = 4
  MaxConnected = 2
  MaxSessions = 2
  MaxEvents = 3
  MaxDecisions = 2
  MaxStops = 1
  MaxFaults = 1
SPECIFICATION Spec
SYMMETRY PatchSymmetry
INVARIANTS
  AliasesEnd
  DecisionsSurvive
  DropsAreCounted
  SequencesIdentify
  ForgottenUntilLost
  IncompleteIsTrue
CHECK_DEADLOCK FALSE
