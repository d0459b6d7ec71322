SPECIFICATION FairSpec
CONSTANTS
  s1 = s1
  s2 = s2
  p1 = p1
  p2 = p2
  None = None
  Structure <- Contents
  Path <- Paths
  MaxChanges = 2
  MaxSaves = 1
  MaxMishaps = 1
INVARIANTS
  NothingIsStranded
PROPERTIES
  AnswersAreTrue
  EditsAreObserved
  SaveIsAnswered
CHECK_DEADLOCK FALSE
