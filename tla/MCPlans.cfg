SPECIFICATION ReconcilingSpec
CONSTANTS
  osc = osc
  sub = sub
  inner = inner
  plain = plain
  other = other
  patcher = patcher
  v1 = v1
  v2 = v2
  list = list
  color = color
  file = file
  Absent = Absent
  Loose = loose
  Box <- Boxes
  PathTo <- Paths
  Cord <- Cords
  Class = {plain, other, patcher}
  Subpatcher = {patcher}
  Attribute = {color, file}
  Unsafe = {file}
  Settable = {v1, v2}
  Structured = {list}
  Contents <- BoxContents
  MaxFaults = 2
  Starts <- StartGraphs
  Edited <- EditedGraphs
INVARIANTS
  PlansArrive
  SymmetricRollbackRestores
  MergeKeepsEdits
  ReviewExplains
PROPERTIES UnmanagedCordsSurvive
CHECK_DEADLOCK FALSE
