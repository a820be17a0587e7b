\* Every graph on four nodes with at most four edges, cycles and self
\* dependencies included.
SPECIFICATION WalkSpec
CONSTANTS
  Id = {a, b, c, d}
  MaxEdges = 4
INVARIANTS
  WalksFindTheFixedPoints
PROPERTIES
  WalkEnds
CHECK_DEADLOCK FALSE
