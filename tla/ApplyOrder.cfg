\* Every plan of three changes: all dependency graphs, with double edges and cycles.
SPECIFICATION Spec
CONSTANTS
  N = 3
  MaxEdges = 2
INVARIANTS
  EachChangeOnce OrderIsLegal
PROPERTIES
  SortEnds
CHECK_DEADLOCK FALSE
