SPECIFICATION Spec
CONSTANTS
  Nodes = {n1, n2, n3}
  Vals = {a, b}
  NULL = NULL
INVARIANTS
  TypeOK TwoWayChain IteratorIsLive
PROPERTIES
  IsSequence
SYMMETRY NodeSymmetry
CHECK_DEADLOCK FALSE
