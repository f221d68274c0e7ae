SPECIFICATION Spec
CONSTANTS
  None = None
  Nodes = {n}
  Paths = {p}
  Workers = {v, w}
  MaxVersion = 2
SYMMETRY Symmetric
INVARIANT NothingSkipped
CHECK_DEADLOCK FALSE
