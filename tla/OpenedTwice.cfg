SPECIFICATION Spec
CONSTANTS
  None = None
  Nodes = {n}
  Paths = {p}
  Workers = {v, w}
  MaxVersion = 1
SYMMETRY Symmetric
INVARIANT NoStaleCopy
CHECK_DEADLOCK FALSE
