SPECIFICATION Spec
CONSTANTS
  None = None
  Nodes = {n}
  Paths = {p}
  Workers = {w}
  MaxVersion = 2
SYMMETRY Symmetric
INVARIANT NoStaleCopy
CHECK_DEADLOCK FALSE
