SPECIFICATION Spec
CONSTANTS
  None = None
  Nodes = {n1, n2}
  Paths = {p1, p2}
  Workers = {v, w}
  MaxVersion = 2
SYMMETRY Symmetric
INVARIANTS TypeOK FreshIsCurrent CursorCoversIndex
PROPERTY RefreshIsComplete
CHECK_DEADLOCK FALSE
