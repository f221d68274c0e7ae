SPECIFICATION Spec
CONSTANTS
  None = None
  Nodes = {n1, n2}
  Paths = {p1, p2}
  Workers = {w}
  MaxVersion = 4
SYMMETRY Symmetric
INVARIANTS TypeOK FreshIsCurrent CursorCoversIndex
PROPERTY RefreshIsComplete
CHECK_DEADLOCK FALSE
