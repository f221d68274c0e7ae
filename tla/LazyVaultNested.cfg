SPECIFICATION Spec
CONSTANTS
  Clients = {c}
  Ids = {i, j, k, l}
  Root = Root
  None = None
  Names = {"s"}
  Long = {}
  Bodies = {"x"}
  MaxCalls = 6
SYMMETRY Symmetric
INVARIANT NothingHidden
PROPERTY SessionKeepsFiles
CHECK_DEADLOCK FALSE
