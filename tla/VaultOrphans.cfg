SPECIFICATION Spec
CONSTANTS
  Clients = {c}
  Ids = {i, j}
  Root = Root
  None = None
  Names = {"s"}
  Long = {}
  Bodies = {"x"}
  MaxCalls = 3
SYMMETRY Symmetric
PROPERTY OrphansAreCopies
CHECK_DEADLOCK FALSE
