SPECIFICATION Spec
CONSTANTS
  Clients = {c, d}
  Ids = {i, j}
  Root = Root
  None = None
  Names = {"s", "l"}
  Long = {"l"}
  Bodies = {"x"}
  MaxCalls = 4
SYMMETRY Symmetric
INVARIANTS TypeOK NothingHidden
PROPERTIES DoneMeansListed SessionKeepsFiles
CHECK_DEADLOCK FALSE
