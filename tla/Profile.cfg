SPECIFICATION Spec
CONSTANTS
  None = None
  Default = Default
  Servers = {a, b}
  Procs = {p1, p2}
  Picked = {"x"}
  MaxCalls = 8
SYMMETRY Symmetric
INVARIANTS TypeOK OneDaemon NothingCrosses NothingDeleted IndexIsOfServer
PROPERTY UnpairLeavesNothing
CHECK_DEADLOCK FALSE
