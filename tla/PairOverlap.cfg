SPECIFICATION Spec
CONSTANTS
  None = None
  Default = Default
  Servers = {a, b}
  Procs = {p1, p2}
  Picked = {}
  MaxCalls = 4
SYMMETRY Symmetric
INVARIANT NothingLeaks
CHECK_DEADLOCK FALSE
