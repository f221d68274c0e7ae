SPECIFICATION Spec
CONSTANTS
  None = None
  Default = Default
  Servers = {a, b}
  Procs = {p1}
  Picked = {}
  MaxCalls = 5
SYMMETRY Symmetric
INVARIANT NothingLeaksUncut
CHECK_DEADLOCK FALSE
