\* The monitor launches a program while a shell does.
CONSTANTS
  p = p
  q = q
  r = r
  s = s
  Proc = {p, q, r, s}
  Monitor = Monitor
  None = None
  Features = {"launch_race"}
\* A model that has used up its process objects and is idle stops.
CHECK_DEADLOCK FALSE
SPECIFICATION Spec
SYMMETRY Symmetry
INVARIANT WaitsForOwnChild
