\* The monitor waits for the child of a shell that waits for it too.
CONSTANTS
  p = p
  q = q
  r = r
  s = s
  Proc = {p, q}
  Monitor = Monitor
  None = None
  Features = {"wait_any"}
\* A model that has used up its process objects and is idle stops.
CHECK_DEADLOCK FALSE
SPECIFICATION Spec
SYMMETRY Symmetry
INVARIANT NoDanglingTarget
