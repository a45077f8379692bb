\* A shell and a child it kills.
CONSTANTS
  p = p
  q = q
  r = r
  s = s
  Proc = {p, q}
  Monitor = Monitor
  None = None
  Features = {"kill"}
\* A model that has used up its process objects and is idle stops.
CHECK_DEADLOCK FALSE
SPECIFICATION Spec
SYMMETRY Symmetry
INVARIANT DestroyedAfterReap
