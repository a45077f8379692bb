\* A shell, a child and a grandchild; children are killed.  No symmetry, as
\* liveness is checked.
CONSTANTS
  p = p
  q = q
  r = r
  s = s
  Proc = {p, q, r}
  Monitor = Monitor
  None = None
  Features = {"kill"}
\* A model that has used up its process objects and is idle stops.
CHECK_DEADLOCK FALSE
SPECIFICATION FairSpec
INVARIANTS NoDanglingTarget TeardownOrder TableConsistent WaitsForOwnChild
PROPERTIES ExitIsFinal KillHonoured
