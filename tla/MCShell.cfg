\* A shell with a job table of two slots and three programs, one of which
\* fills its descriptor table; cat reads a file of three bytes in chunks of
\* two.
CONSTANTS
  sh = sh
  a = a
  b = b
  c1 = c1
  readme = readme
  missing = missing
  Proc = {sh, a, b, c1}
  Monitor = Monitor
  None = None
  Features = {"kill", "wait_any"}
  File = {1, 2, 3}
  Node = {readme}
  NodeSize <- SizeOf
  Fds = {3}
  RwMax = 2
  Word = 4
  Shell = sh
  JobMax = 2
  Chunk = 2
  Paths = {readme, missing}
  FileUsers = {a}
  Victims = {a}
\* A model that has used up its process objects and is idle stops.
CHECK_DEADLOCK FALSE
SPECIFICATION ShellSpec
SYMMETRY Symmetry
INVARIANTS FilesOwned CatPrintsFile JobsTracked
