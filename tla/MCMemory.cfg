CONSTANTS
  PageSize = 16
  AddrMod = 512
  FirstFrame = 2
  LowLimit = 18
  MemoryMap <- MCMap
  Reserved <- MCReserved
  UserBase = 32
  UserTop = 160
  StackTop = 96
  StackSize = 16
  EhdrSize = 6
  PhdrSize = 4
  MaxImageMemory = 32
  WordSize = 2
  MaxArgc = 2
  MaxArgString = 4
  TableEntries = 2
  Space = {s1, s2, s3}
  KernelSpace = KernelSpace
  BootTable = 2
  Commands <- MCCommands
  LaterCommands <- MCLater
  MaxHeapPages = 3
  MaxLaunches = 3
  Probes = {31, 32, 63, 64, 95, 96, 159, 160, 511}
  ProbeSizes = {1, 2, 17}
  Features = {}
  NoSpace = NoSpace
\* A kernel that has panicked stops.
CHECK_DEADLOCK FALSE
SYMMETRY Symmetric
SPECIFICATION Spec
INVARIANTS FramesAccounted SpacesConsistent KernelMappingsShared LoadedAsDeclared PanicOnlyForCause UserCopySafe
