\* Pages of 12 bytes, three of them at most, one at first.  Requests that split
\* a block, that take all of it, that need one page or two, and one so large
\* that the page count wraps.
CONSTANTS
  Align = 2
  Header = 2
  MinSplit = 2
  PageSize = 12
  Base = 12
  Limit = 48
  InitialPages = 1
  SizeMax = 127
  Requests = {1, 5, 11, 120, 127}
\* A kernel that has panicked stops.
CHECK_DEADLOCK FALSE
SPECIFICATION Spec
INVARIANTS HeapTiled UsedBlocksAreLive PanicOnlyForMemory
PROPERTIES ImplementsAllocator
