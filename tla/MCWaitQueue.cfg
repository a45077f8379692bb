\* No symmetry, as liveness is checked.
CONSTANTS
  a = a
  b = b
  c = c
  d = d
  Thread = {a, b}
  None = None
  Keys = {"letter", "enter", "backspace", "tab"}
  RingSize = 2
  BufferSize = 2
  MaxCount = 3
SPECIFICATION MCSpec
INVARIANTS BlockedIsQueued RingIsQueue NoLostWakeup
INVARIANTS MutexQueue MutualExclusion MutexWakeup
INVARIANTS SemaphoreType SemaphoreQueue SemaphoreWakeup
PROPERTIES ImplementsPool MutexPool SemaphorePool
