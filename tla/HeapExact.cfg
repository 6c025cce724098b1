SPECIFICATION Spec
CONSTANTS
  HeapSize = 160
  WordSize = 256
  Sizes <- Multiples
  Atomic = {}
  Preempted = {"wm"}
INVARIANTS
  NothingLeaked
PROPERTIES
  IsAllocator
CHECK_DEADLOCK FALSE
