SPECIFICATION Spec
CONSTANTS
  HeapSize = 128
  WordSize = 256
  Sizes <- EdgeSizes
  Atomic = {"shell", "program"}
  Preempted = {}
INVARIANTS
  TypeOK
  Disjoint
  Accounted
CHECK_DEADLOCK FALSE
