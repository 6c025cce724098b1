SPECIFICATION Spec
CONSTANTS
  HeapSize = 112
  WordSize = 256
  Sizes <- TwoSizes
  Atomic = {"program"}
  Preempted = {"wm"}
INVARIANTS
  Disjoint
CHECK_DEADLOCK FALSE
