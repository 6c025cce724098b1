SPECIFICATION Spec
CONSTANTS
  MAX_PROCS = 4
  MaxThreads = 5
  Calls <- AllCalls
INVARIANTS
  TypeOK
  KernelSlot
  ImagesOwned
PROPERTIES
  SlotIdentity
CHECK_DEADLOCK FALSE
