SPECIFICATION FairSpec
CONSTANTS
  MAX_PROCS = 4
  MaxThreads = 5
  Calls <- Disciplined
INVARIANTS
  ContextIsolation
  NoUseAfterFree
PROPERTIES
  GetsTheCPU
  Reclaimed
  PowersOff
CHECK_DEADLOCK FALSE
