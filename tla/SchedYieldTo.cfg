SPECIFICATION Spec
CONSTANTS
  MAX_PROCS = 4
  MaxThreads = 5
  Calls <- OnlyYieldTo
PROPERTIES
  YieldRunsTarget
CHECK_DEADLOCK FALSE
