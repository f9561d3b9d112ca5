SPECIFICATION RunSpec
CONSTANTS
  Last = 2
  Major = 2
INVARIANT DispatchesReasoning
CHECK_DEADLOCK FALSE
