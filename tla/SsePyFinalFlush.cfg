SPECIFICATION Spec
CONSTANTS
  Last = 2
  MaxBatch = 2
  MaxAttempts = 1
  MaxFaults = 3
  Scenarios <- PyTornScenario
INVARIANT NeverReyieldsAnEvent
CHECK_DEADLOCK FALSE
