SPECIFICATION Spec
CONSTANTS
  Last = 2
  MaxBatch = 2
  MaxAttempts = 1
  MaxFaults = 3
  Scenarios <- TornScenario
INVARIANT YieldsEachEvent
CHECK_DEADLOCK FALSE
