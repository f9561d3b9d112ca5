SPECIFICATION Spec
CONSTANTS
  Last = 2
  MaxBatch = 2
  MaxAttempts = 1
  MaxFaults = 3
  Scenarios <- QuickScenario
INVARIANT ResumesUntilTerminal
CHECK_DEADLOCK FALSE
