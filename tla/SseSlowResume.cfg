SPECIFICATION LiveSpec
CONSTANTS
  Last = 2
  MaxBatch = 2
  MaxAttempts = 1
  MaxFaults = 2
  Scenarios <- SlowScenario
PROPERTY EndsFinishedRun
CHECK_DEADLOCK FALSE
