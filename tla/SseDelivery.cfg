SPECIFICATION LiveSpec
CONSTANTS
  Last = 2
  MaxBatch = 2
  MaxAttempts = 1
  MaxFaults = 3
  Scenarios <- LiveScenario
PROPERTIES
  KeepsDeliveryPromise
  Completes
  Cancels
CHECK_DEADLOCK FALSE
