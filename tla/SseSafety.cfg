SPECIFICATION Spec
CONSTANTS
  Last = 2
  MaxBatch = 2
  MaxAttempts = 1
  MaxFaults = 3
  Scenarios <- AnyScenario
INVARIANTS
  TypeOK
  NeverReyields
  NoEventLost
  ResumesExactly
  EndsAtTerminal
  GivesUpLate
CHECK_DEADLOCK FALSE
