SPECIFICATION LiveSpec
CONSTANTS
  Window = 1
  MaxSkew = 2
  MaxDelay = 1
  MaxSecrets = 2
  MaxFaults = 2
INVARIANTS
  TypeOK
  AcceptedIsFresh
  TimelyIsAccepted
PROPERTY EventArrives
CHECK_DEADLOCK FALSE
