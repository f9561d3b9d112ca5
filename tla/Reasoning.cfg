SPECIFICATION LiveSpec
CONSTANT Last = 2
INVARIANTS
  TypeOK
  NothingSkipped
PROPERTIES
  QuietAfterStop
  StopReleases
CHECK_DEADLOCK FALSE
