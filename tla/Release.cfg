SPECIFICATION LiveSpec
CONSTANT MaxEvents = 2
INVARIANTS
  
  LatestIsFinal
PROPERTY GoodTagIsReleased
CHECK_DEADLOCK FALSE
