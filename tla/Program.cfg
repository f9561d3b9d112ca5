SPECIFICATION LiveSpec
CONSTANTS
  c1 = c1
  Calls = {c1}
  Call = c1
  Operations <- AllOperations
  MaxTries = 3
  MaxFaults = 3
  Last = 2
  MaxBreaks = 1
  IdLength = 5
INVARIANTS
  TypeOK
  AtMostOnce
  OneRun
  RefusalIsFinal
  ValueIsReal
  FollowsItsRun
  RunIdSurvives
  RunLinkSurvives
  EventsAreRecognised
  RunRefusalIsFound
  RunCategoryIsWorst
PROPERTIES
  PollKeepsPromise
  RunIsFollowed
CHECK_DEADLOCK FALSE
