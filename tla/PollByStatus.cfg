SPECIFICATION PollSpec
CONSTANTS
  Last = 2
  MaxBreaks = 1
INVARIANTS
  CompletesWithRun
CHECK_DEADLOCK FALSE
