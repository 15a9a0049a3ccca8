SPECIFICATION Spec
CONSTANTS
  NumRuns = 2
  MaxCalls = 1
  MaxIterations = 1
  EventBuffer = 1
  MaxMessages = 3
INVARIANT RequestsAreAnswered
CHECK_DEADLOCK FALSE
