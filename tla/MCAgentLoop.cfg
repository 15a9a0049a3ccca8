SPECIFICATION FairSpec
CONSTANTS
  NumRuns = 2
  MaxCalls = 2
  MaxIterations = 2
  EventBuffer = 1
  MaxMessages = 3
INVARIANT TypeOK RunsApart OnlyTheLastDangles RunOrRefused AnnouncedInOrder SaysHowItEnded
PROPERTY CancelledEnds
CHECK_DEADLOCK FALSE
