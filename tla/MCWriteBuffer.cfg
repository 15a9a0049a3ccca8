SPECIFICATION FairSpec
CONSTANTS
  Streams = {s1}
  Sizes = {2}
  Callers = {c1}
  Runner = run
  None = none
  NumSinks = 2
  WatermarkRecords = 2
  WatermarkBytes = 4
  QueueBytes = 5
  MaxSeq = 3
  MaxFailures = 1
INVARIANT TypeOK
  EveryRecordInOnePlace LedgerFollowsJournal QueueBounded
PROPERTY FlushIsDurable FullIsTaken
