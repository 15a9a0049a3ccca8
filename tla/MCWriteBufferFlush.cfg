SPECIFICATION FairSpec
CONSTANTS
  Streams = {s1}
  Sizes = {2}
  Callers = {c1}
  Runner = run
  None = none
  NumSinks = 1
  WatermarkRecords = 1
  WatermarkBytes = 4
  QueueBytes = 5
  MaxSeq = 1
  MaxFailures = 1
PROPERTY FlushSyncs
