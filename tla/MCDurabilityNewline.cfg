SPECIFICATION Spec
CONSTANTS
  Torn = torn
  MaxRecords = 2
  MaxCrashes = 1
  MaxFailures = 0
  MaxRepairs = 0
  MaxMishaps = 1
INVARIANT EveryFlushSurvives
CHECK_DEADLOCK FALSE
