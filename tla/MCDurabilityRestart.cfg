SPECIFICATION Spec
CONSTANTS
  Torn = torn
  MaxRecords = 2
  MaxCrashes = 3
  MaxFailures = 1
  MaxRepairs = 1
  MaxMishaps = 3
INVARIANT RecoveredLedgerHoldsJournal
CHECK_DEADLOCK FALSE
