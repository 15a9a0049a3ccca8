SPECIFICATION LspSpec
CONSTANTS
  Askers = {c1, c2}
  Nil = none
  MayCrash = FALSE
  MaxRestarts = 1
  MaxLaunches = 2
INVARIANT HeldServerRuns
CHECK_DEADLOCK FALSE
