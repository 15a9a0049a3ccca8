SPECIFICATION LogSpec
CONSTANTS
  Loggers = {l1, l2}
  BufferSize = 1
  MaxLogged = 2
  Days = 2
INVARIANT EndedOnce
CHECK_DEADLOCK FALSE
