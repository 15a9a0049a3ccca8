SPECIFICATION FairSpec
CONSTANTS
  Agents = {main, sub}
  Main = main
  Broadcast = broadcast
  None = none
  Sends = {m1, m2}
  Capacity = 1
  MaxBoxes = 3
INVARIANT TypeOK NoSendOnClosed EveryMailboxAnswers InTurn
PROPERTY SendReturns KeepsPromise
CHECK_DEADLOCK FALSE
