SPECIFICATION FairSpec
CONSTANTS
  Tasks = {t1, t2}
  None = none
  Capacity = 2
  MaxConcurrent = 1
  MaxSlots = 1
INVARIANT TypeOK ClaimsCounted LimitRespected NoSlotLost SlotsAreKnown DoneIsReported
PROPERTY Served
CHECK_DEADLOCK FALSE
