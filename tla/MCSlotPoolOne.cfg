SPECIFICATION Spec
CONSTANTS
  Tasks = {t1, t2, t3}
  None = none
  Capacity = 2
  MaxConcurrent = 2
  MaxSlots = 1
SYMMETRY Symmetry
INVARIANT OneTaskPerSlot
CHECK_DEADLOCK FALSE
