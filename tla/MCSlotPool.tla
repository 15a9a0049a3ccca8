---- MODULE MCSlotPool ----
EXTENDS SlotPool, TLC
\* Tasks are interchangeable; used by the run that checks an invariant only.
Symmetry == Permutations(Tasks)
====
