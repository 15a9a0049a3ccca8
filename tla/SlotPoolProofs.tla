---------------------------- MODULE SlotPoolProofs ----------------------------
(***************************************************************************)
(* What the pool of slots keeps true for any number of tasks and slots,    *)
(* any capacity and any limit.  Every invariant is inductive once the      *)
(* types are known, so each has its own step lemma and the last part puts  *)
(* them together.                                                          *)
(***************************************************************************)
EXTENDS SlotPool, FiniteSetTheorems, TLAPS

-----------------------------------------------------------------------------
(* The inductive invariants *)

\* SlotsAreKnown needs that a slot's number is never used again: a slot that is
\* being removed from the registry is not one that exists.
SlotInv ==
  /\ slots \cup deleted \cup unregistered \subseteq 1 .. nextID
  /\ slots \cap deleted = {}
  /\ Cardinality(slots) <= Capacity
  /\ SlotsAreKnown

\* DoneIsReported needs that a task is done only once it has passed its report.
Told == {"success", "file", "clean", "free", "drop", "over"}
OutcomeInv ==
  \A t \in Tasks : /\ outcome[t] = "done" <=> t \in reported
                   /\ outcome[t] = "done" => pc[t] \in Told

\* LimitRespected needs the counter the code compares with the limit.
CountInv == ClaimsCounted /\ running <= MaxConcurrent

-----------------------------------------------------------------------------
(* The claims are finitely many, so that they can be counted. *)

\* There are finitely many claims.
LEMMA ClaimsFinite == IsFiniteSet(Claims) /\ Cardinality(Claims) \in Nat
<1>1. IsFiniteSet(Claims)
  BY Parameters, FS_Subset DEF Claims
<1> QED BY <1>1, FS_CardinalityType

\* So are the slots.
LEMMA SlotsFinite == TypeOK => IsFiniteSet(slots) /\ Cardinality(slots) \in Nat
<1> SUFFICES ASSUME TypeOK PROVE IsFiniteSet(slots) /\ Cardinality(slots) \in Nat
  OBVIOUS
<1>1. IsFiniteSet(SlotIds)
  BY Parameters, FS_Interval DEF SlotIds
<1>2. IsFiniteSet(slots)
  BY <1>1, FS_Subset DEF TypeOK
<1> QED BY <1>2, FS_CardinalityType

-----------------------------------------------------------------------------
(* Every step keeps each of them. *)

\* No step leaves the declared types.
LEMMA TypeStep == TypeOK /\ [Next]_vars => TypeOK'
<1> SUFFICES ASSUME TypeOK, [Next]_vars PROVE TypeOK'
  OBVIOUS
<1>1. CASE UNCHANGED vars
  BY <1>1
  DEF TypeOK, vars, pool, slot, registry, control, task, Pcs, Before, Holding, SlotIds
<1>2. CASE CreateSlot
  BY <1>2, Parameters DEF Parameters, CreateSlot, TypeOK, control, task, Pcs, Before, Holding,
       SlotIds
<1>3. CASE Close
  BY <1>3 DEF Close, TypeOK, slot, registry, task, Pcs, Before, Holding, SlotIds
<1>4. ASSUME NEW s \in SlotIds, RegisterSlot(s) PROVE TypeOK'
  BY <1>4 DEF RegisterSlot, TypeOK, slot, control, task, Pcs, Before, Holding, SlotIds
<1>5. ASSUME NEW s \in SlotIds, DeleteSlot(s) PROVE TypeOK'
  BY <1>5 DEF DeleteSlot, TypeOK, slot, control, task, Pcs, Before, Holding, SlotIds
<1>6. ASSUME NEW s \in SlotIds, Unregister(s) PROVE TypeOK'
  BY <1>6 DEF Unregister, TypeOK, pool, slot, control, task, Pcs, Before, Holding, SlotIds
<1>7. ASSUME NEW s \in SlotIds, StopSlot(s) PROVE TypeOK'
  BY <1>7
  DEF StopSlot, TypeOK, pool, slot, registry, Cancelled, Pcs, Before, Holding, SlotIds
<1>8. ASSUME NEW s \in SlotIds, MarkStopped(s) PROVE TypeOK'
  BY <1>8 DEF MarkStopped, TypeOK, pool, registry, task, Pcs, Before, Holding, SlotIds
<1>9. ASSUME NEW s \in SlotIds, StartSlot(s) PROVE TypeOK'
  BY <1>9
  DEF StartSlot, TypeOK, pool, registry, control, task, Pcs, Before, Holding, SlotIds
<1>10. ASSUME NEW s \in SlotIds, CloseSlot(s) PROVE TypeOK'
  BY <1>10
  DEF CloseSlot, TypeOK, pool, slot, registry, Cancelled, Pcs, Before, Holding, SlotIds
<1>11. ASSUME NEW t \in Tasks, NEW s \in SlotIds \cup {None}, Start(t, s) PROVE TypeOK'
  BY <1>11
  DEF Start, TypeOK, pool, slot, registry, control, Goto, Pcs, Before, Holding, SlotIds
<1>12. ASSUME NEW t \in Tasks, GiveUp(t) PROVE TypeOK'
  BY <1>12
  DEF GiveUp, TypeOK, pool, slot, registry, control, Pcs, Before, Holding, SlotIds
<1>13. ASSUME NEW t \in Tasks, Claim(t) PROVE TypeOK'
  BY <1>13
  DEF Claim, TypeOK, slot, registry, control, Usable, Goto, Pcs, Before, Holding,
      SlotIds
<1>14. ASSUME NEW t \in Tasks, Refuse(t) PROVE TypeOK'
  BY <1>14
  DEF Refuse, TypeOK, pool, slot, registry, control, Goto, Pcs, Before, Holding, SlotIds
<1>15. ASSUME NEW t \in Tasks, RunEnds(t) PROVE TypeOK'
  BY <1>15
  DEF RunEnds, TypeOK, pool, slot, registry, control, Goto, Fails, Pcs, Before, Holding,
      SlotIds
<1>16. ASSUME NEW t \in Tasks, LoadTemplate(t) PROVE TypeOK'
  BY <1>16
  DEF LoadTemplate, TypeOK, pool, slot, registry, control, Goto, Pcs, Before, Holding,
      SlotIds
<1>17. ASSUME NEW t \in Tasks, Launch(t) PROVE TypeOK'
  BY <1>17
  DEF Launch, TypeOK, pool, registry, control, Goto, Pcs, Before, Holding, SlotIds
<1>18. ASSUME NEW t \in Tasks, Build(t) PROVE TypeOK'
  BY <1>18
  DEF Build, TypeOK, pool, slot, registry, control, Goto, Fails, Pcs, Before, Holding,
      SlotIds
<1>19. ASSUME NEW t \in Tasks, Settle(t) PROVE TypeOK'
  BY <1>19
  DEF Settle, TypeOK, pool, slot, control, Goto, Fails, Pcs, Before, Holding, SlotIds
<1>20. ASSUME NEW t \in Tasks, Report(t) PROVE TypeOK'
  BY <1>20
  DEF Report, TypeOK, pool, slot, registry, control, Goto, Fails, Pcs, Before, Holding,
      SlotIds
<1>21. ASSUME NEW t \in Tasks, RecordSuccess(t) PROVE TypeOK'
  BY <1>21
  DEF RecordSuccess, TypeOK, pool, registry, control, Goto, Pcs, Before, Holding,
      SlotIds
<1>22. ASSUME NEW t \in Tasks, RecordFailure(t) PROVE TypeOK'
  BY <1>22
  DEF RecordFailure, TypeOK, pool, registry, control, Goto, Pcs, Before, Holding,
      SlotIds
<1>23. ASSUME NEW t \in Tasks, NoteFailure(t) PROVE TypeOK'
  BY <1>23
  DEF NoteFailure, TypeOK, pool, slot, control, Goto, Pcs, Before, Holding, SlotIds
<1>24. ASSUME NEW t \in Tasks, FileResult(t) PROVE TypeOK'
  BY <1>24
  DEF FileResult, TypeOK, pool, registry, control, Goto, Pcs, Before, Holding, SlotIds
<1>25. ASSUME NEW t \in Tasks, Clean(t) PROVE TypeOK'
  BY <1>25 DEF Clean, TypeOK, pool, registry, control, Goto, Pcs, Before, Holding, SlotIds
<1>26. ASSUME NEW t \in Tasks, Free(t) PROVE TypeOK'
  BY <1>26 DEF Free, TypeOK, pool, registry, control, Goto, Pcs, Before, Holding, SlotIds
<1>27. ASSUME NEW t \in Tasks, Drop(t) PROVE TypeOK'
  BY <1>27 DEF Drop, TypeOK, slot, registry, control, Goto, Pcs, Before, Holding, SlotIds
<1> QED BY <1>1, <1>2, <1>3, <1>4, <1>5, <1>6, <1>7, <1>8, <1>9, <1>10, <1>11, <1>12,
     <1>13, <1>14, <1>15, <1>16, <1>17, <1>18, <1>19, <1>20, <1>21, <1>22, <1>23,
     <1>24, <1>25, <1>26, <1>27 DEF Next, Control, Goroutine

\* No step forgets a slot, uses a number twice or passes the capacity.
LEMMA SlotStep == TypeOK /\ SlotInv /\ [Next]_vars => SlotInv'
<1> SUFFICES ASSUME TypeOK, SlotInv, [Next]_vars PROVE SlotInv'
  OBVIOUS
<1>1. CASE UNCHANGED vars
  BY <1>1
  DEF SlotInv, SlotsAreKnown, TypeOK, SlotIds, vars, pool, slot, registry, control, task
<1>2. CASE CreateSlot
  <2>1. nextID' \notin slots /\ slots' = slots \cup {nextID'}
    BY <1>2 DEF CreateSlot, SlotInv, TypeOK
  <2>2. Cardinality(slots') = Cardinality(slots) + 1
    BY <2>1, SlotsFinite, FS_AddElement
  <2>3. Cardinality(slots') <= Capacity
    BY <1>2, <2>2, SlotsFinite, Parameters DEF Parameters, CreateSlot
  <2> QED BY <1>2, <2>3 DEF CreateSlot, SlotInv, SlotsAreKnown, TypeOK, SlotIds
<1>3. CASE Close
  BY <1>3 DEF Close, SlotInv, SlotsAreKnown, TypeOK, SlotIds, slot, registry, task
<1>4. ASSUME NEW s \in SlotIds, RegisterSlot(s) PROVE SlotInv'
  <2>1. slots' \subseteq slots
    BY <1>4 DEF RegisterSlot
  <2>2. Cardinality(slots') <= Capacity
    BY <2>1, SlotsFinite, FS_Subset, FS_CardinalityType, Parameters DEF Parameters, SlotInv
  <2> QED BY <1>4, <2>1, <2>2 DEF RegisterSlot, SlotInv, SlotsAreKnown, TypeOK, SlotIds,
       slot, control, task
<1>5. ASSUME NEW s \in SlotIds, DeleteSlot(s) PROVE SlotInv'
  <2>1. slots' \subseteq slots
    BY <1>5 DEF DeleteSlot
  <2>2. Cardinality(slots') <= Capacity
    BY <2>1, SlotsFinite, FS_Subset, FS_CardinalityType, Parameters DEF Parameters, SlotInv
  <2> QED BY <1>5, <2>1, <2>2 DEF DeleteSlot, SlotInv, SlotsAreKnown, TypeOK, SlotIds,
       slot, control, task
<1>6. ASSUME NEW s \in SlotIds, Unregister(s) PROVE SlotInv'
  BY <1>6
  DEF Unregister, SlotInv, SlotsAreKnown, TypeOK, SlotIds, pool, slot, control, task
<1>7. ASSUME NEW s \in SlotIds, StopSlot(s) PROVE SlotInv'
  BY <1>7
  DEF StopSlot, SlotInv, SlotsAreKnown, TypeOK, SlotIds, pool, slot, registry, Cancelled
<1>8. ASSUME NEW s \in SlotIds, MarkStopped(s) PROVE SlotInv'
  BY <1>8 DEF MarkStopped, SlotInv, SlotsAreKnown, TypeOK, SlotIds, pool, registry, task
<1>9. ASSUME NEW s \in SlotIds, StartSlot(s) PROVE SlotInv'
  BY <1>9
  DEF StartSlot, SlotInv, SlotsAreKnown, TypeOK, SlotIds, pool, registry, control, task
<1>10. ASSUME NEW s \in SlotIds, CloseSlot(s) PROVE SlotInv'
  BY <1>10
  DEF CloseSlot, SlotInv, SlotsAreKnown, TypeOK, SlotIds, pool, slot, registry,
      Cancelled
<1>11. ASSUME NEW t \in Tasks, NEW s \in SlotIds \cup {None}, Start(t, s) PROVE SlotInv'
  BY <1>11
  DEF Start, SlotInv, SlotsAreKnown, TypeOK, SlotIds, pool, slot, registry, control,
      Goto
<1>12. ASSUME NEW t \in Tasks, GiveUp(t) PROVE SlotInv'
  BY <1>12
  DEF GiveUp, SlotInv, SlotsAreKnown, TypeOK, SlotIds, pool, slot, registry, control
<1>13. ASSUME NEW t \in Tasks, Claim(t) PROVE SlotInv'
  BY <1>13
  DEF Claim, SlotInv, SlotsAreKnown, TypeOK, SlotIds, slot, registry, control, Usable,
      Goto
<1>14. ASSUME NEW t \in Tasks, Refuse(t) PROVE SlotInv'
  BY <1>14
  DEF Refuse, SlotInv, SlotsAreKnown, TypeOK, SlotIds, pool, slot, registry, control,
      Goto
<1>15. ASSUME NEW t \in Tasks, RunEnds(t) PROVE SlotInv'
  BY <1>15
  DEF RunEnds, SlotInv, SlotsAreKnown, TypeOK, SlotIds, pool, slot, registry, control,
      Goto, Fails
<1>16. ASSUME NEW t \in Tasks, LoadTemplate(t) PROVE SlotInv'
  BY <1>16
  DEF LoadTemplate, SlotInv, SlotsAreKnown, TypeOK, SlotIds, pool, slot, registry,
      control, Goto
<1>17. ASSUME NEW t \in Tasks, Launch(t) PROVE SlotInv'
  BY <1>17
  DEF Launch, SlotInv, SlotsAreKnown, TypeOK, SlotIds, pool, registry, control, Goto
<1>18. ASSUME NEW t \in Tasks, Build(t) PROVE SlotInv'
  BY <1>18
  DEF Build, SlotInv, SlotsAreKnown, TypeOK, SlotIds, pool, slot, registry, control,
      Goto, Fails
<1>19. ASSUME NEW t \in Tasks, Settle(t) PROVE SlotInv'
  BY <1>19
  DEF Settle, SlotInv, SlotsAreKnown, TypeOK, SlotIds, pool, slot, control, Goto, Fails
<1>20. ASSUME NEW t \in Tasks, Report(t) PROVE SlotInv'
  BY <1>20
  DEF Report, SlotInv, SlotsAreKnown, TypeOK, SlotIds, pool, slot, registry, control,
      Goto, Fails
<1>21. ASSUME NEW t \in Tasks, RecordSuccess(t) PROVE SlotInv'
  BY <1>21
  DEF RecordSuccess, SlotInv, SlotsAreKnown, TypeOK, SlotIds, pool, registry, control,
      Goto
<1>22. ASSUME NEW t \in Tasks, RecordFailure(t) PROVE SlotInv'
  BY <1>22
  DEF RecordFailure, SlotInv, SlotsAreKnown, TypeOK, SlotIds, pool, registry, control,
      Goto
<1>23. ASSUME NEW t \in Tasks, NoteFailure(t) PROVE SlotInv'
  BY <1>23
  DEF NoteFailure, SlotInv, SlotsAreKnown, TypeOK, SlotIds, pool, slot, control, Goto
<1>24. ASSUME NEW t \in Tasks, FileResult(t) PROVE SlotInv'
  BY <1>24
  DEF FileResult, SlotInv, SlotsAreKnown, TypeOK, SlotIds, pool, registry, control, Goto
<1>25. ASSUME NEW t \in Tasks, Clean(t) PROVE SlotInv'
  BY <1>25
  DEF Clean, SlotInv, SlotsAreKnown, TypeOK, SlotIds, pool, registry, control, Goto
<1>26. ASSUME NEW t \in Tasks, Free(t) PROVE SlotInv'
  BY <1>26
  DEF Free, SlotInv, SlotsAreKnown, TypeOK, SlotIds, pool, registry, control, Goto
<1>27. ASSUME NEW t \in Tasks, Drop(t) PROVE SlotInv'
  BY <1>27
  DEF Drop, SlotInv, SlotsAreKnown, TypeOK, SlotIds, slot, registry, control, Goto
<1> QED BY <1>1, <1>2, <1>3, <1>4, <1>5, <1>6, <1>7, <1>8, <1>9, <1>10, <1>11, <1>12,
     <1>13, <1>14, <1>15, <1>16, <1>17, <1>18, <1>19, <1>20, <1>21, <1>22, <1>23,
     <1>24, <1>25, <1>26, <1>27 DEF Next, Control, Goroutine

\* No step tells the main core of a task that is not done, or keeps it from it.
LEMMA OutcomeStep == TypeOK /\ OutcomeInv /\ [Next]_vars => OutcomeInv'
<1> SUFFICES ASSUME TypeOK, OutcomeInv, [Next]_vars PROVE OutcomeInv'
  OBVIOUS
<1>1. CASE UNCHANGED vars
  BY <1>1
  DEF OutcomeInv, Told, TypeOK, Pcs, Before, Holding, vars, pool, slot, registry,
      control, task
<1>2. CASE CreateSlot
  BY <1>2 DEF CreateSlot, OutcomeInv, Told, TypeOK, Pcs, Before, Holding, control, task
<1>3. CASE Close
  BY <1>3 DEF Close, OutcomeInv, Told, TypeOK, Pcs, Before, Holding, slot, registry, task
<1>4. ASSUME NEW s \in SlotIds, RegisterSlot(s) PROVE OutcomeInv'
  BY <1>4
  DEF RegisterSlot, OutcomeInv, Told, TypeOK, Pcs, Before, Holding, slot, control, task
<1>5. ASSUME NEW s \in SlotIds, DeleteSlot(s) PROVE OutcomeInv'
  BY <1>5
  DEF DeleteSlot, OutcomeInv, Told, TypeOK, Pcs, Before, Holding, slot, control, task
<1>6. ASSUME NEW s \in SlotIds, Unregister(s) PROVE OutcomeInv'
  BY <1>6
  DEF Unregister, OutcomeInv, Told, TypeOK, Pcs, Before, Holding, pool, slot, control,
      task
<1>7. ASSUME NEW s \in SlotIds, StopSlot(s) PROVE OutcomeInv'
  BY <1>7
  DEF StopSlot, OutcomeInv, Told, TypeOK, Pcs, Before, Holding, pool, slot, registry,
      Cancelled
<1>8. ASSUME NEW s \in SlotIds, MarkStopped(s) PROVE OutcomeInv'
  BY <1>8
  DEF MarkStopped, OutcomeInv, Told, TypeOK, Pcs, Before, Holding, pool, registry, task
<1>9. ASSUME NEW s \in SlotIds, StartSlot(s) PROVE OutcomeInv'
  BY <1>9
  DEF StartSlot, OutcomeInv, Told, TypeOK, Pcs, Before, Holding, pool, registry,
      control, task
<1>10. ASSUME NEW s \in SlotIds, CloseSlot(s) PROVE OutcomeInv'
  BY <1>10
  DEF CloseSlot, OutcomeInv, Told, TypeOK, Pcs, Before, Holding, pool, slot, registry,
      Cancelled
<1>11. ASSUME NEW t \in Tasks, NEW s \in SlotIds \cup {None}, Start(t, s) PROVE
     OutcomeInv'
  BY <1>11
  DEF Start, OutcomeInv, Told, TypeOK, Pcs, Before, Holding, pool, slot, registry,
      control, Goto
<1>12. ASSUME NEW t \in Tasks, GiveUp(t) PROVE OutcomeInv'
  BY <1>12
  DEF GiveUp, OutcomeInv, Told, TypeOK, Pcs, Before, Holding, pool, slot, registry,
      control
<1>13. ASSUME NEW t \in Tasks, Claim(t) PROVE OutcomeInv'
  BY <1>13
  DEF Claim, OutcomeInv, Told, TypeOK, Pcs, Before, Holding, slot, registry, control,
      Usable, Goto
<1>14. ASSUME NEW t \in Tasks, Refuse(t) PROVE OutcomeInv'
  BY <1>14
  DEF Refuse, OutcomeInv, Told, TypeOK, Pcs, Before, Holding, pool, slot, registry,
      control, Goto
<1>15. ASSUME NEW t \in Tasks, RunEnds(t) PROVE OutcomeInv'
  BY <1>15
  DEF RunEnds, OutcomeInv, Told, TypeOK, Pcs, Before, Holding, pool, slot, registry,
      control, Goto, Fails
<1>16. ASSUME NEW t \in Tasks, LoadTemplate(t) PROVE OutcomeInv'
  BY <1>16
  DEF LoadTemplate, OutcomeInv, Told, TypeOK, Pcs, Before, Holding, pool, slot,
      registry, control, Goto
<1>17. ASSUME NEW t \in Tasks, Launch(t) PROVE OutcomeInv'
  BY <1>17
  DEF Launch, OutcomeInv, Told, TypeOK, Pcs, Before, Holding, pool, registry, control,
      Goto
<1>18. ASSUME NEW t \in Tasks, Build(t) PROVE OutcomeInv'
  BY <1>18
  DEF Build, OutcomeInv, Told, TypeOK, Pcs, Before, Holding, pool, slot, registry,
      control, Goto, Fails
<1>19. ASSUME NEW t \in Tasks, Settle(t) PROVE OutcomeInv'
  BY <1>19
  DEF Settle, OutcomeInv, Told, TypeOK, Pcs, Before, Holding, pool, slot, control, Goto,
      Fails
<1>20. ASSUME NEW t \in Tasks, Report(t) PROVE OutcomeInv'
  BY <1>20
  DEF Report, OutcomeInv, Told, TypeOK, Pcs, Before, Holding, pool, slot, registry,
      control, Goto, Fails
<1>21. ASSUME NEW t \in Tasks, RecordSuccess(t) PROVE OutcomeInv'
  BY <1>21
  DEF RecordSuccess, OutcomeInv, Told, TypeOK, Pcs, Before, Holding, pool, registry,
      control, Goto
<1>22. ASSUME NEW t \in Tasks, RecordFailure(t) PROVE OutcomeInv'
  BY <1>22
  DEF RecordFailure, OutcomeInv, Told, TypeOK, Pcs, Before, Holding, pool, registry,
      control, Goto
<1>23. ASSUME NEW t \in Tasks, NoteFailure(t) PROVE OutcomeInv'
  BY <1>23
  DEF NoteFailure, OutcomeInv, Told, TypeOK, Pcs, Before, Holding, pool, slot, control,
      Goto
<1>24. ASSUME NEW t \in Tasks, FileResult(t) PROVE OutcomeInv'
  BY <1>24
  DEF FileResult, OutcomeInv, Told, TypeOK, Pcs, Before, Holding, pool, registry,
      control, Goto
<1>25. ASSUME NEW t \in Tasks, Clean(t) PROVE OutcomeInv'
  BY <1>25
  DEF Clean, OutcomeInv, Told, TypeOK, Pcs, Before, Holding, pool, registry, control,
      Goto
<1>26. ASSUME NEW t \in Tasks, Free(t) PROVE OutcomeInv'
  BY <1>26
  DEF Free, OutcomeInv, Told, TypeOK, Pcs, Before, Holding, pool, registry, control,
      Goto
<1>27. ASSUME NEW t \in Tasks, Drop(t) PROVE OutcomeInv'
  BY <1>27
  DEF Drop, OutcomeInv, Told, TypeOK, Pcs, Before, Holding, slot, registry, control,
      Goto
<1> QED BY <1>1, <1>2, <1>3, <1>4, <1>5, <1>6, <1>7, <1>8, <1>9, <1>10, <1>11, <1>12,
     <1>13, <1>14, <1>15, <1>16, <1>17, <1>18, <1>19, <1>20, <1>21, <1>22, <1>23,
     <1>24, <1>25, <1>26, <1>27 DEF Next, Control, Goroutine

\* No step leaves a slot busy behind the last task that holds it.
LEMMA LostStep == TypeOK /\ NoSlotLost /\ [Next]_vars => NoSlotLost'
<1> SUFFICES ASSUME TypeOK, NoSlotLost, [Next]_vars PROVE NoSlotLost'
  OBVIOUS
<1>1. CASE UNCHANGED vars
  BY <1>1
  DEF NoSlotLost, Holders, TypeOK, Pcs, Before, Holding, SlotIds, vars, pool, slot,
      registry, control, task
<1>2. CASE CreateSlot
  BY <1>2
  DEF CreateSlot, NoSlotLost, Holders, TypeOK, Pcs, Before, Holding, SlotIds, control,
      task
<1>3. CASE Close
  BY <1>3
  DEF Close, NoSlotLost, Holders, TypeOK, Pcs, Before, Holding, SlotIds, slot, registry,
      task
<1>4. ASSUME NEW s \in SlotIds, RegisterSlot(s) PROVE NoSlotLost'
  BY <1>4
  DEF RegisterSlot, NoSlotLost, Holders, TypeOK, Pcs, Before, Holding, SlotIds, slot,
      control, task
<1>5. ASSUME NEW s \in SlotIds, DeleteSlot(s) PROVE NoSlotLost'
  BY <1>5
  DEF DeleteSlot, NoSlotLost, Holders, TypeOK, Pcs, Before, Holding, SlotIds, slot,
      control, task
<1>6. ASSUME NEW s \in SlotIds, Unregister(s) PROVE NoSlotLost'
  BY <1>6
  DEF Unregister, NoSlotLost, Holders, TypeOK, Pcs, Before, Holding, SlotIds, pool,
      slot, control, task
<1>7. ASSUME NEW s \in SlotIds, StopSlot(s) PROVE NoSlotLost'
  BY <1>7
  DEF StopSlot, NoSlotLost, Holders, TypeOK, Pcs, Before, Holding, SlotIds, pool, slot,
      registry, Cancelled
<1>8. ASSUME NEW s \in SlotIds, MarkStopped(s) PROVE NoSlotLost'
  BY <1>8
  DEF MarkStopped, NoSlotLost, Holders, TypeOK, Pcs, Before, Holding, SlotIds, pool,
      registry, task
<1>9. ASSUME NEW s \in SlotIds, StartSlot(s) PROVE NoSlotLost'
  BY <1>9
  DEF StartSlot, NoSlotLost, Holders, TypeOK, Pcs, Before, Holding, SlotIds, pool,
      registry, control, task
<1>10. ASSUME NEW s \in SlotIds, CloseSlot(s) PROVE NoSlotLost'
  BY <1>10
  DEF CloseSlot, NoSlotLost, Holders, TypeOK, Pcs, Before, Holding, SlotIds, pool, slot,
      registry, Cancelled
<1>11. ASSUME NEW t \in Tasks, NEW s \in SlotIds \cup {None}, Start(t, s) PROVE
     NoSlotLost'
  BY <1>11
  DEF Start, NoSlotLost, Holders, TypeOK, Pcs, Before, Holding, SlotIds, pool, slot,
      registry, control, Goto
<1>12. ASSUME NEW t \in Tasks, GiveUp(t) PROVE NoSlotLost'
  BY <1>12
  DEF GiveUp, NoSlotLost, Holders, TypeOK, Pcs, Before, Holding, SlotIds, pool, slot,
      registry, control
<1>13. ASSUME NEW t \in Tasks, Claim(t) PROVE NoSlotLost'
  <2>1. PICK s \in Usable(t) : /\ state' = [state EXCEPT ![s] = "busy"]
                              /\ on' = [on EXCEPT ![t] = s]
    BY <1>13 DEF Claim
  <2>2. t \notin Holders /\ Holders' = Holders \cup {t} /\ on'[t] = s
    BY <1>13, <2>1 DEF Claim, Holders, TypeOK, Holding, Goto
  <2>3. ASSUME NEW q \in SlotIds, state'[q] = "busy" PROVE \E u \in Holders' : on'[u] = q
    <3>1. CASE q = s
      BY <3>1, <2>2
    <3>2. CASE q # s
      <4>1. PICK u \in Holders : on[u] = q
        BY <2>1, <2>3, <3>2 DEF NoSlotLost, TypeOK
      <4> QED BY <4>1, <2>1, <2>2 DEF TypeOK, Holders
    <3> QED BY <3>1, <3>2
  <2> QED BY <2>3 DEF NoSlotLost
<1>14. ASSUME NEW t \in Tasks, Refuse(t) PROVE NoSlotLost'
  BY <1>14
  DEF Refuse, NoSlotLost, Holders, TypeOK, Pcs, Before, Holding, SlotIds, pool, slot,
      registry, control, Goto
<1>15. ASSUME NEW t \in Tasks, RunEnds(t) PROVE NoSlotLost'
  BY <1>15
  DEF RunEnds, NoSlotLost, Holders, TypeOK, Pcs, Before, Holding, SlotIds, pool, slot,
      registry, control, Goto, Fails
<1>16. ASSUME NEW t \in Tasks, LoadTemplate(t) PROVE NoSlotLost'
  BY <1>16
  DEF LoadTemplate, NoSlotLost, Holders, TypeOK, Pcs, Before, Holding, SlotIds, pool,
      slot, registry, control, Goto
<1>17. ASSUME NEW t \in Tasks, Launch(t) PROVE NoSlotLost'
  BY <1>17
  DEF Launch, NoSlotLost, Holders, TypeOK, Pcs, Before, Holding, SlotIds, pool,
      registry, control, Goto
<1>18. ASSUME NEW t \in Tasks, Build(t) PROVE NoSlotLost'
  BY <1>18
  DEF Build, NoSlotLost, Holders, TypeOK, Pcs, Before, Holding, SlotIds, pool, slot,
      registry, control, Goto, Fails
<1>19. ASSUME NEW t \in Tasks, Settle(t) PROVE NoSlotLost'
  <2>1. state' = state /\ on' = on
    BY <1>19 DEF Settle, slot
  <2>2. Holders' = Holders
    BY <1>19 DEF Settle, Holders, TypeOK, Holding, Goto, Fails
  <2> QED BY <2>1, <2>2 DEF NoSlotLost
<1>20. ASSUME NEW t \in Tasks, Report(t) PROVE NoSlotLost'
  BY <1>20
  DEF Report, NoSlotLost, Holders, TypeOK, Pcs, Before, Holding, SlotIds, pool, slot,
      registry, control, Goto, Fails
<1>21. ASSUME NEW t \in Tasks, RecordSuccess(t) PROVE NoSlotLost'
  BY <1>21
  DEF RecordSuccess, NoSlotLost, Holders, TypeOK, Pcs, Before, Holding, SlotIds, pool,
      registry, control, Goto
<1>22. ASSUME NEW t \in Tasks, RecordFailure(t) PROVE NoSlotLost'
  BY <1>22
  DEF RecordFailure, NoSlotLost, Holders, TypeOK, Pcs, Before, Holding, SlotIds, pool,
      registry, control, Goto
<1>23. ASSUME NEW t \in Tasks, NoteFailure(t) PROVE NoSlotLost'
  BY <1>23
  DEF NoteFailure, NoSlotLost, Holders, TypeOK, Pcs, Before, Holding, SlotIds, pool,
      slot, control, Goto
<1>24. ASSUME NEW t \in Tasks, FileResult(t) PROVE NoSlotLost'
  BY <1>24
  DEF FileResult, NoSlotLost, Holders, TypeOK, Pcs, Before, Holding, SlotIds, pool,
      registry, control, Goto
<1>25. ASSUME NEW t \in Tasks, Clean(t) PROVE NoSlotLost'
  BY <1>25
  DEF Clean, NoSlotLost, Holders, TypeOK, Pcs, Before, Holding, SlotIds, pool, registry,
      control, Goto
<1>26. ASSUME NEW t \in Tasks, Free(t) PROVE NoSlotLost'
  BY <1>26
  DEF Free, NoSlotLost, Holders, TypeOK, Pcs, Before, Holding, SlotIds, pool, registry,
      control, Goto
<1>27. ASSUME NEW t \in Tasks, Drop(t) PROVE NoSlotLost'
  BY <1>27
  DEF Drop, NoSlotLost, Holders, TypeOK, Pcs, Before, Holding, SlotIds, slot, registry,
      control, Goto
<1> QED BY <1>1, <1>2, <1>3, <1>4, <1>5, <1>6, <1>7, <1>8, <1>9, <1>10, <1>11, <1>12,
     <1>13, <1>14, <1>15, <1>16, <1>17, <1>18, <1>19, <1>20, <1>21, <1>22, <1>23,
     <1>24, <1>25, <1>26, <1>27 DEF Next, Control, Goroutine

\* Only a claim and a release change the counter, and each by its one task.
LEMMA CountStep == TypeOK /\ CountInv /\ [Next]_vars => CountInv'
<1> SUFFICES ASSUME TypeOK, CountInv, [Next]_vars PROVE CountInv'
  OBVIOUS
<1>1. CASE UNCHANGED vars
  <2>1. Claims' = Claims /\ running' = running
    BY <1>1 DEF Claims, TypeOK, Holding, vars, pool, slot, registry, control, task
  <2> QED BY <2>1 DEF CountInv, ClaimsCounted
<1>2. CASE CreateSlot
  <2>1. Claims' = Claims /\ running' = running
    BY <1>2 DEF CreateSlot, Claims, TypeOK, Holding, control, task
  <2> QED BY <2>1 DEF CountInv, ClaimsCounted
<1>3. CASE Close
  <2>1. Claims' = Claims /\ running' = running
    BY <1>3 DEF Close, Claims, TypeOK, Holding, slot, registry, task
  <2> QED BY <2>1 DEF CountInv, ClaimsCounted
<1>4. ASSUME NEW s \in SlotIds, RegisterSlot(s) PROVE CountInv'
  <2>1. Claims' = Claims /\ running' = running
    BY <1>4 DEF RegisterSlot, Claims, TypeOK, Holding, slot, control, task
  <2> QED BY <2>1 DEF CountInv, ClaimsCounted
<1>5. ASSUME NEW s \in SlotIds, DeleteSlot(s) PROVE CountInv'
  <2>1. Claims' = Claims /\ running' = running
    BY <1>5 DEF DeleteSlot, Claims, TypeOK, Holding, slot, control, task
  <2> QED BY <2>1 DEF CountInv, ClaimsCounted
<1>6. ASSUME NEW s \in SlotIds, Unregister(s) PROVE CountInv'
  <2>1. Claims' = Claims /\ running' = running
    BY <1>6 DEF Unregister, Claims, TypeOK, Holding, pool, slot, control, task
  <2> QED BY <2>1 DEF CountInv, ClaimsCounted
<1>7. ASSUME NEW s \in SlotIds, StopSlot(s) PROVE CountInv'
  <2>1. Claims' = Claims /\ running' = running
    BY <1>7 DEF StopSlot, Claims, TypeOK, Holding, pool, slot, registry, Cancelled
  <2> QED BY <2>1 DEF CountInv, ClaimsCounted
<1>8. ASSUME NEW s \in SlotIds, MarkStopped(s) PROVE CountInv'
  <2>1. Claims' = Claims /\ running' = running
    BY <1>8 DEF MarkStopped, Claims, TypeOK, Holding, pool, registry, task
  <2> QED BY <2>1 DEF CountInv, ClaimsCounted
<1>9. ASSUME NEW s \in SlotIds, StartSlot(s) PROVE CountInv'
  <2>1. Claims' = Claims /\ running' = running
    BY <1>9 DEF StartSlot, Claims, TypeOK, Holding, pool, registry, control, task
  <2> QED BY <2>1 DEF CountInv, ClaimsCounted
<1>10. ASSUME NEW s \in SlotIds, CloseSlot(s) PROVE CountInv'
  <2>1. Claims' = Claims /\ running' = running
    BY <1>10 DEF CloseSlot, Claims, TypeOK, Holding, pool, slot, registry, Cancelled
  <2> QED BY <2>1 DEF CountInv, ClaimsCounted
<1>11. ASSUME NEW t \in Tasks, NEW s \in SlotIds \cup {None}, Start(t, s) PROVE CountInv'
  <2>1. Claims' = Claims /\ running' = running
    BY <1>11 DEF Start, Claims, TypeOK, Holding, pool, slot, registry, control, Goto
  <2> QED BY <2>1 DEF CountInv, ClaimsCounted
<1>12. ASSUME NEW t \in Tasks, GiveUp(t) PROVE CountInv'
  <2>1. Claims' = Claims /\ running' = running
    BY <1>12 DEF GiveUp, Claims, TypeOK, Holding, pool, slot, registry, control
  <2> QED BY <2>1 DEF CountInv, ClaimsCounted
<1>13. ASSUME NEW t \in Tasks, Claim(t) PROVE CountInv'
  <2>1. t \notin Claims /\ Claims' = Claims \cup {t}
    BY <1>13 DEF Claim, Claims, TypeOK, Holding, Goto
  <2>2. Cardinality(Claims') = Cardinality(Claims) + 1
    BY <2>1, ClaimsFinite, FS_AddElement
  <2>3. running < MaxConcurrent /\ running' = running + 1
    BY <1>13 DEF Claim
  <2> QED BY <2>2, <2>3, Parameters DEF Parameters, CountInv, ClaimsCounted, TypeOK
<1>14. ASSUME NEW t \in Tasks, Refuse(t) PROVE CountInv'
  <2>1. Claims' = Claims /\ running' = running
    BY <1>14 DEF Refuse, Claims, TypeOK, Holding, pool, slot, registry, control, Goto
  <2> QED BY <2>1 DEF CountInv, ClaimsCounted
<1>15. ASSUME NEW t \in Tasks, RunEnds(t) PROVE CountInv'
  <2>1. Claims' = Claims /\ running' = running
    BY <1>15
    DEF RunEnds, Claims, TypeOK, Holding, pool, slot, registry, control, Goto, Fails
  <2> QED BY <2>1 DEF CountInv, ClaimsCounted
<1>16. ASSUME NEW t \in Tasks, LoadTemplate(t) PROVE CountInv'
  <2>1. Claims' = Claims /\ running' = running
    BY <1>16
    DEF LoadTemplate, Claims, TypeOK, Holding, pool, slot, registry, control, Goto
  <2> QED BY <2>1 DEF CountInv, ClaimsCounted
<1>17. ASSUME NEW t \in Tasks, Launch(t) PROVE CountInv'
  <2>1. Claims' = Claims /\ running' = running
    BY <1>17 DEF Launch, Claims, TypeOK, Holding, pool, registry, control, Goto
  <2> QED BY <2>1 DEF CountInv, ClaimsCounted
<1>18. ASSUME NEW t \in Tasks, Build(t) PROVE CountInv'
  <2>1. Claims' = Claims /\ running' = running
    BY <1>18
    DEF Build, Claims, TypeOK, Holding, pool, slot, registry, control, Goto, Fails
  <2> QED BY <2>1 DEF CountInv, ClaimsCounted
<1>19. ASSUME NEW t \in Tasks, Settle(t) PROVE CountInv'
  <2>1. Claims' = Claims /\ running' = running
    BY <1>19 DEF Settle, Claims, TypeOK, Holding, pool, slot, control, Goto, Fails
  <2> QED BY <2>1 DEF CountInv, ClaimsCounted
<1>20. ASSUME NEW t \in Tasks, Report(t) PROVE CountInv'
  <2>1. Claims' = Claims /\ running' = running
    BY <1>20
    DEF Report, Claims, TypeOK, Holding, pool, slot, registry, control, Goto, Fails
  <2> QED BY <2>1 DEF CountInv, ClaimsCounted
<1>21. ASSUME NEW t \in Tasks, RecordSuccess(t) PROVE CountInv'
  <2>1. Claims' = Claims /\ running' = running
    BY <1>21 DEF RecordSuccess, Claims, TypeOK, Holding, pool, registry, control, Goto
  <2> QED BY <2>1 DEF CountInv, ClaimsCounted
<1>22. ASSUME NEW t \in Tasks, RecordFailure(t) PROVE CountInv'
  <2>1. Claims' = Claims /\ running' = running
    BY <1>22 DEF RecordFailure, Claims, TypeOK, Holding, pool, registry, control, Goto
  <2> QED BY <2>1 DEF CountInv, ClaimsCounted
<1>23. ASSUME NEW t \in Tasks, NoteFailure(t) PROVE CountInv'
  <2>1. Claims' = Claims /\ running' = running
    BY <1>23 DEF NoteFailure, Claims, TypeOK, Holding, pool, slot, control, Goto
  <2> QED BY <2>1 DEF CountInv, ClaimsCounted
<1>24. ASSUME NEW t \in Tasks, FileResult(t) PROVE CountInv'
  <2>1. Claims' = Claims /\ running' = running
    BY <1>24 DEF FileResult, Claims, TypeOK, Holding, pool, registry, control, Goto
  <2> QED BY <2>1 DEF CountInv, ClaimsCounted
<1>25. ASSUME NEW t \in Tasks, Clean(t) PROVE CountInv'
  <2>1. Claims' = Claims /\ running' = running
    BY <1>25 DEF Clean, Claims, TypeOK, Holding, pool, registry, control, Goto
  <2> QED BY <2>1 DEF CountInv, ClaimsCounted
<1>26. ASSUME NEW t \in Tasks, Free(t) PROVE CountInv'
  <2>1. Claims' = Claims /\ running' = running
    BY <1>26 DEF Free, Claims, TypeOK, Holding, pool, registry, control, Goto
  <2> QED BY <2>1 DEF CountInv, ClaimsCounted
<1>27. ASSUME NEW t \in Tasks, Drop(t) PROVE CountInv'
  <2>1. t \in Claims /\ Claims' = Claims \ {t}
    BY <1>27 DEF Drop, Claims, TypeOK, Holding, Goto
  <2>2. Cardinality(Claims') = Cardinality(Claims) - 1
    BY <2>1, ClaimsFinite, FS_RemoveElement
  <2>3. Cardinality(Claims) # 0
    BY <2>1, ClaimsFinite, FS_EmptySet
  <2>4. running' = running - 1
    BY <1>27, <2>3 DEF Drop, CountInv, ClaimsCounted, TypeOK
  <2> QED BY <2>2, <2>4, Parameters DEF Parameters, CountInv, ClaimsCounted, TypeOK
<1> QED BY <1>1, <1>2, <1>3, <1>4, <1>5, <1>6, <1>7, <1>8, <1>9, <1>10, <1>11, <1>12,
     <1>13, <1>14, <1>15, <1>16, <1>17, <1>18, <1>19, <1>20, <1>21, <1>22, <1>23,
     <1>24, <1>25, <1>26, <1>27 DEF Next, Control, Goroutine

-----------------------------------------------------------------------------
(* The theorems *)

\* Every state of the pool is of the declared types.
THEOREM TypeCorrect == Spec => []TypeOK
<1>1. ASSUME Init PROVE TypeOK
  <2>1. nextID \in 0 .. MaxSlots
    BY <1>1, Parameters DEF Parameters, Init
  <2>2. pc \in [Tasks -> Pcs]
    BY <1>1 DEF Init, Pcs, Before
  <2> QED BY <1>1, <2>1, <2>2 DEF Init, TypeOK
<1> QED BY <1>1, TypeStep, PTL DEF Spec

\* At the start nothing is claimed.
LEMMA CountInit == Init => CountInv
<1> SUFFICES ASSUME Init PROVE CountInv
  OBVIOUS
<1>1. Claims = {}
  BY DEF Init, Claims, Holding
<1>2. 0 <= MaxConcurrent
  BY Parameters DEF Parameters
<1> QED BY <1>1, <1>2, FS_EmptySet DEF Init, CountInv, ClaimsCounted

\* The counter p.running is exactly the number of tasks between claim and release,
\* on every path through Start, execute and the deferred calls.
THEOREM CountedClaims == Spec => []ClaimsCounted
<1>1. CountInv => ClaimsCounted
  BY DEF CountInv
<1> QED BY <1>1, CountInit, TypeCorrect, CountStep, PTL DEF Spec

\* Whatever the limit, no more tasks than it hold a claim.
THEOREM RespectedLimit == Spec => []LimitRespected
<1>1. CountInv => LimitRespected
  BY DEF CountInv, ClaimsCounted, LimitRespected
<1> QED BY <1>1, CountInit, TypeCorrect, CountStep, PTL DEF Spec

\* A busy slot always has a task that will free it.
THEOREM NoLostSlot == Spec => []NoSlotLost
<1>1. Init => NoSlotLost
  BY DEF Init, NoSlotLost
<1> QED BY <1>1, TypeCorrect, LostStep, PTL DEF Spec

\* A slot that CreateSlot returned is in the registry, and no more slots than the
\* capacity exist, through concurrent creations, rollbacks and deletions.
THEOREM KnownSlots == Spec => [](SlotsAreKnown /\ Cardinality(slots) <= Capacity)
<1>1. Init => SlotInv
  BY FS_EmptySet, Parameters DEF Parameters, Init, SlotInv, SlotsAreKnown
<1>2. SlotInv => SlotsAreKnown /\ Cardinality(slots) <= Capacity
  BY DEF SlotInv
<1> QED BY <1>1, <1>2, TypeCorrect, SlotStep, PTL DEF Spec

\* What is filed as done was reported to the main core, and the converse.
THEOREM ReportedDone == Spec => []DoneIsReported
<1>1. Init => OutcomeInv
  BY DEF Init, OutcomeInv
<1>2. TypeOK /\ OutcomeInv => DoneIsReported
  BY DEF TypeOK, OutcomeInv, DoneIsReported
<1> QED BY <1>1, <1>2, TypeCorrect, OutcomeStep, PTL DEF Spec
=============================================================================
