------------------------------- MODULE SlotPool -------------------------------
(***************************************************************************)
(* The pool of sub agent slots of internal/engine/subagent/pool.go, with   *)
(* the part of the registry (registry.go) a slot's life goes through.      *)
(*                                                                         *)
(* A task is a Start call and the goroutine it leaves behind.  The pool's  *)
(* lock and the slot's lock are taken separately and never held together   *)
(* by the goroutine, so every lock section is one action here.  The main   *)
(* core creates, deletes, stops and restarts slots and closes the pool at  *)
(* any time, from as many goroutines as it likes.                          *)
(***************************************************************************)
EXTENDS Naturals, FiniteSets

CONSTANTS
  Tasks,          \* calls of Start
  None,           \* nil, or no particular slot
  Capacity,       \* config.Capacity
  MaxConcurrent,  \* config.MaxConcurrent
  MaxSlots        \* bound: slots created over the life of the pool

ASSUME Parameters ==
  /\ IsFiniteSet(Tasks)
  /\ Capacity \in Nat /\ MaxSlots \in Nat
  /\ MaxConcurrent \in 0 .. Capacity
  /\ None \notin Tasks /\ None \notin Nat

VARIABLES
  slots,       \* p.slots; p.order holds them in the order of their numbers
  nextID,      \* p.nextID
  running,     \* p.running
  closed,      \* p.closed
  state,       \* Slot.State
  cancel,      \* Slot.cancel, as the task whose context it cancels
  result,      \* Slot.result, as the task it comes from
  recorded,    \* the registry's State for the slot's agent
  unregistered,\* slots a CreateSlot has made and not registered yet
  deleted,     \* slots a DeleteSlot has removed and not yet from the registry
  stopping,    \* slots whose task a StopSlot cancelled and which it marks next
  cancelling,  \* slots Close still has to cancel
  pc,          \* where each task is
  wanted,      \* Task.Slot
  on,          \* the slot it claimed
  ctxDone,     \* its context is cancelled
  outcome,     \* "launched", then the State of its TaskResult
  reported     \* tasks whose result message was sent to the main core

pool     == <<slots, nextID, running, closed>>
slot     == <<state, cancel, result>>
registry == <<recorded, unregistered, deleted>>
control  == <<stopping, cancelling>>
task     == <<pc, wanted, on, ctxDone, outcome>>
vars     == <<pool, slot, registry, control, task, reported>>

SlotIds == 1 .. MaxSlots

\* A slot is held from the claim to the first half of release, the claim on the
\* concurrency limit to the second half.
Before  == {"new", "claim"}
Holding == {"load", "launch", "build", "run", "settle", "report", "success",
            "failure", "note", "file", "clean", "free"}
Pcs     == Before \cup Holding \cup {"drop", "over"}

Holders    == {t \in Tasks : pc[t] \in Holding}
Claims     == {t \in Tasks : pc[t] \in Holding \cup {"drop"}}
Goto(t, l) == pc' = [pc EXCEPT ![t] = l]

-----------------------------------------------------------------------------
(* Slots *)

CreateSlot ==
  /\ ~closed
  /\ Cardinality(slots) < Capacity
  /\ nextID < MaxSlots
  /\ nextID' = nextID + 1
  /\ slots' = slots \cup {nextID'}
  /\ state' = [state EXCEPT ![nextID'] = "idle"]
  /\ unregistered' = unregistered \cup {nextID'}
  /\ UNCHANGED <<running, closed, cancel, result, recorded, deleted, control,
                 task, reported>>

\* mutant: a slot the registry refused is kept.
RegisterOrNot(s) ==
  /\ s \in unregistered
  /\ unregistered' = unregistered \ {s}
  /\ \/ recorded' = [recorded EXCEPT ![s] = "starting"] /\ UNCHANGED slots
     \/ UNCHANGED <<slots, recorded>>
  /\ UNCHANGED <<nextID, running, closed, slot, deleted, control, task, reported>>

\* The registry may refuse (its own bound, a cancelled context): the slot goes.
RegisterSlot(s) ==
  /\ s \in unregistered
  /\ unregistered' = unregistered \ {s}
  /\ \/ recorded' = [recorded EXCEPT ![s] = "starting"] /\ UNCHANGED slots
     \/ slots' = slots \ {s} /\ UNCHANGED recorded
  /\ UNCHANGED <<nextID, running, closed, slot, deleted, control, task, reported>>

\* DeleteSlot reads the state without the slot's lock, but a mix of two of its
\* values is never the word it looks for unless one of them is.
DeleteSlot(s) ==
  /\ s \in slots
  /\ state[s] # "busy"
  /\ slots' = slots \ {s}
  /\ deleted' = deleted \cup {s}
  /\ UNCHANGED <<nextID, running, closed, slot, recorded, unregistered, control, task,
                 reported>>

Unregister(s) ==
  /\ s \in deleted
  /\ deleted' = deleted \ {s}
  /\ recorded' = [recorded EXCEPT ![s] = "none"]
  /\ UNCHANGED <<pool, slot, unregistered, control, task, reported>>

Cancelled(s) == IF cancel[s] = None THEN ctxDone ELSE [ctxDone EXCEPT ![cancel[s]] = TRUE]

StopSlot(s) ==
  /\ s \in slots
  /\ ctxDone' = Cancelled(s)
  /\ stopping' = stopping \cup {s}
  /\ UNCHANGED <<pool, slot, registry, cancelling, pc, wanted, on, outcome, reported>>

MarkStopped(s) ==
  /\ s \in stopping
  /\ stopping' = stopping \ {s}
  /\ state' = [state EXCEPT ![s] = IF @ = "busy" THEN @ ELSE "stopped"]
  /\ UNCHANGED <<pool, cancel, result, registry, cancelling, task, reported>>

StartSlot(s) ==
  /\ s \in slots
  /\ state' = [state EXCEPT ![s] = IF @ = "busy" THEN @ ELSE "idle"]
  /\ UNCHANGED <<pool, cancel, result, registry, control, task, reported>>

Close ==
  /\ ~closed
  /\ closed' = TRUE
  /\ cancelling' = slots
  /\ UNCHANGED <<slots, nextID, running, slot, registry, stopping, task, reported>>

CloseSlot(s) ==
  /\ s \in cancelling
  /\ cancelling' = cancelling \ {s}
  /\ ctxDone' = Cancelled(s)
  /\ UNCHANGED <<pool, slot, registry, stopping, pc, wanted, on, outcome, reported>>

-----------------------------------------------------------------------------
(* Start, up to the goroutine *)

Start(t, s) ==
  /\ pc[t] = "new"
  /\ ~ctxDone[t]
  /\ Goto(t, "claim")
  /\ wanted' = [wanted EXCEPT ![t] = s]
  /\ UNCHANGED <<pool, slot, registry, control, on, ctxDone, outcome, reported>>

\* The caller's context is the parent of the task's.
GiveUp(t) ==
  /\ ~ctxDone[t]
  /\ ctxDone' = [ctxDone EXCEPT ![t] = TRUE]
  /\ UNCHANGED <<pool, slot, registry, control, pc, wanted, on, outcome, reported>>

Usable(t) ==
  {s \in slots : wanted[t] \in {None, s} /\ state[s] \in {"idle", "failed"}}

\* mutant: the concurrency limit may be reached once more.
ClaimOneTooMany(t) ==
  /\ pc[t] = "claim"
  /\ ~closed
  /\ running <= MaxConcurrent
  /\ \E s \in Usable(t) :
       /\ state' = [state EXCEPT ![s] = "busy"]
       /\ on' = [on EXCEPT ![t] = s]
  /\ running' = running + 1
  /\ Goto(t, "load")
  /\ UNCHANGED <<slots, nextID, closed, cancel, result, registry, control,
                 wanted, ctxDone, outcome, reported>>

\* claimLocked looks at the slots one after another, and they change meanwhile:
\* any usable one may be the first it finds.  A claim that finds none tries
\* again, at the latest when its poll timer fires.
Claim(t) ==
  /\ pc[t] = "claim"
  /\ ~closed
  /\ running < MaxConcurrent
  /\ \E s \in Usable(t) :
       /\ state' = [state EXCEPT ![s] = "busy"]
       /\ on' = [on EXCEPT ![t] = s]
  /\ running' = running + 1
  /\ Goto(t, "load")
  /\ UNCHANGED <<slots, nextID, closed, cancel, result, registry, control,
                 wanted, ctxDone, outcome, reported>>

\* ErrPoolClosed, ErrSlotStopped, ErrNoSlots, or the caller's context.
Refuse(t) ==
  /\ pc[t] = "claim"
  /\ \/ closed
     \/ wanted[t] \in slots /\ state[wanted[t]] = "stopped"
     \/ slots = {}
     \/ ctxDone[t]
  /\ Goto(t, "over")
  /\ UNCHANGED <<pool, slot, registry, control, wanted, on, ctxDone, outcome, reported>>

\* templateFor: a template that cannot be read releases the claim.
LoadTemplate(t) ==
  /\ pc[t] = "load"
  /\ \E l \in {"launch", "free"} : Goto(t, l)
  /\ UNCHANGED <<pool, slot, registry, control, wanted, on, ctxDone, outcome, reported>>

Launch(t) ==
  LET s == on[t] IN
  /\ pc[t] = "launch"
  /\ cancel' = [cancel EXCEPT ![s] = t]
  /\ result' = [result EXCEPT ![s] = None]
  /\ state' = [state EXCEPT ![s] = "busy"]
  /\ outcome' = [outcome EXCEPT ![t] = "launched"]
  /\ Goto(t, "build")
  /\ UNCHANGED <<pool, registry, control, wanted, on, ctxDone, reported>>

-----------------------------------------------------------------------------
(* execute, on the goroutine *)

Fails(t) == Goto(t, "failure") /\ outcome' = [outcome EXCEPT ![t] = "failed"]

\* The builder or the agent's Run refuses, or the agent is under way.
Build(t) ==
  /\ pc[t] = "build"
  /\ Fails(t) \/ (Goto(t, "run") /\ UNCHANGED outcome)
  /\ UNCHANGED <<pool, slot, registry, control, wanted, on, ctxDone, reported>>

\* The event stream ends: with an error, cut off, or with the work done.
RunEnds(t) ==
  /\ pc[t] = "run"
  /\ \/ Fails(t)
     \/ ~ctxDone[t] /\ Goto(t, "settle") /\ UNCHANGED outcome
  /\ UNCHANGED <<pool, slot, registry, control, wanted, on, ctxDone, reported>>

\* settle: the registry knows the agent and is told, or the task has failed.
Settle(t) ==
  LET s == on[t] IN
  /\ pc[t] = "settle"
  /\ IF recorded[s] = "none" THEN Fails(t) /\ UNCHANGED recorded
     ELSE /\ recorded' = [recorded EXCEPT ![s] = "done"]
          /\ Goto(t, "report")
          /\ UNCHANGED outcome
  /\ UNCHANGED <<pool, slot, unregistered, deleted, control, wanted, on, ctxDone, reported>>

\* mutant: a result the broker refused is taken for one that was sent.
ReportIgnored(t) ==
  /\ pc[t] = "report"
  /\ Goto(t, "success")
  /\ outcome' = [outcome EXCEPT ![t] = "done"]
  /\ \/ reported' = reported \cup {t}
     \/ UNCHANGED reported
  /\ UNCHANGED <<pool, slot, registry, control, wanted, on, ctxDone>>

\* The broker journals the message and hands it on, or refuses it.
Report(t) ==
  /\ pc[t] = "report"
  /\ \/ /\ reported' = reported \cup {t}
        /\ outcome' = [outcome EXCEPT ![t] = "done"]
        /\ Goto(t, "success")
     \/ Fails(t) /\ UNCHANGED reported
  /\ UNCHANGED <<pool, slot, registry, control, wanted, on, ctxDone>>

RecordSuccess(t) ==
  /\ pc[t] = "success"
  /\ state' = [state EXCEPT ![on[t]] = "idle"]
  /\ Goto(t, "file")
  /\ UNCHANGED <<pool, cancel, result, registry, control, wanted, on, ctxDone,
                 outcome, reported>>

RecordFailure(t) ==
  /\ pc[t] = "failure"
  /\ state' = [state EXCEPT ![on[t]] = IF @ = "stopped" THEN @ ELSE "failed"]
  /\ Goto(t, "note")
  /\ UNCHANGED <<pool, cancel, result, registry, control, wanted, on, ctxDone,
                 outcome, reported>>

\* mutant: the registry is told the state of the slot, not of the agent.
NoteSlotState(t) ==
  /\ pc[t] = "note"
  /\ recorded' = [recorded EXCEPT ![on[t]] = IF @ = "none" THEN @ ELSE state[on[t]]]
  /\ Goto(t, "file")
  /\ UNCHANGED <<pool, slot, unregistered, deleted, control, wanted, on, ctxDone, outcome,
                 reported>>

NoteFailure(t) ==
  /\ pc[t] = "note"
  /\ recorded' = [recorded EXCEPT ![on[t]] = IF @ = "none" THEN @ ELSE "failed"]
  /\ Goto(t, "file")
  /\ UNCHANGED <<pool, slot, unregistered, deleted, control, wanted, on, ctxDone, outcome,
                 reported>>

-----------------------------------------------------------------------------
(* The end of the goroutine: its result, then its deferred calls in turn *)

FileResult(t) ==
  /\ pc[t] = "file"
  /\ result' = [result EXCEPT ![on[t]] = t]
  /\ Goto(t, "clean")
  /\ UNCHANGED <<pool, state, cancel, registry, control, wanted, on, ctxDone,
                 outcome, reported>>

Clean(t) ==
  /\ pc[t] = "clean"
  /\ ctxDone' = [ctxDone EXCEPT ![t] = TRUE]
  /\ cancel' = [cancel EXCEPT ![on[t]] = None]
  /\ Goto(t, "free")
  /\ UNCHANGED <<pool, state, result, registry, control, wanted, on, outcome, reported>>

\* mutant: the claim is given back and the slot left as it is.
FreeNothing(t) ==
  /\ pc[t] = "free"
  /\ Goto(t, "drop")
  /\ UNCHANGED <<pool, slot, registry, control, wanted, on, ctxDone, outcome, reported>>

\* release, under the slot's lock and then under the pool's.
Free(t) ==
  /\ pc[t] = "free"
  /\ state' = [state EXCEPT ![on[t]] = IF @ = "busy" THEN "idle" ELSE @]
  /\ Goto(t, "drop")
  /\ UNCHANGED <<pool, cancel, result, registry, control, wanted, on, ctxDone,
                 outcome, reported>>

\* mutant: the concurrency claim is never given back.
DropNothing(t) ==
  /\ pc[t] = "drop"
  /\ Goto(t, "over")
  /\ UNCHANGED <<pool, slot, registry, control, wanted, on, ctxDone, outcome, reported>>

Drop(t) ==
  /\ pc[t] = "drop"
  /\ running' = IF running > 0 THEN running - 1 ELSE running
  /\ Goto(t, "over")
  /\ UNCHANGED <<slots, nextID, closed, slot, registry, control, wanted, on, ctxDone,
                 outcome, reported>>

-----------------------------------------------------------------------------
Init ==
  /\ slots = {} /\ nextID = 0 /\ running = 0 /\ closed = FALSE
  /\ state = [s \in SlotIds |-> "idle"]
  /\ cancel = [s \in SlotIds |-> None]
  /\ result = [s \in SlotIds |-> None]
  /\ recorded = [s \in SlotIds |-> "none"]
  /\ unregistered = {} /\ deleted = {} /\ stopping = {} /\ cancelling = {}
  /\ pc = [t \in Tasks |-> "new"]
  /\ wanted = [t \in Tasks |-> None]
  /\ on = [t \in Tasks |-> None]
  /\ ctxDone = [t \in Tasks |-> FALSE]
  /\ outcome = [t \in Tasks |-> "none"]
  /\ reported = {}

Control(s) ==
  \/ RegisterSlot(s) \/ DeleteSlot(s) \/ Unregister(s) \/ StopSlot(s) \/ MarkStopped(s)
  \/ StartSlot(s) \/ CloseSlot(s)

\* What the goroutine of a task does without waiting for the agent.
Goroutine(t) ==
  \/ LoadTemplate(t) \/ Launch(t) \/ Build(t)
  \/ Settle(t) \/ Report(t) \/ RecordSuccess(t) \/ RecordFailure(t) \/ NoteFailure(t)
  \/ FileResult(t) \/ Clean(t) \/ Free(t) \/ Drop(t)

Next ==
  \/ CreateSlot \/ Close
  \/ \E s \in SlotIds : Control(s)
  \/ \E t \in Tasks :
       \/ \E s \in SlotIds \cup {None} : Start(t, s)
       \/ GiveUp(t) \/ Claim(t) \/ Refuse(t) \/ RunEnds(t) \/ Goroutine(t)

Spec == Init /\ [][Next]_vars

\* A claim polls, goroutines run, and an agent ends its turn once its context is
\* cancelled; it may otherwise run for ever.
Fairness ==
  \A t \in Tasks :
    /\ WF_vars(Claim(t)) /\ WF_vars(Goroutine(t))
    /\ WF_vars(ctxDone[t] /\ RunEnds(t))

FairSpec == Spec /\ Fairness

-----------------------------------------------------------------------------
(* Properties *)

\* The state is what the declarations of Pool, Slot and Registry allow.
TypeOK ==
  /\ slots \subseteq SlotIds /\ nextID \in 0 .. MaxSlots
  /\ running \in Nat /\ closed \in BOOLEAN
  /\ state \in [SlotIds -> {"idle", "busy", "stopped", "failed"}]
  /\ cancel \in [SlotIds -> Tasks \cup {None}]
  /\ result \in [SlotIds -> Tasks \cup {None}]
  /\ recorded \in [SlotIds -> {"none", "starting", "done", "failed"}]
  /\ unregistered \subseteq SlotIds /\ deleted \subseteq SlotIds
  /\ stopping \subseteq SlotIds /\ cancelling \subseteq SlotIds
  /\ pc \in [Tasks -> Pcs]
  /\ wanted \in [Tasks -> SlotIds \cup {None}]
  /\ on \in [Tasks -> SlotIds \cup {None}]
  /\ ctxDone \in [Tasks -> BOOLEAN]
  /\ outcome \in [Tasks -> {"none", "launched", "done", "failed"}]
  /\ reported \subseteq Tasks

\* p.running is the number of tasks that claimed and have not released, on every
\* path out of Start and execute: a task that fails early neither leaks its claim
\* nor gives it back twice.
ClaimsCounted == running = Cardinality(Claims)

\* No more tasks than the limit hold a claim, from any number of callers.
LimitRespected == Cardinality(Claims) <= MaxConcurrent

\* A slot that reads busy has a task that will release it, so that no failure
\* and no stop takes a slot out of service for good.
NoSlotLost == \A s \in SlotIds : state[s] = "busy" => \E t \in Holders : on[t] = s

\* A slot CreateSlot has returned is in the registry until a DeleteSlot removes it,
\* however creations, rollbacks, deletions and running tasks interleave.
SlotsAreKnown == \A s \in slots \ unregistered : recorded[s] # "none"

\* A result that says done was sent to the main core, and a result the main core
\* was sent says done, also when the registry or the broker refuses half way.
DoneIsReported ==
  /\ \A s \in SlotIds :
       result[s] # None /\ outcome[result[s]] = "done" => result[s] \in reported
  /\ \A t \in reported : outcome[t] = "done"

\* A caller whose slot is free does not wait for good behind tasks that were
\* cancelled: each of them gives its claim back, whatever it was doing.
Waits(t)  == pc[t] = "claim" /\ ~closed /\ Usable(t) # {} /\ \A u \in Claims : ctxDone[u]
Served    == \A t \in Tasks : Waits(t) ~> ~Waits(t)

\* "Two tasks on one slot is two conversations in one" (pool.go:994): no two tasks
\* have their agents run on the same slot.
OneTaskPerSlot ==
  \A t, u \in Tasks : pc[t] = "run" /\ pc[u] = "run" /\ on[t] = on[u] => t = u
=============================================================================
