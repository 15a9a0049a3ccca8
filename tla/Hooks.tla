-------------------------------- MODULE Hooks ---------------------------------
(***************************************************************************)
(* The hook registry (internal/core/hooks.go) for the hooks of one type,   *)
(* and the triggers that run them: hooks are registered and removed while  *)
(* triggers go through the ones they found.                                *)
(*                                                                         *)
(* A hook is the literal it was written as, the only thing Unregister can  *)
(* tell functions apart by: closures made of one literal are one here.     *)
(***************************************************************************)
EXTENDS Integers, Sequences, SequencesExt, FiniteSets

CONSTANTS
  Literals,
  Priorities,
  Triggers,          \* callers of trigger, of one call each
  MaxHookFailures,   \* maximumHookFailures
  MaxRegistrations   \* bound

ASSUME HookParameters == Priorities \subseteq Int

VARIABLES entries, nextSequence, calls, hookFailures, droppedFailures

hookVars == <<entries, nextSequence, calls, hookFailures, droppedFailures>>

Before(e, f) == e.priority < f.priority \/ (e.priority = f.priority /\ e.sequence < f.sequence)

\* Register refuses a priority out of range, an unknown type and nil; the sort puts the
\* new entry between those of the list, which are in order.
Register ==
  /\ nextSequence < MaxRegistrations
  /\ nextSequence' = nextSequence + 1
  /\ \E h \in Literals, p \in Priorities, i \in 1 .. Len(entries) + 1 :
       LET new == [hook |-> h, priority |-> p, sequence |-> nextSequence']
       IN /\ \A k \in DOMAIN entries : k < i <=> Before(entries[k], new)
          /\ entries' = InsertAt(entries, i, new)
  /\ UNCHANGED <<calls, hookFailures, droppedFailures>>

\* Unregister takes every entry of the function out, in the slice they are in: the n
\* that are kept stay in their order.
Unregister ==
  \E h \in Literals, n \in 0 .. Len(entries) - 1 :
    LET kept == {i \in DOMAIN entries : entries[i].hook # h}
    IN \E from \in [1 .. n -> kept] :
         /\ \A k, l \in 1 .. n : k < l => from[k] < from[l]
         /\ \A i \in kept : \E k \in 1 .. n : from[k] = i
         /\ entries' = [k \in 1 .. n |-> entries[from[k]]]
         /\ calls' = [t \in Triggers |-> [calls[t] EXCEPT !.due = {e \in @ : e.hook # h}]]
         /\ UNCHANGED <<nextSequence, hookFailures, droppedFailures>>

\* trigger copies the entries under the lock.
Trigger(t) ==
  /\ calls[t].at = "idle"
  /\ calls' = [calls EXCEPT ![t] = [at |-> "run", rest |-> entries, ran |-> <<>>, due |-> ToSet(entries)]]
  /\ UNCHANGED <<entries, nextSequence, hookFailures, droppedFailures>>

\* recordFailure keeps the latest.
RecordFailure ==
  IF hookFailures = MaxHookFailures THEN droppedFailures' = droppedFailures + 1 /\ UNCHANGED hookFailures
  ELSE hookFailures' = hookFailures + 1 /\ UNCHANGED droppedFailures

\* mutant: the entries are gone through where Unregister moves them.
InvokeLive(t) ==
  /\ calls[t].at = "run"
  /\ UNCHANGED <<entries, nextSequence, hookFailures, droppedFailures>>
  /\ LET i == Len(calls[t].ran) + 1
     IN IF i > Len(entries) THEN calls' = [calls EXCEPT ![t].at = "over"]
        ELSE calls' = [calls EXCEPT ![t].ran = Append(@, entries[i])]

\* invokeHook, of one hook after the other: it returns, panics, which is recorded and
\* published and costs only its own result, or refuses, which ends the trigger.
Invoke(t) ==
  /\ calls[t].at = "run"
  /\ UNCHANGED <<entries, nextSequence>>
  /\ IF calls[t].rest = <<>>
     THEN calls' = [calls EXCEPT ![t].at = "over"] /\ UNCHANGED <<hookFailures, droppedFailures>>
     ELSE LET ran == [calls[t] EXCEPT !.rest = Tail(@), !.ran = Append(@, Head(calls[t].rest))]
          IN \/ calls' = [calls EXCEPT ![t] = ran] /\ UNCHANGED <<hookFailures, droppedFailures>>
             \/ calls' = [calls EXCEPT ![t] = ran] /\ RecordFailure
             \/ /\ calls' = [calls EXCEPT ![t] = [ran EXCEPT !.at = "refused"]]
                /\ UNCHANGED <<hookFailures, droppedFailures>>

-----------------------------------------------------------------------------
HookInit ==
  /\ entries = <<>> /\ nextSequence = 0 /\ hookFailures = 0 /\ droppedFailures = 0
  /\ calls = [t \in Triggers |-> [at |-> "idle", rest |-> <<>>, ran |-> <<>>, due |-> {}]]

HookNext == Register \/ Unregister \/ \E t \in Triggers : Trigger(t) \/ Invoke(t)

HookSpec == HookInit /\ [][HookNext]_hookVars

-----------------------------------------------------------------------------
(* Properties *)

\* The state is what the declarations allow.
HookTypeOK ==
  /\ hookFailures \in 0 .. MaxHookFailures /\ (droppedFailures > 0 => hookFailures = MaxHookFailures)
  /\ \A i, j \in DOMAIN entries : i < j => Before(entries[i], entries[j])

\* A trigger runs its hooks in the order of priority and registration, none twice, and
\* one that ends without a refusal ran every hook that was registered all the time,
\* whatever was registered and removed while it went through them.
EveryHookRuns ==
  \A t \in Triggers :
    /\ \A i, j \in DOMAIN calls[t].ran : i < j => Before(calls[t].ran[i], calls[t].ran[j])
    /\ calls[t].at = "over" => calls[t].due \subseteq ToSet(calls[t].ran)
=============================================================================
