------------------------------ MODULE Registry -------------------------------
(***************************************************************************)
(* The registry of sub agents (internal/engine/subagent/registry.go) under *)
(* the compositions that drive it (orchestration.go).                      *)
(*                                                                         *)
(* A composition is a call of Sequential, Pipeline or Parallel over two    *)
(* agents; a piece of work is one of its agents.  The registry's lock is   *)
(* given up between the checks of Spawn and its insertion, and between the *)
(* two halves of Finish, and the broker has a lock of its own.  The main   *)
(* core deletes agents at any time.                                        *)
(***************************************************************************)
EXTENDS Naturals, FiniteSets

CONSTANTS
  Work,        \* pairs of a composition and the place of one of its agents, 1 or 2
  Parallel,    \* the compositions that run their agents at once
  MaxAgents,   \* config.MaxAgents, counting the main core
  MaxIds       \* bound: identifiers sub-1 .. sub-MaxIds

\* Compositions of a first and a second agent, and bounds that count the main core.
ASSUME RegistryParameters ==
  /\ IsFiniteSet(Work) /\ Work # {}
  /\ \A w \in Work : w = <<w[1], w[2]>> /\ w[2] \in {1, 2}
  /\ MaxAgents \in Nat \ {0} /\ MaxIds \in Nat \ {0}

VARIABLES
  agents,      \* r.agents without the main core, as the State of each identifier
  handles,     \* r.handles
  boxes,       \* the identifiers the broker has a mailbox for
  open,        \* the broker is not closed
  leaving,     \* identifiers a Delete took out and whose mailbox it removes next
  pc, id,      \* where each piece of work is, and on which agent
  failed       \* work whose run or task had an error

registryVars == <<agents, handles, boxes, open, leaving, pc, id, failed>>

Ids  == 1 .. MaxIds
Compositions == {w[1] : w \in Work}
Team(w) == {v \in Work : v[1] = w[1]}
Pcs  == {"idle", "check", "register", "spawn", "insert", "undo", "spawned", "promise",
         "run", "finish", "note", "unregister", "refused", "ok", "bad"}
Spawning == {"idle", "check", "register", "spawn", "insert", "undo", "refused"}

Known == {i \in Ids : agents[i] # "none"}
Goto(w, l) == pc' = [pc EXCEPT ![w] = l]

-----------------------------------------------------------------------------
(* Spawn *)

\* The second agent is spawned after the first has succeeded, or in a Parallel after
\* it was spawned.  Its identifier is the number of agents, the main core included.
BeginSpawn(w) ==
  /\ pc[w] = "idle"
  /\ \A v \in Team(w) : v[2] < w[2] => pc[v] = IF w[1] \in Parallel THEN "spawned" ELSE "ok"
  /\ Cardinality(Known) + 1 \in Ids
  /\ id' = [id EXCEPT ![w] = Cardinality(Known) + 1]
  /\ Goto(w, "check")
  /\ UNCHANGED <<agents, handles, boxes, open, leaving, failed>>

\* mutant: the bound is off by one.
CheckOneMore(w) ==
  /\ pc[w] = "check"
  /\ Goto(w, IF Cardinality(Known) > MaxAgents \/ id[w] \in Known THEN "refused"
             ELSE "register")
  /\ UNCHANGED <<agents, handles, boxes, open, leaving, id, failed>>

CheckLimit(w) ==
  /\ pc[w] = "check"
  /\ Goto(w, IF Cardinality(Known) + 1 >= MaxAgents \/ id[w] \in Known THEN "refused"
             ELSE "register")
  /\ UNCHANGED <<agents, handles, boxes, open, leaving, id, failed>>

RegisterBox(w) ==
  /\ pc[w] = "register"
  /\ IF open THEN Goto(w, "spawn") /\ boxes' = boxes \cup {id[w]}
     ELSE Goto(w, "refused") /\ UNCHANGED boxes
  /\ UNCHANGED <<agents, handles, open, leaving, id, failed>>

\* The spawner builds an agent, or fails.
Spawn(w) ==
  /\ pc[w] = "spawn"
  /\ Goto(w, "insert") \/ Goto(w, "undo")
  /\ UNCHANGED <<agents, handles, boxes, open, leaving, id, failed>>

Undo(w) ==
  /\ pc[w] = "undo"
  /\ boxes' = boxes \ {id[w]}
  /\ Goto(w, "refused")
  /\ UNCHANGED <<agents, handles, open, leaving, id, failed>>

\* What a handle reports of itself once it is built (handle.State()): StateStarting, "the
\* agent exists but has not produced anything" (registry.go:17).  The spawner is the
\* embedding program's.
HandleState == "starting"

\* The state recorded is what the handle reported.
Insert(w) ==
  /\ pc[w] = "insert"
  /\ agents' = [agents EXCEPT ![id[w]] = HandleState]
  /\ handles' = handles \cup {id[w]}
  /\ Goto(w, "spawned")
  /\ UNCHANGED <<boxes, open, leaving, id, failed>>

-----------------------------------------------------------------------------
(* runOne and runPipelineStage *)

\* A Parallel runs its agents when all of them were spawned; if one was not, those
\* before it are left as they are.
MarkRunning(w) ==
  /\ pc[w] = "spawned"
  /\ w[1] \in Parallel => \A v \in Team(w) : pc[v] \notin Spawning
  /\ IF id[w] \in Known
     THEN agents' = [agents EXCEPT ![id[w]] = "running"] /\ Goto(w, "promise")
     ELSE Goto(w, "bad") /\ UNCHANGED agents
  /\ UNCHANGED <<handles, boxes, open, leaving, id, failed>>

\* mutant: a task the journal refused is not run, and the agent left as it is.
PromiseOrDrop(w) ==
  /\ pc[w] = "promise"
  /\ (open /\ Goto(w, "run")) \/ Goto(w, "bad")
  /\ UNCHANGED <<agents, handles, boxes, open, leaving, id, failed>>

\* The broker journals the task, or refuses it.
Promise(w) ==
  /\ pc[w] = "promise"
  /\ \/ open /\ Goto(w, "run") /\ UNCHANGED failed
     \/ Goto(w, "finish") /\ failed' = failed \cup {w}
  /\ UNCHANGED <<agents, handles, boxes, open, leaving, id>>

RunAgent(w) ==
  /\ pc[w] = "run"
  /\ Goto(w, "finish")
  /\ \/ failed' = failed \cup {w}
     \/ UNCHANGED failed
  /\ UNCHANGED <<agents, handles, boxes, open, leaving, id>>

\* mutant: a failed agent keeps its handle.
FinishKeeps(w) ==
  /\ pc[w] = "finish"
  /\ IF id[w] \in Known
     THEN /\ agents' = [agents EXCEPT ![id[w]] = IF w \in failed THEN "failed" ELSE "done"]
          /\ handles' = IF w \in failed THEN handles ELSE handles \ {id[w]}
          /\ Goto(w, IF w \in failed THEN "note" ELSE "unregister")
     ELSE Goto(w, "bad") /\ UNCHANGED <<agents, handles>>
  /\ UNCHANGED <<boxes, open, leaving, id, failed>>

\* The first half of Finish is SetState, which lets go of the handle.
FinishAgent(w) ==
  /\ pc[w] = "finish"
  /\ IF id[w] \in Known
     THEN /\ agents' = [agents EXCEPT ![id[w]] = IF w \in failed THEN "failed" ELSE "done"]
          /\ handles' = handles \ {id[w]}
          /\ Goto(w, IF w \in failed THEN "note" ELSE "unregister")
     ELSE Goto(w, "bad") /\ UNCHANGED <<agents, handles>>
  /\ UNCHANGED <<boxes, open, leaving, id, failed>>

\* The error goes into the record that is there by then, or into an empty one.
Note(w) ==
  /\ pc[w] = "note"
  /\ agents' = [agents EXCEPT ![id[w]] = IF @ = "none" THEN "blank" ELSE @]
  /\ Goto(w, "unregister")
  /\ UNCHANGED <<handles, boxes, open, leaving, id, failed>>

UnregisterBox(w) ==
  /\ pc[w] = "unregister"
  /\ boxes' = boxes \ {id[w]}
  /\ Goto(w, IF w \in failed THEN "bad" ELSE "ok")
  /\ UNCHANGED <<agents, handles, open, leaving, id, failed>>

-----------------------------------------------------------------------------
(* The main core *)

DeleteAgent(i) ==
  /\ i \in Known
  /\ agents' = [agents EXCEPT ![i] = "none"]
  /\ handles' = handles \ {i}
  /\ leaving' = leaving \cup {i}
  /\ UNCHANGED <<boxes, open, pc, id, failed>>

DeleteBox(i) ==
  /\ i \in leaving
  /\ leaving' = leaving \ {i}
  /\ boxes' = boxes \ {i}
  /\ UNCHANGED <<agents, handles, open, pc, id, failed>>

\* Shutdown closes the broker and lets go of the handles, in two sections.
CloseBroker ==
  /\ open
  /\ open' = FALSE
  /\ boxes' = {}
  /\ UNCHANGED <<agents, handles, leaving, pc, id, failed>>

DropHandles ==
  /\ ~open
  /\ handles' = {}
  /\ UNCHANGED <<agents, boxes, open, leaving, pc, id, failed>>

-----------------------------------------------------------------------------
RegistryInit ==
  /\ agents = [i \in Ids |-> "none"]
  /\ handles = {} /\ boxes = {} /\ open = TRUE /\ leaving = {} /\ failed = {}
  /\ pc = [w \in Work |-> "idle"]
  /\ id = [w \in Work |-> 1]

RegistryNext ==
  \/ \E w \in Work :
       \/ BeginSpawn(w) \/ CheckLimit(w) \/ RegisterBox(w) \/ Spawn(w) \/ Undo(w) \/ Insert(w)
       \/ MarkRunning(w) \/ Promise(w) \/ RunAgent(w) \/ FinishAgent(w) \/ Note(w) \/ UnregisterBox(w)
  \/ \E i \in Ids : DeleteAgent(i) \/ DeleteBox(i)
  \/ CloseBroker \/ DropHandles

RegistrySpec == RegistryInit /\ [][RegistryNext]_registryVars

-----------------------------------------------------------------------------
(* Properties *)

\* The state is what the declarations of Registry allow.
RegistryTypeOK ==
  /\ agents \in [Ids -> {"none", "starting", "running", "done", "failed", "blank"}]
  /\ handles \subseteq Ids /\ boxes \subseteq Ids /\ leaving \subseteq Ids
  /\ open \in BOOLEAN
  /\ pc \in [Work -> Pcs] /\ id \in [Work -> Ids] /\ failed \subseteq Work

\* An agent recorded as running has work that will record how it ends, and one that
\* ended has given its handle up, also when two spawns took the same identifier or
\* the agent was deleted and spawned again under its work.
RecordsMatchWork ==
  \A i \in Ids :
    /\ agents[i] = "running" => \E w \in Work : id[w] = i /\ pc[w] \in {"promise", "run", "finish"}
    /\ agents[i] \in {"done", "failed"} => i \notin handles

\* The work whose failure was noted.
Noted == {w \in failed : pc[w] \in {"unregister", "bad"}}

\* The bound on the population is checked before an agent is built and the record made
\* after: each other composition may be in between.  A failure noted for an agent that
\* was deleted makes a record too, without a check.  Nothing else passes the bound.
PopulationNearBound ==
  Cardinality(Known) + 1 <= MaxAgents + Cardinality(Compositions) - 1 + Cardinality(Noted)

\* The records of the registry agree with the work that goes on, and the population
\* passes its bound by the other compositions at most (registry.go, compose.go).
RecordsAreTrue == RecordsMatchWork /\ PopulationNearBound
=============================================================================
