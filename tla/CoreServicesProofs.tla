-------------------------- MODULE CoreServicesProofs --------------------------
(***************************************************************************)
(* Proofs about the parts a session works through, for every value of the  *)
(* constants: the registry of the agents, the client of a tool server, the *)
(* event bus, the hooks, the policies, the client of a language server,    *)
(* the tools over one and the gateway.  For each its invariants are proved *)
(* of its own specification, from an inductive one that says what its      *)
(* steps rely on; the last section carries them over to the parts side by  *)
(* side (CoreServices).                                                    *)
(***************************************************************************)
EXTENDS CoreServices, DataLemmas

-----------------------------------------------------------------------------
(* The registry of the agents: types *)

\* The state stays in its declared types.
LEMMA RegistryTypeStep == RegistryTypeOK /\ [RegistryNext]_registryVars => RegistryTypeOK'
<1> SUFFICES ASSUME RegistryTypeOK, [RegistryNext]_registryVars PROVE RegistryTypeOK'
  OBVIOUS
<1> USE DEF RegistryTypeOK, Goto, Pcs
<1>1. ASSUME NEW w \in Work, BeginSpawn(w) PROVE RegistryTypeOK'
  BY <1>1 DEF BeginSpawn
<1>2. ASSUME NEW w \in Work, CheckLimit(w) PROVE RegistryTypeOK'
  BY <1>2 DEF CheckLimit
<1>3. ASSUME NEW w \in Work, RegisterBox(w) PROVE RegistryTypeOK'
  BY <1>3 DEF RegisterBox
<1>4. ASSUME NEW w \in Work, Spawn(w) PROVE RegistryTypeOK'
  BY <1>4 DEF Spawn
<1>5. ASSUME NEW w \in Work, Undo(w) PROVE RegistryTypeOK'
  BY <1>5 DEF Undo
<1>6. ASSUME NEW w \in Work, Insert(w) PROVE RegistryTypeOK'
  BY <1>6 DEF Insert, HandleState
<1>7. ASSUME NEW w \in Work, MarkRunning(w) PROVE RegistryTypeOK'
  BY <1>7 DEF MarkRunning
<1>8. ASSUME NEW w \in Work, Promise(w) PROVE RegistryTypeOK'
  BY <1>8 DEF Promise
<1>9. ASSUME NEW w \in Work, RunAgent(w) PROVE RegistryTypeOK'
  BY <1>9 DEF RunAgent
<1>10. ASSUME NEW w \in Work, FinishAgent(w) PROVE RegistryTypeOK'
  BY <1>10 DEF FinishAgent
<1>11. ASSUME NEW w \in Work, Note(w) PROVE RegistryTypeOK'
  BY <1>11 DEF Note
<1>12. ASSUME NEW w \in Work, UnregisterBox(w) PROVE RegistryTypeOK'
  BY <1>12 DEF UnregisterBox
<1>13. ASSUME NEW i \in Ids, DeleteAgent(i) PROVE RegistryTypeOK'
  BY <1>13 DEF DeleteAgent
<1>14. ASSUME NEW i \in Ids, DeleteBox(i) PROVE RegistryTypeOK'
  BY <1>14 DEF DeleteBox
<1>15. CASE CloseBroker
  BY <1>15 DEF CloseBroker
<1>16. CASE DropHandles
  BY <1>16 DEF DropHandles
<1>17. CASE UNCHANGED registryVars
  BY <1>17 DEF registryVars
<1> QED BY <1>1, <1>2, <1>3, <1>4, <1>5, <1>6, <1>7, <1>8, <1>9, <1>10, <1>11, <1>12,
           <1>13, <1>14, <1>15, <1>16, <1>17 DEF RegistryNext

\* Nothing has begun.
LEMMA RegistryTypeFirst == RegistryInit => RegistryTypeOK
  BY RegistryParameters DEF RegistryInit, RegistryTypeOK, Pcs, Ids

\* The types of the registry, for every set of compositions and every bound.
THEOREM RegistryTypeCorrect == RegistrySpec => []RegistryTypeOK
  BY RegistryTypeFirst, RegistryTypeStep, PTL DEF RegistrySpec

-----------------------------------------------------------------------------
(* The registry: records *)

\* The two halves of RecordsAreTrue, for one identifier.
RunningHasWork(i) ==
  agents[i] = "running" => \E w \in Work : id[w] = i /\ pc[w] \in {"promise", "run", "finish"}
EndedLetGo(i) == agents[i] \in {"done", "failed"} => i \notin handles

\* Work that stays between promise and finish with its identifier still answers for it.
LEMMA StillRunning ==
  ASSUME RegistryTypeOK, NEW i \in Ids, RunningHasWork(i), agents'[i] = agents[i],
         \A w \in Work : pc[w] \in {"promise", "run", "finish"} =>
           id'[w] = id[w] /\ (id[w] = i => pc'[w] \in {"promise", "run", "finish"})
  PROVE  RunningHasWork(i)'
  BY DEF RunningHasWork

\* Every step keeps the records true: the step that takes work away from an agent
\* records how the agent ended, or finds no record of it.
LEMMA RecordsStep == RegistryTypeOK /\ RecordsMatchWork /\ [RegistryNext]_registryVars => RecordsMatchWork'
<1> SUFFICES ASSUME RegistryTypeOK, RecordsMatchWork, [RegistryNext]_registryVars,
                    NEW i \in Ids
             PROVE  RunningHasWork(i)' /\ EndedLetGo(i)'
  BY DEF RecordsMatchWork, RunningHasWork, EndedLetGo
<1>a. RunningHasWork(i) /\ EndedLetGo(i)
  BY DEF RecordsMatchWork, RunningHasWork, EndedLetGo
<1> USE <1>a
<1>1. ASSUME NEW w \in Work, BeginSpawn(w) PROVE RunningHasWork(i)' /\ EndedLetGo(i)'
  BY <1>1, StillRunning DEF BeginSpawn, Goto, RegistryTypeOK, EndedLetGo
<1>2. ASSUME NEW w \in Work, CheckLimit(w) PROVE RunningHasWork(i)' /\ EndedLetGo(i)'
  BY <1>2, StillRunning DEF CheckLimit, Goto, RegistryTypeOK, EndedLetGo
<1>3. ASSUME NEW w \in Work, RegisterBox(w) PROVE RunningHasWork(i)' /\ EndedLetGo(i)'
  BY <1>3, StillRunning DEF RegisterBox, Goto, RegistryTypeOK, EndedLetGo
<1>4. ASSUME NEW w \in Work, Spawn(w) PROVE RunningHasWork(i)' /\ EndedLetGo(i)'
  BY <1>4, StillRunning DEF Spawn, Goto, RegistryTypeOK, EndedLetGo
<1>5. ASSUME NEW w \in Work, Undo(w) PROVE RunningHasWork(i)' /\ EndedLetGo(i)'
  BY <1>5, StillRunning DEF Undo, Goto, RegistryTypeOK, EndedLetGo
<1>6. ASSUME NEW w \in Work, Insert(w) PROVE RunningHasWork(i)' /\ EndedLetGo(i)'
  <2>1. CASE i = id[w]
    BY <1>6, <2>1 DEF Insert, HandleState, RegistryTypeOK, RunningHasWork, EndedLetGo
  <2>2. CASE i # id[w]
    BY <1>6, <2>2, StillRunning DEF Insert, HandleState, Goto, RegistryTypeOK, EndedLetGo
  <2> QED BY <2>1, <2>2
<1>7. ASSUME NEW w \in Work, MarkRunning(w) PROVE RunningHasWork(i)' /\ EndedLetGo(i)'
  <2>1. CASE i = id[w] /\ id[w] \in Known
    BY <1>7, <2>1 DEF MarkRunning, Goto, RegistryTypeOK, RunningHasWork, EndedLetGo
  <2>2. CASE i # id[w] \/ id[w] \notin Known
    BY <1>7, <2>2, StillRunning DEF MarkRunning, Goto, RegistryTypeOK, EndedLetGo
  <2> QED BY <2>1, <2>2
<1>8. ASSUME NEW w \in Work, Promise(w) PROVE RunningHasWork(i)' /\ EndedLetGo(i)'
  BY <1>8, StillRunning DEF Promise, Goto, RegistryTypeOK, EndedLetGo
<1>9. ASSUME NEW w \in Work, RunAgent(w) PROVE RunningHasWork(i)' /\ EndedLetGo(i)'
  BY <1>9, StillRunning DEF RunAgent, Goto, RegistryTypeOK, EndedLetGo
<1>10. ASSUME NEW w \in Work, FinishAgent(w) PROVE RunningHasWork(i)' /\ EndedLetGo(i)'
  <2>1. CASE i = id[w]
    BY <1>10, <2>1 DEF FinishAgent, Known, RegistryTypeOK, RunningHasWork, EndedLetGo
  <2>2. CASE i # id[w]
    BY <1>10, <2>2, StillRunning DEF FinishAgent, Goto, RegistryTypeOK, EndedLetGo
  <2> QED BY <2>1, <2>2
<1>11. ASSUME NEW w \in Work, Note(w) PROVE RunningHasWork(i)' /\ EndedLetGo(i)'
  <2>1. CASE agents'[i] = agents[i]
    BY <1>11, <2>1, StillRunning DEF Note, Goto, RegistryTypeOK, EndedLetGo
  <2>2. CASE agents'[i] # agents[i]
    BY <1>11, <2>2 DEF Note, RegistryTypeOK, RunningHasWork, EndedLetGo
  <2> QED BY <2>1, <2>2
<1>12. ASSUME NEW w \in Work, UnregisterBox(w) PROVE RunningHasWork(i)' /\ EndedLetGo(i)'
  BY <1>12, StillRunning DEF UnregisterBox, Goto, RegistryTypeOK, EndedLetGo
<1>13. ASSUME NEW j \in Ids, DeleteAgent(j) PROVE RunningHasWork(i)' /\ EndedLetGo(i)'
  BY <1>13 DEF DeleteAgent, RegistryTypeOK, RunningHasWork, EndedLetGo
<1>14. ASSUME NEW j \in Ids, DeleteBox(j) PROVE RunningHasWork(i)' /\ EndedLetGo(i)'
  BY <1>14 DEF DeleteBox, RunningHasWork, EndedLetGo
<1>15. CASE CloseBroker
  BY <1>15 DEF CloseBroker, RunningHasWork, EndedLetGo
<1>16. CASE DropHandles
  BY <1>16 DEF DropHandles, RunningHasWork, EndedLetGo
<1>17. CASE UNCHANGED registryVars
  BY <1>17 DEF registryVars, RunningHasWork, EndedLetGo
<1> QED BY <1>1, <1>2, <1>3, <1>4, <1>5, <1>6, <1>7, <1>8, <1>9, <1>10, <1>11, <1>12,
           <1>13, <1>14, <1>15, <1>16, <1>17 DEF RegistryNext

\* The records of the registry are true for every set of compositions: an agent recorded
\* as running has work that will record its end, and one that ended has no handle,
\* whatever was deleted or spawned under the same identifier meanwhile (registry.go).
THEOREM RecordsMatchWorkAlways == RegistrySpec => []RecordsMatchWork
<1>1. RegistryInit => RecordsMatchWork
  BY DEF RegistryInit, RecordsMatchWork
<1> QED BY <1>1, RegistryTypeCorrect, RecordsStep, PTL DEF RegistrySpec

-----------------------------------------------------------------------------
(* The registry: the population *)

\* Past the check, and not inserted yet.
Flying == {"register", "spawn", "insert"}

\* A composition spawns one agent after the other, also a Parallel.
OrderInv ==
  \A v, w \in Work : v[1] = w[1] /\ v[2] < w[2] /\ pc[w] # "idle" => pc[v] \notin Spawning

\* Only work that failed has a failure to note.
NoteInv == \A w \in Work : pc[w] = "note" => w \in failed

\* Nobody has passed the check.
Untouched ==
  Known = {} /\ \A w \in Work : pc[w] \in {"idle", "check", "refused"}

\* The agents are among those of the last check that let somebody through, S, those
\* the compositions had under way then or since, F, and those of noted failures.
Covers(S, F) ==
  /\ Cardinality(S) + 2 <= MaxAgents
  /\ Known \subseteq S \cup {F[c] : c \in Compositions} \cup {id[w] : w \in Noted}
  /\ \A w \in Work : pc[w] \in Flying => F[w[1]] = id[w]

PopulationInv ==
  Untouched \/ \E S \in SUBSET Ids : \E F \in [Compositions -> Ids] : Covers(S, F)

\* What has left the spawn behind does not come back to it, and begins in its turn.
LEMMA OrderStep == RegistryTypeOK /\ OrderInv /\ [RegistryNext]_registryVars => OrderInv'
<1> SUFFICES ASSUME RegistryTypeOK, OrderInv, [RegistryNext]_registryVars PROVE OrderInv'
  OBVIOUS
<1> DEFINE Onward == \A v \in Work : pc[v] \notin Spawning => pc'[v] \notin Spawning
           InTurnOf == \A w \in Work : pc[w] = "idle" /\ pc'[w] # "idle" =>
                         \A v \in Team(w) : v[2] < w[2] => pc[v] \notin Spawning
<1>a. ASSUME Onward, InTurnOf PROVE OrderInv'
  BY <1>a DEF OrderInv, Team
<1> USE DEF Goto, Spawning, RegistryTypeOK
<1>1. ASSUME NEW w \in Work, BeginSpawn(w) PROVE Onward /\ InTurnOf
  BY <1>1 DEF BeginSpawn
<1>2. ASSUME NEW w \in Work, CheckLimit(w) PROVE Onward /\ InTurnOf
  BY <1>2 DEF CheckLimit
<1>3. ASSUME NEW w \in Work, RegisterBox(w) PROVE Onward /\ InTurnOf
  BY <1>3 DEF RegisterBox
<1>4. ASSUME NEW w \in Work, Spawn(w) PROVE Onward /\ InTurnOf
  BY <1>4 DEF Spawn
<1>5. ASSUME NEW w \in Work, Undo(w) PROVE Onward /\ InTurnOf
  BY <1>5 DEF Undo
<1>6. ASSUME NEW w \in Work, Insert(w) PROVE Onward /\ InTurnOf
  BY <1>6 DEF Insert, HandleState
<1>7. ASSUME NEW w \in Work, MarkRunning(w) PROVE Onward /\ InTurnOf
  BY <1>7 DEF MarkRunning
<1>8. ASSUME NEW w \in Work, Promise(w) PROVE Onward /\ InTurnOf
  BY <1>8 DEF Promise
<1>9. ASSUME NEW w \in Work, RunAgent(w) PROVE Onward /\ InTurnOf
  BY <1>9 DEF RunAgent
<1>10. ASSUME NEW w \in Work, FinishAgent(w) PROVE Onward /\ InTurnOf
  BY <1>10 DEF FinishAgent
<1>11. ASSUME NEW w \in Work, Note(w) PROVE Onward /\ InTurnOf
  BY <1>11 DEF Note
<1>12. ASSUME NEW w \in Work, UnregisterBox(w) PROVE Onward /\ InTurnOf
  BY <1>12 DEF UnregisterBox
<1>13. CASE UNCHANGED pc
  BY <1>13 DEF OrderInv
<1> QED BY <1>a, <1>1, <1>2, <1>3, <1>4, <1>5, <1>6, <1>7, <1>8, <1>9, <1>10, <1>11, <1>12,
           <1>13 DEF RegistryNext, registryVars, DeleteAgent, DeleteBox, CloseBroker, DropHandles

\* Nothing takes a failure back.
LEMMA NoteStep == RegistryTypeOK /\ NoteInv /\ [RegistryNext]_registryVars => NoteInv'
  BY DEF RegistryTypeOK, NoteInv, RegistryNext, registryVars, Goto, BeginSpawn, CheckLimit, RegisterBox, Spawn, Undo, Insert, HandleState,
         MarkRunning, Promise, RunAgent, FinishAgent, Note, UnregisterBox, DeleteAgent, DeleteBox, CloseBroker,
         DropHandles

\* The agents are finitely many.
LEMMA KnownFinite ==
  ASSUME RegistryTypeOK
  PROVE  Known \subseteq Ids /\ IsFiniteSet(Ids) /\ IsFiniteSet(Known) /\ Cardinality(Known) \in Nat
<1>1. IsFiniteSet(Ids)
  BY FS_Interval, RegistryParameters DEF Ids
<1>2. Known \subseteq Ids
  BY DEF Known
<1> QED BY <1>1, <1>2, FS_Subset, FS_CardinalityType

\* A step that inserts no agent but one under way or one of a noted failure, and lets
\* nobody through the check, is covered as before.
LEMMA CoversKept ==
  ASSUME NEW S \in SUBSET Ids, NEW F \in [Compositions -> Ids], Covers(S, F),
         Known' \subseteq Known \cup {F[c] : c \in Compositions} \cup {id'[w] : w \in Noted'},
         Noted \subseteq Noted', \A w \in Noted : id'[w] = id[w],
         \A w \in Work : pc'[w] \in Flying => pc[w] \in Flying /\ id'[w] = id[w]
  PROVE  PopulationInv'
<1>1. Covers(S, F)'
  BY DEF Covers
<1> QED BY <1>1 DEF PopulationInv

\* Whoever passes the check begins the count again: the agents that are there, and what
\* each composition has under way.
LEMMA CheckCovers ==
  ASSUME RegistryTypeOK, OrderInv', NEW u \in Work, CheckLimit(u), pc'[u] = "register"
  PROVE  PopulationInv'
<1> DEFINE Under(c, w) == w[1] = c /\ pc'[w] \in Flying
           F == [c \in Compositions |->
                   IF \E w \in Work : Under(c, w) THEN id[CHOOSE w \in Work : Under(c, w)] ELSE 1]
<1>1. F \in [Compositions -> Ids]
  BY RegistryParameters DEF RegistryTypeOK, Ids
<1>2. \A v, w \in Work : pc'[v] \in Flying /\ pc'[w] \in Flying /\ v[1] = w[1] => v = w
  <2> SUFFICES ASSUME NEW v \in Work, NEW w \in Work, pc'[v] \in Flying, pc'[w] \in Flying,
                      v[1] = w[1]
               PROVE  v[2] = w[2]
    BY RegistryParameters
  <2>1. ~(v[2] < w[2]) /\ ~(w[2] < v[2])
    BY DEF OrderInv, Flying, Spawning
  <2> QED BY <2>1, RegistryParameters
<1>3. ASSUME NEW w \in Work, pc'[w] \in Flying PROVE F[w[1]] = id'[w]
  <2>1. w[1] \in Compositions /\ Under(w[1], w)
    BY <1>3 DEF Compositions
  <2> DEFINE v == CHOOSE x \in Work : Under(w[1], x)
  <2>2. v \in Work /\ Under(w[1], v)
    BY <2>1
  <2>3. v = w
    BY <1>2, <1>3, <2>2
  <2>4. F[w[1]] = id[v]
    BY <2>1
  <2> QED BY <2>3, <2>4 DEF CheckLimit
<1>4. PICK G \in [Compositions -> Ids] : \A w \in Work : pc'[w] \in Flying => G[w[1]] = id'[w]
  BY <1>1, <1>3
<1>5. Known' = Known /\ Cardinality(Known) + 2 <= MaxAgents
  BY KnownFinite, RegistryParameters DEF CheckLimit, Goto, RegistryTypeOK, Known
<1>6. PICK S \in SUBSET Ids : S = Known
  BY KnownFinite
<1>7. Covers(S, G)'
  BY <1>4, <1>5, <1>6 DEF Covers
<1> QED BY <1>7 DEF PopulationInv

\* Every step keeps the agents covered.
LEMMA PopulationStep ==
  RegistryTypeOK /\ OrderInv /\ NoteInv /\ PopulationInv /\ [RegistryNext]_registryVars => PopulationInv'
<1> SUFFICES ASSUME RegistryTypeOK, OrderInv, NoteInv, PopulationInv, [RegistryNext]_registryVars
             PROVE  PopulationInv'
  OBVIOUS
<1>o. OrderInv'
  BY OrderStep
<1>c. ASSUME NEW w \in Work, CheckLimit(w), pc'[w] = "register" PROVE PopulationInv'
  BY <1>o, <1>c, CheckCovers
<1>u. CASE Untouched
  <2>1. ASSUME NEW w \in Work, BeginSpawn(w) PROVE Untouched'
    BY <1>u, <2>1 DEF Untouched, BeginSpawn, Goto, Known, RegistryTypeOK
  <2>2. ASSUME NEW w \in Work, CheckLimit(w), pc'[w] # "register" PROVE Untouched'
    BY <1>u, <2>2 DEF Untouched, CheckLimit, Goto, Known, RegistryTypeOK
  <2>3. CASE UNCHANGED <<agents, pc>>
    BY <1>u, <2>3 DEF Untouched, Known, PopulationInv
  <2>4. \A w \in Work : pc[w] \in {"idle", "check", "refused"}
    BY <1>u DEF Untouched
  <2>5. (\E w \in Work : BeginSpawn(w) \/ CheckLimit(w)) \/ UNCHANGED <<agents, pc>>
    BY <1>u, <2>4 DEF RegistryNext, registryVars, RegisterBox, Spawn, Undo, Insert, HandleState, MarkRunning, Promise, RunAgent, FinishAgent,
       Note, UnregisterBox, DeleteAgent, Untouched, DeleteBox, CloseBroker, DropHandles
  <2> QED BY <1>c, <2>1, <2>2, <2>3, <2>5 DEF PopulationInv
<1>v. ASSUME NEW S \in SUBSET Ids, NEW F \in [Compositions -> Ids], Covers(S, F)
      PROVE  PopulationInv'
  <2> USE <1>v
  <2>a. ASSUME Known' \subseteq Known, UNCHANGED <<id, failed>>,
               \A w \in Work : pc'[w] \in Flying => pc[w] \in Flying,
               \A w \in failed : pc[w] \in {"unregister", "bad"} => pc'[w] \in {"unregister", "bad"}
        PROVE  PopulationInv'
    BY <2>a, CoversKept DEF Noted
  <2> USE DEF Flying, Goto, RegistryTypeOK
  <2>1. ASSUME NEW w \in Work, BeginSpawn(w) PROVE PopulationInv'
    BY <2>1, CoversKept DEF BeginSpawn, Noted, Known
  <2>2. ASSUME NEW w \in Work, CheckLimit(w), pc'[w] # "register" PROVE PopulationInv'
    BY <2>2, <2>a DEF CheckLimit, Known
  <2>3. ASSUME NEW w \in Work, RegisterBox(w) PROVE PopulationInv'
    BY <2>3, <2>a DEF RegisterBox, Known
  <2>4. ASSUME NEW w \in Work, Spawn(w) PROVE PopulationInv'
    BY <2>4, <2>a DEF Spawn, Known
  <2>5. ASSUME NEW w \in Work, Undo(w) PROVE PopulationInv'
    BY <2>5, <2>a DEF Undo, Known
  <2>6. ASSUME NEW w \in Work, Insert(w) PROVE PopulationInv'
    <3>1. F[w[1]] = id[w] /\ w[1] \in Compositions
      BY <2>6 DEF Insert, HandleState, Covers, Compositions
    <3>2. Known' \subseteq Known \cup {id[w]}
      BY <2>6 DEF Insert, HandleState, Known
    <3> QED BY <2>6, <3>1, <3>2, CoversKept DEF Insert, HandleState, Noted
  <2>7. ASSUME NEW w \in Work, MarkRunning(w) PROVE PopulationInv'
    BY <2>7, <2>a DEF MarkRunning, Known
  <2>8. ASSUME NEW w \in Work, Promise(w) PROVE PopulationInv'
    BY <2>8, CoversKept DEF Promise, Known, Noted
  <2>9. ASSUME NEW w \in Work, RunAgent(w) PROVE PopulationInv'
    BY <2>9, CoversKept DEF RunAgent, Known, Noted
  <2>10. ASSUME NEW w \in Work, FinishAgent(w) PROVE PopulationInv'
    BY <2>10, <2>a DEF FinishAgent, Known
  <2>11. ASSUME NEW w \in Work, Note(w) PROVE PopulationInv'
    <3>1. w \in Noted'
      BY <2>11 DEF Note, NoteInv, Noted
    <3>2. Known' \subseteq Known \cup {id'[w]}
      BY <2>11 DEF Note, Known
    <3> QED BY <2>11, <3>1, <3>2, CoversKept DEF Note, Noted
  <2>12. ASSUME NEW w \in Work, UnregisterBox(w) PROVE PopulationInv'
    BY <2>12, <2>a DEF UnregisterBox, Known
  <2>13. ASSUME NEW i \in Ids, DeleteAgent(i) PROVE PopulationInv'
    BY <2>13, <2>a DEF DeleteAgent, Known
  <2>14. CASE UNCHANGED <<agents, pc, id, failed>>
    BY <2>14, <2>a DEF Known
  <2> QED BY <1>c, <2>1, <2>2, <2>3, <2>4, <2>5, <2>6, <2>7, <2>8, <2>9, <2>10, <2>11, <2>12,
             <2>13, <2>14 DEF RegistryNext, registryVars, DeleteBox, CloseBroker, DropHandles
<1> QED BY <1>u, <1>v DEF PopulationInv

\* The image of a finite set has no more members than the set.
LEMMA ImageSize ==
  ASSUME NEW S, IsFiniteSet(S), NEW T, NEW f \in [S -> T]
  PROVE  LET R == {f[x] : x \in S}
         IN  IsFiniteSet(R) /\ Cardinality(R) \in Nat /\ Cardinality(R) <= Cardinality(S)
<1> DEFINE R == {f[x] : x \in S}
<1>1. f \in Surjection(S, R)
  BY DEF Surjection
<1> QED BY <1>1, FS_Surjection, FS_CardinalityType

\* What is covered is not many.
LEMMA CoveredFew == RegistryTypeOK /\ PopulationInv => PopulationNearBound
<1> SUFFICES ASSUME RegistryTypeOK, PopulationInv PROVE PopulationNearBound
  OBVIOUS
<1>1. IsFiniteSet(Compositions) /\ Cardinality(Compositions) \in Nat \ {0}
  <2>1. PICK f \in [Work -> Compositions] : \A w \in Work : f[w] = w[1]
    <3>1. [w \in Work |-> w[1]] \in [Work -> Compositions]
      BY DEF Compositions
    <3> QED BY <3>1
  <2>2. Compositions = {f[w] : w \in Work}
    BY <2>1 DEF Compositions
  <2>3. IsFiniteSet(Compositions) /\ Cardinality(Compositions) \in Nat
    <3> DEFINE R == {f[w] : w \in Work}
    <3>1. IsFiniteSet(Work)
      BY RegistryParameters
    <3>2. f \in [Work -> Compositions]
      BY <2>1
    <3>3. IsFiniteSet(R) /\ Cardinality(R) \in Nat
      BY ONLY <3>1, <3>2, ImageSize
    <3> QED BY <2>2, <3>3
  <2>4. Compositions # {}
    BY RegistryParameters DEF Compositions
  <2> QED BY <2>3, <2>4, FS_EmptySet
<1>2. IsFiniteSet(Noted) /\ Cardinality(Noted) \in Nat
  BY FS_Subset, FS_CardinalityType, RegistryParameters DEF Noted, RegistryTypeOK
<1>3. CASE Untouched
  <2>1. Cardinality(Known) = 0
    BY <1>3, FS_EmptySet DEF Untouched
  <2> QED BY <1>1, <1>2, <2>1, RegistryParameters DEF PopulationNearBound
<1>4. ASSUME NEW S \in SUBSET Ids, NEW F \in [Compositions -> Ids], Covers(S, F)
      PROVE  PopulationNearBound
  <2> DEFINE A == {F[c] : c \in Compositions}
             g == [w \in Noted |-> id[w]]
             B == {g[w] : w \in Noted}
  <2>1. IsFiniteSet(S) /\ Cardinality(S) \in Nat
    BY KnownFinite, FS_Subset, FS_CardinalityType
  <2>2. IsFiniteSet(A) /\ Cardinality(A) \in Nat /\ Cardinality(A) <= Cardinality(Compositions)
    BY <1>1, ImageSize
  <2>3. IsFiniteSet(B) /\ Cardinality(B) \in Nat /\ Cardinality(B) <= Cardinality(Noted)
    <3>1. g \in [Noted -> Ids]
      BY DEF Noted, RegistryTypeOK
    <3> QED BY <1>2, <3>1, ImageSize
  <2>4. Known \subseteq S \cup A \cup B /\ Cardinality(S) + 2 <= MaxAgents
    BY <1>4 DEF Covers
  <2> HIDE DEF A, B
  <2>5. /\ IsFiniteSet(S \cup A)
        /\ Cardinality(S \cup A) = Cardinality(S) + Cardinality(A) - Cardinality(S \cap A)
        /\ Cardinality(S \cap A) \in Nat /\ Cardinality(S \cup A) \in Nat
    BY <2>1, <2>2, FS_Union, FS_Intersection, FS_CardinalityType
  <2>6. /\ IsFiniteSet((S \cup A) \cup B)
        /\ Cardinality((S \cup A) \cup B) = Cardinality(S \cup A) + Cardinality(B) - Cardinality((S \cup A) \cap B)
        /\ Cardinality((S \cup A) \cap B) \in Nat /\ Cardinality((S \cup A) \cup B) \in Nat
    BY <2>3, <2>5, FS_Union, FS_Intersection, FS_CardinalityType
  <2>7. Cardinality(Known) <= Cardinality((S \cup A) \cup B) /\ Cardinality(Known) \in Nat
    BY <2>4, <2>6, FS_Subset, KnownFinite
  <2> QED BY <1>1, <1>2, <2>1, <2>2, <2>3, <2>4, <2>5, <2>6, <2>7, RegistryParameters DEF PopulationNearBound
<1> QED BY <1>3, <1>4 DEF PopulationInv

\* The check and the insertion of Spawn are two sections of the registry's lock: the
\* number of agents passes the bound by one for each other composition at most, and by
\* the records a noted failure makes (registry.go, orchestration.go).
THEOREM PopulationNearBoundAlways == RegistrySpec => []PopulationNearBound
<1>1. RegistryInit => OrderInv /\ NoteInv /\ PopulationInv
  BY DEF RegistryInit, OrderInv, NoteInv, PopulationInv, Untouched, Known
<1>2. RegistrySpec => [](RegistryTypeOK /\ OrderInv /\ NoteInv /\ PopulationInv)
  BY <1>1, RegistryTypeFirst, RegistryTypeStep, OrderStep, NoteStep, PopulationStep, PTL DEF RegistrySpec
<1> QED BY <1>2, CoveredFew, PTL

-----------------------------------------------------------------------------
(* The client of a tool server: invariant *)

\* Where a caller may be, which calls there are, and the places of a caller who lists,
\* who holds the start lock and who was given a session.
Places == {"idle", "ensure", "discover", "connect", "page", "store", "call", "probe", "ping",
           "close", "over"}
Calls  == {"none", "tools", "refresh", "tool", "health", "close"}
Listing == {"page", "store"}              \* reading tools, under startMu
Locked  == {"connect"} \cup Listing       \* holding startMu
Served  == Listing \cup {"call", "ping"}  \* at work over a session

\* The shape of the state.
ShapeInv ==
  /\ session \in 0 .. opened /\ toolList \in 0 .. opened /\ opened \in 0 .. MaxSessions
  /\ startMu \in Users \cup {Free}
  /\ closed \in [Sessions -> Nat]
  /\ use \in [Users -> [at : Places, call : Calls, over : Nat, page : Nat, attempt : 0 .. 1,
                        got : Nat]]
  /\ \A u \in Users : use[u].over <= opened /\ use[u].page < MaxPages

\* A caller who is at work over a session was given one.
GivenInv == \A u \in Users : use[u].at \in Served => use[u].over > 0

\* The start lock is held by whoever connects or lists; there is no session while one
\* connects, and while one lists no other than the one it lists over.
ListingInv ==
  \A u \in Users :
    /\ startMu = u <=> use[u].at \in Locked
    /\ use[u].at = "connect" => session = 0
    /\ use[u].at \in Listing => session \in {0, use[u].over}

\* A session that was not opened was not closed.
ClosedInv == SessionsClosedOnce /\ \A k \in Sessions : k > opened => closed[k] = 0

\* The inductive invariant: all of these, with the tools and the closings the run
\* checks.
McpInv == ShapeInv /\ GivenInv /\ ListingInv /\ ToolsServed /\ ClosedInv

-----------------------------------------------------------------------------
(* The client: steps *)

\* Closing a session is counted for that session.
LEMMA CloseOnce ==
  ASSUME closed \in [Sessions -> Nat], NEW k \in Nat, closed' = [closed EXCEPT ![k] = @ + 1]
  PROVE  /\ closed' \in [Sessions -> Nat]
         /\ \A j \in Sessions : closed'[j] = IF j = k THEN closed[j] + 1 ELSE closed[j]
<1>1. \A j \in Sessions : closed'[j] = IF j = k THEN closed[j] + 1 ELSE closed[j]
  OBVIOUS
<1>2. \A j \in Sessions : closed[j] + 1 \in Nat /\ closed[j] \in Nat
  OBVIOUS
<1>3. \A j \in Sessions : closed'[j] \in Nat
  BY <1>1, <1>2
<1>4. closed' = [j \in Sessions |-> closed'[j]]
  OBVIOUS
<1> QED BY <1>1, <1>3, <1>4

\* Invalidating a session takes it out and closes it, if it is still in place.
LEMMA InvalidateKeeps ==
  ASSUME McpInv, NEW k \in Nat, k <= opened, opened' = opened,
         InvalidateSession(k) \/ UNCHANGED <<session, toolList, closed>>
  PROVE  /\ session' \in {0, session} /\ toolList' \in {0, toolList}
         /\ closed' \in [Sessions -> Nat]
         /\ ToolsServed'
         /\ ClosedInv'
<1> USE McpParameters DEF McpInv, ShapeInv, Sessions
<1>1. CASE InvalidateSession(k) /\ session = k
  <2>1. session' = 0 /\ toolList' = 0 /\ closed' = [closed EXCEPT ![k] = @ + 1]
    BY <1>1 DEF InvalidateSession
  <2>2. closed' \in [Sessions -> Nat]
    BY <2>1, CloseOnce
  <2>3. SessionsClosedOnce'
    BY <1>1, <2>1 DEF ClosedInv, SessionsClosedOnce
  <2>4. \A j \in Sessions : j > opened => closed'[j] = 0
    BY <1>1, <2>1 DEF ClosedInv
  <2> QED BY <2>1, <2>2, <2>3, <2>4 DEF ClosedInv, ToolsServed
<1>2. CASE UNCHANGED <<session, toolList, closed>>
  BY <1>2 DEF ToolsServed, ClosedInv, SessionsClosedOnce
<1>3. InvalidateSession(k) => session = k \/ UNCHANGED <<session, toolList, closed>>
  BY DEF InvalidateSession
<1> QED BY <1>1, <1>2, <1>3

\* The step of a caller who neither takes nor lets go of the start lock, and begins
\* nothing that needs it, leaves the lock where it is.
LEMMA ListingKept ==
  ASSUME ListingInv, NEW u \in Users,
         UNCHANGED startMu, session' \in {0, session},
         \A v \in Users \ {u} : use'[v] = use[v],
         \/ use[u].at \notin Locked /\ use'[u].at \notin Locked
         \/ use[u].at \in Listing /\ use'[u].at \in Listing /\ use'[u].over = use[u].over
  PROVE  ListingInv'
  BY DEF ListingInv, Locked, Listing

\* Who lets go of the start lock leaves it to nobody.
LEMMA ListingEnds ==
  ASSUME ListingInv, NEW u \in Users, use[u].at \in Locked,
         startMu' = Free, use'[u].at \notin Locked,
         \A v \in Users \ {u} : use'[v] = use[v]
  PROVE  ListingInv'
  BY McpParameters DEF ListingInv, Locked, Listing

\* Who takes the start lock finds nobody else under it.
LEMMA ListingBegins ==
  ASSUME ListingInv, NEW u \in Users, startMu = Free, startMu' = u,
         session' = session,
         \A v \in Users \ {u} : use'[v] = use[v],
         \/ use'[u].at = "connect" /\ session = 0
         \/ use'[u].at \in Listing /\ use'[u].over = session
  PROVE  ListingInv'
  BY McpParameters DEF ListingInv, Locked, Listing

\* Every step keeps the invariant.
LEMMA McpInvKept == McpInv /\ [McpNext]_mcpVars => McpInv'
<1> SUFFICES ASSUME McpInv, [McpNext]_mcpVars PROVE McpInv'
  OBVIOUS
<1> DEFINE Quiet == UNCHANGED <<session, toolList, opened, closed>>
<1>q. ASSUME Quiet, ShapeInv', GivenInv', ListingInv' PROVE McpInv'
  BY <1>q DEF McpInv, ToolsServed, ClosedInv, SessionsClosedOnce
<1>a. \A u \in Users : use[u].over \in Nat /\ use[u].over <= opened
  BY DEF McpInv, ShapeInv
<1> USE DEF At, Places, Calls, Listing, Locked, Served
<1>1. ASSUME NEW u \in Users, BeginUse(u) PROVE McpInv'
  <2>1. ShapeInv' /\ GivenInv'
    BY <1>1 DEF BeginUse, McpInv, ShapeInv, GivenInv
  <2>2. ListingInv'
    BY <1>1, ListingKept DEF BeginUse, McpInv, ShapeInv
  <2> QED BY <1>1, <1>q, <2>1, <2>2 DEF BeginUse
<1>2. ASSUME NEW u \in Users, Ensure(u) PROVE McpInv'
  <2>1. ShapeInv' /\ GivenInv'
    BY <1>2, McpParameters DEF Ensure, McpInv, ShapeInv, GivenInv
  <2>2. CASE session # 0
    <3>1. ListingInv'
      BY <1>2, <2>2, ListingKept DEF Ensure, McpInv, ShapeInv
    <3> QED BY <1>2, <1>q, <2>1, <3>1 DEF Ensure
  <2>3. CASE session = 0
    <3>1. ListingInv'
      BY <1>2, <2>3, ListingBegins DEF Ensure, McpInv, ShapeInv
    <3> QED BY <1>2, <1>q, <2>1, <3>1 DEF Ensure
  <2> QED BY <2>2, <2>3
<1>3. ASSUME NEW u \in Users, Discover(u) PROVE McpInv'
  <2>1. ShapeInv' /\ GivenInv'
    BY <1>3, McpParameters DEF Discover, McpInv, ShapeInv, GivenInv
  <2>2. CASE UNCHANGED startMu
    <3>1. use'[u].at \notin Locked
      BY <1>3, <2>2, McpParameters DEF Discover, McpInv, ShapeInv
    <3>2. ListingInv'
      BY <1>3, <2>2, <3>1, ListingKept DEF Discover, McpInv, ShapeInv
    <3> QED BY <1>3, <1>q, <2>1, <3>2 DEF Discover
  <2>3. CASE startMu' = u
    <3>1. ListingInv'
      BY <1>3, <2>3, ListingBegins, McpParameters DEF Discover, McpInv, ShapeInv
    <3> QED BY <1>3, <1>q, <2>1, <3>1 DEF Discover
  <2> QED BY <1>3, <2>2, <2>3 DEF Discover
<1>4. ASSUME NEW u \in Users, Connect(u) PROVE McpInv'
  <2>1. CASE UNCHANGED <<session, toolList, opened>>
    <3>1. At(u, "over") /\ startMu' = Free /\ Quiet
      BY <1>4, <2>1 DEF Connect, McpInv, ShapeInv
    <3>2. ShapeInv' /\ GivenInv'
      BY <3>1 DEF McpInv, ShapeInv, GivenInv
    <3>3. ListingInv'
      BY <1>4, <3>1, ListingEnds DEF Connect, McpInv, ShapeInv
    <3> QED BY <1>q, <3>1, <3>2, <3>3
  <2>2. CASE opened < MaxSessions /\ opened' = opened + 1
    <3>1. session = 0 /\ session' = opened + 1 /\ toolList' = 0 /\ UNCHANGED closed
      BY <1>4, <2>2 DEF Connect, McpInv, ListingInv, ShapeInv
    <3>2. ShapeInv' /\ GivenInv'
      BY <1>4, <2>2, McpParameters DEF Connect, McpInv, ShapeInv, GivenInv
    <3>3. ListingInv'
      BY <1>4, <2>2, McpParameters DEF Connect, McpInv, ShapeInv, ListingInv
    <3>4. ToolsServed'
      BY <3>1 DEF ToolsServed
    <3>5. ClosedInv'
      <4>1. \A k \in 1 .. opened : closed[k] = 1
        BY <3>1 DEF McpInv, ClosedInv, SessionsClosedOnce
      <4>2. closed[opened + 1] = 0
        BY <2>2, McpParameters DEF McpInv, ShapeInv, ClosedInv, Sessions
      <4>3. opened \in Nat
        BY McpParameters DEF McpInv, ShapeInv
      <4>4. SessionsClosedOnce'
        BY <2>2, <3>1, <4>1, <4>2, <4>3 DEF SessionsClosedOnce
      <4>5. \A k \in Sessions : k > opened' => closed'[k] = 0
        BY <2>2, <3>1, <4>3, McpParameters DEF McpInv, ClosedInv, Sessions
      <4> QED BY <4>4, <4>5 DEF ClosedInv
    <3> QED BY <3>2, <3>3, <3>4, <3>5 DEF McpInv
  <2> QED BY <1>4, <2>1, <2>2 DEF Connect
<1>5. ASSUME NEW u \in Users, Page(u) PROVE McpInv'
  <2>0. InvalidateSession(Mine(u)) \/ UNCHANGED <<session, toolList, closed>>
    BY <1>5 DEF Page
  <2>1. /\ session' \in {0, session} /\ toolList' \in {0, toolList} /\ closed' \in [Sessions -> Nat]
        /\ ToolsServed' /\ ClosedInv'
    BY <1>5, <1>a, <2>0, InvalidateKeeps DEF Page, Mine
  <2>2. ShapeInv' /\ GivenInv'
    BY <1>5, <2>1, McpParameters DEF Page, McpInv, ShapeInv, GivenInv
  <2>3. CASE UNCHANGED startMu
    <3>1. use'[u].at \in Listing /\ use'[u].over = use[u].over
      BY <1>5, <2>3, McpParameters DEF Page, McpInv, ShapeInv, ListingInv
    <3> QED BY <1>5, <2>1, <2>2, <2>3, <3>1, ListingKept DEF Page, McpInv, ShapeInv
  <2>4. CASE startMu' = Free /\ use'[u].at = "over"
    BY <1>5, <2>1, <2>2, <2>4, ListingEnds DEF Page, McpInv, ShapeInv
  <2> QED BY <1>5, <2>3, <2>4 DEF Page, McpInv, ShapeInv
<1>6. ASSUME NEW u \in Users, Store(u) PROVE McpInv'
  <2>1. ShapeInv' /\ GivenInv'
    <3>1. toolList' = use[u].over /\ use[u].over \in 0 .. opened
      BY <1>6, <1>a, McpParameters DEF Store, Mine, McpInv, ShapeInv
    <3>2. use' = [use EXCEPT ![u].at = "over", ![u].got = use[u].over]
      BY <1>6 DEF Store, Mine
    <3>3. ShapeInv'
      <4>1. UNCHANGED <<session, opened, closed>> /\ startMu' = Free
        BY <1>6 DEF Store
      <4>2. use' \in [Users -> [at : Places, call : Calls, over : Nat, page : Nat,
                               attempt : 0 .. 1, got : Nat]]
        <5>1. use[u].over \in Nat /\ use \in [Users -> [at : Places, call : Calls, over : Nat,
                                       page : Nat, attempt : 0 .. 1, got : Nat]]
          BY <1>a DEF McpInv, ShapeInv
        <5>2. [use[u] EXCEPT !.at = "over", !.got = use[u].over] \in
                 [at : Places, call : Calls, over : Nat, page : Nat, attempt : 0 .. 1, got : Nat]
          BY <5>1 DEF Places
        <5>3. use' = [use EXCEPT ![u] = [use[u] EXCEPT !.at = "over", !.got = use[u].over]]
          BY <3>2, <5>1
        <5> QED BY <5>1, <5>2, <5>3
      <4>3. \A v \in Users : use'[v].over = use[v].over /\ use'[v].page = use[v].page
        BY <3>2 DEF McpInv, ShapeInv
      <4> QED BY <3>1, <4>1, <4>2, <4>3 DEF McpInv, ShapeInv
    <3>4. GivenInv'
      BY <1>6, <3>2 DEF McpInv, ShapeInv, GivenInv
    <3> QED BY <3>3, <3>4
  <2>2. ListingInv'
    BY <1>6, ListingEnds DEF Store, McpInv, ShapeInv
  <2>3. ToolsServed'
    BY <1>6 DEF Store, Mine, McpInv, ListingInv, ToolsServed
  <2>4. ClosedInv'
    BY <1>6 DEF Store, McpInv, ClosedInv, SessionsClosedOnce
  <2> QED BY <2>1, <2>2, <2>3, <2>4 DEF McpInv
<1>7. ASSUME NEW u \in Users, CallTool(u) PROVE McpInv'
  <2>0. InvalidateSession(Mine(u)) \/ UNCHANGED <<session, toolList, closed>>
    BY <1>7 DEF CallTool
  <2>1. /\ session' \in {0, session} /\ toolList' \in {0, toolList} /\ closed' \in [Sessions -> Nat]
        /\ ToolsServed' /\ ClosedInv'
    BY <1>7, <1>a, <2>0, InvalidateKeeps DEF CallTool, Mine
  <2>2. ShapeInv' /\ GivenInv'
    BY <1>7, <2>1 DEF CallTool, McpInv, ShapeInv, GivenInv
  <2>3. ListingInv'
    BY <1>7, <2>1, ListingKept DEF CallTool, McpInv, ShapeInv
  <2> QED BY <2>1, <2>2, <2>3 DEF McpInv
<1>8. ASSUME NEW u \in Users, Probe(u) PROVE McpInv'
  <2>1. ShapeInv' /\ GivenInv'
    BY <1>8 DEF Probe, McpInv, ShapeInv, GivenInv
  <2>2. ListingInv'
    BY <1>8, ListingKept DEF Probe, McpInv, ShapeInv
  <2> QED BY <1>8, <1>q, <2>1, <2>2 DEF Probe
<1>9. ASSUME NEW u \in Users, Ping(u) PROVE McpInv'
  <2>1. /\ session' \in {0, session} /\ toolList' \in {0, toolList} /\ closed' \in [Sessions -> Nat]
        /\ ToolsServed' /\ ClosedInv'
    BY <1>9, <1>a, InvalidateKeeps DEF Ping, Mine
  <2>2. ShapeInv' /\ GivenInv'
    BY <1>9, <2>1 DEF Ping, McpInv, ShapeInv, GivenInv
  <2>3. ListingInv'
    BY <1>9, <2>1, ListingKept DEF Ping, McpInv, ShapeInv
  <2> QED BY <2>1, <2>2, <2>3 DEF McpInv
<1>10. ASSUME NEW u \in Users, CloseClient(u) PROVE McpInv'
  <2>1. ShapeInv' /\ GivenInv'
    <3>1. closed' \in [Sessions -> Nat]
      <4>1. closed \in [Sessions -> Nat] /\ session \in Nat
        BY DEF McpInv, ShapeInv
      <4>2. closed' = closed \/ closed' = [closed EXCEPT ![session] = @ + 1]
        BY <1>10 DEF CloseClient
      <4> QED BY <4>1, <4>2, CloseOnce
    <3> QED BY <1>10, <3>1, McpParameters DEF CloseClient, McpInv, ShapeInv, GivenInv
  <2>2. ListingInv'
    BY <1>10, ListingKept DEF CloseClient, McpInv, ShapeInv
  <2>3. ToolsServed'
    BY <1>10 DEF CloseClient, ToolsServed
  <2>4. ClosedInv'
    <3>1. CASE session = 0
      BY <1>10, <3>1 DEF CloseClient, McpInv, ClosedInv, SessionsClosedOnce
    <3>2. CASE session # 0
      <4>1. /\ opened' = opened /\ session' = 0 /\ session \in Sessions
            /\ \A j \in Sessions : closed'[j] = IF j = session THEN closed[j] + 1 ELSE closed[j]
        BY <1>10, <3>2, CloseOnce, McpParameters DEF CloseClient, McpInv, ShapeInv, Sessions
      <4>2. session <= opened /\ \A j \in 1 .. opened : j \in Sessions
        BY McpParameters DEF McpInv, ShapeInv, Sessions
      <4>3. SessionsClosedOnce'
        BY <4>1, <4>2, McpParameters DEF McpInv, ShapeInv, ClosedInv, SessionsClosedOnce
      <4>4. \A k \in Sessions : k > opened' => closed'[k] = 0
        BY <4>1, <4>2, McpParameters DEF McpInv, ShapeInv, ClosedInv, Sessions
      <4> QED BY <4>3, <4>4 DEF ClosedInv
    <3> QED BY <3>1, <3>2
  <2> QED BY <2>1, <2>2, <2>3, <2>4 DEF McpInv
<1>11. CASE UNCHANGED mcpVars
  BY <1>11 DEF mcpVars, McpInv, ShapeInv, GivenInv, ListingInv, ToolsServed, ClosedInv,
               SessionsClosedOnce
<1> QED BY <1>1, <1>2, <1>3, <1>4, <1>5, <1>6, <1>7, <1>8, <1>9, <1>10, <1>11 DEF McpNext

\* Nobody has begun.
LEMMA McpInvFirst == McpInit => McpInv
  BY McpParameters DEF McpInit, McpInv, ShapeInv, GivenInv, ListingInv, ToolsServed, ClosedInv, SessionsClosedOnce, IdleUse, Sessions, Places, Calls, Listing, Locked, Served

-----------------------------------------------------------------------------
(* The client: theorems *)

\* The invariant holds throughout.
LEMMA McpInvAlways == McpSpec => []McpInv
  BY McpInvFirst, McpInvKept, PTL DEF McpSpec

\* The types of the client, for every set of callers and every number of sessions.
THEOREM McpTypeCorrect == McpSpec => []McpTypeOK
<1>1. McpInv => McpTypeOK
  BY McpParameters DEF McpInv, ShapeInv, McpTypeOK
<1> QED BY <1>1, McpInvAlways, PTL

\* No caller is served the tools of a session that was replaced: what is cached beside a
\* session was listed over it, although a list is stored without a look at what became
\* of the session it was read over (client.go, discover and invalidate).
THEOREM ToolsServedAlways == McpSpec => []ToolsServed
  BY McpInvAlways, PTL DEF McpInv

\* Every session that is not in use any more was closed, and closed once, however many
\* callers saw it fail (client.go, invalidate and Close).
THEOREM SessionsClosedOnceAlways == McpSpec => []SessionsClosedOnce
<1>1. McpInv => SessionsClosedOnce
  BY DEF McpInv, ClosedInv
<1> QED BY <1>1, McpInvAlways, PTL

-----------------------------------------------------------------------------
(* The event bus *)

\* A dispatcher goroutine, and a subscription with its worker.
Dispatcher ==
  [at : {"look", "fan", "wait", "over"}, rest : Seq(Nat), event : Nat,
   token : BOOLEAN, cancelled : BOOLEAN]
Subscription ==
  [type : {All, "done"}, at : {"look", "wait", "over"}, queue : Seq(Nat), got : Seq(Nat),
   since : Nat, token : BOOLEAN, cancelled : BOOLEAN, leaving : BOOLEAN]

\* The shape of the state.
BusShape ==
  /\ published \in Nat /\ current \in Nat
  /\ subscribers \in Seq(Nat) /\ incoming \in Seq(Nat)
  /\ dispatchers \in Seq(Dispatcher) /\ subs \in Seq(Subscription)

\* Who is in the list has not left, and there is a dispatcher while somebody is in it.
Membership ==
  /\ Distinct(subscribers)
  /\ \A s \in Nat : Occurs(subscribers, s) <=> s \in DOMAIN subs /\ ~subs[s].leaving
  /\ \A s \in DOMAIN subs : subs[s].cancelled => subs[s].leaving
  /\ current = 0 \/ current \in DOMAIN dispatchers
  /\ subscribers = <<>> <=> current = 0
  /\ incoming # <<>> => current # 0
  /\ \A d \in DOMAIN dispatchers : dispatchers[d].cancelled <=> d # current
  /\ \A d \in DOMAIN dispatchers : dispatchers[d].at = "over" => d # current

\* What a dispatcher is handing out: a cancelled one to who has left, no two to the same.
Handout ==
  \A d \in DOMAIN dispatchers :
    /\ dispatchers[d].at # "fan" => dispatchers[d].rest = <<>>
    /\ Distinct(dispatchers[d].rest)
    /\ \A s \in Nat :
         Occurs(dispatchers[d].rest, s) =>
           /\ s \in DOMAIN subs
           /\ d # current => subs[s].leaving
           /\ \A e \in DOMAIN dispatchers : Occurs(dispatchers[e].rest, s) => e = d

\* The order of the events: what was received, what is handed out, what is queued.
Order ==
  /\ Increasing(incoming)
  /\ \A n \in Nat : Occurs(incoming, n) => n \in 1 .. published
  /\ \A s \in DOMAIN subs :
       /\ Increasing(Held(s))
       /\ \A n \in Nat : Occurs(Held(s), n) => n \in 1 .. published
       /\ Occurs(subscribers, s) =>
            \A m, n \in Nat : Occurs(Held(s), m) /\ Occurs(incoming, n) => m < n
  /\ \A d \in DOMAIN dispatchers : dispatchers[d].at = "fan" =>
       /\ dispatchers[d].event \in 1 .. published
       /\ \A s, m \in Nat : Occurs(dispatchers[d].rest, s) /\ Occurs(Held(s), m) =>
            m < dispatchers[d].event
       /\ d = current => \A n \in Nat : Occurs(incoming, n) => dispatchers[d].event < n

\* An event that a subscriber wants has come, is handed out or is queued.
Whole ==
  \A s \in DOMAIN subs : Occurs(subscribers, s) =>
    \A n \in subs[s].since + 1 .. published : Wants(s, n) =>
      \/ Occurs(Held(s), n) \/ Occurs(incoming, n)
      \/ \E d \in DOMAIN dispatchers :
           dispatchers[d].at = "fan" /\ dispatchers[d].event = n /\ Occurs(dispatchers[d].rest, s)

\* Nobody sleeps over work: who waits with something queued has its token.
Awake ==
  /\ incoming # <<>> => (dispatchers[current].at = "wait" => dispatchers[current].token)
  /\ \A s \in DOMAIN subs : subs[s].at = "wait" /\ subs[s].queue # <<>> => subs[s].token

\* The inductive invariant of the bus.
BusInv == BusShape /\ Membership /\ Handout /\ Order /\ Whole /\ Awake

\* An event is queued behind all others, and the dispatcher's token is set.
LEMMA PublishKeeps == ASSUME BusInv, Publish PROVE BusInv'
<1> DEFINE n == published + 1
           g == [dispatchers[current] EXCEPT !.token = TRUE]
<1>1. /\ published \in Nat /\ n \in Nat /\ n # 0 /\ published' = n
      /\ current \in DOMAIN dispatchers /\ subscribers # <<>>
      /\ incoming \in Seq(Nat) /\ incoming' = Append(incoming, n)
      /\ UNCHANGED <<subscribers, current, subs>>
      /\ dispatchers' = [dispatchers EXCEPT ![current] = g]
      /\ dispatchers \in Seq(Dispatcher)
  BY DEF BusInv, BusShape, Membership, Publish
<1>2. /\ g \in Dispatcher /\ g.token
      /\ \A f \in {"at", "rest", "event", "cancelled"} : g[f] = dispatchers[current][f]
  <2>1. dispatchers[current] \in Dispatcher
    BY <1>1
  <2> QED BY <2>1 DEF Dispatcher
<1> HIDE DEF g
<1>3. /\ dispatchers' \in Seq(Dispatcher) /\ DOMAIN dispatchers' = DOMAIN dispatchers
      /\ dispatchers'[current].token
      /\ \A d \in DOMAIN dispatchers : /\ dispatchers'[d].at = dispatchers[d].at
                                       /\ dispatchers'[d].rest = dispatchers[d].rest
                                       /\ dispatchers'[d].event = dispatchers[d].event
                                       /\ dispatchers'[d].cancelled = dispatchers[d].cancelled
  <2>1. /\ dispatchers' \in Seq(Dispatcher) /\ DOMAIN dispatchers' = DOMAIN dispatchers
        /\ dispatchers'[current] = g
        /\ \A d \in DOMAIN dispatchers : d # current => dispatchers'[d] = dispatchers[d]
    BY <1>1, <1>2, Replaced
  <2> QED BY <1>1, <1>2, <2>1
<1>4. \A s : Held(s)' = Held(s)
  BY <1>1 DEF Held
<1>5. \A x \in Nat : Occurs(incoming, x) => x <= published /\ x < n
  BY <1>1 DEF BusInv, Order
<1>6. /\ incoming' \in Seq(Nat) /\ incoming' # <<>>
      /\ \A x : Occurs(incoming', x) <=> Occurs(incoming, x) \/ x = n
      /\ Increasing(incoming')
  <2>1. \A x : Occurs(incoming, x) => x \in Nat
    BY <1>1 DEF Occurs
  <2>2. Increasing(incoming) /\ \A x : Occurs(incoming, x) => x < n
    BY <1>5, <2>1 DEF BusInv, Order
  <2> HIDE DEF n
  <2> QED BY <1>1, <2>2, OccursAppend
<1> HIDE DEF n
<1>7. BusShape'
  BY <1>1, <1>3, <1>6 DEF BusInv, BusShape
<1>8. Membership'
  BY <1>1, <1>3 DEF BusInv, Membership
<1>9. Handout'
  BY <1>1, <1>3 DEF BusInv, Handout
<1>10. Order'
  <2>1. \A x \in Nat : Occurs(incoming', x) => x \in 1 .. published'
    BY <1>1, <1>6 DEF BusInv, Order, n
  <2>2. ASSUME NEW s \in DOMAIN subs'
        PROVE  /\ Increasing(Held(s)')
               /\ \A x \in Nat : Occurs(Held(s)', x) => x \in 1 .. published'
               /\ Occurs(subscribers', s) =>
                    \A m, x \in Nat : Occurs(Held(s)', m) /\ Occurs(incoming', x) => m < x
    BY <1>1, <1>4, <1>6, <2>2 DEF BusInv, Order, n
  <2>3. ASSUME NEW d \in DOMAIN dispatchers', dispatchers'[d].at = "fan"
        PROVE  /\ dispatchers'[d].event \in 1 .. published'
               /\ \A s, m \in Nat : Occurs(dispatchers'[d].rest, s) /\ Occurs(Held(s)', m) =>
                    m < dispatchers'[d].event
               /\ d = current' => \A x \in Nat : Occurs(incoming', x) => dispatchers'[d].event < x
    BY <1>1, <1>3, <1>4, <1>6, <2>3 DEF BusInv, Order, n
  <2> QED BY <1>6, <2>1, <2>2, <2>3 DEF Order
<1>11. Whole'
  <2>0. \A s, x : Wants(s, x)' <=> Wants(s, x)
    BY <1>1 DEF Wants
  <2>3. subs' = subs /\ subscribers' = subscribers /\ published' = n
    BY <1>1
  <2>4. DOMAIN dispatchers' = DOMAIN dispatchers
    BY <1>3
  <2>5. \A d \in DOMAIN dispatchers :
           dispatchers[d].at = "fan" => /\ dispatchers'[d].at = "fan"
                                        /\ dispatchers'[d].event = dispatchers[d].event
                                        /\ dispatchers'[d].rest = dispatchers[d].rest
    BY <1>3
  <2> SUFFICES ASSUME NEW s \in DOMAIN subs, Occurs(subscribers, s),
                      NEW x \in subs[s].since + 1 .. n, Wants(s, x)
               PROVE  \/ Occurs(Held(s), x) \/ Occurs(incoming', x)
                      \/ \E d \in DOMAIN dispatchers : /\ dispatchers[d].at = "fan"
                                                       /\ dispatchers[d].event = x
                                                       /\ Occurs(dispatchers[d].rest, s)
    BY <1>4, <2>0, <2>3, <2>4, <2>5 DEF Whole
  <2>1. CASE x = n
    BY <1>6, <2>1
  <2>2. CASE x # n
    <3>1. subs[s].since \in Nat
      <4>1. subs[s] \in Subscription
        BY DEF BusInv, BusShape
      <4> QED BY <4>1 DEF Subscription
    <3>2. x \in subs[s].since + 1 .. published
      BY <1>1, <2>2, <3>1 DEF n
    <3> QED BY <1>6, <3>2 DEF BusInv, Whole
  <2> QED BY <2>1, <2>2
<1>12. Awake'
  BY <1>1, <1>3 DEF BusInv, Awake
<1> QED BY <1>7, <1>8, <1>9, <1>10, <1>11, <1>12 DEF BusInv

\* A new subscription is at the end of the list, and the first one starts a dispatcher.
LEMMA SubscribeKeeps == ASSUME BusInv, Subscribe PROVE BusInv'
<1> DEFINE new == Len(subs) + 1
<1>1. PICK type \in {All, "done"} :
        /\ subs' = Append(subs, NewSubscription(type))
        /\ Len(subs') = new /\ subscribers' = Append(subscribers, new)
        /\ UNCHANGED <<incoming, published>>
  <2>1. PICK type \in {All} \cup {"done"} : subs' = Append(subs, NewSubscription(type))
    BY DEF Subscribe
  <2>2. subs \in Seq(Subscription) /\ Len(subs') = new
    BY <2>1 DEF BusInv, BusShape
  <2> QED BY <2>1, <2>2 DEF Subscribe
<1>2. NewSubscription(type) \in Subscription
  BY DEF BusInv, BusShape, NewSubscription, Subscription
<1>3. /\ subs' \in Seq(Subscription) /\ new \notin DOMAIN subs /\ new \in Nat
      /\ DOMAIN subs' = DOMAIN subs \cup {new} /\ subs'[new] = NewSubscription(type)
      /\ \A s \in DOMAIN subs : subs'[s] = subs[s]
  <2>1. subs \in Seq(Subscription)
    BY DEF BusInv, BusShape
  <2> QED BY <1>1, <1>2, <2>1, Added
<1> HIDE DEF new
<1>4. ~Occurs(subscribers, new) /\ \A d \in DOMAIN dispatchers : ~Occurs(dispatchers[d].rest, new)
  BY <1>3 DEF BusInv, Membership, Handout
<1>5. /\ subscribers' \in Seq(Nat) /\ Distinct(subscribers') /\ subscribers' # <<>>
      /\ \A s : Occurs(subscribers', s) <=> Occurs(subscribers, s) \/ s = new
  <2>1. subscribers \in Seq(Nat) /\ Distinct(subscribers)
    BY DEF BusInv, BusShape, Membership
  <2> QED BY <1>1, <1>3, <1>4, <2>1, OccursAppend
<1>6. /\ \A s \in DOMAIN subs' : s = new => Held(s)' = <<>>
      /\ \A s \in DOMAIN subs : Held(s)' = Held(s)
  <2>1. ASSUME NEW s \in DOMAIN subs', s = new PROVE Held(s)' = <<>>
    <3>1. subs'[s].got = <<>> /\ subs'[s].queue = <<>> /\ <<>> \in Seq(Nat)
      BY <1>3, <2>1 DEF NewSubscription
    <3> QED BY <3>1, ConcatEmptySeq DEF Held
  <2>2. ASSUME NEW s \in DOMAIN subs PROVE Held(s)' = Held(s)
    BY <1>3 DEF Held
  <2> QED BY <2>1, <2>2
<1>7. /\ dispatchers' \in Seq(Dispatcher)
      /\ \A d \in DOMAIN dispatchers : d \in DOMAIN dispatchers' /\ dispatchers'[d] = dispatchers[d]
      /\ current' \in DOMAIN dispatchers' /\ current' \in Nat /\ current' # 0
      /\ IF current # 0 THEN UNCHANGED <<current, dispatchers>>
         ELSE /\ DOMAIN dispatchers' = DOMAIN dispatchers \cup {current'}
              /\ current' \notin DOMAIN dispatchers /\ dispatchers'[current'] = NewDispatcher
  <2>1. dispatchers \in Seq(Dispatcher) /\ NewDispatcher \in Dispatcher /\ current \in Nat
    BY DEF BusInv, BusShape, NewDispatcher, Dispatcher
  <2>2. CASE current # 0
    BY <2>1, <2>2 DEF BusInv, Membership, Subscribe
  <2>3. CASE current = 0
    <3>1. dispatchers' = Append(dispatchers, NewDispatcher) /\ current' = Len(dispatchers')
      BY <2>3 DEF Subscribe
    <3> HIDE DEF NewDispatcher
    <3>2. /\ dispatchers' \in Seq(Dispatcher) /\ current' = Len(dispatchers) + 1
          /\ current' \notin DOMAIN dispatchers /\ current' \in Nat \ {0}
          /\ DOMAIN dispatchers' = DOMAIN dispatchers \cup {current'}
          /\ dispatchers'[current'] = NewDispatcher
          /\ \A d \in DOMAIN dispatchers : dispatchers'[d] = dispatchers[d]
      BY <2>1, <3>1, Added
    <3> QED BY <2>3, <3>2
  <2> QED BY <2>2, <2>3
<1>8. \A d \in DOMAIN dispatchers' :
        \/ d \in DOMAIN dispatchers /\ dispatchers'[d] = dispatchers[d]
        \/ /\ d = current' /\ dispatchers'[d].rest = <<>> /\ dispatchers'[d].at = "look"
           /\ ~dispatchers'[d].cancelled
  BY <1>7 DEF NewDispatcher
<1>9. BusShape'
  BY <1>1, <1>3, <1>5, <1>7 DEF BusInv, BusShape
<1>10. Membership'
  <2>1. \A s \in Nat : Occurs(subscribers', s) <=> s \in DOMAIN subs' /\ ~subs'[s].leaving
    BY <1>3, <1>4, <1>5 DEF BusInv, Membership, NewSubscription
  <2>2. \A s \in DOMAIN subs' : subs'[s].cancelled => subs'[s].leaving
    BY <1>3 DEF BusInv, Membership, NewSubscription
  <2>3. /\ \A d \in DOMAIN dispatchers' : dispatchers'[d].cancelled <=> d # current'
        /\ \A d \in DOMAIN dispatchers' : dispatchers'[d].at = "over" => d # current'
    BY <1>7, <1>8 DEF BusInv, Membership
  <2> QED BY <1>1, <1>5, <1>7, <2>1, <2>2, <2>3 DEF Membership
<1>11. Handout'
  <2>1. ASSUME NEW d \in DOMAIN dispatchers, d # current' PROVE d # current
    BY <1>7, <2>1
  <2>2. ASSUME NEW d \in DOMAIN dispatchers'
        PROVE  /\ dispatchers'[d].at # "fan" => dispatchers'[d].rest = <<>>
               /\ Distinct(dispatchers'[d].rest)
    BY <1>8, <2>2, OccursEmpty DEF BusInv, Handout
  <2>3. ASSUME NEW d \in DOMAIN dispatchers', NEW s \in Nat, Occurs(dispatchers'[d].rest, s)
        PROVE  /\ s \in DOMAIN subs'
               /\ d # current' => subs'[s].leaving
               /\ \A e \in DOMAIN dispatchers' : Occurs(dispatchers'[e].rest, s) => e = d
    <3>1. \A e \in DOMAIN dispatchers' : Occurs(dispatchers'[e].rest, s) =>
            e \in DOMAIN dispatchers /\ dispatchers'[e] = dispatchers[e]
      BY <1>8, OccursEmpty
    <3>2. d \in DOMAIN dispatchers /\ Occurs(dispatchers[d].rest, s)
      BY <2>3, <3>1
    <3> QED BY <1>3, <2>1, <3>1, <3>2 DEF BusInv, Handout
  <2> QED BY <2>2, <2>3 DEF Handout
<1>12. Order'
  <2>1. ASSUME NEW s \in DOMAIN subs'
        PROVE  /\ Increasing(Held(s)')
               /\ \A x \in Nat : Occurs(Held(s)', x) => x \in 1 .. published'
               /\ Occurs(subscribers', s) =>
                    \A m, x \in Nat : Occurs(Held(s)', m) /\ Occurs(incoming', x) => m < x
    <3>1. CASE s = new
      BY <1>6, <3>1, OccursEmpty
    <3>2. CASE s # new
      BY <1>1, <1>3, <1>5, <1>6, <3>2 DEF BusInv, Order
    <3> QED BY <3>1, <3>2
  <2>2. ASSUME NEW d \in DOMAIN dispatchers', dispatchers'[d].at = "fan"
        PROVE  /\ dispatchers'[d].event \in 1 .. published'
               /\ \A s, m \in Nat : Occurs(dispatchers'[d].rest, s) /\ Occurs(Held(s)', m) =>
                    m < dispatchers'[d].event
               /\ d = current' => \A x \in Nat : Occurs(incoming', x) => dispatchers'[d].event < x
    <3>1. d \in DOMAIN dispatchers /\ dispatchers'[d] = dispatchers[d]
      BY <1>8, <2>2
    <3>2. d = current' => d = current
      BY <1>7, <3>1
    <3>3. \A s \in Nat : Occurs(dispatchers[d].rest, s) => s \in DOMAIN subs
      BY <3>1 DEF BusInv, Handout
    <3> QED BY <1>1, <1>6, <2>2, <3>1, <3>2, <3>3 DEF BusInv, Order
  <2> QED BY <1>1, <2>1, <2>2 DEF BusInv, Order
<1>13. Whole'
  <2> SUFFICES ASSUME NEW s \in DOMAIN subs', Occurs(subscribers', s),
                      NEW x \in subs'[s].since + 1 .. published, Wants(s, x)'
               PROVE  \/ Occurs(Held(s)', x) \/ Occurs(incoming, x)
                      \/ \E d \in DOMAIN dispatchers' : /\ dispatchers'[d].at = "fan"
                                                        /\ dispatchers'[d].event = x
                                                        /\ Occurs(dispatchers'[d].rest, s)
    BY <1>1 DEF Whole
  <2>1. s # new
    <3>1. subs'[new].since = published /\ published \in Nat
      BY <1>3 DEF NewSubscription, BusInv, BusShape
    <3> QED BY <3>1
  <2>2. s \in DOMAIN subs /\ subs'[s] = subs[s] /\ Occurs(subscribers, s) /\ Held(s)' = Held(s)
    BY <1>3, <1>5, <1>6, <2>1
  <2>3. Wants(s, x)
    BY <2>2 DEF Wants
  <2>4. \/ Occurs(Held(s), x) \/ Occurs(incoming, x)
        \/ \E d \in DOMAIN dispatchers : /\ dispatchers[d].at = "fan"
                                         /\ dispatchers[d].event = x
                                         /\ Occurs(dispatchers[d].rest, s)
    BY <2>2, <2>3 DEF BusInv, Whole
  <2> QED BY <1>7, <2>2, <2>4
<1>14. Awake'
  <2>1. \A s \in DOMAIN subs' : subs'[s].at = "wait" /\ subs'[s].queue # <<>> => subs'[s].token
    BY <1>3 DEF BusInv, Awake, NewSubscription
  <2>2. incoming' # <<>> => current # 0
    BY <1>1 DEF BusInv, Membership
  <2>3. incoming' # <<>> => (dispatchers'[current'].at = "wait" => dispatchers'[current'].token)
    BY <1>1, <1>7, <2>2 DEF BusInv, Awake
  <2> QED BY <2>1, <2>3 DEF Awake
<1> QED BY <1>9, <1>10, <1>11, <1>12, <1>13, <1>14 DEF BusInv

\* A dispatcher that has nothing to hand out goes on, goes to sleep, wakes up or ends.
LEMMA RestingKeeps ==
  ASSUME BusInv, NEW d \in DOMAIN dispatchers, dispatchers[d].rest = <<>>,
         NEW g \in Dispatcher, dispatchers' = [dispatchers EXCEPT ![d] = g],
         g.at \in {"look", "wait", "over"}, g.rest = dispatchers[d].rest,
         g.cancelled = dispatchers[d].cancelled, g.at = "over" => g.cancelled,
         g.at = "wait" => incoming = <<>>,
         UNCHANGED <<subscribers, incoming, current, published, subs>>
  PROVE  BusInv'
<1>1. /\ dispatchers' \in Seq(Dispatcher) /\ DOMAIN dispatchers' = DOMAIN dispatchers
      /\ dispatchers'[d] = g
      /\ \A e \in DOMAIN dispatchers : e # d => dispatchers'[e] = dispatchers[e]
  <2>1. dispatchers \in Seq(Dispatcher)
    BY DEF BusInv, BusShape
  <2> QED BY <2>1, Replaced
<1>2. \A e \in DOMAIN dispatchers :
        /\ dispatchers'[e].rest = dispatchers[e].rest
        /\ dispatchers'[e].cancelled = dispatchers[e].cancelled
        /\ dispatchers'[e].at = "fan" => e # d
        /\ (\E s : Occurs(dispatchers[e].rest, s)) => e # d
  BY <1>1, OccursEmpty
<1>3. \A s : Held(s)' = Held(s)
  BY DEF Held
<1>4. BusShape' /\ Membership'
  BY <1>1, <1>2 DEF BusInv, BusShape, Membership
<1>5. Handout'
  BY <1>1, <1>2 DEF BusInv, Handout
<1>6. Order'
  <2>1. ASSUME NEW e \in DOMAIN dispatchers', dispatchers'[e].at = "fan"
        PROVE  e \in DOMAIN dispatchers /\ dispatchers'[e] = dispatchers[e]
    BY <1>1, <1>2, <2>1
  <2> QED BY <1>3, <2>1 DEF BusInv, Order
<1>7. Whole'
  <2>1. \A s, x : Wants(s, x)' <=> Wants(s, x)
    BY DEF Wants
  <2> QED BY <1>1, <1>2, <1>3, <2>1 DEF BusInv, Whole
<1>8. Awake'
  BY <1>1 DEF BusInv, Awake, Membership
<1> QED BY <1>4, <1>5, <1>6, <1>7, <1>8 DEF BusInv

\* A dispatcher that has a token looks again, one that was cancelled ends.
LEMMA WakeDispatcherKeeps ==
  ASSUME BusInv, NEW d \in DOMAIN dispatchers, WakeDispatcher(d) PROVE BusInv'
<1>1. dispatchers[d] \in Dispatcher /\ dispatchers[d].rest = <<>>
  BY DEF BusInv, BusShape, Handout, WakeDispatcher
<1>2. CASE dispatchers[d].cancelled /\ dispatchers' = [dispatchers EXCEPT ![d] = Ended(@)]
  <2> DEFINE g == Ended(dispatchers[d])
  <2>1. /\ g \in Dispatcher /\ g.at = "over" /\ g.cancelled /\ g.rest = dispatchers[d].rest
        /\ dispatchers[d].cancelled = TRUE
    BY <1>1, <1>2 DEF Ended, Dispatcher
  <2>2. dispatchers' = [dispatchers EXCEPT ![d] = g]
    BY <1>2
  <2> HIDE DEF g
  <2> QED BY <1>1, <2>1, <2>2, RestingKeeps DEF WakeDispatcher
<1>3. CASE dispatchers' = [dispatchers EXCEPT ![d].at = "look", ![d].token = FALSE]
  <2> DEFINE g == [dispatchers[d] EXCEPT !.at = "look", !.token = FALSE]
  <2>1. /\ g \in Dispatcher /\ g.at = "look" /\ g.cancelled = dispatchers[d].cancelled
        /\ g.rest = dispatchers[d].rest
    BY <1>1 DEF Dispatcher
  <2>2. dispatchers' = [dispatchers EXCEPT ![d] = g]
    BY <1>3
  <2> HIDE DEF g
  <2> QED BY <1>1, <2>1, <2>2, RestingKeeps DEF WakeDispatcher
<1> QED BY <1>2, <1>3 DEF WakeDispatcher

\* A dispatcher takes the oldest event and a copy of the list.
LEMMA TakeKeeps ==
  ASSUME BusInv, NEW d \in DOMAIN dispatchers, Look(d), ~dispatchers[d].cancelled,
         incoming # <<>>
  PROVE  BusInv'
<1> DEFINE n == Head(incoming)
           g == [dispatchers[d] EXCEPT !.at = "fan", !.event = n, !.rest = subscribers]
<1>1. /\ d = current /\ incoming \in Seq(Nat) /\ Increasing(incoming)
      /\ subscribers \in Seq(Nat) /\ Distinct(subscribers)
  BY DEF BusInv, BusShape, Membership, Order
<1>2. /\ n \in Nat /\ incoming' = Tail(incoming) /\ incoming' \in Seq(Nat)
      /\ \A x : Occurs(incoming, x) <=> x = n \/ Occurs(incoming', x)
      /\ Increasing(incoming') /\ \A x : Occurs(incoming', x) => n < x
  BY <1>1, OccursTail DEF Look
<1>3. /\ dispatchers' = [dispatchers EXCEPT ![d] = g]
      /\ UNCHANGED <<subscribers, current, published, subs>>
  BY DEF Look
<1> HIDE DEF n
<1>4. /\ g \in Dispatcher /\ g.at = "fan" /\ g.event = n /\ g.rest = subscribers
      /\ g.cancelled = dispatchers[d].cancelled
  <2>1. dispatchers[d] \in Dispatcher
    BY DEF BusInv, BusShape
  <2> QED BY <1>1, <1>2, <2>1 DEF Dispatcher
<1> HIDE DEF g
<1>5. /\ dispatchers' \in Seq(Dispatcher) /\ DOMAIN dispatchers' = DOMAIN dispatchers
      /\ dispatchers'[d] = g
      /\ \A e \in DOMAIN dispatchers : e # d => dispatchers'[e] = dispatchers[e]
  <2>1. dispatchers \in Seq(Dispatcher)
    BY DEF BusInv, BusShape
  <2> QED BY <1>3, <1>4, <2>1, Replaced
<1>6. \A s : Held(s)' = Held(s)
  BY <1>3 DEF Held
<1>7. \A s \in Nat : Occurs(subscribers, s) =>
        /\ s \in DOMAIN subs
        /\ \A e \in DOMAIN dispatchers : e # d => ~Occurs(dispatchers[e].rest, s)
  BY <1>1 DEF BusInv, Membership, Handout
<1>8. BusShape'
  BY <1>2, <1>3, <1>5 DEF BusInv, BusShape
<1>9. Membership'
  BY <1>1, <1>2, <1>3, <1>4, <1>5, OccursEmpty DEF BusInv, Membership
<1>10. Handout'
  <2>1. ASSUME NEW e \in DOMAIN dispatchers'
        PROVE  /\ dispatchers'[e].at # "fan" => dispatchers'[e].rest = <<>>
               /\ Distinct(dispatchers'[e].rest)
    BY <1>1, <1>4, <1>5 DEF BusInv, Handout
  <2>2. ASSUME NEW e \in DOMAIN dispatchers', NEW s \in Nat, Occurs(dispatchers'[e].rest, s)
        PROVE  /\ s \in DOMAIN subs'
               /\ e # current' => subs'[s].leaving
               /\ \A f \in DOMAIN dispatchers' : Occurs(dispatchers'[f].rest, s) => f = e
    BY <1>1, <1>3, <1>4, <1>5, <1>7, <2>2 DEF BusInv, Handout
  <2> QED BY <2>1, <2>2 DEF Handout
<1>11. Order'
  <2>1. n \in 1 .. published
    BY <1>2 DEF BusInv, Order
  <2>2. \A s, m \in Nat : Occurs(subscribers, s) /\ Occurs(Held(s), m) => m < n
    BY <1>2, <1>7 DEF BusInv, Order
  <2>3. ASSUME NEW s \in DOMAIN subs'
        PROVE  /\ Increasing(Held(s)')
               /\ \A x \in Nat : Occurs(Held(s)', x) => x \in 1 .. published'
               /\ Occurs(subscribers', s) =>
                    \A m, x \in Nat : Occurs(Held(s)', m) /\ Occurs(incoming', x) => m < x
    BY <1>2, <1>3, <1>6 DEF BusInv, Order
  <2>4. ASSUME NEW e \in DOMAIN dispatchers', dispatchers'[e].at = "fan"
        PROVE  /\ dispatchers'[e].event \in 1 .. published'
               /\ \A s, m \in Nat : Occurs(dispatchers'[e].rest, s) /\ Occurs(Held(s)', m) =>
                    m < dispatchers'[e].event
               /\ e = current' => \A x \in Nat : Occurs(incoming', x) => dispatchers'[e].event < x
    <3>1. CASE e = d
      BY <1>2, <1>3, <1>4, <1>5, <1>6, <2>1, <2>2, <3>1
    <3>2. CASE e # d
      BY <1>1, <1>3, <1>5, <1>6, <2>4, <3>2 DEF BusInv, Order
    <3> QED BY <3>1, <3>2
  <2>5. Increasing(incoming') /\ \A x \in Nat : Occurs(incoming', x) => x \in 1 .. published'
    BY <1>2, <1>3 DEF BusInv, Order
  <2> QED BY <2>3, <2>4, <2>5 DEF Order
<1>12. Whole'
  <2> SUFFICES ASSUME NEW s \in DOMAIN subs, Occurs(subscribers, s),
                      NEW x \in subs[s].since + 1 .. published, Wants(s, x)
               PROVE  \/ Occurs(Held(s), x) \/ Occurs(incoming', x)
                      \/ \E e \in DOMAIN dispatchers : /\ dispatchers'[e].at = "fan"
                                                       /\ dispatchers'[e].event = x
                                                       /\ Occurs(dispatchers'[e].rest, s)
    BY <1>3, <1>5, <1>6 DEF Whole, Wants
  <2>1. CASE Occurs(Held(s), x)
    BY <2>1
  <2>2. CASE Occurs(incoming, x)
    BY <1>2, <1>4, <1>5, <2>2
  <2>3. ASSUME NEW e \in DOMAIN dispatchers, dispatchers[e].at = "fan",
               dispatchers[e].event = x, Occurs(dispatchers[e].rest, s)
        PROVE  dispatchers'[e] = dispatchers[e]
    BY <1>5, <2>3 DEF Look
  <2> QED BY <1>5, <2>1, <2>2, <2>3 DEF BusInv, Whole
<1>13. Awake'
  BY <1>1, <1>3, <1>4, <1>5 DEF BusInv, Awake
<1> QED BY <1>8, <1>9, <1>10, <1>11, <1>12, <1>13 DEF BusInv

\* A dispatcher takes the oldest event with a copy of the list, or goes to wait, or
\* ends.
LEMMA LookKeeps == ASSUME BusInv, NEW d \in DOMAIN dispatchers, Look(d) PROVE BusInv'
<1>1. dispatchers[d] \in Dispatcher /\ dispatchers[d].rest = <<>>
  BY DEF BusInv, BusShape, Handout, Look
<1>2. CASE dispatchers[d].cancelled
  <2> DEFINE g == Ended(dispatchers[d])
  <2>1. /\ g \in Dispatcher /\ g.at = "over" /\ g.cancelled /\ g.rest = dispatchers[d].rest
        /\ dispatchers[d].cancelled = TRUE
    BY <1>1, <1>2 DEF Ended, Dispatcher
  <2>2. dispatchers' = [dispatchers EXCEPT ![d] = g]
    BY <1>2 DEF Look
  <2> HIDE DEF g
  <2> QED BY <1>1, <1>2, <2>1, <2>2, RestingKeeps DEF Look
<1>3. CASE ~dispatchers[d].cancelled /\ incoming = <<>>
  <2> DEFINE g == [dispatchers[d] EXCEPT !.at = "wait"]
  <2>1. /\ g \in Dispatcher /\ g.at = "wait" /\ g.cancelled = dispatchers[d].cancelled
        /\ g.rest = dispatchers[d].rest
    BY <1>1 DEF Dispatcher
  <2>2. dispatchers' = [dispatchers EXCEPT ![d] = g]
    BY <1>3 DEF Look
  <2> HIDE DEF g
  <2> QED BY <1>1, <1>3, <2>1, <2>2, RestingKeeps DEF Look
<1> QED BY <1>2, <1>3, TakeKeeps

\* A dispatcher hands its event to the next of its copy, or skips it.
LEMMA HandKeeps ==
  ASSUME BusInv, NEW d \in DOMAIN dispatchers, Fan(d), dispatchers[d].rest # <<>>
  PROVE  BusInv'
<1> DEFINE ev == dispatchers[d].event
           rest == dispatchers[d].rest
           g == [dispatchers[d] EXCEPT !.rest = Tail(rest)]
           h == Head(rest)
           took == ~(subs[h].cancelled \/ ~Wants(h, ev))
           to == [subs[h] EXCEPT !.queue = Append(@, ev), !.token = @ \/ subs[h].queue = <<>>]
<1>1. /\ dispatchers[d] \in Dispatcher /\ dispatchers \in Seq(Dispatcher) /\ subs \in Seq(Subscription)
      /\ dispatchers[d].at = "fan"
  BY DEF BusInv, BusShape, Fan
<1>2. /\ rest \in Seq(Nat) /\ Distinct(rest) /\ ev \in Nat /\ ev \in 1 .. published
      /\ g \in Dispatcher /\ g.at = "fan" /\ g.event = ev /\ g.rest = Tail(rest)
      /\ g.cancelled = dispatchers[d].cancelled
  <2>1. rest \in Seq(Nat) /\ ev \in Nat /\ Tail(rest) \in Seq(Nat)
    BY <1>1 DEF Dispatcher
  <2>2. g \in Dispatcher /\ g.rest = Tail(rest)
    BY <1>1, <2>1 DEF Dispatcher
  <2>3. g.at = "fan" /\ g.event = ev /\ g.cancelled = dispatchers[d].cancelled
    BY <1>1 DEF Dispatcher
  <2> QED BY <1>1, <2>1, <2>2, <2>3 DEF BusInv, Handout, Order
<1>3. /\ h \in Nat /\ Tail(rest) \in Seq(Nat) /\ Distinct(Tail(rest)) /\ ~Occurs(Tail(rest), h)
      /\ \A s : Occurs(rest, s) <=> s = h \/ Occurs(Tail(rest), s)
  BY <1>2, OccursTail
<1>4. /\ h \in DOMAIN subs
      /\ \A m \in Nat : Occurs(Held(h), m) => m < ev
  BY <1>1, <1>3 DEF BusInv, Handout, Order
<1>5. /\ dispatchers' = [dispatchers EXCEPT ![d] = g]
      /\ UNCHANGED <<subscribers, incoming, current, published>>
      /\ took => subs' = [subs EXCEPT ![h] = to]
      /\ ~took => subs' = subs
  <2>1. dispatchers' = [dispatchers EXCEPT ![d] = g] /\ UNCHANGED <<subscribers, incoming, current, published>>
    BY DEF Fan
  <2>2. IF subs[h].cancelled \/ ~Wants(h, ev) THEN UNCHANGED subs
        ELSE subs' = [subs EXCEPT ![h].queue = Append(@, ev),
                                  ![h].token = @ \/ subs[h].queue = <<>>]
    BY DEF Fan
  <2> QED BY <2>1, <2>2
<1>6. /\ to \in Subscription /\ to.token = (subs[h].token \/ subs[h].queue = <<>>)
      /\ to.queue = Append(subs[h].queue, ev)
      /\ \A f \in {"type", "at", "got", "since", "cancelled", "leaving"} : to[f] = subs[h][f]
  <2>1. subs[h] \in Subscription
    BY <1>1, <1>4
  <2>2. PICK q : q = Append(subs[h].queue, ev)
    OBVIOUS
  <2>3. PICK t : t = (subs[h].token \/ subs[h].queue = <<>>)
    OBVIOUS
  <2>4. q \in Seq(Nat) /\ t \in BOOLEAN
    BY <1>2, <2>1, <2>2, <2>3 DEF Subscription
  <2>5. to = [subs[h] EXCEPT !.queue = q, !.token = t]
    BY <2>2, <2>3
  <2>6. /\ to \in Subscription /\ to.token = t /\ to.queue = q
        /\ \A f \in {"type", "at", "got", "since", "cancelled", "leaving"} : to[f] = subs[h][f]
    BY <2>1, <2>4, <2>5 DEF Subscription
  <2> HIDE DEF to
  <2> QED BY <2>2, <2>3, <2>6
<1> HIDE DEF g, to
<1>7. /\ dispatchers' \in Seq(Dispatcher) /\ DOMAIN dispatchers' = DOMAIN dispatchers
      /\ dispatchers'[d] = g
      /\ \A e \in DOMAIN dispatchers : e # d => dispatchers'[e] = dispatchers[e]
  BY <1>1, <1>2, <1>5, Replaced
<1>8. /\ subs' \in Seq(Subscription) /\ DOMAIN subs' = DOMAIN subs
      /\ \A s \in DOMAIN subs : s # h \/ ~took => subs'[s] = subs[s]
      /\ took => subs'[h] = to
  <2> HIDE DEF took, h
  <2>1. CASE took
    <3>1. subs' = [subs EXCEPT ![h] = to]
      BY <1>5, <2>1
    <3>2. /\ subs' \in Seq(Subscription) /\ DOMAIN subs' = DOMAIN subs /\ subs'[h] = to
          /\ \A s \in DOMAIN subs : s # h => subs'[s] = subs[s]
      BY <1>1, <1>4, <1>6, <3>1, Replaced
    <3> QED BY <2>1, <3>2
  <2>2. CASE ~took
    BY <1>1, <1>5, <2>2
  <2> QED BY <2>1, <2>2
<1>9. \A s \in DOMAIN subs :
        /\ subs'[s].type = subs[s].type /\ subs'[s].at = subs[s].at
        /\ subs'[s].since = subs[s].since
        /\ subs'[s].cancelled = subs[s].cancelled /\ subs'[s].leaving = subs[s].leaving
  BY <1>6, <1>8
<1>10. \A s \in DOMAIN subs :
         /\ s # h \/ ~took => Held(s)' = Held(s)
         /\ s = h /\ took => Held(s)' = Append(Held(h), ev)
  <2>1. ASSUME NEW s \in DOMAIN subs, s # h \/ ~took PROVE Held(s)' = Held(s)
    BY <1>8, <2>1 DEF Held
  <2>2. ASSUME NEW s \in DOMAIN subs, s = h, took PROVE Held(s)' = Append(Held(h), ev)
    <3>1. subs[h].got \in Seq(Nat) /\ subs[h].queue \in Seq(Nat)
      <4>1. subs[h] \in Subscription
        BY <1>1, <1>4
      <4> QED BY <4>1 DEF Subscription
    <3>2. subs'[s].got = subs[h].got /\ subs'[s].queue = Append(subs[h].queue, ev)
      BY <1>6, <1>8, <2>2
    <3>3. subs[h].got \o Append(subs[h].queue, ev) = Append(subs[h].got \o subs[h].queue, ev)
      BY <1>2, <3>1, Handing
    <3> QED BY <3>2, <3>3 DEF Held
  <2> QED BY <2>1, <2>2
<1>11. /\ \A x : Occurs(Append(Held(h), ev), x) <=> Occurs(Held(h), x) \/ x = ev
       /\ Increasing(Append(Held(h), ev))
  <2>1. Held(h) \in Seq(Nat)
    <3>1. subs[h] \in Subscription
      BY <1>1, <1>4
    <3>2. subs[h].got \in Seq(Nat) /\ subs[h].queue \in Seq(Nat)
      BY <3>1 DEF Subscription
    <3> QED BY <3>2, Handing DEF Held
  <2>2. \A x : Occurs(Held(h), x) => x \in Nat
    BY <2>1 DEF Occurs
  <2>3. Increasing(Held(h)) /\ \A x : Occurs(Held(h), x) => x < ev
    BY <1>4, <2>2 DEF BusInv, Order
  <2> QED BY <1>2, <2>1, <2>3, OccursAppend
<1> HIDE DEF took, h, rest, ev
<1>12. \A s \in DOMAIN subs, x \in Nat :
         Occurs(Held(s)', x) <=> Occurs(Held(s), x) \/ (took /\ s = h /\ x = ev)
  BY <1>10, <1>11
<1>13. BusShape'
  BY <1>5, <1>7, <1>8 DEF BusInv, BusShape
<1>14. Membership'
  <2>1. \A e \in DOMAIN dispatchers : /\ dispatchers'[e].cancelled = dispatchers[e].cancelled
                                      /\ dispatchers'[e].at = dispatchers[e].at
    BY <1>1, <1>2, <1>7
  <2> QED BY <1>5, <1>7, <1>8, <1>9, <2>1 DEF BusInv, Membership
<1>15. \A e \in DOMAIN dispatchers :
         /\ Distinct(dispatchers'[e].rest) /\ dispatchers'[e].at = dispatchers[e].at
         /\ dispatchers'[e].event = dispatchers[e].event
         /\ \A s : Occurs(dispatchers'[e].rest, s) =>
                     Occurs(dispatchers[e].rest, s) /\ (e = d => s # h)
         /\ \A s : Occurs(dispatchers[e].rest, s) =>
                     Occurs(dispatchers'[e].rest, s) \/ (e = d /\ s = h)
  BY <1>1, <1>2, <1>3, <1>7 DEF BusInv, Handout, rest, ev
<1>16. Handout'
  <2>1. ASSUME NEW e \in DOMAIN dispatchers', dispatchers'[e].at # "fan"
        PROVE  dispatchers'[e].rest = <<>>
    BY <1>1, <1>2, <1>7, <2>1 DEF BusInv, Handout
  <2>2. ASSUME NEW e \in DOMAIN dispatchers', NEW s \in Nat, Occurs(dispatchers'[e].rest, s)
        PROVE  /\ s \in DOMAIN subs'
               /\ e # current' => subs'[s].leaving
               /\ \A f \in DOMAIN dispatchers' : Occurs(dispatchers'[f].rest, s) => f = e
    <3>1. e \in DOMAIN dispatchers /\ Occurs(dispatchers[e].rest, s)
      BY <1>7, <1>15, <2>2
    <3>2. /\ s \in DOMAIN subs
          /\ e # current => subs[s].leaving
          /\ \A f \in DOMAIN dispatchers : Occurs(dispatchers[f].rest, s) => f = e
      BY <3>1 DEF BusInv, Handout
    <3>3. ASSUME NEW f \in DOMAIN dispatchers', Occurs(dispatchers'[f].rest, s) PROVE f = e
      BY <1>7, <1>15, <3>2, <3>3
    <3>4. current' = current
      BY <1>5
    <3>5. s \in DOMAIN subs' /\ (e # current' => subs'[s].leaving)
      <4>1. s \in DOMAIN subs' /\ subs'[s].leaving = subs[s].leaving
        BY <1>8, <1>9, <3>2
      <4> QED BY <3>2, <3>4, <4>1
    <3> QED BY <3>3, <3>5
  <2> QED BY <1>7, <1>15, <2>1, <2>2 DEF Handout
<1>17. Order'
  <2>1. ASSUME NEW s \in DOMAIN subs'
        PROVE  /\ Increasing(Held(s)')
               /\ \A x \in Nat : Occurs(Held(s)', x) => x \in 1 .. published'
    <3>1. CASE s # h \/ ~took
      BY <1>5, <1>8, <1>10, <3>1 DEF BusInv, Order
    <3>2. CASE s = h /\ took
      <4>1. Held(s)' = Append(Held(h), ev)
        BY <1>8, <1>10, <3>2
      <4>2. \A x \in Nat : Occurs(Held(h), x) => x \in 1 .. published
        BY <1>4 DEF BusInv, Order
      <4> QED BY <1>2, <1>5, <1>11, <4>1, <4>2
    <3> QED BY <3>1, <3>2
  <2>2. ASSUME NEW s \in DOMAIN subs', Occurs(subscribers', s),
               NEW m \in Nat, NEW x \in Nat, Occurs(Held(s)', m), Occurs(incoming', x)
        PROVE  m < x
    <3>1. CASE Occurs(Held(s), m)
      BY <1>5, <1>8, <2>2, <3>1 DEF BusInv, Order
    <3>2. CASE s = h /\ m = ev
      <4>1. ~subs[h].leaving
        BY <1>3, <1>5, <2>2, <3>2 DEF BusInv, Membership
      <4>2. d = current
        BY <1>3, <4>1 DEF BusInv, Handout, rest
      <4> QED BY <1>1, <1>5, <2>2, <3>2, <4>2 DEF BusInv, Order, ev
    <3> QED BY <1>8, <1>12, <2>2, <3>1, <3>2
  <2>3. ASSUME NEW e \in DOMAIN dispatchers', dispatchers'[e].at = "fan"
        PROVE  /\ dispatchers'[e].event \in 1 .. published'
               /\ e = current' => \A x \in Nat : Occurs(incoming', x) => dispatchers'[e].event < x
    BY <1>5, <1>7, <1>15, <2>3 DEF BusInv, Order
  <2>4. ASSUME NEW e \in DOMAIN dispatchers', dispatchers'[e].at = "fan",
               NEW s \in Nat, NEW m \in Nat, Occurs(dispatchers'[e].rest, s), Occurs(Held(s)', m)
        PROVE  m < dispatchers'[e].event
    <3>1. /\ e \in DOMAIN dispatchers /\ Occurs(dispatchers[e].rest, s) /\ s \in DOMAIN subs
          /\ dispatchers[e].at = "fan" /\ dispatchers'[e].event = dispatchers[e].event
      BY <1>7, <1>15, <2>4 DEF BusInv, Handout
    <3>2. s # h
      BY <1>3, <1>7, <1>15, <2>4, <3>1 DEF BusInv, Handout, rest
    <3>3. Occurs(Held(s), m)
      BY <1>12, <2>4, <3>1, <3>2
    <3> QED BY <3>1, <3>3 DEF BusInv, Order
  <2>5. Increasing(incoming') /\ \A n \in Nat : Occurs(incoming', n) => n \in 1 .. published'
    BY <1>5 DEF BusInv, Order
  <2> QED BY <2>1, <2>2, <2>3, <2>4, <2>5 DEF Order
<1>18. Whole'
  <2> SUFFICES ASSUME NEW s \in DOMAIN subs, Occurs(subscribers, s),
                      NEW x \in subs[s].since + 1 .. published, Wants(s, x)
               PROVE  \/ Occurs(Held(s)', x) \/ Occurs(incoming', x)
                      \/ \E e \in DOMAIN dispatchers : /\ dispatchers'[e].at = "fan"
                                                       /\ dispatchers'[e].event = x
                                                       /\ Occurs(dispatchers'[e].rest, s)
    BY <1>5, <1>7, <1>8, <1>9 DEF Whole, Wants
  <2>1. x \in Nat
    <3>1. subs[s] \in Subscription /\ published \in Nat
      BY <1>1 DEF BusInv, BusShape
    <3> QED BY <3>1 DEF Subscription
  <2>2. CASE Occurs(Held(s), x)
    BY <1>12, <2>1, <2>2
  <2>3. CASE Occurs(incoming, x)
    BY <1>5, <2>3
  <2>4. ASSUME NEW e \in DOMAIN dispatchers, dispatchers[e].at = "fan",
               dispatchers[e].event = x, Occurs(dispatchers[e].rest, s)
        PROVE  \/ Occurs(Held(s)', x)
               \/ \E f \in DOMAIN dispatchers : /\ dispatchers'[f].at = "fan"
                                                /\ dispatchers'[f].event = x
                                                /\ Occurs(dispatchers'[f].rest, s)
    <3>1. CASE Occurs(dispatchers'[e].rest, s)
      BY <1>15, <2>4, <3>1
    <3>2. CASE e = d /\ s = h
      <4>1. ~subs[s].cancelled
        BY <1>3, <3>2 DEF BusInv, Membership
      <4>2. took
        BY <2>4, <3>2, <4>1 DEF took, ev
      <4> QED BY <1>12, <2>1, <2>4, <3>2, <4>2 DEF ev
    <3> QED BY <1>15, <2>4, <3>1, <3>2
  <2> QED BY <2>2, <2>3, <2>4 DEF BusInv, Whole
<1>19. Awake'
  <2>1. incoming' # <<>> => (dispatchers'[current'].at = "wait" => dispatchers'[current'].token)
    BY <1>1, <1>2, <1>5, <1>7 DEF BusInv, Awake, Membership
  <2>2. ASSUME NEW s \in DOMAIN subs', subs'[s].at = "wait", subs'[s].queue # <<>>
        PROVE  subs'[s].token
    <3>1. CASE s # h \/ ~took
      BY <1>8, <2>2, <3>1 DEF BusInv, Awake
    <3>2. CASE s = h /\ took
      BY <1>4, <1>6, <1>8, <2>2, <3>2 DEF BusInv, Awake
    <3> QED BY <3>1, <3>2
  <2> QED BY <2>1, <2>2 DEF Awake
<1> QED BY <1>13, <1>14, <1>16, <1>17, <1>18, <1>19 DEF BusInv

\* A dispatcher queues its event for the next of its copy, or passes over one that was
\* cancelled or wants other events.
LEMMA FanKeeps == ASSUME BusInv, NEW d \in DOMAIN dispatchers, Fan(d) PROVE BusInv'
<1>1. CASE dispatchers[d].rest = <<>>
  <2> DEFINE g == [dispatchers[d] EXCEPT !.at = "look"]
  <2>1. dispatchers[d] \in Dispatcher
    BY DEF BusInv, BusShape
  <2>2. /\ g \in Dispatcher /\ g.at = "look" /\ g.cancelled = dispatchers[d].cancelled
        /\ g.rest = dispatchers[d].rest
    BY <2>1 DEF Dispatcher
  <2>3. dispatchers' = [dispatchers EXCEPT ![d] = g]
    BY <1>1 DEF Fan
  <2> HIDE DEF g
  <2> QED BY <1>1, <2>2, <2>3, RestingKeeps DEF Fan
<1> QED BY <1>1, HandKeeps

\* A worker goes on, goes to sleep, wakes up, ends or is told to.
LEMMA WorkerKeeps ==
  ASSUME BusInv, NEW s \in DOMAIN subs, NEW w \in Subscription,
         subs' = [subs EXCEPT ![s] = w],
         w.type = subs[s].type, w.since = subs[s].since, w.leaving = subs[s].leaving,
         w.cancelled => subs[s].leaving,
         \/ w.got \o w.queue = Held(s)
         \/ w.got \o w.queue = <<>> /\ subs[s].leaving,
         w.at = "wait" /\ w.queue # <<>> => w.token,
         UNCHANGED <<subscribers, incoming, current, published, dispatchers>>
  PROVE  BusInv'
<1>1. /\ subs' \in Seq(Subscription) /\ DOMAIN subs' = DOMAIN subs /\ subs'[s] = w
      /\ \A t \in DOMAIN subs : t # s => subs'[t] = subs[t]
  <2>1. subs \in Seq(Subscription)
    BY DEF BusInv, BusShape
  <2> QED BY <2>1, Replaced
<1>2. \A t \in DOMAIN subs :
        /\ subs'[t].type = subs[t].type /\ subs'[t].since = subs[t].since
        /\ subs'[t].leaving = subs[t].leaving
        /\ subs'[t].cancelled => subs'[t].leaving
        /\ subs'[t].at = "wait" /\ subs'[t].queue # <<>> => subs'[t].token
  BY <1>1 DEF BusInv, Membership, Awake
<1>3. \A t \in DOMAIN subs : Held(t)' = Held(t) \/ (Held(t)' = <<>> /\ subs[t].leaving)
  <2> TAKE t \in DOMAIN subs
  <2>1. CASE t = s
    BY <1>1, <2>1 DEF Held
  <2>2. CASE t # s
    BY <1>1, <2>2 DEF Held
  <2> QED BY <2>1, <2>2
<1>4. \A t \in DOMAIN subs :
        /\ Increasing(Held(t)') /\ \A x : Occurs(Held(t)', x) => Occurs(Held(t), x)
        /\ Occurs(subscribers, t) => Held(t)' = Held(t)
  <2> TAKE t \in DOMAIN subs
  <2>1. t \in Nat /\ Increasing(Held(t))
    <3>1. subs \in Seq(Subscription)
      BY DEF BusInv, BusShape
    <3> QED BY <3>1 DEF BusInv, Order
  <2>2. Occurs(subscribers, t) => ~subs[t].leaving
    BY <2>1 DEF BusInv, Membership
  <2> QED BY <1>3, <2>1, <2>2, OccursEmpty
<1>5. BusShape' /\ Membership'
  BY <1>1, <1>2 DEF BusInv, BusShape, Membership
<1>6. Handout'
  BY <1>1, <1>2 DEF BusInv, Handout
<1>7. Order'
  <2>1. \A d \in DOMAIN dispatchers, t \in Nat : Occurs(dispatchers[d].rest, t) => t \in DOMAIN subs
    BY DEF BusInv, Handout
  <2> QED BY <1>1, <1>4, <2>1 DEF BusInv, Order
<1>8. Whole'
  <2>1. \A t \in DOMAIN subs : \A x : Wants(t, x)' <=> Wants(t, x)
    BY <1>2 DEF Wants
  <2> QED BY <1>1, <1>2, <1>4, <2>1 DEF BusInv, Whole
<1>9. Awake'
  BY <1>1, <1>2 DEF BusInv, Awake
<1> QED BY <1>5, <1>6, <1>7, <1>8, <1>9 DEF BusInv

\* A worker takes the oldest event of its queue, or goes to wait, or ends.
LEMMA ServeKeeps == ASSUME BusInv, NEW s \in DOMAIN subs, Serve(s) PROVE BusInv'
<1>1. subs[s] \in Subscription /\ (subs[s].cancelled => subs[s].leaving)
  BY DEF BusInv, BusShape, Membership
<1>2. subs[s].got \in Seq(Nat) /\ subs[s].queue \in Seq(Nat) /\ <<>> \in Seq(Nat)
  BY <1>1 DEF Subscription
<1>3. CASE subs[s].cancelled
  <2> DEFINE w == [Ended(subs[s]) EXCEPT !.queue = <<>>, !.got = <<>>]
  <2>1. /\ w \in Subscription /\ w.at = "over" /\ w.got = <<>> /\ w.queue = <<>>
        /\ \A f \in {"type", "since", "leaving", "cancelled"} : w[f] = subs[s][f]
    BY <1>1, <1>2 DEF Ended, Subscription
  <2>2. subs' = [subs EXCEPT ![s] = w]
    BY <1>3 DEF Serve
  <2>3. w.got \o w.queue = <<>>
    BY <1>2, <2>1, ConcatEmptySeq
  <2> HIDE DEF w
  <2> QED BY <1>1, <1>3, <2>1, <2>2, <2>3, WorkerKeeps DEF Serve
<1>4. CASE ~subs[s].cancelled /\ subs[s].queue # <<>>
  <2> DEFINE w == [subs[s] EXCEPT !.queue = Tail(@), !.got = Append(@, Head(subs[s].queue))]
  <2>1. /\ w \in Subscription
        /\ w.got = Append(subs[s].got, Head(subs[s].queue)) /\ w.queue = Tail(subs[s].queue)
        /\ \A f \in {"type", "at", "since", "leaving", "cancelled"} : w[f] = subs[s][f]
    <3>1. Tail(subs[s].queue) \in Seq(Nat) /\ Append(subs[s].got, Head(subs[s].queue)) \in Seq(Nat)
      BY <1>2, <1>4
    <3> QED BY <1>1, <3>1 DEF Subscription
  <2>2. subs' = [subs EXCEPT ![s] = w] /\ subs[s].at = "look"
    BY <1>4 DEF Serve
  <2>3. w.got \o w.queue = Held(s)
    <3>1. w.got \o w.queue = subs[s].got \o subs[s].queue
      <4>1. Append(subs[s].got, Head(subs[s].queue)) \o Tail(subs[s].queue) = subs[s].got \o subs[s].queue
        BY <1>2, <1>4, Handing
      <4> QED BY <2>1, <4>1
    <3> QED BY <3>1 DEF Held
  <2> HIDE DEF w
  <2> QED BY <1>1, <1>4, <2>1, <2>2, <2>3, WorkerKeeps DEF Serve
<1>5. CASE ~subs[s].cancelled /\ subs[s].queue = <<>>
  <2> DEFINE w == [subs[s] EXCEPT !.at = "wait"]
  <2>1. /\ w \in Subscription /\ w.got = subs[s].got /\ w.queue = <<>>
        /\ w.queue = subs[s].queue
        /\ \A f \in {"type", "since", "leaving", "cancelled"} : w[f] = subs[s][f]
    BY <1>1, <1>5 DEF Subscription
  <2>2. subs' = [subs EXCEPT ![s] = w]
    BY <1>5 DEF Serve
  <2>3. w.got \o w.queue = Held(s)
    BY <2>1 DEF Held
  <2> HIDE DEF w
  <2> QED BY <1>1, <1>5, <2>1, <2>2, <2>3, WorkerKeeps DEF Serve
<1> QED BY <1>3, <1>4, <1>5

\* A worker that has a token looks again, one that was cancelled ends.
LEMMA WakeWorkerKeeps == ASSUME BusInv, NEW s \in DOMAIN subs, WakeWorker(s) PROVE BusInv'
<1>1. subs[s] \in Subscription /\ (subs[s].cancelled => subs[s].leaving)
  BY DEF BusInv, BusShape, Membership
<1>2. <<>> \in Seq(Nat)
  OBVIOUS
<1>3. CASE subs[s].cancelled /\ subs' = [subs EXCEPT ![s] = [Ended(@) EXCEPT !.queue = <<>>, !.got = <<>>]]
  <2> DEFINE w == [Ended(subs[s]) EXCEPT !.queue = <<>>, !.got = <<>>]
  <2>1. /\ w \in Subscription /\ w.at = "over" /\ w.got = <<>> /\ w.queue = <<>>
        /\ \A f \in {"type", "since", "leaving", "cancelled"} : w[f] = subs[s][f]
    BY <1>1, <1>2 DEF Ended, Subscription
  <2>2. subs' = [subs EXCEPT ![s] = w]
    BY <1>3
  <2>3. w.got \o w.queue = <<>>
    BY <1>2, <2>1, ConcatEmptySeq
  <2> HIDE DEF w
  <2> QED BY <1>1, <1>3, <2>1, <2>2, <2>3, WorkerKeeps DEF WakeWorker
<1>4. CASE subs' = [subs EXCEPT ![s].at = "look", ![s].token = FALSE]
  <2> DEFINE w == [subs[s] EXCEPT !.at = "look", !.token = FALSE]
  <2>1. /\ w \in Subscription /\ w.at = "look" /\ w.got = subs[s].got /\ w.queue = subs[s].queue
        /\ \A f \in {"type", "since", "leaving", "cancelled"} : w[f] = subs[s][f]
    BY <1>1 DEF Subscription
  <2>2. subs' = [subs EXCEPT ![s] = w]
    BY <1>4
  <2>3. w.got \o w.queue = Held(s)
    BY <2>1 DEF Held
  <2> HIDE DEF w
  <2> QED BY <1>1, <2>1, <2>2, <2>3, WorkerKeeps DEF WakeWorker
<1> QED BY <1>3, <1>4 DEF WakeWorker

\* A cancelled subscription has left already.
LEMMA CancelKeeps == ASSUME BusInv, NEW s \in DOMAIN subs, CancelSubscription(s) PROVE BusInv'
<1> DEFINE w == [subs[s] EXCEPT !.cancelled = TRUE]
<1>1. subs[s] \in Subscription
  BY DEF BusInv, BusShape
<1>2. /\ w \in Subscription /\ w.got = subs[s].got /\ w.queue = subs[s].queue
      /\ \A f \in {"type", "at", "token", "since", "leaving"} : w[f] = subs[s][f]
  BY <1>1 DEF Subscription
<1>3. subs' = [subs EXCEPT ![s] = w] /\ subs[s].leaving
  BY DEF CancelSubscription
<1>4. w.got \o w.queue = Held(s)
  BY <1>2 DEF Held
<1>5. w.at = "wait" /\ w.queue # <<>> => w.token
  BY <1>2 DEF BusInv, Awake
<1> HIDE DEF w
<1> QED BY <1>2, <1>3, <1>4, <1>5, WorkerKeeps DEF CancelSubscription

\* Who leaves is taken out of the list, and the last one to leave ends the dispatcher.
LEMMA UnsubscribeKeeps == ASSUME BusInv, NEW s \in DOMAIN subs, Unsubscribe(s) PROVE BusInv'
<1>1. /\ subscribers \in Seq(Nat) /\ Distinct(subscribers) /\ subs \in Seq(Subscription)
      /\ dispatchers \in Seq(Dispatcher) /\ s \in Nat
  <2>1. subs \in Seq(Subscription)
    BY DEF BusInv, BusShape
  <2> QED BY <2>1 DEF BusInv, BusShape, Membership
<1>2. PICK i \in DOMAIN subscribers : subscribers[i] = s /\ subscribers' = RemoveAt(subscribers, i)
  BY DEF Unsubscribe
<1>3. /\ subscribers' \in Seq(Nat) /\ Distinct(subscribers')
      /\ \A t : Occurs(subscribers', t) <=> Occurs(subscribers, t) /\ t # s
  BY <1>1, <1>2, RemoveOne
<1>4. Occurs(subscribers, s) /\ ~subs[s].leaving /\ ~subs[s].cancelled
  <2>1. Occurs(subscribers, s)
    BY <1>2 DEF Occurs
  <2> QED BY <1>1, <2>1 DEF BusInv, Membership
<1> DEFINE w == [subs[s] EXCEPT !.leaving = TRUE]
<1>5. /\ w \in Subscription /\ w.leaving
      /\ \A f \in {"type", "at", "queue", "got", "since", "token", "cancelled"} : w[f] = subs[s][f]
  <2>1. subs[s] \in Subscription
    BY <1>1
  <2> QED BY <2>1 DEF Subscription
<1>6. /\ subs' \in Seq(Subscription) /\ DOMAIN subs' = DOMAIN subs /\ subs'[s] = w
      /\ \A t \in DOMAIN subs : t # s => subs'[t] = subs[t]
  <2>1. subs' = [subs EXCEPT ![s] = w]
    BY DEF Unsubscribe
  <2> HIDE DEF w
  <2> QED BY <1>1, <1>5, <2>1, Replaced
<1> HIDE DEF w
<1>7. \A t \in DOMAIN subs :
        /\ \A f \in {"type", "at", "queue", "got", "since", "token", "cancelled"} : subs'[t][f] = subs[t][f]
        /\ subs'[t].leaving <=> subs[t].leaving \/ t = s
        /\ Held(t)' = Held(t)
  BY <1>5, <1>6 DEF Held
<1>8. published' = published /\ current # 0 /\ current \in DOMAIN dispatchers /\ subscribers # <<>>
  BY <1>2 DEF Unsubscribe, BusInv, Membership
<1>9. CASE subscribers' # <<>>
  <2>1. UNCHANGED <<current, dispatchers, incoming>>
    BY <1>9 DEF Unsubscribe
  <2>2. BusShape'
    BY <1>3, <1>6, <1>8, <2>1 DEF BusInv, BusShape
  <2>3. Membership'
    <3>1. \A t \in Nat : Occurs(subscribers', t) <=> t \in DOMAIN subs' /\ ~subs'[t].leaving
      BY <1>3, <1>6, <1>7 DEF BusInv, Membership
    <3>2. \A t \in DOMAIN subs' : subs'[t].cancelled => subs'[t].leaving
      BY <1>6, <1>7 DEF BusInv, Membership
    <3> QED BY <1>3, <1>8, <1>9, <2>1, <3>1, <3>2 DEF BusInv, Membership
  <2>4. Handout'
    BY <1>6, <1>7, <2>1 DEF BusInv, Handout
  <2>5. Order'
    <3>1. \A d \in DOMAIN dispatchers, t \in Nat : Occurs(dispatchers[d].rest, t) => t \in DOMAIN subs
      BY DEF BusInv, Handout
    <3> QED BY <1>3, <1>6, <1>7, <1>8, <2>1, <3>1 DEF BusInv, Order
  <2>6. Whole'
    <3>1. \A t \in DOMAIN subs : \A x : Wants(t, x)' <=> Wants(t, x)
      BY <1>7 DEF Wants
    <3> QED BY <1>3, <1>6, <1>7, <1>8, <2>1, <3>1 DEF BusInv, Whole
  <2>7. Awake'
    BY <1>6, <1>7, <2>1 DEF BusInv, Awake
  <2> QED BY <2>2, <2>3, <2>4, <2>5, <2>6, <2>7 DEF BusInv
<1>10. CASE subscribers' = <<>>
  <2> DEFINE g == [dispatchers[current] EXCEPT !.cancelled = TRUE]
  <2>1. /\ dispatchers' = [dispatchers EXCEPT ![current] = g]
        /\ current' = 0 /\ incoming' = <<>>
    BY <1>10 DEF Unsubscribe
  <2>2. /\ g \in Dispatcher /\ g.cancelled
        /\ \A f \in {"at", "rest", "event", "token"} : g[f] = dispatchers[current][f]
    <3>1. dispatchers[current] \in Dispatcher
      BY <1>1, <1>8
    <3> QED BY <3>1 DEF Dispatcher
  <2> HIDE DEF g
  <2>3. /\ dispatchers' \in Seq(Dispatcher) /\ DOMAIN dispatchers' = DOMAIN dispatchers
        /\ dispatchers'[current] = g
        /\ \A e \in DOMAIN dispatchers : e # current => dispatchers'[e] = dispatchers[e]
    BY <1>1, <1>8, <2>1, <2>2, Replaced
  <2>4. \A e \in DOMAIN dispatchers :
          /\ dispatchers'[e].at = dispatchers[e].at /\ dispatchers'[e].rest = dispatchers[e].rest
          /\ dispatchers'[e].event = dispatchers[e].event
          /\ dispatchers'[e].cancelled
    BY <1>8, <2>2, <2>3 DEF BusInv, Membership
  <2>5. \A t : ~Occurs(subscribers', t) /\ ~Occurs(incoming', t)
    BY <1>10, <2>1, OccursEmpty
  <2>6. \A t \in DOMAIN subs' : subs'[t].leaving
    <3>1. \A t \in DOMAIN subs : t \in Nat
      BY <1>1
    <3> QED BY <1>3, <1>6, <1>7, <2>5, <3>1 DEF BusInv, Membership
  <2>7. 0 \notin DOMAIN dispatchers /\ incoming' \in Seq(Nat)
    BY <1>1, <2>1
  <2>8. BusShape'
    BY <1>3, <1>6, <1>8, <2>1, <2>3, <2>7 DEF BusInv, BusShape
  <2>9. Membership'
    <3>1. \A t \in Nat : Occurs(subscribers', t) <=> t \in DOMAIN subs' /\ ~subs'[t].leaving
      BY <2>5, <2>6
    <3>2. \A d \in DOMAIN dispatchers' : d # current'
      BY <2>1, <2>3, <2>7
    <3> QED BY <1>3, <1>10, <2>1, <2>3, <2>4, <2>6, <3>1, <3>2 DEF Membership
  <2>10. Handout'
    BY <1>6, <2>3, <2>4, <2>6 DEF BusInv, Handout
  <2>11. Order'
    <3>1. \A d \in DOMAIN dispatchers, t \in Nat : Occurs(dispatchers[d].rest, t) => t \in DOMAIN subs
      BY DEF BusInv, Handout
    <3>2. Increasing(incoming')
      BY <2>1, OccursEmpty
    <3>3. ASSUME NEW t \in DOMAIN subs'
          PROVE  Increasing(Held(t)') /\ \A n \in Nat : Occurs(Held(t)', n) => n \in 1 .. published'
      BY <1>6, <1>7, <1>8 DEF BusInv, Order
    <3>4. ASSUME NEW d \in DOMAIN dispatchers', dispatchers'[d].at = "fan"
          PROVE  /\ dispatchers'[d].event \in 1 .. published'
                 /\ \A t, m \in Nat : Occurs(dispatchers'[d].rest, t) /\ Occurs(Held(t)', m) =>
                      m < dispatchers'[d].event
      BY <1>7, <1>8, <2>3, <2>4, <3>1, <3>4 DEF BusInv, Order
    <3> QED BY <2>5, <3>2, <3>3, <3>4 DEF Order
  <2>12. Whole' /\ Awake'
    BY <1>6, <1>7, <2>1, <2>5 DEF BusInv, Whole, Awake
  <2> QED BY <2>8, <2>9, <2>10, <2>11, <2>12 DEF BusInv
<1> QED BY <1>9, <1>10

\* No subscription and no dispatcher at first.
LEMMA BusInvFirst == BusInit => BusInv
<1> SUFFICES ASSUME BusInit PROVE BusInv
  OBVIOUS
<1>1. <<>> \in Seq(Dispatcher) /\ <<>> \in Seq(Subscription) /\ <<>> \in Seq(Nat)
  OBVIOUS
<1> QED BY <1>1, OccursEmpty
        DEF BusInit, BusInv, BusShape, Membership, Handout, Order, Whole, Awake

\* Every step of the bus keeps the invariant.
LEMMA BusInvKept == BusInv /\ [BusNext]_busVars => BusInv'
<1> SUFFICES ASSUME BusInv, [BusNext]_busVars PROVE BusInv'
  OBVIOUS
<1>1. CASE Publish
  BY <1>1, PublishKeeps
<1>2. CASE Subscribe
  BY <1>2, SubscribeKeeps
<1>3. ASSUME NEW d \in DOMAIN dispatchers, Look(d) \/ Fan(d) \/ WakeDispatcher(d) PROVE BusInv'
  BY <1>3, LookKeeps, FanKeeps, WakeDispatcherKeeps
<1>4. ASSUME NEW s \in DOMAIN subs, Serve(s) \/ WakeWorker(s) \/ Unsubscribe(s) \/ CancelSubscription(s)
      PROVE  BusInv'
  BY <1>4, ServeKeeps, WakeWorkerKeeps, UnsubscribeKeeps, CancelKeeps
<1>5. CASE UNCHANGED busVars
  <2>1. \A s : Held(s)' = Held(s)
    BY <1>5 DEF busVars, Held
  <2>2. \A s, n : Wants(s, n)' <=> Wants(s, n)
    BY <1>5 DEF busVars, Wants
  <2> QED BY <1>5, <2>1, <2>2
          DEF busVars, BusInv, BusShape, Membership, Handout, Order, Whole, Awake
<1> QED BY <1>1, <1>2, <1>3, <1>4, <1>5 DEF BusNext

\* The invariant says what the run checks: what a subscriber held is the events it
\* wants, in their order, and nobody sleeps.
LEMMA BusInvSays == BusInv => InOrderAndWhole
<1> SUFFICES ASSUME BusInv PROVE EventsInOrder /\ NoLostWakeup
  BY DEF InOrderAndWhole
<1>1. NoLostWakeup
  BY DEF NoLostWakeup, BusInv, Awake, Membership
<1>2. ASSUME NEW q \in Seq(Nat), NEW x PROVE Contains(q, x) <=> Occurs(q, x)
  BY DEF Contains, Occurs
<1>3. subscribers \in Seq(Nat) /\ incoming \in Seq(Nat) /\ subs \in Seq(Subscription)
  BY DEF BusInv, BusShape
<1>4. \A s \in DOMAIN subs : Held(s) \in Seq(Nat) /\ subs[s].since \in Nat
  <2> TAKE s \in DOMAIN subs
  <2>1. subs[s] \in Subscription
    BY <1>3
  <2>2. subs[s].got \in Seq(Nat) /\ subs[s].queue \in Seq(Nat) /\ subs[s].since \in Nat
    BY <2>1 DEF Subscription
  <2> QED BY <2>2, Handing DEF Held
<1>5. \A d \in DOMAIN dispatchers : dispatchers[d].rest \in Seq(Nat)
  <2> TAKE d \in DOMAIN dispatchers
  <2>1. dispatchers[d] \in Dispatcher
    BY DEF BusInv, BusShape
  <2> QED BY <2>1 DEF Dispatcher
<1>6. ASSUME NEW s \in DOMAIN subs, NEW i \in DOMAIN Held(s), NEW j \in DOMAIN Held(s), i < j
      PROVE  Held(s)[i] < Held(s)[j]
  BY <1>6 DEF BusInv, Order, Increasing
<1>7. ASSUME NEW s \in DOMAIN subs, Contains(subscribers, s),
             NEW n \in subs[s].since + 1 .. published, Wants(s, n)
      PROVE  Contains(Held(s), n) \/ OnItsWay(s, n)
  <2>1. Occurs(subscribers, s)
    BY <1>2, <1>3, <1>7
  <2>2. \/ Occurs(Held(s), n) \/ Occurs(incoming, n)
        \/ \E d \in DOMAIN dispatchers :
             dispatchers[d].at = "fan" /\ dispatchers[d].event = n /\ Occurs(dispatchers[d].rest, s)
    BY <1>7, <2>1 DEF BusInv, Whole
  <2>3. CASE Occurs(Held(s), n)
    BY <1>2, <1>4, <2>3
  <2>4. CASE Occurs(incoming, n)
    BY <1>2, <1>3, <2>4 DEF OnItsWay
  <2>5. ASSUME NEW d \in DOMAIN dispatchers, dispatchers[d].event = n, Occurs(dispatchers[d].rest, s)
        PROVE  OnItsWay(s, n)
    <3>1. Contains(dispatchers[d].rest, s)
      BY <1>2, <1>5, <2>5
    <3> QED BY <2>5, <3>1 DEF OnItsWay
  <2> QED BY <2>2, <2>3, <2>4, <2>5
<1>8. EventsInOrder
  BY <1>6, <1>7 DEF EventsInOrder
<1> QED BY <1>1, <1>8

\* Every subscriber handles the events it wants in the order they were published and
\* misses none while it is subscribed, and no wake-up is lost, for any number of
\* subscriptions, dispatchers and events (core/event.go).
THEOREM EventsInOrderAlways == BusSpec => []InOrderAndWhole
  BY BusInvFirst, BusInvKept, BusInvSays, PTL DEF BusSpec

-----------------------------------------------------------------------------
(* The hooks *)

\* A registered hook.
Entry == [hook : Literals, priority : Priorities, sequence : Nat]

\* Entries in the order they are to run.
Sorted(q) == \A i, j \in DOMAIN q : i < j => Before(q[i], q[j])

\* The shape of the state.
HookShape ==
  /\ nextSequence \in Nat /\ entries \in Seq(Entry)
  /\ calls \in [Triggers -> [at : {"idle", "run", "over", "refused"}, rest : Seq(Entry),
                             ran : Seq(Entry), due : SUBSET Entry]]

\* The list is sorted and its sequence numbers are given out; of a trigger, what ran is
\* in order, and before what is still to run.
InOrder ==
  /\ Sorted(entries)
  /\ \A i \in DOMAIN entries : entries[i].sequence <= nextSequence
  /\ \A t \in Triggers :
       /\ Sorted(calls[t].ran) /\ Sorted(calls[t].rest)
       /\ \A i \in DOMAIN calls[t].ran, j \in DOMAIN calls[t].rest :
            Before(calls[t].ran[i], calls[t].rest[j])

\* Every hook that was registered throughout the trigger ran or is still to run.
NobodyPassed ==
  \A t \in Triggers :
    /\ calls[t].at \in {"run", "over"} =>
         calls[t].due \subseteq ToSet(calls[t].ran) \cup ToSet(calls[t].rest)
    /\ calls[t].at = "over" => calls[t].rest = <<>>

\* The inductive invariant of the hooks.
HooksInv == HookShape /\ InOrder /\ NobodyPassed

\* Before is an order, total on entries with different sequence numbers.
LEMMA BeforeOrders ==
  ASSUME NEW e \in Entry, NEW f \in Entry, NEW g \in Entry
  PROVE  /\ Before(e, f) /\ Before(f, g) => Before(e, g)
         /\ e.sequence < f.sequence => Before(e, f) \/ Before(f, e)
<1>1. /\ e.priority \in Int /\ f.priority \in Int /\ g.priority \in Int
      /\ e.sequence \in Nat /\ f.sequence \in Nat /\ g.sequence \in Nat
  BY HookParameters DEF Entry
<1> QED BY <1>1 DEF Before

\* A hook goes to its place in the list and the hooks beside it keep theirs.
LEMMA RegisterKeeps == ASSUME HooksInv, Register PROVE HooksInv'
<1>1. PICK i \in 1 .. Len(entries) + 1,
           new \in [hook : Literals, priority : Priorities, sequence : {nextSequence + 1}] :
        /\ \A k \in DOMAIN entries : k < i <=> Before(entries[k], new)
        /\ entries' = InsertAt(entries, i, new)
  BY DEF Register
<1>2. /\ nextSequence' = nextSequence + 1 /\ UNCHANGED calls /\ nextSequence \in Nat
      /\ entries \in Seq(Entry) /\ new \in Entry /\ new.sequence = nextSequence + 1
  <2>1. /\ nextSequence' = nextSequence + 1 /\ UNCHANGED calls /\ nextSequence \in Nat
        /\ entries \in Seq(Entry)
    BY DEF Register, HooksInv, HookShape
  <2> QED BY <2>1 DEF Entry
<1>3. /\ entries' \in Seq(Entry)
      /\ \A k \in DOMAIN entries' :
              /\ k \in Nat
              /\ k < i => k \in DOMAIN entries /\ entries'[k] = entries[k]
              /\ k = i => entries'[k] = new
              /\ k > i => k - 1 \in DOMAIN entries /\ entries'[k] = entries[k - 1]
  <2>1. entries \in Seq(Entry) /\ new \in Entry /\ i \in 1 .. Len(entries) + 1
    BY <1>1, <1>2
  <2>2. InsertAt(entries, i, new) \in Seq(Entry) /\ PutAt(InsertAt(entries, i, new), entries, i, new)
    BY <2>1, PutBetween
  <2> QED BY <1>1, <2>2 DEF PutAt
<1>4. \A k \in DOMAIN entries : /\ k \in Nat /\ entries[k] \in Entry /\ entries[k].sequence <= nextSequence
                                /\ k < i => Before(entries[k], new)
                                /\ k >= i => Before(new, entries[k])
  <2> TAKE k \in DOMAIN entries
  <2>1. k \in Nat /\ entries[k] \in Entry /\ entries[k].sequence <= nextSequence
    BY <1>2 DEF HooksInv, InOrder
  <2>2. entries[k].sequence < new.sequence
    <3>1. entries[k].sequence \in Nat
      BY <2>1 DEF Entry
    <3> QED BY <1>2, <2>1, <3>1
  <2>3. Before(entries[k], new) \/ Before(new, entries[k])
    BY <1>2, <2>1, <2>2, BeforeOrders
  <2> QED BY <1>1, <2>1, <2>3
<1>5. Sorted(entries')
  <2> SUFFICES ASSUME NEW k \in DOMAIN entries', NEW l \in DOMAIN entries', k < l
               PROVE  Before(entries'[k], entries'[l])
    BY DEF Sorted
  <2>1. Sorted(entries)
    BY DEF HooksInv, InOrder
  <2>2. CASE l < i
    BY <1>3, <2>1, <2>2 DEF Sorted
  <2>3. CASE l = i
    BY <1>3, <1>4, <2>3
  <2>4. CASE k < i /\ l > i
    <3>1. k \in DOMAIN entries /\ l - 1 \in DOMAIN entries /\ k < l - 1
      BY <1>3, <2>4
    <3> QED BY <1>3, <2>1, <2>4, <3>1 DEF Sorted
  <2>5. CASE k = i
    <3>1. l - 1 \in DOMAIN entries /\ l - 1 >= i /\ entries'[l] = entries[l - 1]
      BY <1>3, <2>5
    <3> QED BY <1>3, <1>4, <2>5, <3>1
  <2>6. CASE k > i
    <3>1. k - 1 \in DOMAIN entries /\ l - 1 \in DOMAIN entries /\ k - 1 < l - 1
      BY <1>3, <2>6
    <3> QED BY <1>3, <2>1, <2>6, <3>1 DEF Sorted
  <2> QED BY <1>3, <2>2, <2>3, <2>4, <2>5, <2>6
<1>6. \A k \in DOMAIN entries' : entries'[k].sequence <= nextSequence'
  <2> TAKE k \in DOMAIN entries'
  <2>1. \A m \in DOMAIN entries : entries[m].sequence <= nextSequence + 1
    <3> TAKE m \in DOMAIN entries
    <3>1. entries[m].sequence \in Nat
      BY <1>4 DEF Entry
    <3> QED BY <1>2, <1>4, <3>1
  <2> QED BY <1>2, <1>3, <2>1
<1> QED BY <1>2, <1>3, <1>5, <1>6 DEF HooksInv, HookShape, InOrder, NobodyPassed

\* The others keep their order when a hook is taken out.
LEMMA UnregisterKeeps == ASSUME HooksInv, Unregister PROVE HooksInv'
<1>0. PICK h \in Literals, n \in 0 .. Len(entries) - 1 :
        \E from \in [1 .. n -> {i \in DOMAIN entries : entries[i].hook # h}] :
          /\ \A k, l \in 1 .. n : k < l => from[k] < from[l]
          /\ entries' = [k \in 1 .. n |-> entries[from[k]]]
          /\ calls' = [t \in Triggers |-> [calls[t] EXCEPT !.due = {e \in @ : e.hook # h}]]
          /\ UNCHANGED nextSequence
  BY DEF Unregister
<1>1. PICK from \in [1 .. n -> {i \in DOMAIN entries : entries[i].hook # h}] :
        /\ \A k, l \in 1 .. n : k < l => from[k] < from[l]
        /\ entries' = [k \in 1 .. n |-> entries[from[k]]]
        /\ calls' = [t \in Triggers |-> [calls[t] EXCEPT !.due = {e \in @ : e.hook # h}]]
        /\ UNCHANGED nextSequence
  BY <1>0
<1>2. entries \in Seq(Entry) /\ n \in Nat
  BY DEF HooksInv, HookShape
<1>3. /\ DOMAIN entries' = 1 .. n
      /\ \A k \in 1 .. n : from[k] \in DOMAIN entries /\ entries'[k] = entries[from[k]]
  BY <1>1
<1>4. entries' \in Seq(Entry)
  <2>1. \A k \in 1 .. n : entries[from[k]] \in Entry
    BY <1>2, <1>3
  <2>2. entries' \in [1 .. n -> Entry]
    BY <1>1, <2>1
  <2> QED BY <1>2, <2>2, SeqDef
<1>5. Sorted(entries') /\ \A k \in DOMAIN entries' : entries'[k].sequence <= nextSequence'
  BY <1>1, <1>3 DEF Sorted, HooksInv, InOrder
<1>6. \A t \in Triggers :
        /\ calls'[t].at = calls[t].at /\ calls'[t].rest = calls[t].rest
        /\ calls'[t].ran = calls[t].ran /\ calls'[t].due \subseteq calls[t].due
  BY <1>1 DEF HooksInv, HookShape
<1>7. HookShape'
  <2>1. calls' \in [Triggers -> [at : {"idle", "run", "over", "refused"}, rest : Seq(Entry),
                                 ran : Seq(Entry), due : SUBSET Entry]]
    BY <1>1 DEF HooksInv, HookShape
  <2> QED BY <1>1, <1>4, <2>1 DEF HooksInv, HookShape
<1>8. InOrder'
  BY <1>5, <1>6 DEF HooksInv, InOrder
<1>9. NobodyPassed'
  BY <1>6 DEF HooksInv, NobodyPassed
<1> QED BY <1>7, <1>8, <1>9 DEF HooksInv

\* A trigger that only moves on in its own call.
LEMMA CallKeeps ==
  ASSUME HooksInv, UNCHANGED <<entries, nextSequence>>, NEW t \in Triggers,
         NEW c \in [at : {"idle", "run", "over", "refused"}, rest : Seq(Entry),
                    ran : Seq(Entry), due : SUBSET Entry],
         calls' = [calls EXCEPT ![t] = c], Sorted(c.ran), Sorted(c.rest),
         \A i \in DOMAIN c.ran, j \in DOMAIN c.rest : Before(c.ran[i], c.rest[j]),
         c.at \in {"run", "over"} => c.due \subseteq ToSet(c.ran) \cup ToSet(c.rest),
         c.at = "over" => c.rest = <<>>
  PROVE  HooksInv'
<1>1. HookShape'
  BY DEF HooksInv, HookShape
<1>2. calls'[t] = c /\ \A u \in Triggers : u # t => calls'[u] = calls[u]
  BY DEF HooksInv, HookShape
<1>3. InOrder'
  BY <1>2 DEF HooksInv, InOrder
<1>4. NobodyPassed'
  BY <1>2 DEF HooksInv, NobodyPassed
<1> QED BY <1>1, <1>3, <1>4 DEF HooksInv

\* A trigger copies the list.
LEMMA TriggerKeeps == ASSUME HooksInv, NEW t \in Triggers, Trigger(t) PROVE HooksInv'
<1> DEFINE c == [at |-> "run", rest |-> entries, ran |-> <<>>, due |-> ToSet(entries)]
<1>1. entries \in Seq(Entry) /\ <<>> \in Seq(Entry) /\ Sorted(entries) /\ Sorted(<<>>)
  BY DEF HooksInv, HookShape, InOrder, Sorted
<1>2. ToSet(entries) \subseteq Entry
  BY <1>1 DEF ToSet
<1>3. /\ c \in [at : {"idle", "run", "over", "refused"}, rest : Seq(Entry),
                ran : Seq(Entry), due : SUBSET Entry]
      /\ c.at = "run" /\ c.rest = entries /\ c.ran = <<>> /\ c.due = ToSet(entries)
  BY <1>1, <1>2
<1>4. calls' = [calls EXCEPT ![t] = c] /\ UNCHANGED <<entries, nextSequence>>
  BY DEF Trigger
<1>5. DOMAIN <<>> = {}
  OBVIOUS
<1> HIDE DEF c
<1> QED BY <1>1, <1>3, <1>4, <1>5, CallKeeps

\* The first hook of what is left of the copy runs, fails or refuses, or the trigger is
\* over.
LEMMA InvokeKeeps == ASSUME HooksInv, NEW t \in Triggers, Invoke(t) PROVE HooksInv'
<1> DEFINE Call == [at : {"idle", "run", "over", "refused"}, rest : Seq(Entry),
                    ran : Seq(Entry), due : SUBSET Entry]
<1>1. calls[t] \in Call /\ calls[t].at = "run" /\ UNCHANGED <<entries, nextSequence>>
  BY DEF Invoke, HooksInv, HookShape
<1>2. /\ Sorted(calls[t].ran) /\ Sorted(calls[t].rest)
      /\ \A i \in DOMAIN calls[t].ran, j \in DOMAIN calls[t].rest :
           Before(calls[t].ran[i], calls[t].rest[j])
      /\ calls[t].due \subseteq ToSet(calls[t].ran) \cup ToSet(calls[t].rest)
  BY <1>1 DEF HooksInv, InOrder, NobodyPassed
<1>3. CASE calls[t].rest = <<>>
  <2> DEFINE c == [calls[t] EXCEPT !.at = "over"]
  <2>1. c \in Call /\ c.ran = calls[t].ran /\ c.rest = calls[t].rest /\ c.due = calls[t].due
    BY <1>1
  <2>2. calls' = [calls EXCEPT ![t] = c]
    BY <1>3 DEF Invoke
  <2> HIDE DEF c
  <2> QED BY <1>1, <1>2, <1>3, <2>1, <2>2, CallKeeps
<1>4. CASE calls[t].rest # <<>>
  <2> DEFINE rest == calls[t].rest
             ran == Append(calls[t].ran, Head(rest))
             c == [calls[t] EXCEPT !.rest = Tail(@), !.ran = Append(@, Head(calls[t].rest))]
             r == [c EXCEPT !.at = "refused"]
  <2>1. PICK d \in {c, r} : calls' = [calls EXCEPT ![t] = d]
    BY <1>4 DEF Invoke
  <2>2. rest \in Seq(Entry) /\ calls[t].ran \in Seq(Entry) /\ rest # <<>>
    BY <1>1, <1>4
  <2>3. /\ Head(rest) \in Entry /\ Tail(rest) \in Seq(Entry)
        /\ ToSet(rest) = {Head(rest)} \cup ToSet(Tail(rest))
        /\ Head(rest) = rest[1] /\ 1 \in DOMAIN rest
        /\ \A i \in DOMAIN Tail(rest) : /\ Tail(rest)[i] = rest[i + 1] /\ i + 1 \in DOMAIN rest
                                        /\ i \in Nat /\ 1 < i + 1
    BY <2>2, TakenOff
  <2>4. /\ ran \in Seq(Entry) /\ ToSet(ran) = ToSet(calls[t].ran) \cup {Head(rest)}
        /\ \A i \in DOMAIN ran : \/ i \in DOMAIN calls[t].ran /\ ran[i] = calls[t].ran[i] /\ i <= Len(calls[t].ran)
                                 \/ i = Len(calls[t].ran) + 1 /\ ran[i] = Head(rest)
    BY <2>2, <2>3, PutOn
  <2>5. /\ d \in Call /\ d.ran = ran /\ d.rest = Tail(rest) /\ d.due = calls[t].due
        /\ d.at \in {"run", "refused"}
    BY <1>1, <2>1, <2>3, <2>4
  <2> HIDE DEF c, r, rest, ran
  <2>6. Sorted(Tail(rest))
    <3> SUFFICES ASSUME NEW i \in DOMAIN Tail(rest), NEW j \in DOMAIN Tail(rest), i < j
                 PROVE  Before(Tail(rest)[i], Tail(rest)[j])
      BY DEF Sorted
    <3>1. i + 1 < j + 1
      BY <2>3
    <3> QED BY <1>2, <2>3, <3>1 DEF Sorted, rest
  <2>7. \A i \in DOMAIN calls[t].ran : Before(calls[t].ran[i], Head(rest))
    BY <1>2, <2>3 DEF rest
  <2>8. \A j \in DOMAIN Tail(rest) : Before(Head(rest), Tail(rest)[j])
    BY <1>2, <2>3 DEF Sorted, rest
  <2>9. \A i \in DOMAIN calls[t].ran, j \in DOMAIN Tail(rest) : Before(calls[t].ran[i], Tail(rest)[j])
    BY <1>2, <2>3 DEF rest
  <2>10. Sorted(ran)
    <3> SUFFICES ASSUME NEW i \in DOMAIN ran, NEW j \in DOMAIN ran, i < j
                 PROVE  Before(ran[i], ran[j])
      BY DEF Sorted
    <3>1. Len(calls[t].ran) \in Nat
      BY <2>2
    <3>2. i \in DOMAIN calls[t].ran /\ ran[i] = calls[t].ran[i]
      <4>1. DOMAIN ran \subseteq Nat
        BY <2>4
      <4> QED BY <2>4, <3>1, <4>1
    <3>3. CASE j = Len(calls[t].ran) + 1 /\ ran[j] = Head(rest)
      BY <2>7, <3>2, <3>3
    <3>4. CASE j \in DOMAIN calls[t].ran /\ ran[j] = calls[t].ran[j]
      BY <1>2, <3>2, <3>4 DEF Sorted
    <3> QED BY <2>4, <3>3, <3>4
  <2>11. \A i \in DOMAIN ran, j \in DOMAIN Tail(rest) : Before(ran[i], Tail(rest)[j])
    BY <2>4, <2>8, <2>9
  <2>12. d.due \subseteq ToSet(d.ran) \cup ToSet(d.rest)
    BY <1>2, <2>3, <2>4, <2>5 DEF rest
  <2> QED BY <1>1, <2>1, <2>5, <2>6, <2>10, <2>11, <2>12, CallKeeps
<1> QED BY <1>3, <1>4

\* No hook at first, and no trigger under way.
LEMMA HooksInvFirst == HookInit => HooksInv
<1> SUFFICES ASSUME HookInit PROVE HooksInv
  OBVIOUS
<1>1. <<>> \in Seq(Entry) /\ DOMAIN <<>> = {}
  OBVIOUS
<1>2. ToSet(<<>>) = {}
  BY <1>1 DEF ToSet
<1> QED BY <1>1, <1>2 DEF HookInit, HooksInv, HookShape, InOrder, NobodyPassed, Sorted

\* Every step of the hooks keeps the invariant.
LEMMA HooksInvKept == HooksInv /\ [HookNext]_hookVars => HooksInv'
<1> SUFFICES ASSUME HooksInv, [HookNext]_hookVars PROVE HooksInv'
  OBVIOUS
<1>1. CASE UNCHANGED hookVars
  BY <1>1 DEF hookVars, HooksInv, HookShape, InOrder, NobodyPassed
<1> QED BY <1>1, RegisterKeeps, UnregisterKeeps, TriggerKeeps, InvokeKeeps DEF HookNext

\* The invariant says what the run checks.
LEMMA HooksInvSays == HooksInv => EveryHookRuns
<1> SUFFICES ASSUME HooksInv PROVE EveryHookRuns
  OBVIOUS
<1>1. ToSet(<<>>) = {}
  BY DEF ToSet
<1> QED BY <1>1 DEF HooksInv, InOrder, NobodyPassed, Sorted, EveryHookRuns

\* A trigger runs its hooks in the order of priority and then of registration, and one
\* that ends without a refusal ran every hook that stayed registered, for any hooks,
\* priorities and triggers (core/hooks.go).
THEOREM EveryHookRunsAlways == HookSpec => []EveryHookRuns
  BY HooksInvFirst, HooksInvKept, HooksInvSays, PTL DEF HookSpec

-----------------------------------------------------------------------------
(* The policies *)

\* The decisions policies give, and an evaluation under way.
Decisions == {Allow} \cup {Evaluate(p, c) : p \in Policies, c \in ToolCalls}
Evaluation == [call : ToolCalls, next : Nat, decision : Decisions]

\* What the i-th policy of the chain says of the call.
Answer(chain, d, i) == Evaluate(chain[i], d.call)

\* What an evaluation knows of the policies it was before.
Considered(chain, d) ==
  /\ d.next \in 1 .. Len(chain) + 1
  /\ d.decision.allowed => \A i \in 1 .. d.next - 1 : Answer(chain, d, i).allowed
  /\ ~d.decision.allowed => d.next = Len(chain) + 1 /\ \E i \in DOMAIN chain : ~Answer(chain, d, i).allowed
  /\ d.decision.allowed => (d.decision.approval <=> \E i \in 1 .. d.next - 1 : Answer(chain, d, i).approval)
  /\ d.decision = Allow \/ \E i \in DOMAIN chain : d.decision = Answer(chain, d, i)

\* The inductive invariant: evaluations under way and returned agree with the policies
\* they were before.
PolicyInv ==
  /\ policies \in Seq(Policies) /\ deciding \in Seq(Evaluation) /\ returned \in Seq(Evaluation)
  /\ \A i \in DOMAIN deciding : Considered(policies, deciding[i])
  /\ \A i \in DOMAIN returned : Considered(policies, returned[i]) /\ returned[i].next > Len(policies)

\* A chain is there at first and nothing is evaluated.
LEMMA PolicyInvFirst == PolicyInit => PolicyInv
<1> SUFFICES ASSUME PolicyInit PROVE PolicyInv
  OBVIOUS
<1>1. PICK n \in 0 .. MaxPolicies : policies \in [1 .. n -> Policies]
  BY DEF PolicyInit, BoundedSeq, SeqOf
<1>2. policies \in Seq(Policies)
  BY <1>1
<1> QED BY <1>2 DEF PolicyInit, PolicyInv

\* An evaluation begins with what allows.
LEMMA PolicyDecideKeeps == PolicyInv /\ Decide => PolicyInv'
<1> SUFFICES ASSUME PolicyInv, NEW call \in ToolCalls,
                    deciding' = Append(deciding, [call |-> call, next |-> 1, decision |-> Allow]),
                    UNCHANGED <<policies, returned, tally>>
             PROVE  PolicyInv'
  BY DEF Decide
<1> DEFINE d == [call |-> call, next |-> 1, decision |-> Allow]
<1>1. d \in Evaluation
  BY DEF Evaluation, Decisions
<1>2. Considered(policies, d)
  <2>1. d.next = 1 /\ d.decision = Allow
    OBVIOUS
  <2>3. Allow.allowed /\ ~Allow.approval
    BY DEF Allow
  <2>4. Len(policies) \in Nat
    BY DEF PolicyInv
  <2>2. d.next \in 1 .. Len(policies) + 1 /\ 1 .. d.next - 1 = {}
    BY <2>1, <2>4
  <2> QED BY <2>1, <2>2, <2>3 DEF Considered
<1> HIDE DEF d
<1>3. deciding' \in Seq(Evaluation) /\ deciding \in Seq(Evaluation)
  BY <1>1 DEF PolicyInv, d
<1>4. \A i \in DOMAIN deciding' : deciding'[i] = d \/ (i \in DOMAIN deciding /\ deciding'[i] = deciding[i])
  BY <1>1, <1>3 DEF d
<1>5. \A x : Considered(policies, x) => Considered(policies', x)
  BY DEF Considered, Answer
<1>6. \A i \in DOMAIN deciding' : Considered(policies', deciding'[i])
  BY <1>2, <1>4, <1>5 DEF PolicyInv
<1>7. \A i \in DOMAIN returned : Considered(policies', returned[i]) /\ returned[i].next > Len(policies)
  BY <1>5 DEF PolicyInv
<1> QED BY <1>3, <1>6, <1>7 DEF PolicyInv

\* Having heard the next policy, the decision is that of the policies so far.
LEMMA HeardKeeps ==
  ASSUME policies \in Seq(Policies), NEW d \in Evaluation, Considered(policies, d), d.next <= Len(policies)
  PROVE  /\ Heard(d, Answer(policies, d, d.next)) \in Evaluation
         /\ Considered(policies, Heard(d, Answer(policies, d, d.next)))
<1> DEFINE a == Answer(policies, d, d.next)
           e == Heard(d, a)
<1>1. /\ d.next \in DOMAIN policies /\ d.next \in Nat /\ Len(policies) \in Nat
      /\ DOMAIN policies = 1 .. Len(policies)
  BY DEF Considered
<1>2. /\ a \in Decisions /\ a = Answer(policies, d, d.next)
  BY <1>1 DEF Answer, Evaluation, Decisions
<1> HIDE DEF a
<1>3. CASE ~a.allowed
  <2>1. e = [d EXCEPT !.next = Len(policies) + 1, !.decision = a]
    BY <1>3 DEF Heard
  <2>2. /\ e.call = d.call /\ e.next = Len(policies) + 1 /\ e.decision = a /\ e \in Evaluation
    <3>1. d.call \in ToolCalls /\ d = [call |-> d.call, next |-> d.next, decision |-> d.decision]
      BY DEF Evaluation
    <3>2. e = [call |-> d.call, next |-> Len(policies) + 1, decision |-> a]
      BY <2>1, <3>1
    <3> HIDE DEF e
    <3> QED BY <1>1, <1>2, <3>1, <3>2 DEF Evaluation
  <2> HIDE DEF e
  <2>3. \A i : Answer(policies, e, i) = Answer(policies, d, i)
    BY <2>2 DEF Answer
  <2>4. Considered(policies, e)
    BY <1>1, <1>2, <1>3, <2>2, <2>3 DEF Considered
  <2> QED BY <2>2, <2>4 DEF e, a
<1>4. CASE a.allowed
  <2> DEFINE b == IF a.approval THEN a ELSE d.decision
  <2>1. e = [d EXCEPT !.next = d.next + 1, !.decision = b]
    BY <1>4 DEF Heard, Evaluation
  <2>2. /\ e.call = d.call /\ e.next = d.next + 1 /\ e.decision = b /\ e \in Evaluation
    <3>1. d.call \in ToolCalls /\ d = [call |-> d.call, next |-> d.next, decision |-> d.decision]
      BY DEF Evaluation
    <3>2. e = [call |-> d.call, next |-> d.next + 1, decision |-> b]
      BY <2>1, <3>1
    <3> HIDE DEF e
    <3> QED BY <1>1, <1>2, <3>1, <3>2 DEF Evaluation
  <2> HIDE DEF e
  <2>3. \A i : Answer(policies, e, i) = Answer(policies, d, i)
    BY <2>2 DEF Answer
  <2>4. d.decision.allowed
    BY <1>1 DEF Considered
  <2>5. \A i \in 1 .. e.next - 1 : i \in 1 .. d.next - 1 \/ i = d.next
    BY <1>1, <2>2
  <2>6. (\A i \in 1 .. d.next - 1 : i \in 1 .. e.next - 1) /\ d.next \in 1 .. e.next - 1
    BY <1>1, <2>2
  <2>7. \A i \in 1 .. e.next - 1 : Answer(policies, e, i).allowed
    BY <1>2, <1>4, <2>3, <2>4, <2>5 DEF Considered
  <2>8. e.decision.allowed
    BY <1>4, <2>2, <2>4
  <2>9. e.decision.approval <=> \E i \in 1 .. e.next - 1 : Answer(policies, e, i).approval
    <3>1. CASE a.approval
      BY <1>2, <2>2, <2>3, <2>6, <3>1
    <3>2. CASE ~a.approval
      <4>1. d.decision.approval <=> \E i \in 1 .. d.next - 1 : Answer(policies, d, i).approval
        BY <2>4 DEF Considered
      <4>2. e.decision = d.decision
        BY <2>2, <3>2
      <4> QED BY <1>2, <2>3, <2>5, <2>6, <3>2, <4>1, <4>2
    <3> QED BY <3>1, <3>2
  <2>10. e.decision = Allow \/ \E i \in DOMAIN policies : e.decision = Answer(policies, e, i)
    BY <1>1, <1>2, <2>2, <2>3 DEF Considered
  <2>11. e.next \in 1 .. Len(policies) + 1
    BY <1>1, <2>2
  <2>12. Considered(policies, e)
    BY <2>7, <2>8, <2>9, <2>10, <2>11 DEF Considered
  <2> QED BY <2>2, <2>12 DEF e, a
<1> QED BY <1>3, <1>4

\* An evaluation under way consults the next policy.
LEMMA ConsultKeeps == PolicyInv /\ Consult => PolicyInv'
<1> SUFFICES ASSUME PolicyInv, Consult PROVE PolicyInv'
  OBVIOUS
<1>1. PICK i \in DOMAIN deciding :
        /\ deciding[i].next <= Len(policies)
        /\ deciding' = [deciding EXCEPT ![i] = Heard(deciding[i], Answer(policies, deciding[i], deciding[i].next))]
  BY DEF Consult, Answer
<1>2. UNCHANGED <<policies, returned, tally>>
  BY DEF Consult
<1>3. /\ deciding \in Seq(Evaluation) /\ policies \in Seq(Policies) /\ deciding[i] \in Evaluation
      /\ Considered(policies, deciding[i])
  BY DEF PolicyInv
<1>4. PICK e \in Evaluation : /\ e = Heard(deciding[i], Answer(policies, deciding[i], deciding[i].next))
                              /\ Considered(policies, e)
  BY <1>1, <1>3, HeardKeeps
<1>5. deciding' = [deciding EXCEPT ![i] = e]
  BY <1>1, <1>4
<1>6. /\ deciding' \in Seq(Evaluation) /\ DOMAIN deciding' = DOMAIN deciding
      /\ \A k \in DOMAIN deciding : deciding'[k] = IF k = i THEN e ELSE deciding[k]
  BY <1>3, <1>5
<1>7. \A x : Considered(policies, x) => Considered(policies', x)
  BY <1>2 DEF Considered, Answer
<1>8. \A k \in DOMAIN deciding' : Considered(policies', deciding'[k])
  BY <1>4, <1>6, <1>7 DEF PolicyInv
<1>9. \A k \in DOMAIN returned : Considered(policies', returned[k]) /\ returned[k].next > Len(policies)
  BY <1>7 DEF PolicyInv
<1> QED BY <1>2, <1>3, <1>6, <1>8, <1>9 DEF PolicyInv

\* An evaluation that is through is returned and counted.
LEMMA RecordDecisionKeeps == PolicyInv /\ RecordDecision => PolicyInv'
<1> SUFFICES ASSUME PolicyInv, RecordDecision PROVE PolicyInv'
  OBVIOUS
<1>1. PICK i \in DOMAIN deciding :
        /\ deciding[i].next > Len(policies)
        /\ returned' = Append(returned, deciding[i]) /\ deciding' = RemoveAt(deciding, i)
  BY DEF RecordDecision
<1>2. policies' = policies
  BY DEF RecordDecision
<1>3. /\ deciding \in Seq(Evaluation) /\ returned \in Seq(Evaluation) /\ policies \in Seq(Policies)
      /\ deciding[i] \in Evaluation /\ Considered(policies, deciding[i])
  BY DEF PolicyInv
<1>4. /\ deciding' \in Seq(Evaluation)
      /\ \A k \in DOMAIN deciding' : \E m \in DOMAIN deciding : deciding'[k] = deciding[m]
  BY <1>1, <1>3, Shorter
<1>5. /\ returned' \in Seq(Evaluation)
      /\ \A k \in DOMAIN returned' : \/ returned'[k] = deciding[i]
                                     \/ k \in DOMAIN returned /\ returned'[k] = returned[k]
  BY <1>1, <1>3
<1>6. \A x : Considered(policies, x) => Considered(policies', x)
  BY <1>2 DEF Considered, Answer
<1>7. \A k \in DOMAIN deciding' : Considered(policies', deciding'[k])
  BY <1>4, <1>6 DEF PolicyInv
<1>8. \A k \in DOMAIN returned' : Considered(policies', returned'[k]) /\ returned'[k].next > Len(policies')
  BY <1>1, <1>2, <1>3, <1>5, <1>6 DEF PolicyInv
<1> QED BY <1>2, <1>3, <1>4, <1>5, <1>7, <1>8 DEF PolicyInv

\* Every step of the policies keeps the invariant.
LEMMA PolicyInvKept == PolicyInv /\ [PolicyNext]_policyVars => PolicyInv'
<1>1. ASSUME PolicyInv, UNCHANGED policyVars PROVE PolicyInv'
  <2>1. policies' = policies /\ deciding' = deciding /\ returned' = returned
    BY <1>1 DEF policyVars
  <2>2. \A x : Considered(policies, x) => Considered(policies', x)
    BY <2>1
  <2> QED BY <1>1, <2>1, <2>2 DEF PolicyInv
<1> QED BY <1>1, PolicyDecideKeeps, ConsultKeeps, RecordDecisionKeeps DEF PolicyNext

\* The invariant says what the run checks: the strictest policy decides.
LEMMA PolicyInvSays == PolicyInv => StrictestDecides
<1> SUFFICES ASSUME PolicyInv, NEW k \in DOMAIN returned, NEW d, d = returned[k], NEW answers,
                    answers = {Evaluate(policies[i], d.call) : i \in DOMAIN policies}
             PROVE  /\ d.decision.allowed <=> \A a \in answers : a.allowed
                    /\ d.decision.allowed => (d.decision.approval <=> \E a \in answers : a.approval)
                    /\ d.decision = Allow \/ d.decision \in answers
  BY DEF StrictestDecides, ToSet
<1>1. Considered(policies, d) /\ d.next > Len(policies)
  BY DEF PolicyInv
<1>2. DOMAIN policies = 1 .. d.next - 1 /\ Len(policies) \in Nat
  BY <1>1 DEF Considered, PolicyInv
<1>3. answers = {Answer(policies, d, i) : i \in DOMAIN policies}
  BY DEF Answer
<1>4. d.decision.allowed <=> \A a \in answers : a.allowed
  BY <1>1, <1>2, <1>3 DEF Considered
<1>5. d.decision.allowed => (d.decision.approval <=> \E a \in answers : a.approval)
  BY <1>1, <1>2, <1>3 DEF Considered
<1>6. d.decision = Allow \/ d.decision \in answers
  BY <1>1, <1>3 DEF Considered
<1> QED BY <1>4, <1>5, <1>6

\* A call runs if all policies of the chain allow it, and needs a human if one of them
\* asks for one, whatever their order, for every chain and every call
\* (security/policy.go).
THEOREM StrictestDecidesAlways == PolicySpec => []StrictestDecides
  BY PolicyInvFirst, PolicyInvKept, PolicyInvSays, PTL DEF PolicySpec

-----------------------------------------------------------------------------
(* The client of a language server: callers *)

\* The places of a caller before the question it is about to ask.
Ahead == {"rest", "respend", "ensure", "register"} \cup Starting

\* The shape of what the callers keep.
CallersShape ==
  /\ place \in [Askers -> AskerPlaces] /\ retrying \in [Askers -> 0 .. 2]
  /\ attempts \in [Askers -> Nat] /\ asked \in [Askers -> Nat]

\* The flag is set while somebody starts a server, and one does at a time.
OneStarts ==
  /\ starting \in BOOLEAN
  /\ \A a \in Askers : place[a] \in Starting => starting
  /\ OneStart

\* A caller in a second question.
Again(a) == retrying[a] # 0 /\ place[a] # "over"

\* One caller is in a second question, and its mark is set.
OneAgain ==
  /\ retried \in BOOLEAN
  /\ \A a \in Askers : Again(a) => retried
  /\ \A a, b \in Askers : Again(a) /\ Again(b) => a = b

\* How often a question was asked, by where its caller is.
Counted ==
  \A a \in Askers :
    /\ place[a] \in {"register", "wait", "mark"} => retrying[a] # 1
    /\ place[a] \in {"rest", "respend"} => retrying[a] = 0
    /\ place[a] = "clear" => retrying[a] = 2
    /\ asked[a] <= (IF retrying[a] = 0 THEN 0 ELSE 1)
                     + (IF place[a] \in Ahead THEN 0 ELSE 1)

AskInv == CallersShape /\ OneStarts /\ OneAgain /\ Counted

\* A step that takes a caller to place l and retry r, with n questions asked: it leaves
\* the flag and the mark alone, or changes them for itself.
Moves(a, l, r, n) ==
  /\ l \in AskerPlaces /\ r \in 0 .. 2 /\ n \in Nat
  /\ place' = [place EXCEPT ![a] = l] /\ retrying' = [retrying EXCEPT ![a] = r]
  /\ asked' = [asked EXCEPT ![a] = n]
  /\ attempts' \in [Askers -> Nat]
  /\ \/ starting' = starting /\ (l \in Starting => place[a] \in Starting)
     \/ starting' = TRUE /\ ~starting
     \/ starting' = FALSE /\ place[a] \in Starting /\ l \notin Starting
  /\ \/ retried' = retried /\ (r # 0 /\ l # "over" => Again(a))
     \/ retried' = TRUE /\ (r # 0 /\ l # "over" /\ retried => Again(a))
     \/ retried' = FALSE /\ Again(a) /\ l = "over"
  /\ l \in {"register", "wait", "mark"} => r # 1
  /\ l \in {"rest", "respend"} => r = 0
  /\ l = "clear" => r = 2
  /\ n <= (IF r = 0 THEN 0 ELSE 1) + (IF l \in Ahead THEN 0 ELSE 1)

\* Such a step keeps the invariant.
LEMMA MoveKeeps ==
  ASSUME AskInv, NEW a \in Askers, NEW l, NEW r, NEW n, Moves(a, l, r, n)
  PROVE  AskInv'
<1>1. CallersShape'
  BY DEF AskInv, CallersShape, Moves
<1>2. /\ place'[a] = l /\ retrying'[a] = r /\ asked'[a] = n
      /\ \A b \in Askers :
           b # a => place'[b] = place[b] /\ retrying'[b] = retrying[b] /\ asked'[b] = asked[b]
  BY DEF AskInv, CallersShape, Moves
<1>6. \/ starting' = starting /\ (l \in Starting => place[a] \in Starting)
      \/ starting' = TRUE /\ ~starting
      \/ starting' = FALSE /\ place[a] \in Starting /\ l \notin Starting
  BY DEF Moves
<1>3. OneStarts'
  BY <1>2, <1>6 DEF AskInv, OneStarts, OneStart
<1>7. \/ retried' = retried /\ (r # 0 /\ l # "over" => Again(a))
      \/ retried' = TRUE /\ (r # 0 /\ l # "over" /\ retried => Again(a))
      \/ retried' = FALSE /\ Again(a) /\ l = "over"
  BY DEF Moves
<1>4. OneAgain'
  <2>1. /\ Again(a)' <=> r # 0 /\ l # "over"
        /\ \A b \in Askers : b # a => (Again(b)' <=> Again(b))
    BY <1>2 DEF Again
  <2>2. retried \in BOOLEAN /\ (\A b \in Askers : Again(b) => retried)
        /\ (\A b, c \in Askers : Again(b) /\ Again(c) => b = c)
    BY DEF AskInv, OneAgain
  <2> QED BY <1>7, <2>1, <2>2 DEF OneAgain
<1>5. Counted'
  BY <1>2 DEF AskInv, Counted, Moves
<1> QED BY <1>1, <1>3, <1>4, <1>5 DEF AskInv

\* What is known of a caller before its step.
LEMMA CallerIs ==
  ASSUME AskInv, NEW a \in Askers
  PROVE  /\ place[a] \in AskerPlaces /\ retrying[a] \in 0 .. 2
         /\ asked[a] \in Nat /\ attempts[a] \in Nat
         /\ retrying = [retrying EXCEPT ![a] = retrying[a]]
         /\ asked = [asked EXCEPT ![a] = asked[a]]
         /\ attempts \in [Askers -> Nat]
         /\ \A k \in Nat : [attempts EXCEPT ![a] = k] \in [Askers -> Nat]
         /\ retried \in BOOLEAN /\ starting \in BOOLEAN
         /\ place[a] \in Starting => starting
         /\ Again(a) => retried
         /\ place[a] \in {"register", "wait", "mark"} => retrying[a] # 1
         /\ place[a] \in {"rest", "respend"} => retrying[a] = 0
         /\ place[a] = "clear" => retrying[a] = 2
         /\ asked[a] <= (IF retrying[a] = 0 THEN 0 ELSE 1)
                          + (IF place[a] \in Ahead THEN 0 ELSE 1)
BY DEF AskInv, CallersShape, OneStarts, OneAgain, Counted

\* A caller that got a server goes on with its call.
LEMMA EnsuredMoves ==
  ASSUME AskInv, NEW a \in Askers, place[a] = "ensure" \/ place[a] = "started", Ensured(a),
         \/ starting' = starting /\ place[a] = "ensure"
         \/ starting' = FALSE /\ place[a] = "started",
         retried' = retried, asked' = asked, attempts' \in [Askers -> Nat]
  PROVE  AskInv'
<1>1. CASE lspCall[a] = "restart"
  <2>1. Moves(a, "over", IF retrying[a] = 1 THEN 2 ELSE retrying[a], asked[a])
    BY <1>1, CallerIs DEF Ensured, GoesTo, Moves, AskerPlaces, Starting, Ahead, Again
  <2> QED BY <2>1, MoveKeeps
<1>2. CASE lspCall[a] # "restart" /\ retrying[a] = 1
  <2>1. Moves(a, "ensure", 2, asked[a])
    BY <1>2, CallerIs DEF Ensured, GoesTo, Moves, AskerPlaces, Starting, Ahead, Again
  <2> QED BY <2>1, MoveKeeps
<1>3. CASE lspCall[a] # "restart" /\ retrying[a] # 1
  <2>1. Moves(a, "register", retrying[a], asked[a])
    BY <1>3, CallerIs DEF Ensured, GoesTo, Moves, AskerPlaces, Starting, Ahead, Again
  <2> QED BY <2>1, MoveKeeps
<1> QED BY <1>1, <1>2, <1>3

\* A caller that gives its call up.
LEMMA GiveUpMoves ==
  ASSUME AskInv, NEW a \in Askers, GiveUp(a),
         place[a] \in {"ensure", "failed", "register", "wait", "mark"},
         \/ starting' = starting
         \/ starting' = FALSE /\ place[a] = "failed",
         retried' = retried \/ retried' = TRUE, UNCHANGED <<retrying, asked>>,
         attempts' \in [Askers -> Nat]
  PROVE  AskInv'
<1>1. CASE retrying[a] = 2
  <2>1. Moves(a, "clear", 2, asked[a])
    BY <1>1, CallerIs DEF GiveUp, GoesTo, Moves, AskerPlaces, Starting, Ahead, Again
  <2> QED BY <2>1, MoveKeeps
<1>2. CASE retrying[a] # 2
  <2>1. Moves(a, "over", retrying[a], asked[a])
    BY <1>2, CallerIs DEF GiveUp, GoesTo, Moves, AskerPlaces, Starting, Ahead, Again
  <2> QED BY <2>1, MoveKeeps
<1> QED BY <1>1, <1>2

\* A caller within a start, or one that only moves on.
LEMMA StartMoves ==
  ASSUME AskInv, NEW a \in Askers, NEW l \in AskerPlaces, GoesTo(a, l),
         place[a] \in Starting, l \in Starting,
         UNCHANGED <<starting, retried, retrying, asked>>, attempts' \in [Askers -> Nat]
  PROVE  AskInv'
<1>1. Moves(a, l, retrying[a], asked[a])
  BY CallerIs DEF GoesTo, Moves, Starting, Ahead, Again
<1> QED BY <1>1, MoveKeeps

\* Whoever is not at a step.
LEMMA AskIdle ==
  AskInv /\ UNCHANGED <<place, retrying, asked, attempts, starting, retried>> => AskInv'
BY DEF AskInv, CallersShape, OneStarts, OneStart, OneAgain, Again, Counted

\* Nobody has asked.
LEMMA AskInvFirst == LspInit => AskInv
<1> SUFFICES ASSUME LspInit PROVE AskInv
  OBVIOUS
<1>1. \A a \in Askers : place[a] = "rest" /\ retrying[a] = 0 /\ asked[a] = 0
  BY DEF LspInit
<1>2. CallersShape
  BY DEF LspInit, CallersShape, AskerPlaces
<1>3. OneStarts /\ OneAgain
  BY <1>1 DEF LspInit, OneStarts, OneStart, OneAgain, Again, Starting
<1>4. Counted
  BY <1>1 DEF Counted
<1> QED BY <1>2, <1>3, <1>4 DEF AskInv

\* The steps of a caller.
LEMMA AskerKeeps ==
  ASSUME AskInv, NEW a \in Askers, RequestAnswer(a) \/ StopClient(a) \/ AskerStep(a)
  PROVE  AskInv'
<1>0. attempts \in [Askers -> Nat]
  BY CallerIs
<1>1. CASE RequestAnswer(a)
  <2>1. Moves(a, "ensure", retrying[a], asked[a])
    BY <1>1, CallerIs DEF RequestAnswer, lspClient, GoesTo, Moves, AskerPlaces, Starting,
                          Ahead, Again
  <2> QED BY <2>1, MoveKeeps
<1>2. CASE StopClient(a)
  <2>1. PICK l \in {"over", "respend"} : GoesTo(a, l) /\ place[a] = "rest"
    BY <1>2 DEF StopClient
  <2>3. UNCHANGED <<starting, retried, retrying, attempts, asked>>
    BY <1>2 DEF StopClient
  <2>2. Moves(a, l, retrying[a], asked[a])
    BY <2>1, <2>3, CallerIs DEF GoesTo, Moves, AskerPlaces, Starting, Ahead, Again
  <2> QED BY <2>2, MoveKeeps
<1>3. CASE RestartClient(a)
  <2>1. PICK l \in {"over", "ensure"} : GoesTo(a, l) /\ place[a] = "respend"
    BY <1>3 DEF RestartClient
  <2>2. Moves(a, l, retrying[a], asked[a])
    BY <1>3, <2>1, CallerIs DEF RestartClient, GoesTo, Moves, AskerPlaces, Starting, Ahead,
                                Again
  <2> QED BY <2>2, MoveKeeps
<1>4. CASE EnsureServer(a)
  <2>0. place[a] = "ensure" /\ UNCHANGED <<retried, asked, attempts>>
    BY <1>4 DEF EnsureServer
  <2>1. CASE Ensured(a) /\ starting' = starting
    BY <1>0, <2>0, <2>1, EnsuredMoves
  <2>2. CASE GiveUp(a) /\ UNCHANGED <<starting, retrying>>
    BY <1>0, <2>0, <2>2, GiveUpMoves
  <2>3. CASE /\ ~starting /\ starting' = TRUE /\ UNCHANGED retrying
             /\ GoesTo(a, "backoff") \/ GoesTo(a, "launch")
    <3>1. PICK l \in {"backoff", "launch"} : GoesTo(a, l)
      BY <2>3
    <3>2. Moves(a, l, retrying[a], asked[a])
      BY <2>0, <2>3, <3>1, CallerIs DEF GoesTo, Moves, AskerPlaces, Starting, Ahead, Again
    <3> QED BY <3>2, MoveKeeps
  <2> QED BY <1>4, <2>1, <2>2, <2>3 DEF EnsureServer
<1>5. CASE Backoff(a) \/ Launch(a) \/ CountServer(a) \/ Hello(a) \/ Greet(a) \/ Ready(a)
           \/ Abandon(a) \/ Spend(a)
  <2>1. /\ place[a] \in Starting /\ UNCHANGED <<starting, retried, retrying, asked>>
    BY <1>5 DEF Backoff, Launch, CountServer, Hello, Greet, Ready, Abandon, Spend, Starting,
                lspClient
  <2>2. \E l \in Starting : GoesTo(a, l)
    BY <1>5 DEF Backoff, Launch, CountServer, Hello, Greet, Ready, Abandon, Spend, Starting,
                RegisterWaiter
  <2>3. attempts' \in [Askers -> Nat]
    BY <1>0, <1>5, CallerIs DEF Backoff, Launch, CountServer, Hello, Greet, Ready, Abandon,
                                Spend
  <2>4. PICK l \in Starting : GoesTo(a, l)
    BY <2>2
  <2>5. l \in AskerPlaces
    BY DEF AskerPlaces
  <2> QED BY <2>1, <2>3, <2>4, <2>5, StartMoves
<1>6. CASE Started(a)
  <2>1. starting' = FALSE /\ UNCHANGED <<retried, asked>> /\ attempts' \in [Askers -> Nat]
    BY <1>6, CallerIs DEF Started
  <2>2. CASE place[a] = "started" /\ Ensured(a)
    BY <2>1, <2>2, EnsuredMoves
  <2>3. CASE place[a] = "failed" /\ GiveUp(a) /\ UNCHANGED retrying
    BY <2>1, <2>3, GiveUpMoves
  <2> QED BY <1>6, <2>2, <2>3 DEF Started
<1>7. CASE AskServer(a)
  <2>1. place[a] = "register" /\ UNCHANGED <<starting, retried, retrying, attempts>>
    BY <1>7 DEF AskServer
  <2>2. CASE GiveUp(a) /\ asked' = asked
    BY <1>0, <2>1, <2>2, GiveUpMoves
  <2>3. CASE GoesTo(a, "wait") /\ asked' = [asked EXCEPT ![a] = @ + 1]
    <3>1. Moves(a, "wait", retrying[a], asked[a] + 1)
      BY <2>1, <2>3, CallerIs DEF GoesTo, Moves, AskerPlaces, Starting, Ahead, Again
    <3> QED BY <3>1, MoveKeeps
  <2> QED BY <1>7, <2>2, <2>3 DEF AskServer, RegisterWaiter
<1>8. CASE WaitEnds(a)
  <2>1. /\ place[a] \in {"wait", "shake"}
        /\ UNCHANGED <<starting, retried, retrying, attempts, asked>>
    BY <1>8 DEF WaitEnds
  <2>2. CASE place[a] = "wait" /\ GiveUp(a)
    BY <1>0, <2>1, <2>2, GiveUpMoves
  <2>3. CASE place[a] = "wait" /\ GoesTo(a, "mark")
    <3>1. Moves(a, "mark", retrying[a], asked[a])
      BY <2>1, <2>3, CallerIs DEF GoesTo, Moves, AskerPlaces, Starting, Ahead, Again
    <3> QED BY <3>1, MoveKeeps
  <2>4. CASE place[a] = "shake" /\ (GoesTo(a, "greet") \/ GoesTo(a, "abandon"))
    <3>1. PICK l \in {"greet", "abandon"} : GoesTo(a, l)
      BY <2>4
    <3>2. l \in Starting /\ place[a] \in Starting /\ l \in AskerPlaces
      BY <2>4 DEF Starting, AskerPlaces
    <3> QED BY <1>0, <2>1, <3>1, <3>2, StartMoves
  <2> QED BY <1>8, <2>1, <2>2, <2>3, <2>4 DEF WaitEnds
<1>9. CASE MarkRetry(a)
  <2>1. place[a] = "mark" /\ retried' = TRUE /\ UNCHANGED <<starting, attempts, asked>>
    BY <1>9 DEF MarkRetry
  <2>2. CASE GiveUp(a) /\ UNCHANGED retrying
    BY <1>0, <2>1, <2>2, GiveUpMoves
  <2>3. CASE ~retried /\ GoesTo(a, "over") /\ UNCHANGED retrying
    <3>1. Moves(a, "over", retrying[a], asked[a])
      BY <2>1, <2>3, CallerIs DEF GoesTo, Moves, AskerPlaces, Starting, Ahead, Again
    <3> QED BY <3>1, MoveKeeps
  <2>4. CASE ~retried /\ GoesTo(a, "ensure") /\ retrying' = [retrying EXCEPT ![a] = 1]
    <3>2. retrying[a] = 0 /\ asked[a] \in 0 .. 1
      BY <2>1, <2>4, CallerIs DEF Again
    <3>1. Moves(a, "ensure", 1, asked[a])
      BY <2>1, <2>4, <3>2, CallerIs DEF GoesTo, Moves, AskerPlaces, Starting, Ahead, Again
    <3> QED BY <3>1, MoveKeeps
  <2> QED BY <1>9, <2>2, <2>3, <2>4 DEF MarkRetry
<1>10. CASE ClearRetry(a)
  <2>1. Moves(a, "over", retrying[a], asked[a])
    BY <1>10, CallerIs DEF ClearRetry, lspServer, GoesTo, Moves, AskerPlaces, Starting,
                           Ahead, Again
  <2> QED BY <2>1, MoveKeeps
<1> QED BY <1>1, <1>2, <1>3, <1>4, <1>5, <1>6, <1>7, <1>8, <1>9, <1>10 DEF AskerStep

\* Every step keeps the invariant.
LEMMA AskInvKept == AskInv /\ [LspNext]_lspVars => AskInv'
<1> SUFFICES ASSUME AskInv, [LspNext]_lspVars PROVE AskInv'
  OBVIOUS
<1>1. ASSUME NEW a \in Askers, RequestAnswer(a) \/ StopClient(a) \/ AskerStep(a)
      PROVE  AskInv'
  BY <1>1, AskerKeeps
<1>2. CASE \E k \in Servers : \/ KillServer(k) \/ CrashServer(k)
                              \/ DeliverAnswer(k) \/ NoticeEnd(k) \/ TeardownServer(k)
  <2>1. UNCHANGED <<place, retrying, asked, attempts, starting, retried>>
    BY <1>2 DEF KillServer, CrashServer, EndServer, DeliverAnswer, NoticeEnd,
                TeardownServer, lspCaller, lspClient
  <2> QED BY <2>1, AskIdle
<1>3. CASE UNCHANGED lspVars
  BY <1>3, AskIdle DEF lspVars, lspCaller, lspClient
<1> QED BY <1>1, <1>2, <1>3 DEF LspNext

-----------------------------------------------------------------------------
(* The client of a language server: answers *)

\* Questions, and what a caller waits with.
Questions == [from : Askers, hello : BOOLEAN, attempt : Nat]
Waiters == [question : Questions \cup {Nil}, answer : Questions \cup {Nil}, done : BOOLEAN]

\* Who is registered waits; what is on the wire under an identifier that somebody waits
\* under is the question of who does; and no identifier was given out twice.
WaitInv ==
  /\ nextID \in Nat
  /\ pending \subseteq [id : Nat, from : Askers]
  /\ waiter \in [Askers -> Waiters]
  /\ \A p \in pending : p.id <= nextID /\ place[p.from] \in {"wait", "shake"}
  /\ \A q \in wire : q.id \in Nat /\ q.id <= nextID /\ q.question \in Questions
  /\ \A q \in wire, p \in pending : p.id = q.id => waiter[p.from].question = q.question
  /\ AnswersMatch

\* Nobody waits.
LEMMA WaitInvFirst == LspInit => WaitInv
<1> SUFFICES ASSUME LspInit PROVE WaitInv
  OBVIOUS
<1>1. NoWaiter \in Waiters /\ NoWaiter.answer = Nil
  BY DEF NoWaiter, Waiters
<1>2. waiter \in [Askers -> Waiters] /\ \A a \in Askers : waiter[a].answer = Nil
  BY <1>1 DEF LspInit
<1> QED BY <1>2 DEF LspInit, WaitInv, AnswersMatch

\* A step by which nobody is registered: who remains so waits on with the same question,
\* and who has an answer has the one to it.
LEMMA NobodyNew ==
  ASSUME WaitInv, pending' \subseteq pending, wire' \subseteq wire, nextID' = nextID,
         waiter' \in [Askers -> Waiters],
         \A p \in pending' : /\ place'[p.from] = place[p.from]
                             /\ waiter'[p.from].question = waiter[p.from].question,
         AnswersMatch'
  PROVE  WaitInv'
BY DEF WaitInv

\* A step by which nobody is registered or told anything: who goes on does not wait.
LEMMA NobodyTold ==
  ASSUME WaitInv, UNCHANGED <<pending, wire, nextID, waiter>>, NEW a \in Askers,
         place[a] \notin {"wait", "shake"}, \A b \in Askers : b # a => place'[b] = place[b]
  PROVE  WaitInv'
BY DEF WaitInv, AnswersMatch

\* A question that is written: nobody waits under its identifier yet.
LEMMA RegisterWaits ==
  ASSUME AskInv, WaitInv, NEW a \in Askers, NEW l \in {"wait", "shake"},
         RegisterWaiter(a, l), place[a] \notin {"wait", "shake"}
  PROVE  WaitInv'
<1> DEFINE Q == Question(a)
           w == [NoWaiter EXCEPT !.question = Q]
<1>1. Q \in Questions
  BY CallerIs DEF Question, Questions
<1> HIDE DEF Q
<1>2. w \in Waiters /\ w.question = Q /\ w.answer = Nil
  BY <1>1 DEF NoWaiter, Waiters
<1> HIDE DEF w
<1>3. /\ nextID' = nextID + 1 /\ nextID \in Nat
      /\ pending' = pending \cup {[id |-> nextID + 1, from |-> a]}
      /\ waiter' = [waiter EXCEPT ![a] = w]
      /\ wire' = wire \cup {[server |-> k, id |-> nextID + 1, question |-> Q] :
                               k \in alive \cap {lspWriter}}
      /\ \A b \in Askers : b # a => place'[b] = place[b]
      /\ place'[a] \in {"wait", "shake"}
  BY DEF RegisterWaiter, WaitInv, AskInv, CallersShape, GoesTo, Q, w
<1>4. /\ waiter' \in [Askers -> Waiters] /\ waiter'[a] = w
      /\ \A b \in Askers : b # a => waiter'[b] = waiter[b]
  BY <1>2, <1>3 DEF WaitInv
<1>5. \A p \in pending : p.from # a /\ p.from \in Askers /\ p.id \in Nat /\ p.id <= nextID
  BY DEF WaitInv
<1>6. \A q \in wire' : \/ q \in wire /\ q.id <= nextID
                       \/ q.id = nextID + 1 /\ q.question = Q
  BY <1>3 DEF WaitInv
<1>7. \A p \in pending' : \/ p \in pending
                          \/ p.id = nextID + 1 /\ p.from = a
  BY <1>3
<1>8. nextID' \in Nat /\ pending' \subseteq [id : Nat, from : Askers]
  BY <1>3 DEF WaitInv
<1>9. \A p \in pending' : p.id <= nextID' /\ place'[p.from] \in {"wait", "shake"}
  BY <1>3, <1>5, <1>7 DEF WaitInv
<1>10. \A q \in wire' : q.id \in Nat /\ q.id <= nextID' /\ q.question \in Questions
  BY <1>1, <1>3, <1>6 DEF WaitInv
<1>11. ASSUME NEW q \in wire', NEW p \in pending', p.id = q.id
       PROVE  waiter'[p.from].question = q.question
  <2>1. CASE q \in wire /\ p \in pending
    BY <1>4, <1>5, <1>11, <2>1 DEF WaitInv
  <2>2. CASE q.id = nextID + 1 /\ q.question = Q /\ p.id = nextID + 1 /\ p.from = a
    BY <1>2, <1>4, <2>2
  <2>3. nextID \in Nat
    BY <1>3
  <2> QED BY <1>5, <1>6, <1>7, <1>11, <2>1, <2>2, <2>3
<1>12. AnswersMatch'
  BY <1>2, <1>4 DEF WaitInv, AnswersMatch
<1> QED BY <1>4, <1>8, <1>9, <1>10, <1>11, <1>12 DEF WaitInv

\* A caller that no longer waits is not registered.
LEMMA ForgetKeeps ==
  ASSUME WaitInv, NEW a \in Askers, ForgetWaiter(a), UNCHANGED <<wire, nextID>>,
         \A b \in Askers : b # a => place'[b] = place[b]
  PROVE  WaitInv'
<1>1. NoWaiter \in Waiters /\ NoWaiter.answer = Nil
  BY DEF NoWaiter, Waiters
<1>2. /\ waiter' \in [Askers -> Waiters] /\ waiter'[a] = NoWaiter
      /\ \A b \in Askers : b # a => waiter'[b] = waiter[b]
      /\ pending' = {p \in pending : p.from # a}
  BY <1>1 DEF ForgetWaiter, WaitInv
<1>3. AnswersMatch'
  BY <1>1, <1>2 DEF WaitInv, AnswersMatch
<1>4. \A p \in pending' : p.from \in Askers /\ p.from # a
  BY <1>2 DEF WaitInv
<1> QED BY <1>2, <1>3, <1>4, NobodyNew

\* An answer goes to who waits under its identifier.
LEMMA DeliverKeeps == ASSUME WaitInv, NEW k \in Servers, DeliverAnswer(k) PROVE WaitInv'
<1>1. PICK q \in wire :
        /\ wire' = wire \ {q}
        /\ pending' = {p \in pending : p.id # q.id}
        /\ waiter' = [a \in Askers |->
                        IF [id |-> q.id, from |-> a] \in pending
                        THEN [waiter[a] EXCEPT !.answer = q.question, !.done = TRUE]
                        ELSE waiter[a]]
        /\ UNCHANGED <<nextID, place>>
  BY DEF DeliverAnswer
<1>2. q.question \in Questions
  BY DEF WaitInv
<1>3. ASSUME NEW a \in Askers
      PROVE  /\ waiter'[a] \in Waiters /\ waiter'[a].question = waiter[a].question
             /\ waiter'[a].answer # Nil => waiter'[a].answer = waiter'[a].question
  <2>1. /\ waiter[a] \in Waiters
        /\ waiter[a].answer # Nil => waiter[a].answer = waiter[a].question
    BY DEF WaitInv, AnswersMatch
  <2>2. CASE [id |-> q.id, from |-> a] \in pending
    <3>1. waiter[a].question = q.question
      BY <2>2 DEF WaitInv
    <3>2. waiter'[a] = [waiter[a] EXCEPT !.answer = q.question, !.done = TRUE]
      BY <1>1, <2>2
    <3> QED BY <1>2, <2>1, <3>1, <3>2 DEF Waiters
  <2>3. CASE [id |-> q.id, from |-> a] \notin pending
    BY <1>1, <2>1, <2>3
  <2> QED BY <2>2, <2>3
<1>4. waiter' \in [Askers -> Waiters] /\ AnswersMatch'
  <2>1. DOMAIN waiter' = Askers /\ waiter' = [a \in Askers |-> waiter'[a]]
    BY <1>1
  <2> QED BY <1>3, <2>1 DEF AnswersMatch
<1>5. \A p \in pending' : p \in pending /\ p.from \in Askers
  BY <1>1 DEF WaitInv
<1> QED BY <1>1, <1>3, <1>4, <1>5, NobodyNew

\* Whoever waits is told that the server has gone.
LEMMA TeardownKeeps == ASSUME WaitInv, NEW k \in Servers, TeardownServer(k) PROVE WaitInv'
<1>1. UNCHANGED <<wire, nextID, place>>
  BY DEF TeardownServer
<1>2. CASE k # generation
  BY <1>1, <1>2 DEF TeardownServer, WaitInv, AnswersMatch
<1>3. CASE k = generation
  <2>1. /\ pending' = {}
        /\ waiter' = [a \in Askers |->
                        [waiter[a] EXCEPT !.done = @ \/ \E p \in pending : p.from = a]]
    BY <1>3 DEF TeardownServer
  <2>2. ASSUME NEW a \in Askers
        PROVE  /\ waiter'[a] \in Waiters
               /\ waiter'[a].answer # Nil => waiter'[a].answer = waiter'[a].question
    <3>1. /\ waiter[a] \in Waiters
          /\ waiter[a].answer # Nil => waiter[a].answer = waiter[a].question
      BY DEF WaitInv, AnswersMatch
    <3>2. PICK d \in BOOLEAN : waiter'[a] = [waiter[a] EXCEPT !.done = d]
      <4>1. PICK d : d = (waiter[a].done \/ \E p \in pending : p.from = a)
        OBVIOUS
      <4>2. d \in BOOLEAN
        BY <4>1
      <4>3. waiter'[a] = [waiter[a] EXCEPT !.done = d]
        BY <2>1, <4>1
      <4> QED BY <4>2, <4>3
    <3> QED BY <3>1, <3>2 DEF Waiters
  <2>3. waiter' \in [Askers -> Waiters] /\ AnswersMatch'
    <3>1. DOMAIN waiter' = Askers /\ waiter' = [a \in Askers |-> waiter'[a]]
      BY <2>1
    <3> QED BY <2>2, <3>1 DEF AnswersMatch
  <2> QED BY <1>1, <2>1, <2>3, NobodyNew
<1> QED BY <1>2, <1>3

\* The steps of a caller.
LEMMA AskerWaits ==
  ASSUME AskInv, WaitInv, NEW a \in Askers,
         RequestAnswer(a) \/ StopClient(a) \/ AskerStep(a)
  PROVE  WaitInv'
<1>1. \A b \in Askers : b # a => place'[b] = place[b]
  <2>1. \E l : GoesTo(a, l)
    BY DEF RequestAnswer, StopClient, AskerStep, RestartClient, EnsureServer, Ensured,
           GiveUp, Backoff, Launch, CountServer, Hello, RegisterWaiter, Greet, Ready,
           Abandon, Spend, Started, AskServer, WaitEnds, MarkRetry, ClearRetry
  <2> QED BY <2>1 DEF GoesTo, AskInv, CallersShape
<1>2. CASE RequestAnswer(a) \/ StopClient(a) \/ RestartClient(a) \/ EnsureServer(a)
           \/ Backoff(a) \/ CountServer(a) \/ Greet(a) \/ Ready(a) \/ Abandon(a)
           \/ Spend(a) \/ Started(a) \/ MarkRetry(a) \/ ClearRetry(a)
  <2>1. UNCHANGED <<pending, wire, nextID, waiter>>
    BY <1>2 DEF RequestAnswer, StopClient, RestartClient, EnsureServer, Backoff,
                CountServer, Greet, Ready, Abandon, Spend, Started, MarkRetry, ClearRetry,
                lspClient, lspServer
  <2>2. place[a] \notin {"wait", "shake"}
    BY <1>2 DEF RequestAnswer, StopClient, RestartClient, EnsureServer, Backoff,
                CountServer, Greet, Ready, Abandon, Spend, Started, MarkRetry, ClearRetry
  <2> QED BY <1>1, <2>1, <2>2, NobodyTold
<1>3. CASE Launch(a)
  <2>1. /\ UNCHANGED <<wire, nextID, waiter>> /\ place[a] = "launch"
        /\ pending' = pending \/ pending' = {}
    BY <1>3 DEF Launch
  <2>2. \A p \in pending : p.from \in Askers /\ p.from # a
    BY <2>1 DEF WaitInv
  <2> QED BY <1>1, <2>1, <2>2, NobodyNew DEF WaitInv, AnswersMatch
<1>4. CASE Hello(a)
  <2>1. place[a] = "hello"
    BY <1>4 DEF Hello
  <2>2. CASE UNCHANGED <<pending, nextID, waiter, wire>>
    BY <1>1, <2>1, <2>2, NobodyTold
  <2>3. CASE RegisterWaiter(a, "shake")
    BY <2>1, <2>3, RegisterWaits
  <2> QED BY <1>4, <2>2, <2>3 DEF Hello
<1>5. CASE AskServer(a)
  <2>1. place[a] = "register"
    BY <1>5 DEF AskServer
  <2>2. CASE UNCHANGED <<pending, nextID, waiter, wire>>
    BY <1>1, <2>1, <2>2, NobodyTold
  <2>3. CASE RegisterWaiter(a, "wait")
    BY <2>1, <2>3, RegisterWaits
  <2> QED BY <1>5, <2>2, <2>3 DEF AskServer
<1>6. CASE WaitEnds(a)
  <2>1. ForgetWaiter(a) /\ UNCHANGED <<wire, nextID>>
    BY <1>6 DEF WaitEnds, lspServer
  <2> QED BY <1>1, <2>1, ForgetKeeps
<1> QED BY <1>2, <1>3, <1>4, <1>5, <1>6 DEF AskerStep

\* Every step keeps the invariant.
LEMMA WaitInvKept == AskInv /\ WaitInv /\ [LspNext]_lspVars => WaitInv'
<1> SUFFICES ASSUME AskInv, WaitInv, [LspNext]_lspVars PROVE WaitInv'
  OBVIOUS
<1>1. ASSUME NEW a \in Askers, RequestAnswer(a) \/ StopClient(a) \/ AskerStep(a)
      PROVE  WaitInv'
  BY <1>1, AskerWaits
<1>2. ASSUME NEW k \in Servers, KillServer(k) \/ CrashServer(k) PROVE WaitInv'
  BY <1>2 DEF KillServer, CrashServer, EndServer, lspCaller, lspClient, WaitInv,
              AnswersMatch
<1>3. ASSUME NEW k \in Servers, NoticeEnd(k) PROVE WaitInv'
  <2>1. UNCHANGED <<pending, nextID, waiter, place>> /\ wire' \subseteq wire
    BY <1>3 DEF NoticeEnd, lspCaller
  <2> QED BY <2>1, NobodyNew DEF WaitInv, AnswersMatch
<1>4. CASE UNCHANGED lspVars
  BY <1>4 DEF lspVars, lspCaller, lspClient, lspServer, WaitInv, AnswersMatch
<1> QED BY <1>1, <1>2, <1>3, <1>4, DeliverKeeps, TeardownKeeps DEF LspNext

\* For every number of callers, servers and restarts, and wherever a server crashes: an
\* answer goes to the question it was given to, a question is asked twice at most, and one
\* server is started at a time (lsp/client.go).
THEOREM AnswersMatchAlways == LspSpec => [](AnswersMatch /\ AskedTwice /\ OneStart)
<1>1. AskInv /\ WaitInv => AnswersMatch /\ AskedTwice /\ OneStart
  BY DEF AskInv, WaitInv, OneStarts, AskedTwice, Counted, CallersShape
<1> QED BY <1>1, AskInvFirst, AskInvKept, WaitInvFirst, WaitInvKept, PTL DEF LspSpec

-----------------------------------------------------------------------------
(* The tools over a language server *)

\* A call that works on a document.
DocCalls ==
  [at : {"ensure", "tell", "close", "supports", "request", "ask", "asked"}, doc : Docs,
   asks : BOOLEAN, existed : BOOLEAN, version : Nat, since : Nat, saw : Nat]

\* The inductive invariant: a text to be told has a version of the document as it was
\* opened last, or of an earlier opening.
DocInv ==
  /\ opens \in Nat
  /\ openDocs \in [Docs -> [version : Nat, since : Nat]]
  /\ \A d \in Docs : /\ openDocs[d].since <= opens
                     /\ openDocs[d] # Absent => openDocs[d].since # 0
  /\ DOMAIN docUser = DocUsers /\ docUser = [c \in DocUsers |-> docUser[c]]
  /\ givenDocs \in [Docs -> Nat]
  /\ \A c \in DocUsers : docUser[c] = AtRest \/ docUser[c] \in DocCalls
  /\ \A c \in DocUsers : Telling(c) =>
       /\ docUser[c].since \in 1 .. opens
       /\ ~docUser[c].existed => docUser[c].version = FirstDocumentVersion
       /\ openDocs[docUser[c].doc].since = docUser[c].since =>
            docUser[c].version <= openDocs[docUser[c].doc].version
  /\ VersionsOnce

\* Nothing is open.
LEMMA DocInvFirst == DocInit => DocInv
<1> SUFFICES ASSUME DocInit PROVE DocInv
  OBVIOUS
<1>1. \A c \in DocUsers : docUser[c].at = "rest"
  BY DEF DocInit, AtRest
<1>2. Absent \in [version : Nat, since : Nat] /\ Absent.since = 0
  BY DEF Absent
<1>3. /\ openDocs \in [Docs -> [version : Nat, since : Nat]]
      /\ \A d \in Docs : openDocs[d].since = 0 /\ openDocs[d] = Absent
  BY <1>2 DEF DocInit
<1> QED BY <1>1, <1>3 DEF DocInit, DocInv, Telling, VersionsOnce

\* What is known of a text to be told.
LEMMA TellingIs ==
  ASSUME DocInv, NEW c \in DocUsers, Telling(c)
  PROVE  /\ docUser[c] \in DocCalls /\ docUser[c].since \in 1 .. opens
         /\ ~docUser[c].existed => docUser[c].version = FirstDocumentVersion
         /\ openDocs[docUser[c].doc].since = docUser[c].since =>
              docUser[c].version <= openDocs[docUser[c].doc].version
BY DEF DocInv, Telling, AtRest

\* A text is raised above those of its opening, or begins an opening of its own.
LEMMA OpenDocumentKeeps ==
  ASSUME DocInv, NEW c \in DocUsers, NEW asks \in BOOLEAN, NEW d \in Docs,
         OpenDocument(c, asks, d)
  PROVE  DocInv'
<1> DEFINE D == IF openDocs[d] = Absent
                THEN [version |-> FirstDocumentVersion, since |-> opens + 1]
                ELSE [openDocs[d] EXCEPT !.version = @ + 1]
           r == [at |-> "ensure", doc |-> d, asks |-> asks,
                 existed |-> openDocs[d] # Absent, version |-> D.version,
                 since |-> D.since, saw |-> 0]
<1>1. /\ opens' = opens + 1 /\ openDocs' = [openDocs EXCEPT ![d] = D]
      /\ docUser' = [docUser EXCEPT ![c] = r] /\ ~Telling(c)
  BY DEF OpenDocument, Telling, AtRest
<1>2. /\ openDocs[d] \in [version : Nat, since : Nat]
      /\ openDocs[d].since <= opens /\ opens \in Nat
      /\ openDocs[d] # Absent => openDocs[d].since # 0
  <2>1. /\ openDocs \in [Docs -> [version : Nat, since : Nat]] /\ opens \in Nat
        /\ \A e \in Docs : /\ openDocs[e].since <= opens
                           /\ openDocs[e] # Absent => openDocs[e].since # 0
    BY DEF DocInv
  <2> QED BY <2>1
<1>3. /\ D \in [version : Nat, since : Nat] /\ D.since <= opens + 1
      /\ \/ openDocs[d] = Absent /\ D.version = FirstDocumentVersion /\ D.since = opens + 1
         \/ /\ openDocs[d] # Absent
            /\ D.version = openDocs[d].version + 1 /\ D.since = openDocs[d].since
  <2>1. CASE openDocs[d] = Absent
    BY <1>2, <2>1 DEF FirstDocumentVersion
  <2>2. CASE openDocs[d] # Absent
    <3>1. PICK e : e = [openDocs[d] EXCEPT !.version = openDocs[d].version + 1]
      OBVIOUS
    <3>2. D = e
      BY <2>2, <3>1
    <3>3. /\ e \in [version : Nat, since : Nat] /\ e.since = openDocs[d].since
          /\ e.version = openDocs[d].version + 1
      BY <1>2, <3>1
    <3> QED BY <1>2, <2>2, <3>2, <3>3
  <2> QED BY <2>1, <2>2
<1> HIDE DEF D
<1>4. /\ r \in DocCalls /\ r.at = "ensure" /\ r.doc = d
      /\ r.version = D.version /\ r.since = D.since
      /\ ~r.existed <=> openDocs[d] = Absent
  <2>1. PICK existed \in BOOLEAN : existed = (openDocs[d] # Absent)
    OBVIOUS
  <2>2. r = [at |-> "ensure", doc |-> d, asks |-> asks, existed |-> existed,
             version |-> D.version, since |-> D.since, saw |-> 0]
    BY <2>1
  <2>3. D.version \in Nat /\ D.since \in Nat
    BY <1>3
  <2> HIDE DEF r
  <2> QED BY <2>1, <2>2, <2>3 DEF DocCalls
<1> HIDE DEF r
<1>5. /\ openDocs' \in [Docs -> [version : Nat, since : Nat]] /\ openDocs'[d] = D
      /\ \A e \in Docs : e # d => openDocs'[e] = openDocs[e]
      /\ \A e \in Docs : /\ openDocs'[e].since <= opens'
                         /\ openDocs'[e] # Absent => openDocs'[e].since # 0
  BY <1>1, <1>2, <1>3 DEF DocInv
<1>6. /\ DOMAIN docUser' = DocUsers /\ docUser' = [b \in DocUsers |-> docUser'[b]]
      /\ docUser'[c] = r /\ \A b \in DocUsers : b # c => docUser'[b] = docUser[b]
  BY <1>1 DEF DocInv
<1>7. \A b \in DocUsers : b # c => (Telling(b)' <=> Telling(b))
  BY <1>6 DEF Telling
<1>8. ASSUME NEW b \in DocUsers, b # c, Telling(b)
      PROVE  /\ docUser[b] \in DocCalls /\ docUser[b].since \in 1 .. opens
             /\ ~docUser[b].existed => docUser[b].version = FirstDocumentVersion
             /\ openDocs'[docUser[b].doc].since = docUser[b].since =>
                  docUser[b].version <= openDocs'[docUser[b].doc].version
             /\ docUser[b].doc = d /\ docUser[b].since = D.since =>
                  docUser[b].version < D.version /\ r.existed
  <2>1. /\ docUser[b] \in DocCalls /\ docUser[b].since \in 1 .. opens
        /\ ~docUser[b].existed => docUser[b].version = FirstDocumentVersion
        /\ openDocs[docUser[b].doc].since = docUser[b].since =>
             docUser[b].version <= openDocs[docUser[b].doc].version
    BY <1>8, TellingIs
  <2>2. docUser[b].version \in Nat /\ docUser[b].doc \in Docs
    BY <2>1 DEF DocCalls
  <2>3. CASE docUser[b].doc = d
    BY <1>2, <1>3, <1>4, <1>5, <2>1, <2>2, <2>3
  <2>4. CASE docUser[b].doc # d
    BY <1>5, <2>1, <2>2, <2>4
  <2> QED BY <2>3, <2>4
<1>9. VersionsOnce'
  <2> SUFFICES ASSUME NEW a \in DocUsers, NEW b \in DocUsers, a # b,
                      Telling(a)', Telling(b)', docUser'[a].doc = docUser'[b].doc,
                      docUser'[a].since = docUser'[b].since
               PROVE  /\ docUser'[a].version # docUser'[b].version
                      /\ docUser'[a].existed \/ docUser'[b].existed
    BY DEF VersionsOnce, Telling
  <2>1. CASE a # c /\ b # c
    BY <1>6, <1>7, <2>1 DEF DocInv, VersionsOnce, Telling
  <2>2. CASE a = c
    <3>1. Telling(b) /\ b # c /\ docUser'[b] = docUser[b] /\ docUser'[a] = r
      BY <1>6, <1>7, <2>2
    <3>2. /\ docUser[b].version < D.version /\ r.existed
          /\ docUser[b].version \in Nat /\ D.version \in Nat
      BY <1>3, <1>4, <1>8, <3>1 DEF DocCalls
    <3> QED BY <1>4, <3>1, <3>2
  <2>3. CASE b = c
    <3>1. Telling(a) /\ a # c /\ docUser'[a] = docUser[a] /\ docUser'[b] = r
      BY <1>6, <1>7, <2>3
    <3>2. /\ docUser[a].version < D.version /\ r.existed
          /\ docUser[a].version \in Nat /\ D.version \in Nat
      BY <1>3, <1>4, <1>8, <3>1 DEF DocCalls
    <3> QED BY <1>4, <3>1, <3>2
  <2> QED BY <2>1, <2>2, <2>3
<1>10. ASSUME NEW b \in DocUsers, Telling(b)'
       PROVE  /\ docUser'[b] \in DocCalls /\ docUser'[b].since \in 1 .. opens'
              /\ ~docUser'[b].existed => docUser'[b].version = FirstDocumentVersion
              /\ openDocs'[docUser'[b].doc].since = docUser'[b].since =>
                   docUser'[b].version <= openDocs'[docUser'[b].doc].version
  <2>1. CASE b # c
    BY <1>1, <1>2, <1>6, <1>7, <1>8, <1>10, <2>1
  <2>2. CASE b = c
    <3>1. D.since \in 1 .. opens + 1
      BY <1>2, <1>3
    <3> QED BY <1>1, <1>3, <1>4, <1>5, <1>6, <2>2, <3>1
  <2> QED BY <2>1, <2>2
<1>11. /\ givenDocs' \in [Docs -> Nat]
       /\ \A b \in DocUsers : docUser'[b] = AtRest \/ docUser'[b] \in DocCalls
  BY <1>4, <1>6 DEF OpenDocument, DocInv
<1>12. \A b \in DocUsers : Telling(b)' =>
         /\ docUser'[b].since \in 1 .. opens'
         /\ ~docUser'[b].existed => docUser'[b].version = FirstDocumentVersion
         /\ openDocs'[docUser'[b].doc].since = docUser'[b].since =>
              docUser'[b].version <= openDocs'[docUser'[b].doc].version
  BY <1>10
<1>13. opens' \in Nat /\ DOMAIN docUser' = DocUsers /\ docUser' = [b \in DocUsers |-> docUser'[b]]
  BY <1>1, <1>2, <1>6 DEF DocInv
<1> QED BY <1>5, <1>9, <1>11, <1>12, <1>13 DEF DocInv

\* A step that opens nothing, by which a caller has nothing to tell any more, or what it
\* had.
LEMMA GoesOn ==
  ASSUME DocInv, NEW c \in DocUsers, NEW r, docUser' = [docUser EXCEPT ![c] = r],
         r = AtRest \/ r \in DocCalls,
         \/ r.at \notin {"ensure", "tell"}
         \/ /\ Telling(c)
            /\ \A f \in {"doc", "existed", "version", "since"} : r[f] = docUser[c][f],
         opens' = opens, givenDocs' \in [Docs -> Nat],
         openDocs' \in [Docs -> [version : Nat, since : Nat]],
         \A d \in Docs : openDocs'[d] \in {openDocs[d], Absent}
  PROVE  DocInv'
<1>1. /\ DOMAIN docUser' = DocUsers /\ docUser' = [b \in DocUsers |-> docUser'[b]]
      /\ docUser'[c] = r /\ \A b \in DocUsers : b # c => docUser'[b] = docUser[b]
  BY DEF DocInv
<1>2. ASSUME NEW b \in DocUsers, Telling(b)'
      PROVE  /\ Telling(b) /\ docUser'[b] \in DocCalls
             /\ docUser'[b].doc = docUser[b].doc
             /\ docUser'[b].existed = docUser[b].existed
             /\ docUser'[b].version = docUser[b].version
             /\ docUser'[b].since = docUser[b].since
  <2>1. CASE b = c
    <3>1. r.at \in {"ensure", "tell"}
      BY <1>1, <1>2, <2>1 DEF Telling
    <3>2. /\ r.doc = docUser[c].doc /\ r.existed = docUser[c].existed
          /\ r.version = docUser[c].version /\ r.since = docUser[c].since
      BY <3>1, Zenon
    <3>3. r \in DocCalls /\ Telling(c)
      BY <3>1 DEF AtRest
    <3> QED BY <1>1, <2>1, <3>2, <3>3
  <2>2. CASE b # c
    <3>1. docUser'[b] = docUser[b]
      BY <1>1, <2>2
    <3>2. Telling(b)
      BY <1>2, <3>1 DEF Telling
    <3> QED BY <3>1, <3>2, TellingIs
  <2> QED BY <2>1, <2>2
<1>3. Absent.since = 0
  BY DEF Absent
<1>4. \A d \in Docs : /\ openDocs'[d].since <= opens'
                      /\ openDocs'[d] # Absent => openDocs'[d].since # 0
  BY <1>3 DEF DocInv
<1>5. ASSUME NEW b \in DocUsers, Telling(b)'
      PROVE  /\ docUser'[b] \in DocCalls /\ docUser'[b].since \in 1 .. opens'
             /\ ~docUser'[b].existed => docUser'[b].version = FirstDocumentVersion
             /\ openDocs'[docUser'[b].doc].since = docUser'[b].since =>
                  docUser'[b].version <= openDocs'[docUser'[b].doc].version
  <2>1. /\ docUser[b] \in DocCalls /\ docUser[b].since \in 1 .. opens
        /\ ~docUser[b].existed => docUser[b].version = FirstDocumentVersion
        /\ openDocs[docUser[b].doc].since = docUser[b].since =>
             docUser[b].version <= openDocs[docUser[b].doc].version
    BY <1>2, <1>5, TellingIs
  <2>2. docUser[b].doc \in Docs
    BY <2>1 DEF DocCalls
  <2>3. CASE openDocs'[docUser[b].doc] = openDocs[docUser[b].doc]
    BY <1>2, <1>5, <2>1, <2>3
  <2>4. CASE openDocs'[docUser[b].doc] = Absent
    BY <1>2, <1>3, <1>5, <2>1, <2>4
  <2> QED BY <2>2, <2>3, <2>4
<1>6. VersionsOnce'
  BY <1>2 DEF DocInv, VersionsOnce, Telling
<1>7. \A b \in DocUsers : docUser'[b] = AtRest \/ docUser'[b] \in DocCalls
  BY <1>1 DEF DocInv
<1> QED BY <1>1, <1>4, <1>5, <1>6, <1>7 DEF DocInv

\* A caller that goes on, or is through with its call, with the documents left alone.
LEMMA PlaceKeeps ==
  ASSUME DocInv, NEW c \in DocUsers, docUser[c] \in DocCalls,
         NEW l \in {"tell", "supports", "request", "ask"}, l = "tell" => Telling(c),
         DocOver(c) \/ DocGoto(c, l),
         UNCHANGED <<openDocs, opens>>, givenDocs' \in [Docs -> Nat]
  PROVE  DocInv'
<1>1. /\ openDocs' \in [Docs -> [version : Nat, since : Nat]]
      /\ \A d \in Docs : openDocs'[d] \in {openDocs[d], Absent}
  BY DEF DocInv
<1>2. CASE DocOver(c)
  <2>1. docUser' = [docUser EXCEPT ![c] = AtRest] /\ AtRest.at \notin {"ensure", "tell"}
    BY <1>2 DEF DocOver, AtRest
  <2> QED BY <1>1, <2>1, GoesOn
<1>3. CASE DocGoto(c, l)
  <2>1. PICK r : r = [docUser[c] EXCEPT !.at = l]
    OBVIOUS
  <2>2. docUser' = [docUser EXCEPT ![c] = r]
    BY <1>3, <2>1 DEF DocGoto
  <2>3. /\ r \in DocCalls /\ r.at = l
        /\ r.doc = docUser[c].doc /\ r.existed = docUser[c].existed
        /\ r.version = docUser[c].version /\ r.since = docUser[c].since
    BY <2>1 DEF DocCalls
  <2>4. \/ r.at \notin {"ensure", "tell"}
        \/ /\ Telling(c)
           /\ \A f \in {"doc", "existed", "version", "since"} : r[f] = docUser[c][f]
    BY <2>3
  <2> QED BY <1>1, <2>2, <2>3, <2>4, GoesOn
<1> QED BY <1>2, <1>3

\* What the server is told changes nothing of the documents.
LEMMA GivenIs ==
  ASSUME DocInv
  PROVE  /\ [d \in Docs |-> 0] \in [Docs -> Nat]
         /\ \A d \in Docs, n \in Nat : [givenDocs EXCEPT ![d] = n] \in [Docs -> Nat]
         /\ givenDocs \in [Docs -> Nat]
BY DEF DocInv

\* The steps of a caller behind the section it begins with.
LEMMA TellKeeps ==
  ASSUME DocInv, NEW c \in DocUsers,
         \/ EnsureToTell(c) \/ Tell(c) \/ TellClosed(c) \/ Supports(c)
         \/ EnsureToAsk(c) \/ AskAbout(c) \/ Answered(c)
  PROVE  DocInv'
<1>1. /\ docUser[c] \in DocCalls /\ docUser[c].doc \in Docs /\ docUser[c].version \in Nat
      /\ UNCHANGED <<openDocs, opens>>
  BY DEF EnsureToTell, Tell, TellClosed, Supports, EnsureToAsk, AskAbout, Answered, DocInv,
         AtRest, DocCalls
<1>2. CASE EnsureToTell(c)
  <2>1. givenDocs' \in [Docs -> Nat] /\ (DocOver(c) \/ DocGoto(c, "tell")) /\ Telling(c)
    BY <1>2, GivenIs DEF EnsureToTell, EnsureDocServer, Telling
  <2> QED BY <1>1, <2>1, PlaceKeeps
<1>3. CASE Tell(c)
  <2>1. givenDocs' \in [Docs -> Nat] /\ (DocOver(c) \/ DocGoto(c, "supports"))
    BY <1>1, <1>3, GivenIs DEF Tell
  <2> QED BY <1>1, <2>1, PlaceKeeps
<1>4. CASE TellClosed(c)
  <2>1. givenDocs' \in [Docs -> Nat] /\ DocOver(c)
    BY <1>1, <1>4, GivenIs DEF TellClosed
  <2> QED BY <1>1, <2>1, PlaceKeeps
<1>5. CASE Supports(c)
  <2>1. givenDocs' \in [Docs -> Nat] /\ (DocOver(c) \/ DocGoto(c, "request"))
    BY <1>5, GivenIs DEF Supports
  <2> QED BY <1>1, <2>1, PlaceKeeps
<1>6. CASE EnsureToAsk(c)
  <2>1. givenDocs' \in [Docs -> Nat] /\ (DocOver(c) \/ DocGoto(c, "ask"))
    BY <1>6, GivenIs DEF EnsureToAsk, EnsureDocServer
  <2> QED BY <1>1, <2>1, PlaceKeeps
<1>7. CASE AskAbout(c)
  <2>1. CASE DocOver(c)
    <3>1. givenDocs' \in [Docs -> Nat]
      BY <1>7, GivenIs DEF AskAbout
    <3> QED BY <1>1, <2>1, <3>1, PlaceKeeps
  <2>2. CASE docUser' = [docUser EXCEPT ![c].at = "asked",
                                        ![c].saw = givenDocs[docUser[c].doc]]
    <3>1. PICK r : r = [docUser[c] EXCEPT !.at = "asked", !.saw = givenDocs[docUser[c].doc]]
      OBVIOUS
    <3>2. docUser' = [docUser EXCEPT ![c] = r]
      BY <2>2, <3>1 DEF DocInv
    <3>3. givenDocs[docUser[c].doc] \in Nat /\ givenDocs' \in [Docs -> Nat]
      BY <1>1, <1>7, GivenIs DEF AskAbout
    <3>4. r \in DocCalls /\ r.at \notin {"ensure", "tell"}
      BY <1>1, <3>1, <3>3 DEF DocCalls
    <3>5. /\ openDocs' \in [Docs -> [version : Nat, since : Nat]]
          /\ \A d \in Docs : openDocs'[d] \in {openDocs[d], Absent}
      BY <1>1 DEF DocInv
    <3> QED BY <1>1, <3>2, <3>3, <3>4, <3>5, GoesOn
  <2> QED BY <1>7, <2>1, <2>2 DEF AskAbout
<1>8. CASE Answered(c)
  <2>1. givenDocs' \in [Docs -> Nat] /\ DocOver(c)
    BY <1>8, GivenIs DEF Answered
  <2> QED BY <1>1, <2>1, PlaceKeeps
<1> QED BY <1>2, <1>3, <1>4, <1>5, <1>6, <1>7, <1>8

\* A question about a document that is open, and its end.
LEMMA ResolveKeeps ==
  ASSUME DocInv, NEW c \in DocUsers, NEW d \in Docs, Resolve(c, d) \/ CloseDocument(c, d)
  PROVE  DocInv'
<1>1. openDocs[d] \in [version : Nat, since : Nat] /\ Absent \in [version : Nat, since : Nat]
  BY DEF DocInv, Absent
<1>2. CASE Resolve(c, d)
  <2>1. PICK r : r = [at |-> "supports", doc |-> d, asks |-> TRUE, existed |-> TRUE,
                      version |-> openDocs[d].version, since |-> openDocs[d].since, saw |-> 0]
    OBVIOUS
  <2>2. r \in DocCalls /\ r.at \notin {"ensure", "tell"}
    BY <1>1, <2>1 DEF DocCalls
  <2>3. docUser' = [docUser EXCEPT ![c] = r] /\ UNCHANGED <<openDocs, opens, givenDocs>>
    BY <1>2, <2>1 DEF Resolve
  <2>4. /\ openDocs' \in [Docs -> [version : Nat, since : Nat]]
        /\ \A e \in Docs : openDocs'[e] \in {openDocs[e], Absent}
        /\ givenDocs' \in [Docs -> Nat]
    BY <2>3 DEF DocInv
  <2> QED BY <2>2, <2>3, <2>4, GoesOn
<1>3. CASE CloseDocument(c, d)
  <2>1. PICK r : r = [at |-> "close", doc |-> d, asks |-> FALSE, existed |-> FALSE,
                      version |-> 0, since |-> 0, saw |-> 0]
    OBVIOUS
  <2>2. r \in DocCalls /\ r.at \notin {"ensure", "tell"}
    BY <2>1 DEF DocCalls
  <2>3. /\ docUser' = [docUser EXCEPT ![c] = r]
        /\ openDocs' = [openDocs EXCEPT ![d] = Absent] /\ UNCHANGED <<opens, givenDocs>>
    BY <1>3, <2>1 DEF CloseDocument
  <2>4. /\ openDocs' \in [Docs -> [version : Nat, since : Nat]]
        /\ \A e \in Docs : openDocs'[e] \in {openDocs[e], Absent}
        /\ givenDocs' \in [Docs -> Nat]
    BY <1>1, <2>3 DEF DocInv
  <2> QED BY <2>2, <2>3, <2>4, GoesOn
<1> QED BY <1>2, <1>3

\* Every step keeps the invariant.
LEMMA DocInvKept == DocInv /\ [DocNext]_docVars => DocInv'
<1> SUFFICES ASSUME DocInv, [DocNext]_docVars PROVE DocInv'
  OBVIOUS
<1>1. CASE UNCHANGED <<openDocs, opens, givenDocs, docUser>>
  BY <1>1 DEF DocInv, Telling, VersionsOnce
<1>2. CASE DocServerEnds \/ DocServerNoticed
  BY <1>1, <1>2 DEF DocServerEnds, DocServerNoticed
<1>3. CASE UNCHANGED docVars
  BY <1>1, <1>3 DEF docVars
<1> QED BY <1>2, <1>3, OpenDocumentKeeps, ResolveKeeps, TellKeeps DEF DocNext

\* However many callers work on a document, its texts are told under different versions,
\* and one of them opens it (lsp/tools.go).
THEOREM VersionsOnceAlways == DocSpec => []VersionsOnce
<1>1. DocInv => VersionsOnce
  BY DEF DocInv
<1> QED BY <1>1, DocInvFirst, DocInvKept, PTL DEF DocSpec

-----------------------------------------------------------------------------
(* The gateway: one end for each stream, and what it used counted once *)

\* The shape of a call.
Chunks == {"text", "named", "done", "error"}
CallPlaces == {"idle", "look", "decide", "build", "send", "read", "over"}
FeedPlaces == {"none", "parse", "record", "tell", "put", "take", "add", "last", "closed"}
Responses == Streams \cup {NoCall}
ProviderCall ==
  [at : CallPlaces, go : FeedPlaces, attempt : Nat, seen : Responses, from : Responses,
   prev : Responses, done : BOOLEAN, chunk : Chunks \cup {"none"}, chan : Seq(Chunks),
   sent : Seq(Chunks), saw : BOOLEAN, reports : Nat, held : SUBSET UsageReports]

\* Chunks that are text only, and those that are closed by one that is not.
OnlyText(q) == \A i \in 1 .. Len(q) : q[i] = "text"
HasEnd(q) == q # <<>> /\ q[Len(q)] # "text" /\ \A i \in 1 .. Len(q) - 1 : q[i] = "text"

\* What was sent, by where the feeding goroutine is and whether it has seen an end: the end
\* it has seen is in its hand until it is sent, and then the last.
FeedIs(r) ==
  /\ r.at \in {"idle", "look", "decide", "build", "send"} => r.go = "none"
  /\ r.go = "none" => OnlyText(r.sent) /\ ~r.saw
  /\ r.go \in {"put", "record", "tell"} =>
       r.chunk # "none" /\ OnlyText(r.sent) /\ (r.saw <=> r.chunk # "text")
  /\ r.go \in {"parse", "take", "add", "last"} =>
       IF r.saw THEN HasEnd(r.sent) ELSE OnlyText(r.sent)
  /\ r.go = "closed" => HasEnd(r.sent) \/ (r.done /\ OnlyText(r.sent))
  /\ r.held # {} => r.go = "add"

\* A call whose reports are where they were, and whose end if it came has come.
SameReports(r, q) == r.reports = q.reports /\ r.held = q.held /\ (q.saw => r.saw)

\* The usage the gateway has, its adapter has and others replaced.
UsageIs == [gateway : SUBSET UsageReports, adapter : SUBSET UsageReports,
            replaced : SUBSET UsageReports]

\* A response reports with its end.
ResponsesReportLast ==
  apiFormat = "responses" => \A s \in Streams : stream[s].saw \/ stream[s].reports = 0

\* The inductive invariant.
GatewayInv ==
  /\ responseChain \in Responses /\ adapterChain \in Responses
  /\ usage \in UsageIs /\ ResponsesReportLast
  /\ stream \in [Streams -> ProviderCall]
  /\ \A s \in Streams : FeedIs(stream[s])
  /\ UsageCountedOnce

\* Nobody has called.
LEMMA GatewayInvFirst == GatewayInit => GatewayInv
<1> SUFFICES ASSUME GatewayInit PROVE GatewayInv
  OBVIOUS
<1>1. FreshCall \in ProviderCall /\ FeedIs(FreshCall)
  <2>1. <<>> \in Seq(Chunks) /\ Len(<<>>) = 0
    OBVIOUS
  <2>2. NoCall \in Responses
    BY DEF Responses
  <2> QED BY <2>1, <2>2 DEF FreshCall, ProviderCall, CallPlaces, FeedPlaces, FeedIs, OnlyText
<1>2. \A s \in Streams : stream[s] = FreshCall
  BY DEF GatewayInit
<1>3. /\ stream \in [Streams -> ProviderCall] /\ \A s \in Streams : FeedIs(stream[s])
  BY <1>1, <1>2 DEF GatewayInit
<1>4. \A s \in Streams : stream[s].held = {} /\ stream[s].reports = 0
  BY <1>2 DEF FreshCall
<1>5. usage.gateway = {} /\ usage.adapter = {} /\ usage.replaced = {} /\ usage \in UsageIs
  BY DEF GatewayInit, UsageIs
<1>6. UsageCountedOnce
  <2>1. \A r \in UsageReports : ~(r[2] <= stream[r[1]].reports)
    BY <1>4, GatewayParameters DEF UsageReports
  <2> QED BY <1>4, <1>5, <2>1 DEF UsageCountedOnce
<1> QED BY <1>3, <1>4, <1>5, <1>6 DEF GatewayInit, GatewayInv, Responses, ResponsesReportLast

\* What is known of a call.
LEMMA CallIs ==
  ASSUME GatewayInv, NEW s \in Streams
  PROVE  stream[s] \in ProviderCall /\ FeedIs(stream[s])
BY DEF GatewayInv

\* A step of one call, by which no report moves.
LEMMA CallMoves ==
  ASSUME GatewayInv, NEW s \in Streams, NEW r, Becomes(s, r), r \in ProviderCall, FeedIs(r),
         SameReports(r, stream[s]), UNCHANGED <<usage, apiFormat>>,
         responseChain' \in Responses, adapterChain' \in Responses
  PROVE  GatewayInv'
<1>1. /\ stream' \in [Streams -> ProviderCall] /\ stream'[s] = r
      /\ \A t \in Streams : t # s => stream'[t] = stream[t]
  BY DEF GatewayInv, Becomes
<1>2. \A t \in Streams : /\ FeedIs(stream'[t]) /\ stream'[t].held = stream[t].held
                         /\ stream'[t].reports = stream[t].reports
                         /\ stream[t].saw => stream'[t].saw
  BY <1>1, CallIs DEF SameReports
<1>3. UsageCountedOnce'
  <2>1. \A x \in UsageReports : x[1] \in Streams
    BY DEF UsageReports
  <2>2. {x \in UsageReports : x[2] <= stream'[x[1]].reports}
          = {x \in UsageReports : x[2] <= stream[x[1]].reports}
    BY <1>2, <2>1
  <2> QED BY <1>2, <2>2 DEF GatewayInv, UsageCountedOnce
<1>4. ResponsesReportLast'
  BY <1>2 DEF GatewayInv, ResponsesReportLast
<1> QED BY <1>1, <1>2, <1>3, <1>4 DEF GatewayInv

\* The steps of the caller.
LEMMA CallerMoves ==
  ASSUME GatewayInv, NEW s \in Streams,
         \/ CallProvider(s) \/ EndCall(s) \/ LookAtChain(s) \/ FollowChain(s)
         \/ BuildRequest(s) \/ SendRequest(s) \/ ReadChunk(s)
  PROVE  GatewayInv'
<1>0. /\ stream[s] \in ProviderCall /\ FeedIs(stream[s])
      /\ responseChain \in Responses /\ adapterChain \in Responses /\ NoCall \in Responses
  BY CallIs DEF GatewayInv, Responses
<1>f. apiFormat' = apiFormat
  BY DEF CallProvider, EndCall, LookAtChain, FollowChain, BuildRequest, SendRequest, ReadChunk, chains
<1> USE DEF ProviderCall, CallPlaces, FeedPlaces, FeedIs, SameReports
<1>1. CASE CallProvider(s)
  <2>1. PICK r : r = [stream[s] EXCEPT !.at = "look"]
    OBVIOUS
  <2>2. r \in ProviderCall /\ FeedIs(r) /\ SameReports(r, stream[s])
    BY <1>0, <1>1, <2>1 DEF CallProvider
  <2>3. Becomes(s, r) /\ UNCHANGED usage
    BY <1>1, <2>1 DEF CallProvider, chains
  <2>4. responseChain' \in Responses /\ adapterChain' \in Responses
    BY <1>0, <1>1 DEF CallProvider, chains
  <2> QED BY <1>f, <2>2, <2>3, <2>4, CallMoves
<1>2. CASE EndCall(s)
  <2>1. PICK r : r = [stream[s] EXCEPT !.done = TRUE]
    OBVIOUS
  <2>2. r \in ProviderCall /\ FeedIs(r) /\ SameReports(r, stream[s])
    BY <1>0, <2>1
  <2>3. Becomes(s, r) /\ UNCHANGED usage
    BY <1>2, <2>1 DEF EndCall, chains
  <2>4. responseChain' \in Responses /\ adapterChain' \in Responses
    BY <1>0, <1>2 DEF EndCall, chains
  <2> QED BY <1>f, <2>2, <2>3, <2>4, CallMoves
<1>3. CASE LookAtChain(s)
  <2>1. PICK r : r = [stream[s] EXCEPT !.at = "decide", !.seen = adapterChain]
    OBVIOUS
  <2>2. PICK q : q = [stream[s] EXCEPT !.at = "build"]
    OBVIOUS
  <2>3. /\ r \in ProviderCall /\ FeedIs(r) /\ SameReports(r, stream[s])
        /\ q \in ProviderCall /\ FeedIs(q) /\ SameReports(q, stream[s])
    BY <1>0, <1>3, <2>1, <2>2 DEF LookAtChain
  <2>4. (Becomes(s, r) \/ Becomes(s, q)) /\ UNCHANGED usage
    BY <1>3, <2>1, <2>2 DEF LookAtChain
  <2>5. responseChain' \in Responses /\ adapterChain' \in Responses
    BY <1>0, <1>3 DEF LookAtChain
  <2> QED BY <1>f, <2>3, <2>4, <2>5, CallMoves
<1>4. CASE FollowChain(s)
  <2>1. PICK from \in Responses :
          Becomes(s, [stream[s] EXCEPT !.at = "build", !.seen = NoCall, !.from = from])
    <3>1. stream[s] = [stream[s] EXCEPT !.from = stream[s].from]
      BY <1>0
    <3>2. [stream[s] EXCEPT !.at = "build", !.seen = NoCall]
            = [stream[s] EXCEPT !.at = "build", !.seen = NoCall, !.from = stream[s].from]
      BY <1>0
    <3> QED BY <1>0, <1>4, <3>2 DEF FollowChain
  <2>2. PICK r : r = [stream[s] EXCEPT !.at = "build", !.seen = NoCall, !.from = from]
    OBVIOUS
  <2>3. r \in ProviderCall /\ FeedIs(r) /\ SameReports(r, stream[s])
    BY <1>0, <1>4, <2>2 DEF FollowChain
  <2>4. responseChain' \in Responses /\ adapterChain' \in Responses /\ UNCHANGED usage
    BY <1>0, <1>4 DEF FollowChain
  <2> QED BY <1>f, <2>1, <2>2, <2>3, <2>4, CallMoves
<1>5. CASE BuildRequest(s)
  <2>1. PICK r : r = [stream[s] EXCEPT !.at = "send", !.prev = adapterChain]
    OBVIOUS
  <2>2. r \in ProviderCall /\ FeedIs(r) /\ SameReports(r, stream[s])
    BY <1>0, <1>5, <2>1 DEF BuildRequest
  <2>3. Becomes(s, r) /\ UNCHANGED usage
    BY <1>5, <2>1 DEF BuildRequest, chains
  <2>4. responseChain' \in Responses /\ adapterChain' \in Responses
    BY <1>0, <1>5 DEF BuildRequest, chains
  <2> QED BY <1>f, <2>2, <2>3, <2>4, CallMoves
<1>6. CASE SendRequest(s)
  <2>0. PICK n \in Nat : n = stream[s].attempt + 1
    BY <1>0
  <2>1. PICK again : again = [stream[s] EXCEPT !.attempt = n]
    OBVIOUS
  <2>2. PICK ended : ended = RequestSent(s, "over")
    OBVIOUS
  <2>3. PICK begun : begun = [RequestSent(s, "read") EXCEPT !.go = "parse"]
    OBVIOUS
  <2>4. /\ again \in ProviderCall /\ FeedIs(again)
        /\ SameReports(again, stream[s])
    BY <1>0, <2>1
  <2>5. /\ ended \in ProviderCall /\ FeedIs(ended)
        /\ SameReports(ended, stream[s])
    BY <1>0, <2>2 DEF RequestSent
  <2>6. /\ begun \in ProviderCall /\ FeedIs(begun)
        /\ SameReports(begun, stream[s])
    BY <1>0, <1>6, <2>3 DEF RequestSent, SendRequest
  <2>7. UNCHANGED <<chains, usage>>
        /\ (Becomes(s, again) \/ Becomes(s, ended) \/ Becomes(s, begun))
    BY <1>6, <2>0, <2>1, <2>2, <2>3 DEF SendRequest
  <2> QED BY <1>0, <1>f, <2>4, <2>5, <2>6, <2>7, CallMoves DEF chains
<1>7. CASE ReadChunk(s)
  <2>1. PICK l \in {"over", "read"}, q \in Seq(Chunks) :
          Becomes(s, [stream[s] EXCEPT !.chan = q, !.at = l])
    <3>1. [stream[s] EXCEPT !.at = "over"]
            = [stream[s] EXCEPT !.chan = stream[s].chan, !.at = "over"]
      BY <1>0
    <3>2. stream[s].chan # <<>> => Tail(stream[s].chan) \in Seq(Chunks)
      BY <1>0
    <3> QED BY <1>0, <1>7, <3>1, <3>2 DEF ReadChunk
  <2>2. PICK r : r = [stream[s] EXCEPT !.chan = q, !.at = l]
    OBVIOUS
  <2>3. r \in ProviderCall /\ FeedIs(r) /\ SameReports(r, stream[s])
    BY <1>0, <2>2
  <2>4. UNCHANGED <<chains, usage>>
    BY <1>7 DEF ReadChunk
  <2>5. Becomes(s, r)
    BY <2>1, <2>2
  <2>6. responseChain' \in Responses /\ adapterChain' \in Responses
    BY <1>0, <2>4 DEF chains
  <2> QED BY <1>f, <2>3, <2>4, <2>5, <2>6, CallMoves
<1> QED BY <1>1, <1>2, <1>3, <1>4, <1>5, <1>6, <1>7

\* A chunk that is sent, behind those that were.
LEMMA ChunkSent ==
  ASSUME GatewayInv, NEW s \in Streams, NEW c \in Chunks
  PROVE  /\ Append(stream[s].sent, c) \in Seq(Chunks) /\ Append(stream[s].chan, c) \in Seq(Chunks)
         /\ OnlyText(stream[s].sent) =>
              IF c = "text" THEN OnlyText(Append(stream[s].sent, c))
                            ELSE HasEnd(Append(stream[s].sent, c))
<1>1. stream[s].sent \in Seq(Chunks) /\ stream[s].chan \in Seq(Chunks)
  BY CallIs DEF ProviderCall
<1> QED BY <1>1 DEF OnlyText, HasEnd

\* The steps of the goroutine that feeds the channel, but those that move a report.
LEMMA FeedMoves ==
  ASSUME GatewayInv, NEW s \in Streams,
         RecordResponse(s) \/ RecordAdapter(s) \/ PutChunk(s) \/ EndStream(s)
  PROVE  GatewayInv'
<1>0. /\ stream[s] \in ProviderCall /\ FeedIs(stream[s])
      /\ responseChain \in Responses /\ adapterChain \in Responses /\ s \in Responses
  BY CallIs DEF GatewayInv, Responses
<1>f. /\ responseChain' \in Responses /\ adapterChain' \in Responses
      /\ UNCHANGED <<usage, apiFormat>>
  BY <1>0 DEF RecordResponse, RecordAdapter, PutChunk, EndStream, chains
<1> USE DEF ProviderCall, CallPlaces, FeedPlaces, FeedIs, SameReports
<1>1. CASE RecordResponse(s) \/ RecordAdapter(s)
  <2>1. PICK l \in {"tell", "put"} :
          Becomes(s, [stream[s] EXCEPT !.go = l]) /\ stream[s].go \in {"record", "tell"}
    BY <1>1 DEF RecordResponse, RecordAdapter
  <2>2. PICK r : r = [stream[s] EXCEPT !.go = l]
    OBVIOUS
  <2>3. r \in ProviderCall /\ FeedIs(r) /\ SameReports(r, stream[s])
    BY <1>0, <2>1, <2>2
  <2>4. Becomes(s, r)
    BY <2>1, <2>2
  <2> QED BY <1>f, <2>3, <2>4, CallMoves
<1>2. CASE PutChunk(s)
  <2>1. stream[s].go = "put"
    BY <1>2 DEF PutChunk
  <2>2. CASE Becomes(s, [stream[s] EXCEPT !.go = "parse", !.chunk = "none",
                                          !.chan = Append(stream[s].chan, stream[s].chunk),
                                          !.sent = Append(stream[s].sent, stream[s].chunk)])
    <3>0. PICK c \in Chunks : c = stream[s].chunk
      BY <1>0, <2>1
    <3>1. PICK q : q = Append(stream[s].chan, c)
      OBVIOUS
    <3>2. PICK w : w = Append(stream[s].sent, c)
      OBVIOUS
    <3>3. /\ q \in Seq(Chunks) /\ w \in Seq(Chunks) /\ (stream[s].saw <=> c # "text")
          /\ IF c = "text" THEN OnlyText(w) ELSE HasEnd(w)
      BY <1>0, <2>1, <3>0, <3>1, <3>2, ChunkSent
    <3>4. PICK r : r = [stream[s] EXCEPT !.go = "parse", !.chunk = "none", !.chan = q, !.sent = w]
      OBVIOUS
    <3>5. r \in ProviderCall /\ FeedIs(r) /\ SameReports(r, stream[s])
      BY <1>0, <2>1, <3>3, <3>4
    <3>6. Becomes(s, r)
      BY <2>2, <3>0, <3>1, <3>2, <3>4
    <3> QED BY <1>f, <3>5, <3>6, CallMoves
  <2>3. CASE stream[s].done /\ Becomes(s, [stream[s] EXCEPT !.go = "closed", !.chunk = "none"])
    <3>1. PICK r : r = [stream[s] EXCEPT !.go = "closed", !.chunk = "none"]
      OBVIOUS
    <3>2. r \in ProviderCall /\ FeedIs(r) /\ SameReports(r, stream[s])
      BY <1>0, <2>1, <2>3, <3>1
    <3>3. Becomes(s, r)
      BY <2>3, <3>1
    <3> QED BY <1>f, <3>2, <3>3, CallMoves
  <2> QED BY <1>2, <2>2, <2>3 DEF PutChunk
<1>3. CASE EndStream(s)
  <2>1. stream[s].go = "last"
    BY <1>3 DEF EndStream
  <2>2. CASE /\ stream[s].saw \/ stream[s].done
             /\ Becomes(s, [stream[s] EXCEPT !.go = "closed"])
    <3>1. PICK r : r = [stream[s] EXCEPT !.go = "closed"]
      OBVIOUS
    <3>2. r \in ProviderCall /\ FeedIs(r) /\ SameReports(r, stream[s])
      BY <1>0, <2>1, <2>2, <3>1
    <3>3. Becomes(s, r)
      BY <2>2, <3>1
    <3> QED BY <1>f, <3>2, <3>3, CallMoves
  <2>3. CASE /\ ~stream[s].saw
             /\ Becomes(s, [stream[s] EXCEPT !.go = "closed", !.chan = Append(stream[s].chan, "done"),
                                             !.sent = Append(stream[s].sent, "done")])
    <3>0. PICK c \in Chunks : c = "done"
      BY DEF Chunks
    <3>1. PICK q : q = Append(stream[s].chan, c)
      OBVIOUS
    <3>2. PICK w : w = Append(stream[s].sent, c)
      OBVIOUS
    <3>3. q \in Seq(Chunks) /\ w \in Seq(Chunks) /\ HasEnd(w)
      BY <1>0, <2>1, <2>3, <3>0, <3>1, <3>2, ChunkSent
    <3>4. PICK r : r = [stream[s] EXCEPT !.go = "closed", !.chan = q, !.sent = w]
      OBVIOUS
    <3>5. r \in ProviderCall /\ FeedIs(r) /\ SameReports(r, stream[s])
      BY <1>0, <2>1, <3>3, <3>4
    <3>6. Becomes(s, r)
      BY <2>3, <3>0, <3>1, <3>2, <3>4
    <3> QED BY <1>f, <3>5, <3>6, CallMoves
  <2> QED BY <1>3, <2>2, <2>3 DEF EndStream
<1> QED BY <1>1, <1>2, <1>3

\* A report the stream has made.
Told(x, feeds) == x \in UsageReports /\ x[2] <= feeds[x[1]].reports

\* Every report that was made is somewhere ...
Somewhere(u, feeds) ==
  \A x : Told(x, feeds) <=>
         \/ x \in u.gateway \/ x \in u.adapter \/ x \in u.replaced
         \/ \E t \in Streams : x \in feeds[t].held

\* ... and in one place ...
InOnePlace(u, feeds) ==
  /\ \A x : ~(x \in u.gateway /\ x \in u.adapter)
  /\ \A x : \A t \in Streams : x \in feeds[t].held => x \notin u.gateway /\ x \notin u.adapter
  /\ \A x : \A s, t \in Streams : x \in feeds[s].held /\ x \in feeds[t].held => s = t

\* ... and one that was replaced was by another.
ReplacedByAnother(u, feeds, f) ==
  \A x : x \in u.replaced =>
    /\ f = "messages" /\ x \notin u.gateway /\ x \notin u.adapter
    /\ \A t \in Streams : x \notin feeds[t].held
    /\ \E q : Told(q, feeds) /\ (q[1] # x[1] \/ q[2] > x[2])

\* UsageCountedOnce, report by report.
Once(u, feeds, f) ==
  Somewhere(u, feeds) /\ InOnePlace(u, feeds) /\ ReplacedByAnother(u, feeds, f)

\* It is enough that every report is.
LEMMA OnceIs ==
  ASSUME NEW u, NEW feeds, NEW f, Once(u, feeds, f)
  PROVE  LET taken    == UNION {feeds[s].held : s \in Streams}
             reported == {r \in UsageReports : r[2] <= feeds[r[1]].reports} IN
         /\ u.gateway \cup u.adapter \cup taken \cup u.replaced = reported
         /\ u.gateway \cap u.adapter = {} /\ taken \cap (u.gateway \cup u.adapter) = {}
         /\ \A s \in Streams, t \in Streams : s # t => feeds[s].held \cap feeds[t].held = {}
         /\ u.replaced \cap (u.gateway \cup u.adapter \cup taken) = {}
         /\ u.replaced # {} => f = "messages"
         /\ \A r \in u.replaced : \E q \in reported : q[1] # r[1] \/ q[2] > r[2]
<1> DEFINE taken == UNION {feeds[s].held : s \in Streams}
           reported == {r \in UsageReports : r[2] <= feeds[r[1]].reports}
<1>1. /\ \A x : x \in taken <=> \E t \in Streams : x \in feeds[t].held
      /\ \A x : x \in reported <=> Told(x, feeds)
  BY DEF Told
<1> HIDE DEF taken, reported
<1>2. u.gateway \cup u.adapter \cup taken \cup u.replaced = reported
  <2>1. Somewhere(u, feeds)
    BY DEF Once
  <2> QED BY <1>1, <2>1 DEF Somewhere
<1>3. InOnePlace(u, feeds) /\ ReplacedByAnother(u, feeds, f)
  BY DEF Once
<1>4. u.gateway \cap u.adapter = {}
  BY <1>3 DEF InOnePlace
<1>5. taken \cap (u.gateway \cup u.adapter) = {}
  <2>1. \A x : \A t \in Streams : x \in feeds[t].held => x \notin u.gateway /\ x \notin u.adapter
    BY <1>3 DEF InOnePlace
  <2> QED BY <1>1, <2>1
<1>6. \A s \in Streams, t \in Streams : s # t => feeds[s].held \cap feeds[t].held = {}
  <2>1. \A x : \A s, t \in Streams : x \in feeds[s].held /\ x \in feeds[t].held => s = t
    BY <1>3 DEF InOnePlace
  <2> QED BY <2>1
<1>7. u.replaced \cap (u.gateway \cup u.adapter \cup taken) = {}
  <2>1. ASSUME NEW x \in u.replaced PROVE x \notin u.gateway /\ x \notin u.adapter /\ x \notin taken
    BY <1>1, <1>3 DEF ReplacedByAnother
  <2> QED BY <2>1
<1>8. u.replaced # {} => f = "messages"
  BY <1>3 DEF ReplacedByAnother
<1>9. ASSUME NEW r \in u.replaced PROVE \E q \in reported : q[1] # r[1] \/ q[2] > r[2]
  <2>1. PICK q : Told(q, feeds) /\ (q[1] # r[1] \/ q[2] > r[2])
    BY <1>3 DEF ReplacedByAnother
  <2> QED BY <1>1, <2>1
<1> QED BY <1>2, <1>4, <1>5, <1>6, <1>7, <1>8, <1>9 DEF taken, reported

\* And every report is, where the invariant holds.
LEMMA CountedIs == ASSUME UsageCountedOnce PROVE Once(usage, stream, apiFormat)
<1> DEFINE taken == UNION {stream[s].held : s \in Streams}
           reported == {r \in UsageReports : r[2] <= stream[r[1]].reports}
<1>1. /\ \A x : x \in taken <=> \E t \in Streams : x \in stream[t].held
      /\ \A x : x \in reported <=> Told(x, stream)
  BY DEF Told
<1>2. /\ usage.gateway \cup usage.adapter \cup taken \cup usage.replaced = reported
      /\ usage.gateway \cap usage.adapter = {}
      /\ taken \cap (usage.gateway \cup usage.adapter) = {}
      /\ \A s \in Streams, t \in Streams : s # t => stream[s].held \cap stream[t].held = {}
      /\ usage.replaced \cap (usage.gateway \cup usage.adapter \cup taken) = {}
      /\ usage.replaced # {} => apiFormat = "messages"
      /\ \A r \in usage.replaced : \E q \in reported : q[1] # r[1] \/ q[2] > r[2]
  BY DEF UsageCountedOnce
<1> HIDE DEF taken, reported
<1>3. Somewhere(usage, stream)
  BY <1>1, <1>2 DEF Somewhere
<1>4. InOnePlace(usage, stream)
  <2>1. \A x : \A t \in Streams : x \in stream[t].held => x \in taken
    BY <1>1
  <2> QED BY <1>2, <2>1 DEF InOnePlace
<1>5. ReplacedByAnother(usage, stream, apiFormat)
  <2> SUFFICES ASSUME NEW x \in usage.replaced
               PROVE  /\ apiFormat = "messages" /\ x \notin usage.gateway /\ x \notin usage.adapter
                      /\ \A t \in Streams : x \notin stream[t].held
                      /\ \E q : Told(q, stream) /\ (q[1] # x[1] \/ q[2] > x[2])
    BY DEF ReplacedByAnother
  <2>1. apiFormat = "messages" /\ x \notin usage.gateway /\ x \notin usage.adapter /\ x \notin taken
    BY <1>2
  <2>2. PICK q \in reported : q[1] # x[1] \/ q[2] > x[2]
    BY <1>2
  <2> QED BY <1>1, <2>1, <2>2
<1> QED BY <1>3, <1>4, <1>5 DEF Once

\* A step by which a report is made or moves, and the chains stay.
LEMMA ReportMoves ==
  ASSUME GatewayInv, NEW s \in Streams, NEW r, Becomes(s, r), r \in ProviderCall, FeedIs(r),
         UNCHANGED chains, usage' \in UsageIs, Once(usage', stream', apiFormat'),
         apiFormat = "responses" => r.saw \/ r.reports = 0
  PROVE  GatewayInv'
<1>1. /\ stream' \in [Streams -> ProviderCall] /\ stream'[s] = r
      /\ \A t \in Streams : t # s => stream'[t] = stream[t]
  BY DEF GatewayInv, Becomes
<1>2. \A t \in Streams : FeedIs(stream'[t])
  BY <1>1, CallIs
<1>3. UsageCountedOnce'
  BY OnceIs DEF UsageCountedOnce
<1>4. ResponsesReportLast'
  BY <1>1 DEF GatewayInv, ResponsesReportLast, chains
<1> QED BY <1>1, <1>2, <1>3, <1>4 DEF GatewayInv, chains

\* A stream reports: the new report is with the adapter, beside those that were there or
\* in their place.
LEMMA ReportKeeps ==
  ASSUME GatewayInv, NEW s \in Streams, NEW r, Becomes(s, r), r \in ProviderCall, FeedIs(r),
         r.held = stream[s].held, r.reports = stream[s].reports + 1, r.reports <= MaxReports,
         apiFormat = "responses" => r.saw, UNCHANGED chains, Reported(s)
  PROVE  GatewayInv'
<1>1. /\ stream' \in [Streams -> ProviderCall] /\ stream'[s] = r
      /\ \A t \in Streams : t # s => stream'[t] = stream[t]
  BY DEF GatewayInv, Becomes
<1>2. PICK n \in Nat : n = stream[s].reports /\ r.reports = n + 1 /\ n + 1 \in 1 .. MaxReports
  BY CallIs, GatewayParameters DEF ProviderCall
<1>3. PICK new \in UsageReports : new = <<s, n + 1>> /\ new[1] = s /\ new[2] = n + 1
  <2>1. PICK new : new = <<s, n + 1>>
    OBVIOUS
  <2>2. new \in Streams \X (1 .. MaxReports) /\ new[1] = s /\ new[2] = n + 1
    BY <1>2, <2>1
  <2> QED BY <2>1, <2>2 DEF UsageReports
<1>4. \A x \in UsageReports : x[1] \in Streams /\ x[2] \in Nat /\ x = <<x[1], x[2]>>
  BY GatewayParameters DEF UsageReports
<1>5. ASSUME NEW x PROVE Told(x, stream') <=> x = new \/ Told(x, stream)
  <2>1. CASE x \in UsageReports /\ x[1] = s
    <3>1. x[2] \in Nat /\ (x = new <=> x[2] = n + 1)
      BY <1>3, <1>4, <2>1
    <3>2. x[2] <= n + 1 <=> x[2] = n + 1 \/ x[2] <= n
      BY <3>1
    <3> QED BY <1>1, <1>2, <2>1, <3>1, <3>2 DEF Told
  <2>2. CASE x \in UsageReports /\ x[1] # s
    BY <1>1, <1>3, <1>4, <2>2 DEF Told
  <2>3. CASE x \notin UsageReports
    BY <1>3, <2>3 DEF Told
  <2> QED BY <2>1, <2>2, <2>3
<1>6. ~Told(new, stream)
  BY <1>2, <1>3 DEF Told
<1>7. \A t \in Streams : stream'[t].held = stream[t].held
  BY <1>1
<1>8. Once(usage, stream, apiFormat) /\ usage \in UsageIs /\ apiFormat' = apiFormat
  BY CountedIs DEF GatewayInv, chains
<1>9. /\ usage' \in UsageIs /\ usage'.gateway = usage.gateway
      /\ \/ /\ apiFormat = "messages" /\ usage'.adapter = {new}
            /\ usage'.replaced = usage.replaced \cup usage.adapter
         \/ usage'.adapter = usage.adapter \cup {new} /\ usage'.replaced = usage.replaced
  <2>1. stream'[s].reports = n + 1
    BY <1>1, <1>2
  <2>2. \/ /\ apiFormat = "messages"
           /\ usage' = [usage EXCEPT !.adapter = {new}, !.replaced = usage.replaced \cup usage.adapter]
        \/ usage' = [usage EXCEPT !.adapter = usage.adapter \cup {new}]
    BY <1>3, <2>1 DEF Reported
  <2>3. PICK u \in UsageIs : u = usage
    BY <1>8
  <2>4. CASE /\ apiFormat = "messages"
             /\ usage' = [u EXCEPT !.adapter = {new}, !.replaced = u.replaced \cup u.adapter]
    BY <1>3, <2>3, <2>4 DEF UsageIs
  <2>5. CASE usage' = [u EXCEPT !.adapter = u.adapter \cup {new}]
    BY <1>3, <2>3, <2>5 DEF UsageIs
  <2> QED BY <2>2, <2>3, <2>4, <2>5
<1>10. Somewhere(usage, stream) /\ InOnePlace(usage, stream)
       /\ ReplacedByAnother(usage, stream, apiFormat)
  BY <1>8 DEF Once
<1>11. Somewhere(usage', stream')
  BY <1>5, <1>7, <1>9, <1>10 DEF Somewhere
<1>12. /\ new \notin usage.gateway /\ new \notin usage.adapter /\ new \notin usage.replaced
       /\ \A t \in Streams : new \notin stream[t].held
  BY <1>6, <1>10 DEF Somewhere
<1>13. InOnePlace(usage', stream')
  <2>1. \A x : x \in usage'.adapter => x = new \/ x \in usage.adapter
    BY <1>9
  <2> QED BY <1>7, <1>9, <1>10, <1>12, <2>1 DEF InOnePlace
<1>14. ReplacedByAnother(usage', stream', apiFormat')
  <2> SUFFICES ASSUME NEW x \in usage'.replaced
               PROVE  /\ apiFormat' = "messages" /\ x \notin usage'.gateway /\ x \notin usage'.adapter
                      /\ \A t \in Streams : x \notin stream'[t].held
                      /\ \E q : Told(q, stream') /\ (q[1] # x[1] \/ q[2] > x[2])
    BY DEF ReplacedByAnother
  <2>1. CASE x \in usage.replaced
    <3>1. /\ apiFormat = "messages" /\ x \notin usage.gateway /\ x \notin usage.adapter
          /\ \A t \in Streams : x \notin stream[t].held
      BY <1>10, <2>1 DEF ReplacedByAnother
    <3>2. PICK q : Told(q, stream) /\ (q[1] # x[1] \/ q[2] > x[2])
      BY <1>10, <2>1 DEF ReplacedByAnother
    <3>3. Told(q, stream') /\ x # new
      BY <1>5, <1>12, <2>1, <3>2
    <3> QED BY <1>7, <1>8, <1>9, <3>1, <3>2, <3>3
  <2>2. CASE x \in usage.adapter /\ apiFormat = "messages" /\ usage'.adapter = {new}
    <3>1. Told(x, stream)
      BY <1>10, <2>2 DEF Somewhere
    <3>2. x # new /\ x \notin usage.gateway /\ \A t \in Streams : x \notin stream[t].held
      BY <1>10, <1>12, <2>2 DEF InOnePlace
    <3>3. new[1] # x[1] \/ new[2] > x[2]
      <4>1. CASE x[1] = s
        <5>1. x[2] \in Nat /\ x[2] <= n
          BY <1>2, <1>4, <3>1, <4>1 DEF Told
        <5> QED BY <1>3, <5>1
      <4>2. CASE x[1] # s
        BY <1>3, <4>2
      <4> QED BY <4>1, <4>2
    <3>4. Told(new, stream')
      BY <1>5
    <3> QED BY <1>7, <1>8, <1>9, <2>2, <3>2, <3>3, <3>4
  <2> QED BY <1>9, <2>1, <2>2
<1>15. Once(usage', stream', apiFormat')
  BY <1>11, <1>13, <1>14 DEF Once
<1> QED BY <1>2, <1>9, <1>15, ReportMoves

\* A report while the stream runs.
LEMMA ReportUsageKeeps == ASSUME GatewayInv, NEW s \in Streams, ReportUsage(s) PROVE GatewayInv'
<1>0. stream[s] \in ProviderCall /\ FeedIs(stream[s]) /\ stream[s].go = "parse"
  BY CallIs DEF ReportUsage
<1>a. PICK n \in Nat : n = stream[s].reports + 1
  BY <1>0 DEF ProviderCall
<1>1. PICK r : r = [stream[s] EXCEPT !.reports = n]
  OBVIOUS
<1>2. r \in ProviderCall /\ r.held = stream[s].held /\ r.reports = stream[s].reports + 1
  BY <1>0, <1>a, <1>1 DEF ProviderCall
<1>b. /\ r.at = stream[s].at /\ r.go = stream[s].go /\ r.sent = stream[s].sent
      /\ r.saw = stream[s].saw /\ r.chunk = stream[s].chunk /\ r.done = stream[s].done
  BY <1>0, <1>1 DEF ProviderCall
<1>c. FeedIs(r)
  BY <1>0, <1>2, <1>b DEF FeedIs
<1>3. /\ Becomes(s, r) /\ apiFormat # "responses" /\ UNCHANGED chains /\ Reported(s)
      /\ stream[s].reports < MaxReports
  BY <1>a, <1>1 DEF ReportUsage
<1>4. r.reports <= MaxReports
  BY <1>0, <1>2, <1>3, GatewayParameters DEF ProviderCall
<1> QED BY <1>2, <1>3, <1>4, <1>c, ReportKeeps

\* The next chunk, with a report or without.
LEMMA ParseKeeps == ASSUME GatewayInv, NEW s \in Streams, ParseChunk(s) PROVE GatewayInv'
<1>0. /\ stream[s] \in ProviderCall /\ FeedIs(stream[s]) /\ stream[s].go = "parse"
      /\ responseChain' \in Responses /\ adapterChain' \in Responses /\ UNCHANGED chains
      /\ apiFormat' = apiFormat
  BY CallIs DEF GatewayInv, ParseChunk, chains
<1> USE DEF ProviderCall, CallPlaces, FeedPlaces, FeedIs, Chunks, SameReports
<1>1. CASE Becomes(s, [stream[s] EXCEPT !.go = "take"]) /\ UNCHANGED usage
  <2>1. PICK r : r = [stream[s] EXCEPT !.go = "take"]
    OBVIOUS
  <2>2. r \in ProviderCall /\ FeedIs(r) /\ SameReports(r, stream[s])
    BY <1>0, <2>1
  <2>3. Becomes(s, r)
    BY <1>1, <2>1
  <2> QED BY <1>0, <1>1, <2>2, <2>3, CallMoves
<1>2. ASSUME NEW c \in {"text", "done", "error"}, ~stream[s].saw, UNCHANGED usage,
             Becomes(s, [stream[s] EXCEPT !.go = "put", !.chunk = c, !.saw = c # "text"])
      PROVE  GatewayInv'
  <2>1. PICK end \in BOOLEAN : end <=> c # "text"
    OBVIOUS
  <2>2. PICK r : r = [stream[s] EXCEPT !.go = "put", !.chunk = c, !.saw = end]
    OBVIOUS
  <2>3. r \in ProviderCall
    BY <1>0, <2>2
  <2>4. r.saw = end /\ r.chunk = c /\ r.go = "put" /\ r.at = stream[s].at /\ r.sent = stream[s].sent
        /\ r.held = stream[s].held /\ r.reports = stream[s].reports /\ r.done = stream[s].done
    BY <1>0, <2>2
  <2>5. FeedIs(r) /\ SameReports(r, stream[s])
    BY <1>0, <1>2, <2>1, <2>4
  <2>6. Becomes(s, r)
    BY <1>2, <2>1, <2>2
  <2> QED BY <1>0, <1>2, <2>3, <2>5, <2>6, CallMoves
<1>3. CASE /\ ~stream[s].saw /\ apiFormat = "responses"
           /\ Becomes(s, [stream[s] EXCEPT !.go = "record", !.chunk = "named", !.saw = TRUE,
                                           !.reports = 1])
           /\ Reported(s)
  <2>1. PICK r : r = [stream[s] EXCEPT !.go = "record", !.chunk = "named", !.saw = TRUE,
                                       !.reports = 1]
    OBVIOUS
  <2>2. r \in ProviderCall /\ FeedIs(r) /\ r.saw /\ r.reports = 1 /\ r.held = stream[s].held
    BY <1>0, <1>3, <2>1
  <2>3. Becomes(s, r)
    BY <1>3, <2>1
  <2>4. stream[s].reports = 0 /\ r.reports <= MaxReports
    BY <1>3, <2>2, GatewayParameters DEF GatewayInv, ResponsesReportLast
  <2>5. r.reports = stream[s].reports + 1
    BY <2>2, <2>4
  <2> QED BY <1>0, <1>3, <2>2, <2>3, <2>4, <2>5, ReportKeeps
<1> QED BY <1>1, <1>2, <1>3 DEF ParseChunk

\* The reports the adapter has go to the stream that takes them, and from there into the
\* gateway's sum.
LEMMA UsageKeeps ==
  ASSUME GatewayInv, NEW s \in Streams, TakeUsage(s) \/ RecordUsage(s) PROVE GatewayInv'
<1>0. /\ stream[s] \in ProviderCall /\ FeedIs(stream[s]) /\ UNCHANGED chains
      /\ usage \in UsageIs /\ apiFormat' = apiFormat
      /\ apiFormat = "responses" => stream[s].saw \/ stream[s].reports = 0
  BY CallIs DEF GatewayInv, TakeUsage, RecordUsage, ResponsesReportLast, chains
<1>a. /\ Somewhere(usage, stream) /\ InOnePlace(usage, stream)
      /\ ReplacedByAnother(usage, stream, apiFormat)
  BY CountedIs DEF GatewayInv, Once
<1>1. CASE TakeUsage(s)
  <2>1. PICK r : r = [stream[s] EXCEPT !.go = "add", !.held = usage.adapter]
    OBVIOUS
  <2>2. /\ r \in ProviderCall /\ FeedIs(r) /\ r.reports = stream[s].reports
        /\ r.held = usage.adapter /\ stream[s].held = {} /\ r.saw = stream[s].saw
    BY <1>0, <1>1, <2>1 DEF TakeUsage, ProviderCall, FeedPlaces, FeedIs, UsageIs
  <2>3. Becomes(s, r)
    BY <1>1, <2>1 DEF TakeUsage
  <2>4. /\ usage'.gateway = usage.gateway /\ usage'.adapter = {}
        /\ usage'.replaced = usage.replaced /\ usage' \in UsageIs
    BY <1>0, <1>1 DEF TakeUsage, UsageIs
  <2>5. /\ stream'[s] = r /\ \A t \in Streams : t # s => stream'[t] = stream[t]
    BY <2>3 DEF GatewayInv, Becomes
  <2>6. /\ stream'[s].held = usage.adapter
        /\ \A t \in Streams : t # s => stream'[t].held = stream[t].held
        /\ \A t \in Streams : stream'[t].reports = stream[t].reports
    BY <2>2, <2>5
  <2>7. \A x : Told(x, stream') <=> Told(x, stream)
    BY <2>6 DEF Told, UsageReports
  <2>8. Somewhere(usage', stream')
    BY <1>a, <2>2, <2>4, <2>6, <2>7 DEF Somewhere
  <2>9. InOnePlace(usage', stream')
    BY <1>a, <2>2, <2>4, <2>6 DEF InOnePlace
  <2>10. ReplacedByAnother(usage', stream', apiFormat')
    BY <1>0, <1>a, <2>2, <2>4, <2>6, <2>7 DEF ReplacedByAnother
  <2>11. Once(usage', stream', apiFormat')
    BY <2>8, <2>9, <2>10 DEF Once
  <2> QED BY <1>0, <2>2, <2>3, <2>4, <2>11, ReportMoves
<1>2. CASE RecordUsage(s)
  <2>1. PICK r : r = [stream[s] EXCEPT !.go = "last", !.held = {}]
    OBVIOUS
  <2>2. /\ r \in ProviderCall /\ FeedIs(r) /\ r.reports = stream[s].reports /\ r.held = {}
        /\ r.saw = stream[s].saw
    BY <1>0, <1>2, <2>1 DEF RecordUsage, ProviderCall, FeedPlaces, FeedIs
  <2>3. Becomes(s, r)
    BY <1>2, <2>1 DEF RecordUsage
  <2>4. /\ usage'.gateway = usage.gateway \cup stream[s].held /\ usage'.adapter = usage.adapter
        /\ usage'.replaced = usage.replaced /\ usage' \in UsageIs
    BY <1>0, <1>2 DEF RecordUsage, ProviderCall, UsageIs
  <2>5. /\ stream'[s] = r /\ \A t \in Streams : t # s => stream'[t] = stream[t]
    BY <2>3 DEF GatewayInv, Becomes
  <2>6. /\ stream'[s].held = {}
        /\ \A t \in Streams : t # s => stream'[t].held = stream[t].held
        /\ \A t \in Streams : stream'[t].reports = stream[t].reports
    BY <2>2, <2>5
  <2>7. \A x : Told(x, stream') <=> Told(x, stream)
    BY <2>6 DEF Told, UsageReports
  <2>8. Somewhere(usage', stream')
    BY <1>a, <2>2, <2>4, <2>6, <2>7 DEF Somewhere
  <2>9. InOnePlace(usage', stream')
    BY <1>a, <2>2, <2>4, <2>6 DEF InOnePlace
  <2>10. ReplacedByAnother(usage', stream', apiFormat')
    BY <1>0, <1>a, <2>2, <2>4, <2>6, <2>7 DEF ReplacedByAnother
  <2>11. Once(usage', stream', apiFormat')
    BY <2>8, <2>9, <2>10 DEF Once
  <2> QED BY <1>0, <2>2, <2>3, <2>4, <2>11, ReportMoves
<1> QED BY <1>1, <1>2

\* Every step keeps the invariant.
LEMMA GatewayInvKept == GatewayInv /\ [GatewayNext]_gatewayVars => GatewayInv'
<1> SUFFICES ASSUME GatewayInv, [GatewayNext]_gatewayVars PROVE GatewayInv'
  OBVIOUS
<1>1. CASE InvalidateChain \/ InvalidateAdapter
  <2>1. /\ responseChain' \in Responses /\ adapterChain' \in Responses
        /\ UNCHANGED <<apiFormat, usage, stream>>
    BY <1>1 DEF InvalidateChain, InvalidateAdapter, GatewayInv, Responses
  <2> QED BY <2>1 DEF GatewayInv, UsageCountedOnce, ResponsesReportLast
<1>2. CASE UNCHANGED gatewayVars
  BY <1>2 DEF gatewayVars, chains, GatewayInv, UsageCountedOnce, ResponsesReportLast
<1> QED BY <1>1, <1>2, CallerMoves, FeedMoves, ReportUsageKeeps, ParseKeeps, UsageKeeps DEF GatewayNext

\* For every number of conversations, calls, retries and reports, any room in the channel and
\* each format: a stream has one end, which nothing follows, and what it reported is counted
\* once wherever calls are cancelled, a message's report unless a later one replaced it
\* (gateway.go, anthropic_messages.go).
THEOREM StreamsEndOnceAlways == GatewaySpec => [](EndsOnce /\ UsageCountedOnce)
<1>1. ASSUME GatewayInv PROVE EndsOnce
  <2> SUFFICES ASSUME NEW s \in Streams, NEW ends,
                      ends = {i \in 1 .. Len(stream[s].sent) : stream[s].sent[i] # "text"}
               PROVE  /\ ends \subseteq {Len(stream[s].sent)}
                      /\ stream[s].go = "closed" /\ ~stream[s].done => ends # {}
    BY DEF EndsOnce
  <2>1. stream[s].sent \in Seq(Chunks) /\ FeedIs(stream[s]) /\ stream[s].go \in FeedPlaces
    BY <1>1, CallIs DEF ProviderCall
  <2>2. OnlyText(stream[s].sent) \/ HasEnd(stream[s].sent)
    BY <2>1 DEF FeedIs, FeedPlaces
  <2>3. OnlyText(stream[s].sent) => ends = {}
    BY DEF OnlyText
  <2>4. HasEnd(stream[s].sent) => ends = {Len(stream[s].sent)}
    BY <2>1 DEF HasEnd
  <2>5. stream[s].go = "closed" /\ ~stream[s].done => HasEnd(stream[s].sent)
    BY <2>1 DEF FeedIs
  <2> QED BY <2>2, <2>3, <2>4, <2>5
<1>2. GatewayInv => UsageCountedOnce
  BY DEF GatewayInv
<1> QED BY <1>1, <1>2, GatewayInvFirst, GatewayInvKept, PTL DEF GatewaySpec

-----------------------------------------------------------------------------
(* Side by side *)

\* A step of the parts together is a step of one of them, and the others stutter.
LEMMA PartsRun ==
  CoreSpec => /\ RegistrySpec /\ McpSpec /\ BusSpec /\ HookSpec /\ PolicySpec
              /\ LspSpec /\ DocSpec /\ GatewaySpec
<1>1. CoreInit => /\ RegistryInit /\ McpInit /\ BusInit /\ HookInit /\ PolicyInit
                  /\ LspInit /\ DocInit /\ GatewayInit
  BY DEF CoreInit
<1>2. [CoreNext]_coreVars => [RegistryNext]_registryVars
  BY DEF CoreNext, coreVars
<1>3. [CoreNext]_coreVars => [McpNext]_mcpVars
  BY DEF CoreNext, coreVars
<1>4. [CoreNext]_coreVars => [BusNext]_busVars
  BY DEF CoreNext, coreVars
<1>5. [CoreNext]_coreVars => [HookNext]_hookVars
  BY DEF CoreNext, coreVars
<1>6. [CoreNext]_coreVars => [PolicyNext]_policyVars
  BY DEF CoreNext, coreVars
<1>7. [CoreNext]_coreVars => [LspNext]_lspVars
  BY DEF CoreNext, coreVars
<1>8. [CoreNext]_coreVars => [DocNext]_docVars
  BY DEF CoreNext, coreVars
<1>9. [CoreNext]_coreVars => [GatewayNext]_gatewayVars
  BY DEF CoreNext, coreVars
<1> QED BY <1>1, <1>2, <1>3, <1>4, <1>5, <1>6, <1>7, <1>8, <1>9, PTL
        DEF CoreSpec, RegistrySpec, McpSpec, BusSpec, HookSpec, PolicySpec, LspSpec, DocSpec,
            GatewaySpec

\* An agent that is recorded as running has work that will record how it ends, one that
\* ended has given its handle up, and the population passes its bound by the other
\* compositions at most, whatever runs beside the registry (registry.go, compose.go).
THEOREM RecordsAreTrueAlways == CoreSpec => []RecordsAreTrue
  BY PartsRun, RecordsMatchWorkAlways, PopulationNearBoundAlways, PTL DEF RecordsAreTrue

\* No caller is served the tools of a session that was replaced, and every session is
\* closed once (mcp/client.go).
THEOREM ToolsOfTheSessionAlways == CoreSpec => []ToolsOfTheSession
  BY PartsRun, ToolsServedAlways, SessionsClosedOnceAlways, PTL DEF ToolsOfTheSession

\* Every subscriber gets its events in order and whole (core/event.go), each hook that
\* stays registered runs in its place (core/hooks.go), and a call is decided by the
\* strictest of the policies (security/policy.go).
THEOREM EveryoneIsHeardAlways == CoreSpec => []EveryoneIsHeard
  BY PartsRun, EventsInOrderAlways, EveryHookRunsAlways, StrictestDecidesAlways, PTL
     DEF EveryoneIsHeard

\* Streams that share a gateway have one end each and what they used is counted once,
\* whatever runs beside them (gateway.go).
THEOREM ModelCallsAreWholeAlways == CoreSpec => []ModelCallsAreWhole
  BY PartsRun, StreamsEndOnceAlways, PTL DEF ModelCallsAreWhole

\* An answer of a language server goes to the question it was given to, through crashes,
\* restarts and retries (lsp/client.go), and the texts of a document are told under
\* versions of their own (lsp/tools.go), whatever runs beside them.
THEOREM ServersAnswerWhatWasAskedAlways == CoreSpec => []ServersAnswerWhatWasAsked
  BY PartsRun, AnswersMatchAlways, VersionsOnceAlways, PTL DEF ServersAnswerWhatWasAsked
=============================================================================
