-------------------------------- MODULE Skills --------------------------------
(***************************************************************************)
(* The pool of skills (internal/engine/skills): Refresh scans the global   *)
(* and the project directory one skill at a time while both are edited by  *)
(* hand, and puts a new index in place; Activate reads a skill of the      *)
(* index again.                                                            *)
(*                                                                         *)
(* A skill is named after its directory, so a name stands for both.        *)
(***************************************************************************)
EXTENDS Integers, Sequences, SequencesExt, FiniteSets

CONSTANTS
  Names,        \* integers, for the index is sorted
  Refreshers,   \* callers of Refresh
  MaxEdits      \* bound: edits of the directories

Nobody == "nobody"
ASSUME SkillParameters == Nobody \notin Refreshers

VARIABLES
  disk,      \* what each root holds under a name
  edits,
  index, order,   \* the index: the root of each name, and the names in order
  refreshMu, refresh,
  activation

skillVars == <<disk, edits, index, order, refreshMu, refresh, activation>>

Roots == <<"global", "project">>

\* No directory, one without SKILL.md, a file that does not parse or names another
\* skill, a skill.
Contents == {"gone", "bare", "broken", "skill"}

IdleRefresh == [at |-> "idle", previous |-> <<>>, roots |-> <<>>, left |-> {},
         found |-> [n \in {} |-> "global"]]

\* Users, editing the files (the directories are not the pool's).
Edit ==
  /\ edits < MaxEdits /\ edits' = edits + 1
  /\ \E r \in ToSet(Roots), n \in Names, c \in Contents :
       disk' = [disk EXCEPT ![r][n] = c] /\ disk' # disk
  /\ UNCHANGED <<index, order, refreshMu, refresh, activation>>

\* The numbers of a set in ascending order: a set of one sequence.
Sorted(S) == {q \in SetToSeqs(S) : \A i, j \in DOMAIN q : i < j => q[i] < q[j]}

\* mutant: the names are sorted anew.
SortAnew(previous, found) == Sorted(found)

\* What stays of an order, as it was.
Kept(previous, found) ==
  {[k \in DOMAIN from |-> previous[from[k]]] :
     from \in Sorted({i \in DOMAIN previous : previous[i] \in found})}

\* nextOrder: the names that stay and after them the new ones, sorted.
NextOrder(previous, found) ==
  {parts[1] \o parts[2] : parts \in Kept(previous, found) \X Sorted(found \ ToSet(previous))}

Listed(r) == {n \in Names : disk[r][n] # "gone"}

\* Refresh takes refreshMu and copies the order, and lists the global root.
BeginRefresh(p) ==
  /\ refresh[p].at = "idle" /\ refreshMu = Nobody
  /\ refreshMu' = p
  /\ refresh' = [refresh EXCEPT ![p] =
       [at |-> "scan", previous |-> order, roots |-> Roots, left |-> Listed("global"),
        found |-> [n \in {} |-> "global"]]]
  /\ UNCHANGED <<disk, edits, index, order, activation>>

\* scanRoot, of the next directory: one that is gone since the root was listed, or whose
\* file is broken, fails the whole Refresh, as the end of its context does.
ScanSkill(p) ==
  LET f == refresh[p]  r == Head(f.roots)
      give(g) == refresh' = [refresh EXCEPT ![p] = g]
      failed == give(IdleRefresh) /\ refreshMu' = Nobody
  IN \E n \in f.left :
       /\ f.at = "scan" /\ \A l \in f.left : n <= l
       /\ \/ failed
          \/ /\ disk[r][n] \in {"bare", "skill"}
             /\ give([f EXCEPT !.left = @ \ {n},
                               !.found = IF disk[r][n] = "bare" THEN @
                                         ELSE [k \in DOMAIN @ \union {n} |-> IF k = n THEN r ELSE @[k]]])
             /\ UNCHANGED refreshMu
       /\ UNCHANGED <<disk, edits, index, order, activation>>

ScanProject(p) ==
  /\ refresh[p].at = "scan" /\ refresh[p].left = {} /\ Len(refresh[p].roots) = 2
  /\ refresh' = [refresh EXCEPT ![p].roots = Tail(@), ![p].left = Listed("project")]
  /\ UNCHANGED <<disk, edits, index, order, refreshMu, activation>>

\* The end of Refresh.
PublishIndex(p) ==
  /\ refresh[p].at = "scan" /\ refresh[p].left = {} /\ Len(refresh[p].roots) = 1
  /\ index' = refresh[p].found
  /\ order' \in NextOrder(refresh[p].previous, DOMAIN refresh[p].found)
  /\ refresh' = [refresh EXCEPT ![p] = IdleRefresh] /\ refreshMu' = Nobody
  /\ UNCHANGED <<disk, edits, activation>>

\* Activate looks the name up ...
Find ==
  /\ activation.at = "idle"
  /\ \E n \in DOMAIN index : activation' = [at |-> "read", name |-> n, root |-> index[n], last |-> "none"]
  /\ UNCHANGED <<disk, edits, index, order, refreshMu, refresh>>

\* ... and reads the file as it is now, under the name it is asked for or not at all.
\* ReadResource reads a file beside it by the same two steps.
Activate ==
  /\ activation.at = "read"
  /\ activation' = [at |-> "idle", name |-> 0, root |-> "global",
                     last |-> IF disk[activation.root][activation.name] = "skill"
                              THEN "active" ELSE "refused"]
  /\ UNCHANGED <<disk, edits, index, order, refreshMu, refresh>>

-----------------------------------------------------------------------------
SkillInit ==
  /\ disk \in [ToSet(Roots) -> [Names -> {"gone", "skill"}]] /\ edits = 0
  /\ index = [n \in {} |-> "global"] /\ order = <<>>
  /\ refreshMu = Nobody /\ refresh = [p \in Refreshers |-> IdleRefresh]
  /\ activation = [at |-> "idle", name |-> 0, root |-> "global", last |-> "none"]

SkillNext ==
  \/ Edit
  \/ \E p \in Refreshers : BeginRefresh(p) \/ ScanSkill(p) \/ ScanProject(p) \/ PublishIndex(p)
  \/ Find \/ Activate

SkillSpec == SkillInit /\ [][SkillNext]_skillVars

-----------------------------------------------------------------------------
(* Properties *)

\* The index lists each of its entries once.
SkillTypeOK ==
  /\ ToSet(order) = DOMAIN index /\ Len(order) = Cardinality(ToSet(order))
  /\ \A p \in Refreshers : refresh[p].at = "scan" <=> refreshMu = p

Position(s, n) == CHOOSE i \in DOMAIN s : s[i] = n

\* The list of skills an agent is shown only grows at its end: a skill that stays in the
\* index keeps its place before the ones that stay with it and before every new one,
\* whatever was edited while the directories were scanned and whoever refreshed.
OrderIsKept ==
  \A m \in ToSet(order) \intersect ToSet(order'), n \in ToSet(order') :
    m # n /\ (n \in ToSet(order) => Position(order, m) < Position(order, n))
    => Position(order', m) < Position(order', n)
=============================================================================
