----------------------------- MODULE PrefixCache ------------------------------
(***************************************************************************)
(* The prefix cache manager (internal/engine/cache/cache.go): agents       *)
(* record the prefix they are about to send, and it is invalidated and     *)
(* reset.  HitRate models what is watched of the providers' caches.        *)
(*                                                                         *)
(* A signature is a number, equal for equal prefixes and 0 for none; a     *)
(* snapshot is [sequence, signature, count], count that of its messages.   *)
(***************************************************************************)
EXTENDS Naturals, Sequences, SequencesExt

CONSTANTS
  Builders,     \* callers of Build, of one call each
  Signatures, MaxCount,  \* what is recorded
  MaxChanges    \* bound: what is invalidated and reset, below config.MaxHistory

VARIABLES snapshot, changes, sequence, build

cacheVars == <<snapshot, changes, sequence, build>>

Nothing == [sequence |-> 0, signature |-> 0, count |-> 0]

\* Record takes its turn number in a lock section of its own.
NextSequence(b) ==
  /\ build[b].at = "idle"
  /\ sequence' = sequence + 1
  /\ \E s \in Signatures, n \in 1 .. MaxCount :
       build' = [build EXCEPT ![b].at = "record",
                   ![b].mine = [sequence |-> sequence', signature |-> s, count |-> n]]
  /\ UNCHANGED <<snapshot, changes>>

Kind(previous, next) ==
  IF previous.signature = 0 THEN "unchanged"
  ELSE IF previous.signature # next.signature THEN "edited"
  ELSE IF next.count > previous.count THEN "appended"
  ELSE IF next.count < previous.count THEN "edited" ELSE "unchanged"

Changed(kind, to) ==
  changes' = Append(changes, [kind |-> kind, from |-> snapshot.signature, to |-> to])

\* mutant: the first snapshot is the one that everything is compared with.
RecordFirst(b) ==
  /\ build[b].at = "record"
  /\ Changed(Kind(snapshot, build[b].mine), build[b].mine.signature)
  /\ snapshot' = IF snapshot.signature = 0 THEN build[b].mine ELSE snapshot
  /\ build' = [build EXCEPT ![b].at = "current"]
  /\ UNCHANGED <<sequence>>

\* Record compares with the snapshot that is there, also with a later one.
RecordChange(b) ==
  /\ build[b].at = "record"
  /\ Changed(Kind(snapshot, build[b].mine), build[b].mine.signature)
  /\ snapshot' = build[b].mine
  /\ build' = [build EXCEPT ![b].at = "current"]
  /\ UNCHANGED <<sequence>>

\* Build returns the signature and, in a further lock section, the key of the snapshot
\* that is there then.
BuildSignature(b) ==
  /\ build[b].at = "current"
  /\ build' = [build EXCEPT ![b].at = "key", ![b].signature = snapshot.signature]
  /\ UNCHANGED <<snapshot, changes, sequence>>

BuildKey(b) ==
  /\ build[b].at = "key"
  /\ build' = [build EXCEPT ![b].at = "over",
                            ![b].key = IF snapshot.signature = 0 THEN <<>>
                                       ELSE <<snapshot.signature, snapshot.count>>]
  /\ UNCHANGED <<snapshot, changes, sequence>>

Invalidate ==
  /\ Len(changes) < MaxChanges
  /\ Changed("edited", 0)
  /\ snapshot' = [snapshot EXCEPT !.signature = 0]
  /\ UNCHANGED <<sequence, build>>

Reset ==
  /\ Len(changes) < MaxChanges
  /\ Changed("reset", snapshot.signature)
  /\ UNCHANGED <<snapshot, sequence, build>>

-----------------------------------------------------------------------------
CacheInit ==
  /\ snapshot = Nothing /\ changes = <<>> /\ sequence = 0
  /\ build = [b \in Builders |-> [at |-> "idle", mine |-> Nothing, signature |-> 0, key |-> <<>>]]

CacheNext ==
  \/ \E b \in Builders : NextSequence(b) \/ RecordChange(b) \/ BuildSignature(b) \/ BuildKey(b)
  \/ Invalidate \/ Reset

CacheSpec == CacheInit /\ [][CacheNext]_cacheVars

-----------------------------------------------------------------------------
(* Properties *)

\* The state is what the declarations allow.
CacheTypeOK ==
  /\ snapshot.signature \in Signatures \cup {0} /\ snapshot.count \in 0 .. MaxCount
  /\ \A b \in Builders : build[b].mine.sequence <= sequence

\* The changes tell one story, whoever records, invalidates and resets meanwhile: each
\* begins where the one before ended, the last ends with the current snapshot, and none
\* is called harmless between two different prefixes.
ChangesChain ==
  /\ \A i \in DOMAIN changes :
       /\ changes[i].from = IF i = 1 THEN 0 ELSE changes[i - 1].to
       /\ changes[i].kind \in {"unchanged", "appended"} => changes[i].from \in {0, changes[i].to}
  /\ changes # <<>> => Last(changes).to = snapshot.signature
=============================================================================
