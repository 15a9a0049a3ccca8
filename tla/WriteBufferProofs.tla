-------------------------- MODULE WriteBufferProofs --------------------------
(***************************************************************************)
(* What holds of the write buffer for every set of callers and streams,    *)
(* every number of sinks and every watermark: types, that a Flush which    *)
(* reports success has made durable what it answers for, that each sink    *)
(* follows the one before it, that the queue is bounded, and that every    *)
(* record is in one place.                                                 *)
(*                                                                         *)
(* FlushInv follows the records a Flush answers for from the queue it      *)
(* looked at, through the batch it took, into the journal.  FollowInv      *)
(* follows a batch from sink to sink, QueueInv knows the numbers of what   *)
(* is queued and taken, and WhereInv the places of every number.           *)
(***************************************************************************)
EXTENDS WriteBuffer, DataLemmas, SequenceTheorems

\* A queue to which a record was appended is a queue, and not empty.
LEMMA AppendType ==
  ASSUME NEW S, NEW q \in Seq(S), NEW r \in S
  PROVE  Append(q, r) \in Seq(S) /\ Len(Append(q, r)) \in Nat \ {0}
  OBVIOUS

\* What overflow discards and what it keeps are queues.
LEMMA SubSeqType ==
  ASSUME NEW S, NEW q \in Seq(S), NEW n \in 0 .. Len(q)
  PROVE  SubSeq(q, n + 1, Len(q)) \in Seq(S) /\ SubSeq(q, 1, n) \in Seq(S)
  OBVIOUS

\* The records of a queue are records.
LEMMA ToSetType == ASSUME NEW S, NEW q \in Seq(S) PROVE ToSet(q) \subseteq S
  BY DEF ToSet

\* Overflow discards fewer records than the queue has: one is always kept.
LEMMA OverflowRange ==
  ASSUME NEW S, NEW q \in Seq(S), Len(q) \in Nat \ {0}
  PROVE  Overflow(q) \in 0 .. Len(q) - 1
<1>1. IsFiniteSet(0 .. Len(q) - 2) /\ Cardinality(0 .. Len(q) - 2) = Len(q) - 1
  <2>1. ASSUME NEW l \in Nat \ {0}
        PROVE  IsFiniteSet(0 .. l - 2) /\ Cardinality(0 .. l - 2) = l - 1
    BY ONLY FS_Interval
  <2> QED BY ONLY <2>1, Len(q) \in Nat \ {0}
<1> DEFINE M == {m \in 0 .. Len(q) - 2 :
                   QueuedBytes(SubSeq(q, m + 1, Len(q))) > QueueBytes \div 2}
<1>2. IsFiniteSet(M) /\ Cardinality(M) <= Len(q) - 1 /\ Cardinality(M) \in Nat
  BY <1>1, FS_Subset, FS_CardinalityType
<1> QED BY <1>2 DEF Overflow, Discarded

\* A sink to which a batch was written holds records.
LEMMA ConcatType ==
  ASSUME NEW S, NEW q \in Seq(S), NEW z \in Seq(S)
  PROVE  q \o z \in Seq(S)
  OBVIOUS

\* The journal is a sequence of records.
LEMMA JournalType == TypeOK => Journal \in Seq(Record) /\ Len(Journal) \in Nat
  BY Parameters DEF Parameters, TypeOK, Journal, SinkIds

\* A Flush answers for records.
LEMMA OwesType ==
  ASSUME TypeOK, NEW p \in Drainers, Owes(p)
  PROVE  owed' \in [Drainers -> SUBSET Record]
<1>1. ToSet(Journal) \subseteq Record /\ ToSet(pending) \subseteq Record
  BY JournalType, ToSetType DEF TypeOK
<1> QED BY <1>1 DEF Owes, TypeOK

\* Leaving an operation keeps the drainers' state well typed.
LEMMA LeaveType ==
  ASSUME TypeOK, NEW p \in Drainers, NEW failed \in BOOLEAN, Leave(p, failed)
  PROVE  /\ op' \in [Drainers -> Ops] /\ pc' \in [Drainers -> Pcs]
         /\ owed' \in [Drainers -> SUBSET Record]
  BY DEF Leave, Goto, TypeOK, Ops, Pcs

\* Every step of the write buffer keeps the types.
LEMMA TypeStep == TypeOK /\ [Next]_vars => TypeOK'
<1> SUFFICES ASSUME TypeOK, [Next]_vars PROVE TypeOK'
  OBVIOUS
<1>1. CASE UNCHANGED vars
  BY <1>1 DEF TypeOK, Drainers, Ops, Pcs, vars, queue, wakeups, drainers, storage
<1>2. ASSUME NEW s \in Streams, NEW size \in Sizes, AppendRecord(s, size) PROVE TypeOK'
  <2> DEFINE r == [stream |-> s, seq |-> seq[s] + 1, size |-> size]
             q == Append(pending, r)
             n == Overflow(q)
  <2>1. r \in Record
    BY <1>2 DEF Record, TypeOK
  <2>2. q \in Seq(Record) /\ Len(q) \in Nat \ {0}
    BY <2>1, AppendType DEF TypeOK
  <2>3. n \in 0 .. Len(q) - 1
    BY <2>2, OverflowRange
  <2>4. SubSeq(q, n + 1, Len(q)) \in Seq(Record) /\ SubSeq(q, 1, n) \in Seq(Record)
    BY <2>2, <2>3, SubSeqType
  <2>5. ToSet(SubSeq(q, 1, n)) \subseteq Record
    BY <2>4, ToSetType
  <2>6. pending' \in Seq(Record) /\ dropped' \subseteq Record
    BY <1>2, <2>4, <2>5 DEF AppendRecord, TypeOK
  <2>7. seq' \in [Streams -> 0 .. MaxSeq] /\ waking' \in Nat
    BY <1>2, Parameters DEF Parameters, AppendRecord, TypeOK
  <2> QED BY <1>2, <2>6, <2>7 DEF AppendRecord, TypeOK, drainers, storage
<1>3. CASE Wake
  BY <1>3 DEF Wake, TypeOK, Drainers, Ops, Pcs, queue, drainers, storage
<1>4. ASSUME NEW p \in Callers, Flush(p) PROVE TypeOK'
  BY <1>4 DEF Flush, TypeOK, Drainers, Ops, Pcs, Begin, queue, storage
<1>5. ASSUME NEW p \in Callers, Close(p) PROVE TypeOK'
  BY <1>5 DEF Close, TypeOK, Drainers, Ops, Pcs, Begin, queue, storage
<1>6. CASE RunTick
  BY <1>6 DEF RunTick, TypeOK, Drainers, Ops, Pcs, Begin, queue, storage
<1>7. CASE RunSignal
  BY <1>7 DEF RunSignal, TypeOK, Drainers, Ops, Pcs, Begin, queue, storage
<1>8. CASE RunStop
  BY <1>8 DEF RunStop, TypeOK, Drainers, Ops, Pcs, Begin, queue, storage
<1>9. CASE Cancel
  BY <1>9 DEF Cancel, TypeOK, Drainers, Ops, Pcs, queue, wakeups, drainers, storage
<1>10. ASSUME NEW p \in Drainers, DrainEmpty(p) PROVE TypeOK'
  <2>1. owed' \in [Drainers -> SUBSET Record]
    BY <1>10, OwesType DEF DrainEmpty
  <2> QED BY <1>10, <2>1 DEF DrainEmpty, TypeOK, Pcs, Goto, queue, wakeups, storage
<1>11. ASSUME NEW p \in Drainers, DrainTake(p) PROVE TypeOK'
  <2>1. owed' \in [Drainers -> SUBSET Record]
    BY <1>11, OwesType DEF DrainTake
  <2>2. pending' \in Seq(Record)
    BY <1>11 DEF DrainTake
  <2> QED BY <1>11, <2>1, <2>2 DEF DrainTake, TypeOK, Pcs, Goto, wakeups, storage
<1>12. ASSUME NEW p \in Drainers, WriteLock(p) PROVE TypeOK'
  BY <1>12 DEF WriteLock, TypeOK, Drainers, Ops, Pcs, Goto, queue, wakeups, storage
<1>13. ASSUME NEW p \in Drainers, SinkWrite(p) PROVE TypeOK'
  <2>1. at[p] \in SinkIds /\ batch[p] \in Seq(Record)
    BY DEF TypeOK
  <2>2. sinks' \in [SinkIds -> Seq(Record)]
    <3>1. sinks[at[p]] \o batch[p] \in Seq(Record)
      BY <2>1, ConcatType DEF TypeOK
    <3> QED BY <1>13, <3>1 DEF SinkWrite, TypeOK
  <2>3. at' \in [Drainers -> SinkIds]
    <3>1. CASE at[p] < NumSinks
      <4>1. at[p] + 1 \in SinkIds
        BY <2>1, <3>1, Parameters DEF Parameters, SinkIds
      <4>2. at' = [at EXCEPT ![p] = at[p] + 1]
        BY <1>13, <3>1 DEF SinkWrite
      <4> QED BY <4>1, <4>2 DEF TypeOK
    <3>2. CASE ~(at[p] < NumSinks)
      <4>1. 1 \in SinkIds
        BY Parameters DEF Parameters, SinkIds
      <4>2. at' = [at EXCEPT ![p] = 1]
        BY <1>13, <3>2 DEF SinkWrite
      <4> QED BY <4>1, <4>2 DEF TypeOK
    <3> QED BY <3>1, <3>2
  <2>4. batch' \in [Drainers -> Seq(Record)]
    <3>1. <<>> \in Seq(Record)
      OBVIOUS
    <3>2. batch' = batch \/ batch' = [batch EXCEPT ![p] = <<>>]
      BY <1>13 DEF SinkWrite
    <3> QED BY <3>1, <3>2 DEF TypeOK
  <2>5. pc' \in [Drainers -> Pcs] /\ writer' \in Drainers \cup {None}
    BY <1>13 DEF SinkWrite, TypeOK, Goto, Pcs
  <2> QED BY <1>13, <2>2, <2>3, <2>4, <2>5 DEF SinkWrite, TypeOK, queue, wakeups
<1>14. ASSUME NEW p \in Drainers, SinkFail(p) PROVE TypeOK'
  <2>1. /\ op' \in [Drainers -> Ops] /\ pc' \in [Drainers -> Pcs]
        /\ owed' \in [Drainers -> SUBSET Record]
    BY <1>14, LeaveType DEF SinkFail
  <2>2. lost' \subseteq Record
    BY <1>14, ToSetType DEF SinkFail, TypeOK
  <2>3. failures' \in 0 .. MaxFailures
    BY <1>14, Parameters DEF Parameters, SinkFail, TypeOK
  <2>4. at' \in [Drainers -> SinkIds] /\ batch' \in [Drainers -> Seq(Record)]
    BY <1>14, Parameters DEF Parameters, SinkFail, SinkIds, TypeOK
  <2> QED BY <1>14, <2>1, <2>2, <2>3, <2>4 DEF SinkFail, TypeOK, queue, wakeups
<1>15. ASSUME NEW p \in Drainers, FlushSync(p) PROVE TypeOK'
  <2>1. /\ op' \in [Drainers -> Ops] /\ pc' \in [Drainers -> Pcs]
        /\ owed' \in [Drainers -> SUBSET Record]
    BY <1>15, LeaveType DEF FlushSync
  <2>2. synced' \in Nat /\ failures' \in 0 .. MaxFailures
    <3>1. CASE synced' = Len(Journal) /\ UNCHANGED failures
      BY <3>1, JournalType DEF TypeOK
    <3>2. CASE failures < MaxFailures /\ failures' = failures + 1 /\ UNCHANGED synced
      BY <3>2, Parameters DEF Parameters, TypeOK
    <3> QED BY <1>15, <3>1, <3>2 DEF FlushSync
  <2> QED BY <1>15, <2>1, <2>2 DEF FlushSync, TypeOK, queue, wakeups
<1>16. ASSUME NEW p \in Drainers, Check(p) PROVE TypeOK'
  BY <1>16 DEF Check, TypeOK, Drainers, Ops, Pcs, Leave, Goto, queue, wakeups, storage
<1>17. ASSUME NEW p \in Drainers, SyncLock(p) PROVE TypeOK'
  BY <1>17 DEF SyncLock, TypeOK, Drainers, Ops, Pcs, Goto, queue, wakeups, storage
<1>18. ASSUME NEW p \in Drainers, Sync(p) PROVE TypeOK'
  <2>1. /\ op' \in [Drainers -> Ops] /\ pc' \in [Drainers -> Pcs]
        /\ owed' \in [Drainers -> SUBSET Record]
    BY <1>18, LeaveType DEF Sync
  <2>2. synced' \in Nat /\ failures' \in 0 .. MaxFailures
    BY <1>18, JournalType, Parameters DEF Parameters, Sync, TypeOK
  <2> QED BY <1>18, <2>1, <2>2 DEF Sync, TypeOK, queue, wakeups
<1>19. ASSUME NEW p \in Drainers, MarkClosed(p) PROVE TypeOK'
  BY <1>19 DEF MarkClosed, TypeOK, Drainers, Ops, Pcs, Goto, wakeups, storage
<1> QED BY <1>1, <1>2, <1>3, <1>4, <1>5, <1>6, <1>7, <1>8, <1>9, <1>10, <1>11, <1>12,
     <1>13, <1>14, <1>15, <1>16, <1>17, <1>18, <1>19 DEF Next, Drain

\* The type invariant of the write buffer, for every set of callers and streams.
THEOREM TypeCorrect == Spec => []TypeOK
<1>1. Init => TypeOK
  <2> SUFFICES ASSUME Init PROVE TypeOK
    OBVIOUS
  <2>1. <<>> \in Seq(Record) /\ 1 \in SinkIds /\ 0 \in 0 .. MaxSeq /\ 0 \in 0 .. MaxFailures
    BY Parameters DEF Parameters, SinkIds
  <2> QED BY <2>1 DEF Init, TypeOK, Ops, Pcs
<1> QED BY <1>1, TypeStep, PTL DEF Spec

-----------------------------------------------------------------------------
(* FlushIsDurable *)

\* Where the records drainer p answers for are to be found.
Answered(p) ==
  ToSet(Journal) \cup (IF pc[p] \in {"lock", "write"} /\ at[p] = 1 THEN Taken(p) ELSE {})

\* What FlushIsDurable rests on: from the moment a Flush looked at the queue, the
\* records it answers for are in the journal, or in its batch as long as the batch
\* has not gone to the journal.
Answers(p) ==
  /\ pc[p] # "write" => at[p] = 1
  /\ op[p] = "flush" => pc[p] # "check"
  /\ op[p] = "flush" /\ pc[p] \in {"lock", "write", "fsync", "synclock", "sync"}
       => owed[p] \subseteq Answered(p)
FlushInv == \A p \in Drainers : Answers(p)

\* Appending a batch to a sink keeps what it holds and adds the batch.
LEMMA ConcatSet ==
  ASSUME NEW S, NEW q \in Seq(S), NEW z \in Seq(S)
  PROVE  ToSet(q) \subseteq ToSet(q \o z) /\ ToSet(z) \subseteq ToSet(q \o z)
<1>1. ASSUME NEW i \in DOMAIN q PROVE i \in DOMAIN (q \o z) /\ (q \o z)[i] = q[i]
  OBVIOUS
<1>2. ASSUME NEW i \in DOMAIN z
      PROVE  Len(q) + i \in DOMAIN (q \o z) /\ (q \o z)[Len(q) + i] = z[i]
  OBVIOUS
<1> QED BY <1>1, <1>2 DEF ToSet

\* The whole journal is a prefix of itself.
LEMMA WholePrefix ==
  ASSUME NEW S, NEW q \in Seq(S)
  PROVE  ToSet(q) \subseteq ToSet(SubSeq(q, 1, Len(q)))
<1>1. SubSeq(q, 1, Len(q)) = q
  OBVIOUS
<1> QED BY <1>1

\* A drainer that does not move keeps its answer while the journal only grows.
LEMMA Frame ==
  ASSUME NEW q \in Drainers, Answers(q), op'[q] = op[q], pc'[q] = pc[q], at'[q] = at[q],
         batch'[q] = batch[q], owed'[q] = owed[q], ToSet(Journal) \subseteq ToSet(Journal')
  PROVE  Answers(q)'
  BY DEF Answers, Answered, Taken

\* Every step of the write buffer keeps the records a Flush answers for in reach.
LEMMA FlushStep == TypeOK /\ FlushInv /\ [Next]_vars => FlushInv'
<1> SUFFICES ASSUME TypeOK, FlushInv, [Next]_vars, NEW q \in Drainers PROVE Answers(q)'
  BY DEF FlushInv
<1>0. Answers(q)
  BY DEF FlushInv
<1>1. CASE UNCHANGED vars
  BY <1>0, <1>1, Frame DEF vars, drainers, storage, Journal
<1>2. ASSUME NEW s \in Streams, NEW size \in Sizes, AppendRecord(s, size) PROVE Answers(q)'
  BY <1>0, <1>2, Frame DEF AppendRecord, drainers, storage, Journal
<1>3. CASE Wake
  BY <1>0, <1>3, Frame DEF Wake, drainers, storage, Journal
<1>4. CASE Cancel
  BY <1>0, <1>4, Frame DEF Cancel, drainers, storage, Journal
<1>5. ASSUME NEW p \in Callers, Flush(p) PROVE Answers(q)'
  <2>1. CASE q # p
    BY <1>0, <1>5, <2>1, Frame DEF Flush, Begin, storage, Journal, TypeOK
  <2>2. CASE q = p
    BY <1>0, <1>5, <2>2 DEF Flush, Begin, Drainers, TypeOK, Answers
  <2> QED BY <2>1, <2>2
<1>6. ASSUME NEW p \in Callers, Close(p) PROVE Answers(q)'
  <2>1. CASE q # p
    BY <1>0, <1>6, <2>1, Frame DEF Close, Begin, storage, Journal, TypeOK
  <2>2. CASE q = p
    BY <1>0, <1>6, <2>2 DEF Close, Begin, Drainers, TypeOK, Answers
  <2> QED BY <2>1, <2>2
<1>7. CASE RunTick
  <2>1. CASE q # Runner
    BY <1>0, <1>7, <2>1, Frame DEF RunTick, Begin, storage, Journal, TypeOK
  <2>2. CASE q = Runner
    BY <1>0, <1>7, <2>2 DEF RunTick, Begin, Drainers, TypeOK, Answers
  <2> QED BY <2>1, <2>2
<1>8. CASE RunSignal
  <2>1. CASE q # Runner
    BY <1>0, <1>8, <2>1, Frame DEF RunSignal, Begin, storage, Journal, TypeOK
  <2>2. CASE q = Runner
    BY <1>0, <1>8, <2>2 DEF RunSignal, Begin, Drainers, TypeOK, Answers
  <2> QED BY <2>1, <2>2
<1>9. CASE RunStop
  <2>1. CASE q # Runner
    BY <1>0, <1>9, <2>1, Frame DEF RunStop, Begin, storage, Journal, TypeOK
  <2>2. CASE q = Runner
    BY <1>0, <1>9, <2>2 DEF RunStop, Begin, Drainers, TypeOK, Answers
  <2> QED BY <2>1, <2>2
<1>10. ASSUME NEW p \in Drainers, DrainEmpty(p) PROVE Answers(q)'
  <2>1. CASE q # p
    BY <1>0, <1>10, <2>1, Frame DEF DrainEmpty, Goto, Owes, Leave, storage, Journal, TypeOK
  <2>2. CASE q = p
    <3>1. pending = <<>> /\ ToSet(pending) = {}
      BY <1>10 DEF DrainEmpty, ToSet
    <3> QED BY <1>0, <1>10, <2>2, <3>1
         DEF DrainEmpty, Goto, Owes, TypeOK, Answers, Answered, storage, Journal
  <2> QED BY <2>1, <2>2
<1>11. ASSUME NEW p \in Drainers, DrainTake(p) PROVE Answers(q)'
  <2>1. CASE q # p
    BY <1>0, <1>11, <2>1, Frame DEF DrainTake, Goto, Owes, Leave, storage, Journal, TypeOK
  <2>2. CASE q = p
    BY <1>0, <1>11, <2>2
      DEF DrainTake, Goto, Owes, TypeOK, Answers, Answered, Taken, storage, Journal
  <2> QED BY <2>1, <2>2
<1>12. ASSUME NEW p \in Drainers, WriteLock(p) PROVE Answers(q)'
  <2>1. CASE q # p
    BY <1>0, <1>12, <2>1, Frame DEF WriteLock, Goto, Owes, Leave, storage, Journal, TypeOK
  <2>2. CASE q = p
    BY <1>0, <1>12, <2>2
      DEF WriteLock, Goto, TypeOK, Answers, Answered, Taken, storage, Journal
  <2> QED BY <2>1, <2>2
<1>13. ASSUME NEW p \in Drainers, SinkWrite(p) PROVE Answers(q)'
  <2>1. CASE q # p
    <3>1. at[p] \in SinkIds /\ 1 \in SinkIds /\ batch[p] \in Seq(Record)
      BY Parameters DEF Parameters, SinkIds, TypeOK
    <3>2. Journal' = Journal \/ Journal' = Journal \o batch[p]
      BY <1>13, <3>1 DEF SinkWrite, TypeOK, Journal
    <3>3. ToSet(Journal) \subseteq ToSet(Journal')
      BY <3>1, <3>2, JournalType, ConcatSet
    <3> QED BY <1>0, <1>13, <2>1, <3>3, Frame DEF SinkWrite, Goto, TypeOK
  <2>2. CASE q = p
    <3>1. at[p] \in SinkIds /\ 1 \in SinkIds /\ batch[p] \in Seq(Record)
      BY Parameters DEF Parameters, SinkIds, TypeOK
    <3>2. CASE at[p] = 1
      <4>1. Journal' = Journal \o batch[p]
        BY <1>13, <3>1, <3>2 DEF SinkWrite, TypeOK, Journal
      <4>2. ToSet(Journal) \cup Taken(p) \subseteq ToSet(Journal')
        BY <3>1, <4>1, JournalType, ConcatSet DEF Taken
      <4> QED BY <1>0, <1>13, <2>2, <3>1, <3>2, <4>2
           DEF SinkWrite, Goto, TypeOK, Answers, Answered
    <3>3. CASE at[p] # 1
      <4>1. Journal' = Journal
        BY <1>13, <3>1, <3>3 DEF SinkWrite, TypeOK, Journal
      <4> QED BY <1>0, <1>13, <2>2, <3>1, <3>3, <4>1
           DEF SinkWrite, Goto, TypeOK, Answers, Answered
    <3> QED BY <3>2, <3>3
  <2> QED BY <2>1, <2>2
<1>14. ASSUME NEW p \in Drainers, SinkFail(p) PROVE Answers(q)'
  <2>1. CASE q # p
    BY <1>0, <1>14, <2>1, Frame DEF SinkFail, Goto, Owes, Leave, storage, Journal, TypeOK
  <2>2. CASE q = p
    BY <1>0, <1>14, <2>2 DEF SinkFail, Goto, Leave, TypeOK, Answers
  <2> QED BY <2>1, <2>2
<1>15. ASSUME NEW p \in Drainers, FlushSync(p) PROVE Answers(q)'
  <2>1. CASE q # p
    BY <1>0, <1>15, <2>1, Frame DEF FlushSync, Goto, Owes, Leave, storage, Journal, TypeOK
  <2>2. CASE q = p
    BY <1>0, <1>15, <2>2 DEF FlushSync, Goto, Leave, TypeOK, Answers
  <2> QED BY <2>1, <2>2
<1>16. ASSUME NEW p \in Drainers, Check(p) PROVE Answers(q)'
  <2>1. CASE q # p
    BY <1>0, <1>16, <2>1, Frame DEF Check, Goto, Owes, Leave, storage, Journal, TypeOK
  <2>2. CASE q = p
    BY <1>0, <1>16, <2>2 DEF Check, Goto, Leave, TypeOK, Answers
  <2> QED BY <2>1, <2>2
<1>17. ASSUME NEW p \in Drainers, SyncLock(p) PROVE Answers(q)'
  <2>1. CASE q # p
    BY <1>0, <1>17, <2>1, Frame DEF SyncLock, Goto, Owes, Leave, storage, Journal, TypeOK
  <2>2. CASE q = p
    BY <1>0, <1>17, <2>2
      DEF SyncLock, Goto, TypeOK, Answers, Answered, Taken, storage, Journal
  <2> QED BY <2>1, <2>2
<1>18. ASSUME NEW p \in Drainers, Sync(p) PROVE Answers(q)'
  <2>1. CASE q # p
    BY <1>0, <1>18, <2>1, Frame DEF Sync, Goto, Owes, Leave, storage, Journal, TypeOK
  <2>2. CASE q = p
    BY <1>0, <1>18, <2>2 DEF Sync, Goto, Leave, TypeOK, Answers
  <2> QED BY <2>1, <2>2
<1>19. ASSUME NEW p \in Drainers, MarkClosed(p) PROVE Answers(q)'
  <2>1. CASE q # p
    BY <1>0, <1>19, <2>1, Frame DEF MarkClosed, Goto, Owes, Leave, storage, Journal, TypeOK
  <2>2. CASE q = p
    BY <1>0, <1>19, <2>2 DEF MarkClosed, Goto, TypeOK, Answers
  <2> QED BY <2>1, <2>2
<1> QED BY <1>1, <1>2, <1>3, <1>4, <1>5, <1>6, <1>7, <1>8, <1>9, <1>10, <1>11,
     <1>12, <1>13, <1>14, <1>15, <1>16, <1>17, <1>18, <1>19 DEF Next, Drain

\* The invariant holds from the start, so it always does.
LEMMA FlushKept == Spec => []FlushInv
<1>1. Init => FlushInv
  BY DEF Init, FlushInv, Answers
<1> QED BY <1>1, FlushStep, TypeCorrect, PTL DEF Spec

\* A Flush that returns nil has brought to the journal what was there and in the queue
\* when it looked, and to the disk unless a refused sync was swallowed: FlushIsDurable.
THEOREM DurableFlush == Spec => FlushIsDurable
<1> DEFINE Promise == \A c \in Callers :
       FlushReturnsNil(c) => /\ owed[c] \subseteq ToSet(sinks'[1])
                             /\ OnDisk(owed[c]) \/ SyncSwallowed(c)
<1>2. TypeOK /\ FlushInv /\ [Next]_vars => [Promise]_vars
  <2> SUFFICES ASSUME TypeOK, FlushInv, Next, NEW c \in Callers, FlushReturnsNil(c)
               PROVE  /\ owed[c] \subseteq ToSet(sinks'[1])
                      /\ OnDisk(owed[c]) \/ SyncSwallowed(c)
    BY DEF FlushReturnsNil
  <2>1. owed[c] \subseteq ToSet(Journal)
    BY DEF FlushInv, Answers, Answered, FlushReturnsNil, Drainers
  <2>2. (synced' = Len(Journal) \/ SyncSwallowed(c)) /\ sinks' = sinks
    <3> USE DEF Drainers
    <3>1. ASSUME NEW p \in Drainers, FlushSync(p)
                 PROVE (synced' = Len(Journal) \/ SyncSwallowed(c)) /\ sinks' = sinks
      BY <3>1, Parameters
         DEF Parameters, FlushSync, FlushReturnsNil, SyncSwallowed, TypeOK, Leave, Goto
    <3>2. ASSUME NEW p \in Drainers, Sync(p)
                 PROVE (synced' = Len(Journal) \/ SyncSwallowed(c)) /\ sinks' = sinks
      BY <3>2, Parameters
         DEF Parameters, Sync, FlushReturnsNil, SyncSwallowed, TypeOK, Leave, Goto
    <3>3. ASSUME NEW p \in Callers, Flush(p) \/ Close(p) PROVE FALSE
      BY <3>3 DEF Flush, Close, Begin, FlushReturnsNil, TypeOK
    <3>4. ASSUME RunTick \/ RunSignal \/ RunStop PROVE FALSE
      BY <3>4, Parameters DEF Parameters, RunTick, RunSignal, RunStop, Begin,
         FlushReturnsNil, TypeOK
    <3>5. ASSUME Wake \/ Cancel PROVE FALSE
      BY <3>5 DEF Wake, Cancel, FlushReturnsNil, drainers
    <3>6. ASSUME NEW s \in Streams, NEW size \in Sizes, AppendRecord(s, size) PROVE FALSE
      BY <3>6 DEF AppendRecord, FlushReturnsNil, drainers
    <3>7. ASSUME NEW p \in Drainers,
                 DrainEmpty(p) \/ DrainTake(p) \/ WriteLock(p) \/ SyncLock(p) PROVE FALSE
      BY <3>7 DEF DrainEmpty, DrainTake, WriteLock, SyncLock, Goto, FlushReturnsNil, TypeOK
    <3>8. ASSUME NEW p \in Drainers, SinkWrite(p) PROVE FALSE
      BY <3>8 DEF SinkWrite, Goto, FlushReturnsNil, TypeOK
    <3>9. ASSUME NEW p \in Drainers, SinkFail(p) PROVE FALSE
      BY <3>9 DEF SinkFail, Leave, Goto, FlushReturnsNil, TypeOK
    <3>10. ASSUME NEW p \in Drainers, Check(p) \/ MarkClosed(p) PROVE FALSE
      BY <3>10 DEF Check, MarkClosed, Leave, Goto, FlushReturnsNil, TypeOK
    <3> QED BY <3>1, <3>2, <3>3, <3>4, <3>5, <3>6, <3>7, <3>8, <3>9, <3>10 DEF Next, Drain
  <2> QED BY <2>1, <2>2, JournalType, WholePrefix DEF Journal, OnDisk
<1> QED BY <1>2, FlushKept, TypeCorrect, PTL DEF Spec, FlushIsDurable

-----------------------------------------------------------------------------
(* LedgerFollowsJournal *)

\* A sink that follows another still does when the other grows.
LEMMA FollowsGrown ==
  ASSUME NEW S, NEW t \in Seq(S), NEW s \in Seq(S), NEW z \in Seq(S), Follows(t, s)
  PROVE  Follows(t, s \o z)
<1>1. PICK f \in [DOMAIN t -> DOMAIN s] :
        /\ \A i \in DOMAIN t : t[i] = s[f[i]]
        /\ \A i, j \in DOMAIN t : i < j => f[i] < f[j]
  BY DEF Follows
<1>2. \A i \in DOMAIN s : i \in DOMAIN (s \o z) /\ (s \o z)[i] = s[i]
  OBVIOUS
<1>3. f \in [DOMAIN t -> DOMAIN (s \o z)] /\ \A i \in DOMAIN t : t[i] = (s \o z)[f[i]]
  BY <1>1, <1>2
<1> QED BY <1>1, <1>3 DEF Follows

\* And it still does when both grow by the same batch.
LEMMA FollowsBoth ==
  ASSUME NEW S, NEW t \in Seq(S), NEW s \in Seq(S), NEW z \in Seq(S), Follows(t, s)
  PROVE  Follows(t \o z, s \o z)
<1>1. PICK f \in [DOMAIN t -> DOMAIN s] :
        /\ \A i \in DOMAIN t : t[i] = s[f[i]]
        /\ \A i, j \in DOMAIN t : i < j => f[i] < f[j]
  BY DEF Follows
<1> DEFINE g == [i \in DOMAIN (t \o z) |->
                   IF i \in DOMAIN t THEN f[i] ELSE Len(s) + (i - Len(t))]
<1>2. /\ DOMAIN t = 1 .. Len(t) /\ DOMAIN s = 1 .. Len(s) /\ DOMAIN z = 1 .. Len(z)
      /\ Len(t) \in Nat /\ Len(s) \in Nat /\ Len(z) \in Nat
      /\ DOMAIN (t \o z) = 1 .. Len(t) + Len(z) /\ DOMAIN (s \o z) = 1 .. Len(s) + Len(z)
  OBVIOUS
<1>3. /\ \A i \in 1 .. Len(t) : (t \o z)[i] = t[i]
      /\ \A i \in 1 .. Len(s) : (s \o z)[i] = s[i]
  OBVIOUS
<1>4. /\ \A i \in (1 .. Len(t) + Len(z)) \ (1 .. Len(t)) : (t \o z)[i] = z[i - Len(t)]
      /\ \A i \in (1 .. Len(s) + Len(z)) \ (1 .. Len(s)) : (s \o z)[i] = z[i - Len(s)]
  OBVIOUS
<1>5. ASSUME NEW i \in 1 .. Len(t)
      PROVE  g[i] = f[i] /\ g[i] \in 1 .. Len(s) /\ (t \o z)[i] = (s \o z)[g[i]]
  BY <1>1, <1>2, <1>3
<1>6. ASSUME NEW i \in (1 .. Len(t) + Len(z)) \ (1 .. Len(t))
      PROVE  /\ g[i] = Len(s) + (i - Len(t))
             /\ g[i] \in (1 .. Len(s) + Len(z)) \ (1 .. Len(s))
             /\ (t \o z)[i] = (s \o z)[g[i]]
  BY <1>2, <1>4
<1> HIDE DEF g
<1>7. g \in [DOMAIN (t \o z) -> DOMAIN (s \o z)]
  <2>1. \A i \in DOMAIN (t \o z) : g[i] \in DOMAIN (s \o z)
    BY <1>2, <1>5, <1>6
  <2> QED BY <2>1 DEF g
<1>8. \A i \in DOMAIN (t \o z) : (t \o z)[i] = (s \o z)[g[i]]
  BY <1>2, <1>5, <1>6
<1>9. ASSUME NEW i \in DOMAIN (t \o z), NEW j \in DOMAIN (t \o z), i < j PROVE g[i] < g[j]
  <2>1. CASE j \in 1 .. Len(t)
    <3>1. i \in 1 .. Len(t)
      BY <1>2, <1>9, <2>1
    <3> QED BY <1>1, <1>2, <1>5, <1>9, <2>1, <3>1
  <2>2. CASE i \in 1 .. Len(t) /\ j \notin 1 .. Len(t)
    BY <1>2, <1>5, <1>6, <1>9, <2>2
  <2>3. CASE i \notin 1 .. Len(t) /\ j \notin 1 .. Len(t)
    BY <1>2, <1>6, <1>9, <2>3
  <2> QED BY <2>1, <2>2, <2>3
<1> QED BY <1>7, <1>8, <1>9 DEF Follows

\* The drainer that holds the write lock brings its batch to one sink after another:
\* the sink it left already ends with the batch the next one is about to get.
Leads(p) ==
  /\ pc[p] \in {"write", "fsync", "sync"} => writer = p
  /\ pc[p] = "write" /\ at[p] > 1 => Follows(sinks[at[p]] \o batch[p], sinks[at[p] - 1])
FollowInv == LedgerFollowsJournal /\ \A p \in Drainers : Leads(p)

\* Who takes or gives back the write lock leaves the others where they are.
LEMMA LeadFrame ==
  ASSUME NEW q \in Drainers, Leads(q), pc'[q] = pc[q], at'[q] = at[q], batch'[q] = batch[q],
         (sinks' = sinks /\ writer' = writer) \/ writer # q
  PROVE  Leads(q)'
  BY DEF Leads

\* Every step keeps a ledger the journal less what it refused.
LEMMA FollowStep == TypeOK /\ FlushInv /\ FollowInv /\ [Next]_vars => FollowInv'
<1> SUFFICES ASSUME TypeOK, FlushInv, FollowInv, [Next]_vars PROVE FollowInv'
  OBVIOUS
<1>0. LedgerFollowsJournal /\ \A q \in Drainers : Leads(q)
  BY DEF FollowInv
<1>1. None \notin Drainers
  BY Parameters DEF Parameters, Drainers
<1>a. ASSUME UNCHANGED sinks, \A q \in Drainers : Leads(q)' PROVE FollowInv'
  BY <1>0, <1>a DEF FollowInv, LedgerFollowsJournal
<1>b. ASSUME UNCHANGED <<sinks, writer, pc, at, batch>> PROVE FollowInv'
  BY <1>0, <1>a, <1>b, LeadFrame
\* A drainer that moves without the lock, takes it or gives it back.
<1>c. ASSUME NEW p \in Drainers, UNCHANGED sinks,
             \A q \in Drainers \ {p} : /\ pc'[q] = pc[q] /\ at'[q] = at[q]
                                       /\ batch'[q] = batch[q],
             writer' = writer \/ writer \in {p, None},
             pc'[p] \in {"write", "fsync", "sync"} => writer' = p,
             pc'[p] = "write" => at'[p] = 1
      PROVE  FollowInv'
  <2>1. ASSUME NEW q \in Drainers, q # p PROVE Leads(q)'
    BY <1>0, <1>1, <1>c, <2>1, LeadFrame
  <2>2. Leads(p)'
    BY <1>c DEF Leads
  <2> QED BY <1>a, <1>c, <2>1, <2>2
<1>2. CASE UNCHANGED vars
  BY <1>2, <1>b DEF vars, drainers, storage
<1>3. ASSUME NEW s \in Streams, NEW size \in Sizes, AppendRecord(s, size) PROVE FollowInv'
  BY <1>3, <1>b DEF AppendRecord, drainers, storage
<1>4. CASE Wake \/ Cancel
  BY <1>4, <1>b DEF Wake, Cancel, drainers, storage
<1>5. ASSUME NEW p \in Drainers, NEW o, Begin(p, o) PROVE FollowInv'
  BY <1>5, <1>c DEF Begin, storage, TypeOK
<1>6. ASSUME NEW p \in Callers, Flush(p) \/ Close(p) PROVE FollowInv'
  BY <1>5, <1>6 DEF Flush, Close, Drainers
<1>7. CASE RunTick \/ RunSignal \/ RunStop
  BY <1>5, <1>7 DEF RunTick, RunSignal, RunStop, Drainers
<1>8. ASSUME NEW p \in Drainers, DrainEmpty(p) PROVE FollowInv'
  BY <1>8, <1>c DEF DrainEmpty, Goto, storage, TypeOK
<1>9. ASSUME NEW p \in Drainers, DrainTake(p) PROVE FollowInv'
  BY <1>9, <1>c DEF DrainTake, Goto, storage, TypeOK
<1>10. ASSUME NEW p \in Drainers, WriteLock(p) PROVE FollowInv'
  <2>1. at[p] = 1
    BY <1>10 DEF WriteLock, FlushInv, Answers
  <2> QED BY <1>10, <2>1, <1>c DEF WriteLock, Goto, storage, TypeOK
<1>11. ASSUME NEW p \in Drainers, SinkWrite(p) PROVE FollowInv'
  <2> DEFINE k == at[p]
  <2>1. /\ k \in SinkIds /\ 1 \in SinkIds /\ NumSinks \in Nat /\ SinkIds \subseteq Nat
        /\ batch[p] \in Seq(Record) /\ \A j \in SinkIds : sinks[j] \in Seq(Record)
    BY Parameters DEF Parameters, SinkIds, TypeOK
  <2>2. pc[p] = "write" /\ writer = p
    BY <1>0, <1>11 DEF SinkWrite, Leads
  <2>3. /\ sinks'[k] = sinks[k] \o batch[p]
        /\ \A j \in SinkIds \ {k} : sinks'[j] = sinks[j]
    BY <1>11 DEF SinkWrite, TypeOK
  <2>4. ASSUME NEW j \in SinkIds \ {1} PROVE Follows(sinks'[j], sinks'[j - 1])
    <3>1. j - 1 \in SinkIds /\ j \in SinkIds /\ j # j - 1
      BY <2>1 DEF SinkIds
    <3>2. Follows(sinks[j], sinks[j - 1])
      BY <1>0 DEF LedgerFollowsJournal
    <3>3. CASE j = k
      <4>1. Follows(sinks[k] \o batch[p], sinks[k - 1])
        BY <1>0, <2>1, <2>2, <3>3 DEF Leads, SinkIds
      <4> QED BY <2>3, <3>1, <3>3, <4>1
    <3>4. CASE j - 1 = k
      <4>1. Follows(sinks[j], sinks[k] \o batch[p])
        BY <2>1, <3>2, <3>4, FollowsGrown
      <4> QED BY <2>3, <3>1, <3>4, <4>1
    <3>5. CASE j # k /\ j - 1 # k
      BY <2>3, <3>1, <3>2, <3>5
    <3> QED BY <3>3, <3>4, <3>5
  <2>5. ASSUME NEW q \in Drainers, q # p PROVE Leads(q)'
    BY <1>0, <1>11, <2>2, <2>5, LeadFrame DEF SinkWrite, Goto, TypeOK
  <2>6. CASE k < NumSinks
    <3>1. k + 1 \in SinkIds \ {1} /\ (k + 1) - 1 = k /\ k + 1 # k
      BY <2>1, <2>6 DEF SinkIds
    <3>2. Follows(sinks[k + 1], sinks[k])
      BY <1>0, <3>1 DEF LedgerFollowsJournal
    <3>3. Follows(sinks[k + 1] \o batch[p], sinks[k] \o batch[p])
      BY <2>1, <3>1, <3>2, FollowsBoth
    <3>4. /\ pc'[p] = "write" /\ writer' = p /\ at'[p] = k + 1 /\ batch'[p] = batch[p]
      BY <1>11, <2>2, <2>6 DEF SinkWrite, TypeOK
    <3>5. sinks'[k + 1] = sinks[k + 1] /\ sinks'[k] = sinks[k] \o batch[p]
      BY <2>3, <3>1
    <3>6. Leads(p)'
      BY <3>1, <3>3, <3>4, <3>5 DEF Leads
    <3> QED BY <2>4, <2>5, <3>6 DEF FollowInv, LedgerFollowsJournal
  <2>7. CASE ~(k < NumSinks)
    <3>1. (pc'[p] = "fsync" /\ writer' = p) \/ pc'[p] = "check"
      BY <1>11, <2>2, <2>7 DEF SinkWrite, Goto, TypeOK
    <3>2. Leads(p)'
      BY <3>1 DEF Leads
    <3> QED BY <2>4, <2>5, <3>2 DEF FollowInv, LedgerFollowsJournal
  <2> QED BY <2>6, <2>7
<1>12. ASSUME NEW p \in Drainers, SinkFail(p) PROVE FollowInv'
  <2>1. writer = p
    BY <1>0, <1>12 DEF SinkFail, Leads
  <2> QED BY <1>12, <2>1, <1>c DEF SinkFail, Leave, Goto, TypeOK
<1>13. ASSUME NEW p \in Drainers, FlushSync(p) PROVE FollowInv'
  <2>1. writer = p
    BY <1>0, <1>13 DEF FlushSync, Leads
  <2>2. UNCHANGED <<sinks, at, batch>> /\ writer' = None
    BY <1>13 DEF FlushSync
  <2>3. \A q \in Drainers \ {p} : pc'[q] = pc[q]
    BY <1>0, <1>13 DEF FlushSync, Leave, Goto, TypeOK
  <2>4. pc'[p] \in {"mark", "gone", "rest"}
    BY <1>0, <1>13 DEF FlushSync, Leave, Goto, TypeOK
  <2> QED BY <1>13, <2>1, <2>2, <2>3, <2>4, <1>c
<1>14. ASSUME NEW p \in Drainers, Check(p) PROVE FollowInv'
  BY <1>14, <1>c DEF Check, Leave, Goto, storage, TypeOK
<1>15. ASSUME NEW p \in Drainers, SyncLock(p) PROVE FollowInv'
  BY <1>15, <1>c DEF SyncLock, Goto, storage, TypeOK
<1>16. ASSUME NEW p \in Drainers, Sync(p) PROVE FollowInv'
  <2>1. writer = p
    BY <1>0, <1>16 DEF Sync, Leads
  <2> QED BY <1>16, <2>1, <1>c DEF Sync, Leave, Goto, TypeOK
<1>17. ASSUME NEW p \in Drainers, MarkClosed(p) PROVE FollowInv'
  BY <1>17, <1>c DEF MarkClosed, Goto, storage, TypeOK
<1> QED BY <1>2, <1>3, <1>4, <1>6, <1>7, <1>8, <1>9, <1>10, <1>11, <1>12, <1>13, <1>14,
     <1>15, <1>16, <1>17 DEF Next, Drain

\* What is read back of a ledger is what the journal holds, in its order, less the
\* batches the ledger refused, whichever drainers wrote them and wherever one failed.
THEOREM LedgerFollowsAlways == Spec => []LedgerFollowsJournal
<1>1. Init => FollowInv
  <2> SUFFICES ASSUME Init PROVE FollowInv
    OBVIOUS
  <2>1. Follows(<<>>, <<>>)
    <3>1. <<>> \in [DOMAIN <<>> -> DOMAIN <<>>] /\ DOMAIN <<>> = {}
      OBVIOUS
    <3> QED BY <3>1 DEF Follows
  <2>2. LedgerFollowsJournal
    BY <2>1, Parameters DEF Parameters, Init, LedgerFollowsJournal, SinkIds
  <2> QED BY <2>2 DEF Init, FollowInv, Leads
<1>2. FollowInv => LedgerFollowsJournal
  BY DEF FollowInv
<1> QED BY <1>1, <1>2, FollowStep, FlushKept, TypeCorrect, PTL DEF Spec

-----------------------------------------------------------------------------
(* QueueBounded *)

\* The sizes of a queue's records added up from its head, one by one: QueuedBytes is
\* the last of these sums.
Sums(f, q) ==
  /\ f \in [0 .. Len(q) -> Int] /\ f[0] = 0
  /\ \A i \in 1 .. Len(q) : f[i] = f[i - 1] + q[i].size

\* A record takes room.
LEMMA SizeType ==
  ASSUME NEW r \in Record
  PROVE  r.size \in Int /\ r.size \in Nat /\ r.size > 0
<1>1. r.size \in Sizes
  BY DEF Record
<1>2. r.size \in Nat \ {0}
  BY <1>1, Parameters DEF Parameters
<1> QED BY <1>2

\* Every queue has its sums.
LEMMA SumsExist == ASSUME NEW q \in Seq(Record) PROVE \E f : Sums(f, q)
<1> DEFINE Summed(n) == \E f \in [0 .. n -> Int] :
             f[0] = 0 /\ \A i \in 1 .. n : f[i] = f[i - 1] + q[i].size
           bad == {n \in 0 .. Len(q) : ~Summed(n)}
<1>1. Len(q) \in Nat /\ \A i \in 1 .. Len(q) : q[i].size \in Int
  <2>1. \A i \in 1 .. Len(q) : q[i] \in Record
    OBVIOUS
  <2> QED BY <2>1, SizeType
<1>2. Summed(0)
  <2> DEFINE g == [i \in 0 .. 0 |-> 0]
  <2>1. g \in [0 .. 0 -> Int] /\ g[0] = 0 /\ \A i \in 1 .. 0 : g[i] = g[i - 1] + q[i].size
    OBVIOUS
  <2> HIDE DEF g
  <2> QED BY <2>1
<1>3. ASSUME NEW n \in 1 .. Len(q), Summed(n - 1) PROVE Summed(n)
  <2>1. PICK f \in [0 .. n - 1 -> Int] :
          f[0] = 0 /\ \A i \in 1 .. n - 1 : f[i] = f[i - 1] + q[i].size
    BY <1>3
  <2> DEFINE g == [i \in 0 .. n |-> IF i = n THEN f[n - 1] + q[n].size ELSE f[i]]
  <2>2. g \in [0 .. n -> Int]
    BY <1>1, <2>1
  <2>3. g[0] = 0 /\ \A i \in 1 .. n : g[i] = g[i - 1] + q[i].size
    BY <1>1, <2>1
  <2> QED BY <2>2, <2>3
<1> HIDE DEF Summed
<1>4. bad = {}
  <2> SUFFICES ASSUME bad # {} PROVE FALSE
    OBVIOUS
  <2>1. PICK n \in bad : \A m \in bad : n <= m
    <3>1. bad \in SUBSET Nat
      BY <1>1
    <3> HIDE DEF bad
    <3> QED BY <3>1, LeastNumber
  <2>2. n \in 1 .. Len(q) /\ n - 1 \in 0 .. Len(q) /\ n - 1 \notin bad
    BY <1>1, <1>2, <2>1
  <2> QED BY <1>3, <2>1, <2>2
<1>5. Summed(Len(q))
  BY <1>1, <1>4
<1> QED BY <1>5 DEF Summed, Sums

\* The bytes of a queue are the last of its sums.
LEMMA SumsTotal ==
  ASSUME NEW q \in Seq(Record), NEW f, Sums(f, q)
  PROVE  QueuedBytes(q) = f[Len(q)]
<1> DEFINE up == CHOOSE g : g = [n \in 0 .. Len(q) |->
                                   IF n = 0 THEN 0 ELSE g[n - 1] + q[n].size]
           bad == {n \in 0 .. Len(q) : up[n] # f[n]}
<1>1. Len(q) \in Nat
  OBVIOUS
<1>2. f = [n \in 0 .. Len(q) |-> IF n = 0 THEN 0 ELSE f[n - 1] + q[n].size]
  BY <1>1 DEF Sums
<1>3. up = [n \in 0 .. Len(q) |-> IF n = 0 THEN 0 ELSE up[n - 1] + q[n].size]
  BY <1>2
<1>4. QueuedBytes(q) = up[Len(q)]
  BY DEF QueuedBytes
<1> HIDE DEF up
<1>5. bad = {}
  <2> SUFFICES ASSUME bad # {} PROVE FALSE
    OBVIOUS
  <2>1. PICK n \in bad : \A m \in bad : n <= m
    <3>1. bad \in SUBSET Nat
      BY <1>1
    <3> HIDE DEF bad
    <3> QED BY <3>1, LeastNumber
  <2>2. n # 0
    BY <1>1, <1>3, <2>1 DEF Sums
  <2>3. n \in 1 .. Len(q) /\ n - 1 \in 0 .. Len(q) /\ n - 1 \notin bad
    BY <1>1, <2>1, <2>2
  <2>4. up[n - 1] = f[n - 1]
    BY <2>3
  <2>5. up[n] = up[n - 1] + q[n].size
    BY <1>3, <2>2, <2>3
  <2> QED BY <2>1, <2>3, <2>4, <2>5 DEF Sums
<1>6. Len(q) \in 0 .. Len(q)
  BY <1>1
<1> QED BY <1>4, <1>5, <1>6

\* A record adds its size.
LEMMA SumAppend ==
  ASSUME NEW q \in Seq(Record), NEW r \in Record
  PROVE  QueuedBytes(Append(q, r)) = QueuedBytes(q) + r.size
<1>1. PICK f : Sums(f, q)
  BY SumsExist
<1> DEFINE n == Len(q)
           g == [i \in 0 .. n + 1 |-> IF i = n + 1 THEN f[n] + r.size ELSE f[i]]
<1>2. /\ n \in Nat /\ Append(q, r) \in Seq(Record) /\ Len(Append(q, r)) = n + 1
      /\ \A i \in 1 .. n : Append(q, r)[i] = q[i]
      /\ Append(q, r)[n + 1] = r /\ r.size \in Int
  BY SizeType
<1>3. g \in [0 .. n + 1 -> Int] /\ g[0] = 0
  BY <1>1, <1>2 DEF Sums
<1>4. ASSUME NEW i \in 1 .. n + 1 PROVE g[i] = g[i - 1] + Append(q, r)[i].size
  <2>1. CASE i = n + 1
    BY <1>1, <1>2, <2>1 DEF Sums
  <2>2. CASE i # n + 1
    BY <1>1, <1>2, <2>2 DEF Sums
  <2> QED BY <2>1, <2>2
<1>5. Sums(g, Append(q, r))
  BY <1>2, <1>3, <1>4 DEF Sums
<1>6. QueuedBytes(Append(q, r)) = g[n + 1] /\ QueuedBytes(q) = f[n]
  BY <1>1, <1>2, <1>5, SumsTotal
<1>7. g[n + 1] = f[n] + r.size
  BY <1>2
<1> QED BY <1>6, <1>7

\* The sums tell what the head and the rest of a queue weigh.
LEMMA SumSplit ==
  ASSUME NEW q \in Seq(Record), NEW f, Sums(f, q), NEW n \in 0 .. Len(q)
  PROVE  /\ QueuedBytes(SubSeq(q, 1, n)) = f[n]
         /\ QueuedBytes(SubSeq(q, n + 1, Len(q))) = f[Len(q)] - f[n]
<1> DEFINE h == SubSeq(q, 1, n)
           t == SubSeq(q, n + 1, Len(q))
           fh == [i \in 0 .. n |-> f[i]]
           ft == [i \in 0 .. Len(q) - n |-> f[n + i] - f[n]]
<1>1. /\ Len(q) \in Nat /\ h \in Seq(Record) /\ t \in Seq(Record)
      /\ Len(h) = n /\ Len(t) = Len(q) - n
      /\ \A i \in 1 .. n : h[i] = q[i]
      /\ \A i \in 1 .. Len(q) - n : t[i] = q[n + i]
  OBVIOUS
<1>2. \A i \in 1 .. Len(q) : q[i].size \in Int
  <2>1. \A i \in 1 .. Len(q) : q[i] \in Record
    OBVIOUS
  <2> QED BY <2>1, SizeType
<1>3. Sums(fh, h)
  <2>1. fh \in [0 .. n -> Int] /\ fh[0] = 0
    BY <1>1 DEF Sums
  <2>2. \A i \in 1 .. n : fh[i] = fh[i - 1] + h[i].size
    BY <1>1 DEF Sums
  <2> QED BY <1>1, <2>1, <2>2 DEF Sums
<1>4. Sums(ft, t)
  <2>1. ft \in [0 .. Len(q) - n -> Int] /\ ft[0] = 0
    BY <1>1 DEF Sums
  <2>2. ASSUME NEW i \in 1 .. Len(q) - n PROVE ft[i] = ft[i - 1] + t[i].size
    <3>1. n + i \in 1 .. Len(q) /\ n + (i - 1) = (n + i) - 1 /\ t[i] = q[n + i]
      BY <1>1
    <3>2. f[n + i] = f[n + (i - 1)] + q[n + i].size
      BY <3>1 DEF Sums
    <3>3. f[n + (i - 1)] \in Int /\ f[n] \in Int
      <4>1. \A k \in 0 .. Len(q) : f[k] \in Int
        BY DEF Sums
      <4>2. n + (i - 1) \in 0 .. Len(q)
        BY <1>1
      <4> QED BY <4>1, <4>2
    <3>4. q[n + i].size \in Int
      BY <1>2, <3>1
    <3>5. ft[i] = f[n + i] - f[n] /\ ft[i - 1] = f[n + (i - 1)] - f[n]
      BY <1>1
    <3>6. \A a \in Int, b \in Int, s \in Int : (a + s) - b = (a - b) + s
      OBVIOUS
    <3>7. (f[n + (i - 1)] + q[n + i].size) - f[n] = (f[n + (i - 1)] - f[n]) + q[n + i].size
      BY ONLY <3>3, <3>4, <3>6
    <3> HIDE DEF ft, t
    <3> QED BY ONLY <3>1, <3>2, <3>5, <3>7, Zenon
  <2> QED BY <1>1, <2>1, <2>2 DEF Sums
<1>5. QueuedBytes(h) = fh[n] /\ QueuedBytes(t) = ft[Len(q) - n]
  BY <1>1, <1>3, <1>4, SumsTotal
<1>6. fh[n] = f[n] /\ ft[Len(q) - n] = f[n + (Len(q) - n)] - f[n] /\ n + (Len(q) - n) = Len(q)
  BY <1>1
<1> QED BY <1>5, <1>6

\* The bytes of a queue are a number.
LEMMA BytesType == ASSUME NEW q \in Seq(Record) PROVE QueuedBytes(q) \in Int
<1>1. PICK f : Sums(f, q)
  BY SumsExist
<1>2. Len(q) \in 0 .. Len(q)
  OBVIOUS
<1> QED BY <1>1, <1>2, SumsTotal DEF Sums

\* The discarding loop stops at a queue that fits its bound, or at its last record.
LEMMA OverflowFits ==
  ASSUME NEW q \in Seq(Record), Len(q) \in Nat \ {0}, NEW n \in {Overflow(q)}
  PROVE  QueuedBytes(SubSeq(q, n + 1, Len(q))) <= QueueBytes \/ n = Len(q) - 1
<1>1. PICK f : Sums(f, q)
  BY SumsExist
<1> DEFINE L == Len(q)
           W(m) == QueuedBytes(SubSeq(q, m + 1, L))
           M == {m \in 0 .. L - 2 : W(m) > QueueBytes \div 2}
<1>2. \A m \in 0 .. L : W(m) = f[L] - f[m] /\ W(m) \in Int
  <2>1. \A m \in 0 .. L : W(m) = f[L] - f[m]
    BY <1>1, SumSplit
  <2>2. L \in 0 .. L /\ \A m \in 0 .. L : f[m] \in Int
    BY <1>1 DEF Sums
  <2> HIDE DEF W
  <2> QED BY <2>1, <2>2
<1>3. ASSUME NEW m \in 1 .. L PROVE W(m) < W(m - 1)
  <2>1. f[m] = f[m - 1] + q[m].size /\ q[m].size \in Int /\ q[m].size > 0
    <3>1. q[m] \in Record
      OBVIOUS
    <3> QED BY <1>1, <3>1, SizeType DEF Sums
  <2>2. f[m] \in Int /\ f[m - 1] \in Int /\ f[L] \in Int /\ m - 1 \in 0 .. L /\ m \in 0 .. L
    BY <1>1 DEF Sums
  <2>3. W(m) = f[L] - f[m] /\ W(m - 1) = f[L] - f[m - 1]
    BY <1>2, <2>2
  <2> HIDE DEF W
  <2> QED BY <2>1, <2>2, <2>3
<1>4. W(0) = QueuedBytes(q)
  <2>1. SubSeq(q, 0 + 1, Len(q)) = q
    OBVIOUS
  <2> QED BY <2>1
<1>5. QueueBytes \in Nat \ {0} /\ QueueBytes \div 2 \in Nat /\ QueueBytes \div 2 <= QueueBytes
  BY Parameters DEF Parameters
<1>6. CASE QueuedBytes(q) <= QueueBytes
  <2>1. n = 0
    BY <1>6 DEF Overflow
  <2> QED BY <1>4, <1>6, <2>1
<1>7. CASE ~(QueuedBytes(q) <= QueueBytes)
  <2>1. n = Cardinality(M)
    BY <1>7 DEF Overflow, Discarded
  <2> DEFINE ends == {m \in 0 .. L - 1 : m \notin M}
  <2>2. L - 1 \in ends /\ ends \in SUBSET Nat
    OBVIOUS
  <2>3. PICK c \in ends : \A m \in ends : c <= m
    <3> HIDE DEF ends
    <3> QED BY <2>2, LeastNumber
  <2>4. c \in 0 .. L - 1 /\ c \notin M /\ \A m \in 0 .. c - 1 : m \in M
    BY <2>3
  <2>5. \A m \in M : m < c
    <3> DEFINE high == {m \in M : m >= c}
    <3>0. M \subseteq 0 .. L - 2 /\ c \in Nat
      BY <2>4
    <3> SUFFICES ASSUME high # {} PROVE FALSE
      <4> HIDE DEF M
      <4> QED BY <3>0
    <3>1. high \in SUBSET Nat
      BY <3>0
    <3>2. PICK m \in high : \A k \in high : m <= k
      <4> HIDE DEF high
      <4> QED BY <3>1, LeastNumber
    <3>3. m \in M /\ m >= c /\ m # c /\ m \in 0 .. L - 2 /\ c \in Nat
      BY <2>4, <3>2
    <3>4. m - 1 \in 0 .. L - 2 /\ m \in 1 .. L /\ m - 1 >= c /\ m - 1 \in 0 .. L
      BY <3>3
    <3>5. W(m - 1) > QueueBytes \div 2
      <4>1. W(m) > QueueBytes \div 2 /\ W(m) < W(m - 1)
        BY <1>3, <3>3, <3>4
      <4>2. W(m) \in Int /\ W(m - 1) \in Int
        <5>1. m \in 0 .. L /\ m - 1 \in 0 .. L
          BY <3>4
        <5> HIDE DEF W
        <5> QED BY <1>2, <5>1
      <4> HIDE DEF W
      <4> QED BY <1>5, <4>1, <4>2
    <3>6. m - 1 \in high
      BY <3>4, <3>5
    <3> QED BY <3>2, <3>3, <3>6
  <2>6. M = 0 .. c - 1
    <3>1. \A m \in M : m \in 0 .. c - 1
      BY <2>4, <2>5
    <3> HIDE DEF M
    <3> QED BY <2>4, <3>1
  <2>7. n = c
    <3>1. c \in Nat /\ Cardinality(0 .. c - 1) = c
      BY <2>4, FS_Interval
    <3> QED BY <2>1, <2>6, <3>1
  <2>8. CASE c = L - 1
    BY <2>7, <2>8
  <2>9. CASE c # L - 1
    <3>1. c \in 0 .. L - 2 /\ c \in 0 .. L
      BY <2>4, <2>9
    <3>2. ~(W(c) > QueueBytes \div 2)
      BY <2>4, <3>1
    <3>3. W(c) \in Int
      BY <1>2, <3>1
    <3>4. W(c) <= QueueBytes
      <4> HIDE DEF W
      <4> QED BY <1>5, <3>2, <3>3
    <3> QED BY <2>7, <3>4
  <2> QED BY <2>8, <2>9
<1> QED BY <1>6, <1>7

\* The records of a stream stand in the queue in the order of their numbers, after all
\* that were discarded, and no number is higher than the last one given out.
Ages(q) ==
  \A i, j \in DOMAIN q : i < j /\ q[i].stream = q[j].stream => q[i].seq < q[j].seq
Older(D, S) == \A d \in D, r \in S : d.stream = r.stream => d.seq < r.seq
QueueInv ==
  /\ bytes = QueuedBytes(pending)
  /\ bytes <= QueueBytes \/ Len(pending) = 1
  /\ Ages(pending) /\ Older(dropped, Queued)
  /\ \A r \in Queued \cup dropped : r.seq <= seq[r.stream]

\* The queue q cut after its first n records.
Cut(q, n, h, t) ==
  /\ Len(h) = n /\ Len(t) = Len(q) - n
  /\ \A i \in 1 .. n : h[i] = q[i]
  /\ \A i \in 1 .. Len(q) - n : t[i] = q[n + i]

\* SubSeq cuts.
LEMMA SubSeqCuts ==
  ASSUME NEW q \in Seq(Record), NEW n \in 0 .. Len(q)
  PROVE  /\ Cut(q, n, SubSeq(q, 1, n), SubSeq(q, n + 1, Len(q)))
         /\ SubSeq(q, 1, n) \in Seq(Record) /\ SubSeq(q, n + 1, Len(q)) \in Seq(Record)
<1>1. Len(SubSeq(q, 1, n)) = n /\ \A i \in 1 .. n : SubSeq(q, 1, n)[i] = q[i]
  OBVIOUS
<1>2. /\ Len(SubSeq(q, n + 1, Len(q))) = Len(q) - n
      /\ \A i \in 1 .. Len(q) - n : SubSeq(q, n + 1, Len(q))[i] = q[n + i]
  OBVIOUS
<1> QED BY <1>1, <1>2, SubSeqType DEF Cut

\* Cutting a queue in two keeps each half in order and leaves the older records in the
\* first half.
LEMMA SplitAges ==
  ASSUME NEW q \in Seq(Record), Ages(q), NEW n \in 0 .. Len(q),
         NEW h \in Seq(Record), NEW t \in Seq(Record), Cut(q, n, h, t)
  PROVE  Ages(t) /\ Older(ToSet(h), ToSet(t)) /\ ToSet(q) = ToSet(h) \cup ToSet(t)
<1>1. /\ Len(q) \in Nat /\ DOMAIN q = 1 .. Len(q)
      /\ DOMAIN h = 1 .. n /\ DOMAIN t = 1 .. Len(q) - n
      /\ \A i \in 1 .. n : h[i] = q[i]
      /\ \A i \in 1 .. Len(q) - n : t[i] = q[n + i]
  BY DEF Cut
<1>2. \A i \in 1 .. Len(q) - n : n + i \in 1 .. Len(q)
  BY <1>1
<1>3. ASSUME NEW i \in DOMAIN t, NEW j \in DOMAIN t, i < j, t[i].stream = t[j].stream
      PROVE  t[i].seq < t[j].seq
  <2>1. n + i \in DOMAIN q /\ n + j \in DOMAIN q /\ n + i < n + j
    BY <1>1, <1>2, <1>3
  <2>2. t[i] = q[n + i] /\ t[j] = q[n + j]
    BY <1>1
  <2> QED BY <1>3, <2>1, <2>2 DEF Ages
<1>4. ASSUME NEW i \in DOMAIN h, NEW j \in DOMAIN t, h[i].stream = t[j].stream
      PROVE  h[i].seq < t[j].seq
  <2>1. i < n + j /\ n + j \in DOMAIN q /\ i \in DOMAIN q
    BY <1>1, <1>2
  <2>2. h[i] = q[i] /\ t[j] = q[n + j]
    BY <1>1
  <2> QED BY <1>4, <2>1, <2>2 DEF Ages
<1>5. Older(ToSet(h), ToSet(t))
  <2> SUFFICES ASSUME NEW d \in ToSet(h), NEW r \in ToSet(t), d.stream = r.stream
               PROVE  d.seq < r.seq
    BY DEF Older
  <2>1. PICK i \in DOMAIN h : d = h[i]
    BY DEF ToSet
  <2>2. PICK j \in DOMAIN t : r = t[j]
    BY DEF ToSet
  <2> QED BY <1>4, <2>1, <2>2
<1>6. ToSet(q) \subseteq ToSet(h) \cup ToSet(t)
  <2> SUFFICES ASSUME NEW i \in DOMAIN q PROVE q[i] \in ToSet(h) \cup ToSet(t)
    BY DEF ToSet
  <2>1. CASE i \in 1 .. n
    BY <1>1, <2>1 DEF ToSet
  <2>2. CASE i \notin 1 .. n
    <3>1. i - n \in DOMAIN t /\ n + (i - n) = i
      BY <1>1, <2>2
    <3>2. t[i - n] = q[i]
      BY <1>1, <3>1
    <3> QED BY <3>1, <3>2 DEF ToSet
  <2> QED BY <2>1, <2>2
<1>7. ToSet(h) \subseteq ToSet(q)
  BY <1>1 DEF ToSet
<1>8. ToSet(t) \subseteq ToSet(q)
  <2> SUFFICES ASSUME NEW i \in DOMAIN t PROVE t[i] \in ToSet(q)
    BY DEF ToSet
  <2>1. n + i \in DOMAIN q /\ t[i] = q[n + i]
    BY <1>1, <1>2
  <2> QED BY <2>1 DEF ToSet
<1>9. Ages(t)
  BY <1>3 DEF Ages
<1> QED BY <1>5, <1>6, <1>7, <1>8, <1>9

\* An append, with what it discards, in terms of the queue it makes first.
LEMMA AppendSplits ==
  ASSUME TypeOK, NEW s \in Streams, NEW size \in Sizes, AppendRecord(s, size),
         NEW r \in {[stream |-> s, seq |-> seq[s] + 1, size |-> size]},
         NEW q \in {Append(pending, r)}, NEW n \in {Overflow(q)}
  PROVE  /\ r \in Record /\ q \in Seq(Record) /\ Len(q) \in Nat \ {0} /\ n \in 0 .. Len(q) - 1
         /\ pending' = SubSeq(q, n + 1, Len(q))
         /\ dropped' = dropped \cup ToSet(SubSeq(q, 1, n))
         /\ bytes' = bytes + size - QueuedBytes(SubSeq(q, 1, n))
         /\ ToSet(q) = Queued \cup {r}
<1>0. r = [stream |-> s, seq |-> seq[s] + 1, size |-> size] /\ q = Append(pending, r)
  OBVIOUS
<1>1. r \in Record
  BY <1>0 DEF AppendRecord, Record, TypeOK
<1>2. q \in Seq(Record) /\ Len(q) \in Nat \ {0}
  BY <1>0, <1>1, AppendType DEF TypeOK
<1>3. n \in 0 .. Len(q) - 1
  BY <1>2, OverflowRange
<1>4. ToSet(q) = Queued \cup {r}
  BY AppendElements DEF TypeOK, Queued
<1> QED BY <1>1, <1>2, <1>3, <1>4 DEF AppendRecord

\* The new record has the highest number of its stream.
LEMMA AppendAges ==
  ASSUME TypeOK, QueueInv, NEW s \in Streams, NEW size \in Sizes, AppendRecord(s, size),
         NEW r \in {[stream |-> s, seq |-> seq[s] + 1, size |-> size]}
  PROVE  Ages(Append(pending, r))
<1> DEFINE q == Append(pending, r)
<1>1. /\ pending \in Seq(Record) /\ seq[s] \in Nat /\ r.stream = s /\ r.seq = seq[s] + 1
  BY DEF TypeOK
<1>2. /\ DOMAIN pending = 1 .. Len(pending) /\ Len(pending) \in Nat
      /\ DOMAIN q = 1 .. Len(pending) + 1
      /\ \A i \in 1 .. Len(pending) : q[i] = pending[i]
      /\ q[Len(pending) + 1] = r
  BY <1>1
<1> HIDE DEF q
<1>3. ASSUME NEW i \in DOMAIN q, NEW j \in DOMAIN q, i < j, q[i].stream = q[j].stream
      PROVE  q[i].seq < q[j].seq
  <2>1. i \in DOMAIN pending /\ q[i] = pending[i]
    BY <1>2, <1>3
  <2>2. CASE j \in DOMAIN pending
    BY <1>2, <1>3, <2>1, <2>2 DEF QueueInv, Ages
  <2>3. CASE j \notin DOMAIN pending
    <3>1. q[j] = r
      BY <1>2, <2>3
    <3>2. pending[i] \in Queued /\ pending[i] \in Record
      BY <1>1, <2>1 DEF Queued, ToSet
    <3>3. pending[i].seq <= seq[s] /\ pending[i].seq \in Nat
      BY <1>1, <1>3, <2>1, <3>1, <3>2 DEF QueueInv, Record
    <3> QED BY <1>1, <2>1, <3>1, <3>3
  <2> QED BY <2>2, <2>3
<1>4. Ages(q)
  BY <1>3 DEF Ages
<1> QED BY <1>4 DEF q

\* Every step keeps the queue bounded and in order.
LEMMA QueueStep == TypeOK /\ QueueInv /\ [Next]_vars => QueueInv'
<1> SUFFICES ASSUME TypeOK, QueueInv, [Next]_vars PROVE QueueInv'
  OBVIOUS
<1>1. ASSUME UNCHANGED <<pending, bytes, seq, dropped>> PROVE QueueInv'
  BY <1>1 DEF QueueInv, Queued, Ages, Older
<1>2. ASSUME NEW s \in Streams, NEW size \in Sizes, AppendRecord(s, size) PROVE QueueInv'
  <2> DEFINE r == [stream |-> s, seq |-> seq[s] + 1, size |-> size]
             q == Append(pending, r)
             n == Overflow(q)
             h == SubSeq(q, 1, n)
             t == SubSeq(q, n + 1, Len(q))
  <2>1. /\ r \in Record /\ q \in Seq(Record) /\ Len(q) \in Nat \ {0} /\ n \in 0 .. Len(q) - 1
        /\ pending' = t /\ dropped' = dropped \cup ToSet(h)
        /\ bytes' = bytes + size - QueuedBytes(h)
        /\ ToSet(q) = Queued \cup {r}
    BY <1>2, AppendSplits
  <2>2. /\ seq' = [seq EXCEPT ![s] = seq[s] + 1] /\ seq[s] \in Nat
        /\ \A u \in Streams : seq[u] \in Nat
    BY <1>2 DEF AppendRecord, TypeOK
  <2>3. r.stream = s /\ r.seq = seq[s] + 1 /\ r.size = size
    OBVIOUS
  <2>4. pending \in Seq(Record) /\ Queued \subseteq Record /\ dropped \subseteq Record
    BY Elements DEF TypeOK, Queued
  <2>5. Ages(q)
    BY <1>2, AppendAges
  <2> HIDE DEF r, q
  <2>6. Ages(t) /\ Older(ToSet(h), ToSet(t)) /\ ToSet(q) = ToSet(h) \cup ToSet(t)
    <3>1. n \in 0 .. Len(q)
      BY <2>1
    <3>2. Cut(q, n, h, t) /\ h \in Seq(Record) /\ t \in Seq(Record)
      BY <2>1, <3>1, SubSeqCuts
    <3> HIDE DEF n, h, t
    <3> QED BY <2>1, <2>5, <3>1, <3>2, SplitAges
  <2>7. bytes' = QueuedBytes(pending')
    <3>1. PICK f : Sums(f, q)
      BY <2>1, SumsExist
    <3>2. n \in 0 .. Len(q) /\ Len(q) \in 0 .. Len(q)
      BY <2>1
    <3>3. QueuedBytes(h) = f[n] /\ QueuedBytes(t) = f[Len(q)] - f[n]
      <4> HIDE DEF n
      <4> QED BY <2>1, <3>1, <3>2, SumSplit
    <3>4. QueuedBytes(q) = f[Len(q)] /\ f[Len(q)] \in Int /\ f[n] \in Int
      <4> HIDE DEF n
      <4> QED BY <2>1, <3>1, <3>2, SumsTotal DEF Sums
    <3>5. QueuedBytes(q) = bytes + size
      <4>1. QueuedBytes(Append(pending, r)) = QueuedBytes(pending) + r.size
        BY <2>1, <2>4, SumAppend
      <4> QED BY <2>3, <4>1 DEF QueueInv, q
    <3>6. bytes \in Int /\ size \in Int
      BY <2>1, <2>3, <2>4, BytesType, SizeType DEF QueueInv
    <3>7. bytes' = QueuedBytes(t)
      <4> HIDE DEF h, t, n
      <4> QED BY <2>1, <3>3, <3>4, <3>5, <3>6
    <3> QED BY <2>1, <3>7
  <2>8. bytes' <= QueueBytes \/ Len(pending') = 1
    <3>1. QueuedBytes(t) <= QueueBytes \/ n = Len(q) - 1
      BY <2>1, OverflowFits
    <3>2. n = Len(q) - 1 => Len(t) = 1
      <4> HIDE DEF n
      <4> QED BY <2>1
    <3> QED BY <2>1, <2>7, <3>1, <3>2
  <2>9. ASSUME NEW d \in dropped', NEW e \in Queued', d.stream = e.stream PROVE d.seq < e.seq
    <3>1. e \in ToSet(t) /\ e \in Queued \cup {r} /\ d \in dropped \cup ToSet(h)
      BY <2>1, <2>6, <2>9 DEF Queued
    <3>2. CASE d \in ToSet(h)
      BY <2>6, <2>9, <3>1, <3>2 DEF Older
    <3>3. CASE d \in dropped /\ e \in Queued
      BY <2>9, <3>3 DEF QueueInv, Older
    <3>4. CASE d \in dropped /\ e = r
      <4>1. d.seq <= seq[s] /\ d.seq \in Nat
        BY <2>3, <2>4, <2>9, <3>4 DEF QueueInv, Record
      <4> QED BY <2>2, <2>3, <3>4, <4>1
    <3> QED BY <3>1, <3>2, <3>3, <3>4
  <2>10. ASSUME NEW e \in Queued' \cup dropped' PROVE e.seq <= seq'[e.stream]
    <3>1. e \in Queued \cup dropped \cup {r}
      BY <2>1, <2>6, <2>10 DEF Queued
    <3>2. CASE e = r
      BY <2>2, <2>3, <3>2 DEF TypeOK
    <3>3. CASE e \in Queued \cup dropped
      <4>1. e.seq \in Nat /\ e.stream \in Streams /\ e.seq <= seq[e.stream]
        BY <2>4, <3>3 DEF QueueInv, Record
      <4>2. seq[e.stream] \in Nat /\ seq[e.stream] <= seq'[e.stream] /\ seq'[e.stream] \in Nat
        BY <2>2, <4>1 DEF TypeOK
      <4> QED BY <4>1, <4>2
    <3> QED BY <3>1, <3>2, <3>3
  <2>11. Ages(pending')
    BY <2>1, <2>6
  <2>12. Older(dropped', Queued')
    BY <2>9 DEF Older
  <2> QED BY <2>7, <2>8, <2>10, <2>11, <2>12 DEF QueueInv, Ages, Older, Queued
<1>3. ASSUME NEW p \in Drainers, DrainTake(p) PROVE QueueInv'
  <2>1. pending' = <<>> /\ bytes' = 0 /\ UNCHANGED <<seq, dropped>>
    BY <1>3 DEF DrainTake
  <2>2. QueuedBytes(<<>>) = 0
    <3> DEFINE f == [i \in 0 .. 0 |-> 0]
    <3>1. <<>> \in Seq(Record) /\ Len(<<>>) = 0
      OBVIOUS
    <3>2. Sums(f, <<>>)
      BY <3>1 DEF Sums
    <3>3. QueuedBytes(<<>>) = f[0]
      BY <3>1, <3>2, SumsTotal
    <3> QED BY <3>3
  <2>3. DOMAIN pending' = {} /\ Queued' = {}
    BY <2>1 DEF Queued, ToSet
  <2>4. 0 <= QueueBytes
    BY Parameters DEF Parameters
  <2> QED BY <2>1, <2>2, <2>3, <2>4 DEF QueueInv, Ages, Older
<1>4. CASE UNCHANGED vars
  BY <1>1, <1>4 DEF vars, queue
<1>5. CASE Wake \/ Cancel
  BY <1>1, <1>5 DEF Wake, Cancel, queue
<1>6. ASSUME NEW p \in Callers, Flush(p) \/ Close(p) PROVE QueueInv'
  BY <1>1, <1>6 DEF Flush, Close, Begin, queue
<1>7. CASE RunTick \/ RunSignal \/ RunStop
  BY <1>1, <1>7 DEF RunTick, RunSignal, RunStop, Begin, queue
<1>8. ASSUME NEW p \in Drainers, DrainEmpty(p) \/ WriteLock(p) \/ SinkWrite(p) \/ SinkFail(p)
      PROVE  QueueInv'
  BY <1>1, <1>8 DEF DrainEmpty, WriteLock, SinkWrite, SinkFail, queue
<1>9. ASSUME NEW p \in Drainers, FlushSync(p) \/ Check(p) \/ SyncLock(p) \/ Sync(p)
      PROVE  QueueInv'
  BY <1>1, <1>9 DEF FlushSync, Check, SyncLock, Sync, queue
<1>10. ASSUME NEW p \in Drainers, MarkClosed(p) PROVE QueueInv'
  BY <1>1, <1>10 DEF MarkClosed
<1> QED BY <1>2, <1>3, <1>4, <1>5, <1>6, <1>7, <1>8, <1>9, <1>10 DEF Next, Drain

\* The invariant holds from the start, so it always does.
LEMMA QueueKept == Spec => []QueueInv
<1>1. Init => QueueInv
  <2> SUFFICES ASSUME Init PROVE QueueInv
    OBVIOUS
  <2>1. pending = <<>> /\ bytes = 0 /\ dropped = {} /\ DOMAIN pending = {} /\ Queued = {}
    BY DEF Init, Queued, ToSet
  <2>2. QueuedBytes(<<>>) = 0
    <3> DEFINE f == [i \in 0 .. 0 |-> 0]
    <3>1. <<>> \in Seq(Record) /\ Len(<<>>) = 0
      OBVIOUS
    <3>2. Sums(f, <<>>)
      BY <3>1 DEF Sums
    <3>3. QueuedBytes(<<>>) = f[0]
      BY <3>1, <3>2, SumsTotal
    <3> QED BY <3>3
  <2>3. 0 <= QueueBytes
    BY Parameters DEF Parameters
  <2> QED BY <2>1, <2>2, <2>3 DEF QueueInv, Ages, Older
<1> QED BY <1>1, QueueStep, TypeCorrect, PTL DEF Spec

\* The bytes the buffer accounts for are those of its queue, the queue never outgrows
\* its bound by more than the record it must keep, and it discards from its old end:
\* for every bound, every size of record and every interleaving of appends and drains.
THEOREM QueueBoundedAlways == Spec => []QueueBounded
<1>1. QueueInv => QueueBounded
  BY DEF QueueInv, QueueBounded, Older, Queued
<1> QED BY <1>1, QueueKept, PTL

-----------------------------------------------------------------------------
(* EveryRecordInOnePlace *)

\* Where the records are, by their keys, and the keys that were given out.
QueuedKeys   == Keys(Queued)
DroppedKeys  == Keys(dropped)
TakenKeys(p) == Keys(Taken(p))
LostKeys     == Keys(lost)
SinkKeys(i)  == Keys(ToSet(sinks[i]))
StoredKeys   == SinkKeys(NumSinks)
Allocated    == {k \in Streams \X (1 .. MaxSeq) : k[2] <= seq[k[1]]}

\* A key that was given out is in one place, any other in none.
WhereInv ==
  /\ \A k : k \in Allocated <=>
       \/ k \in QueuedKeys \/ k \in DroppedKeys \/ k \in LostKeys \/ k \in StoredKeys
       \/ \E p \in Drainers : k \in TakenKeys(p)
  /\ \A p, q \in Drainers : p # q => TakenKeys(p) \cap TakenKeys(q) = {}
  /\ \A p \in Drainers :
       TakenKeys(p) \cap (QueuedKeys \cup DroppedKeys \cup LostKeys \cup StoredKeys) = {}
  /\ QueuedKeys \cap (DroppedKeys \cup LostKeys \cup StoredKeys) = {}
  /\ DroppedKeys \cap (LostKeys \cup StoredKeys) = {}
  /\ LostKeys \cap StoredKeys = {}

\* No two elements of a sequence have the same key.
KeyApart(q) ==
  \A i, j \in DOMAIN q : q[i].stream = q[j].stream /\ q[i].seq = q[j].seq => i = j

\* A sink holds a record once, and no record that is in the queue or in a batch that is
\* still to be written to it; only a drainer that waits for the write lock or writes
\* has a batch.
SinksInv ==
  /\ \A i \in SinkIds : /\ KeyApart(sinks[i]) /\ SinkKeys(i) \subseteq Allocated
                        /\ SinkKeys(i) \cap QueuedKeys = {}
  /\ \A p \in Drainers, i \in SinkIds : at[p] <= i => TakenKeys(p) \cap SinkKeys(i) = {}
  /\ \A p \in Drainers : /\ KeyApart(batch[p])
                         /\ pc[p] \notin {"lock", "write"} => batch[p] = <<>>

\* The keys of two sets of records are the keys of both.
LEMMA KeysUnion == \A S, T : Keys(S \cup T) = Keys(S) \cup Keys(T)
  BY DEF Keys

\* There are no keys without records.
LEMMA KeysEmpty == Keys({}) = {} /\ Keys(ToSet(<<>>)) = {}
  BY DEF Keys, ToSet

\* Writing a batch to a sink adds the keys of the batch, and keeps the elements apart if
\* the sink held none of them.
LEMMA ConcatKeys ==
  ASSUME NEW q \in Seq(Record), NEW z \in Seq(Record)
  PROVE  /\ Keys(ToSet(q \o z)) = Keys(ToSet(q)) \cup Keys(ToSet(z))
         /\ KeyApart(q) /\ KeyApart(z) /\ Keys(ToSet(q)) \cap Keys(ToSet(z)) = {}
              => KeyApart(q \o z)
<1> DEFINE t == q \o z
<1>1. /\ Len(q) \in Nat /\ DOMAIN q = 1 .. Len(q) /\ Len(z) \in Nat /\ DOMAIN z = 1 .. Len(z)
      /\ DOMAIN t = 1 .. Len(q) + Len(z)
  OBVIOUS
<1>2. /\ \A k \in 1 .. Len(q) : t[k] = q[k]
      /\ \A k \in 1 .. Len(z) : t[Len(q) + k] = z[k]
      /\ ToSet(t) = ToSet(q) \cup ToSet(z)
  BY ConcatElements
<1> HIDE DEF t
<1>3. Keys(ToSet(t)) = Keys(ToSet(q)) \cup Keys(ToSet(z))
  BY <1>2, KeysUnion
<1>4. ASSUME KeyApart(q), KeyApart(z), Keys(ToSet(q)) \cap Keys(ToSet(z)) = {},
             NEW i \in DOMAIN t, NEW j \in DOMAIN t,
             t[i].stream = t[j].stream, t[i].seq = t[j].seq
      PROVE  i = j
  <2>1. \A k \in DOMAIN t : k \notin 1 .. Len(q) =>
          k - Len(q) \in DOMAIN z /\ k = Len(q) + (k - Len(q)) /\ t[k] = z[k - Len(q)]
    <3> SUFFICES ASSUME NEW k \in DOMAIN t, k \notin 1 .. Len(q)
                 PROVE  k - Len(q) \in DOMAIN z /\ k = Len(q) + (k - Len(q))
                          /\ t[k] = z[k - Len(q)]
      OBVIOUS
    <3>1. k - Len(q) \in 1 .. Len(z) /\ k = Len(q) + (k - Len(q))
      BY <1>1
    <3>2. t[Len(q) + (k - Len(q))] = z[k - Len(q)]
      BY <1>2, <3>1
    <3> QED BY <1>1, <3>1, <3>2
  <2>2. ASSUME NEW m \in DOMAIN q, NEW n \in DOMAIN z PROVE
               ~(q[m].stream = z[n].stream /\ q[m].seq = z[n].seq)
    <3>1. <<q[m].stream, q[m].seq>> \in Keys(ToSet(q))
      BY DEF Keys, ToSet
    <3>2. <<z[n].stream, z[n].seq>> \in Keys(ToSet(z))
      BY DEF Keys, ToSet
    <3> QED BY <1>4, <3>1, <3>2
  <2>3. CASE i \in 1 .. Len(q) /\ j \in 1 .. Len(q)
    BY <1>1, <1>2, <1>4, <2>3 DEF KeyApart
  <2>4. CASE i \in 1 .. Len(q) /\ j \notin 1 .. Len(q)
    <3>1. t[i] = q[i] /\ t[j] = z[j - Len(q)] /\ i \in DOMAIN q /\ j - Len(q) \in DOMAIN z
      BY <1>1, <1>2, <2>1, <2>4
    <3> QED BY <1>4, <2>2, <3>1
  <2>5. CASE i \notin 1 .. Len(q) /\ j \in 1 .. Len(q)
    <3>1. t[j] = q[j] /\ t[i] = z[i - Len(q)] /\ j \in DOMAIN q /\ i - Len(q) \in DOMAIN z
      BY <1>1, <1>2, <2>1, <2>5
    <3> QED BY <1>4, <2>2, <3>1
  <2>6. CASE i \notin 1 .. Len(q) /\ j \notin 1 .. Len(q)
    <3>1. i - Len(q) = j - Len(q)
      BY <1>4, <2>1, <2>6 DEF KeyApart
    <3> QED BY <2>1, <2>6, <3>1
  <2> QED BY <2>3, <2>4, <2>5, <2>6
<1>5. KeyApart(q) /\ KeyApart(z) /\ Keys(ToSet(q)) \cap Keys(ToSet(z)) = {} => KeyApart(t)
  BY <1>4 DEF KeyApart
<1> QED BY <1>3, <1>5 DEF t

\* A queue whose streams are in order holds a key once.
LEMMA AgesApart == ASSUME NEW q \in Seq(Record), Ages(q) PROVE KeyApart(q)
<1> SUFFICES ASSUME NEW i \in DOMAIN q, NEW j \in DOMAIN q,
                    q[i].stream = q[j].stream, q[i].seq = q[j].seq
             PROVE  i = j
  BY DEF KeyApart
<1>1. q[i] \in Record /\ q[j] \in Record /\ i \in Nat /\ j \in Nat
  OBVIOUS
<1>2. q[i].seq \in Nat /\ q[j].seq \in Nat
  BY <1>1 DEF Record
<1>3. ~(i < j) /\ ~(j < i)
  BY <1>2 DEF Ages
<1> QED BY <1>1, <1>3

\* Older records have other keys.
LEMMA OlderKeys ==
  ASSUME NEW D \in SUBSET Record, NEW S \in SUBSET Record, Older(D, S)
  PROVE  Keys(D) \cap Keys(S) = {}
<1> SUFFICES ASSUME NEW k \in Keys(D), k \in Keys(S) PROVE FALSE
  OBVIOUS
<1>1. PICK d \in D : k = <<d.stream, d.seq>>
  BY DEF Keys
<1>2. PICK r \in S : k = <<r.stream, r.seq>>
  BY DEF Keys
<1>3. d.stream = r.stream /\ d.seq = r.seq /\ d.seq \in Nat
  BY <1>1, <1>2 DEF Record
<1>4. d.seq < r.seq
  BY <1>3 DEF Older
<1> QED BY <1>3, <1>4

\* An append gives a new key out and moves some keys of the queue to the discarded ones.
LEMMA AppendKeys ==
  ASSUME TypeOK, QueueInv, NEW s \in Streams, NEW size \in Sizes, AppendRecord(s, size),
         NEW new \in {<<s, seq[s] + 1>>}
  PROVE  \E cut : /\ QueuedKeys' = (QueuedKeys \cup {new}) \ cut
                  /\ DroppedKeys' = DroppedKeys \cup cut /\ cut \subseteq QueuedKeys \cup {new}
                  /\ new \notin Allocated /\ Allocated' = Allocated \cup {new}
<1> DEFINE r == [stream |-> s, seq |-> seq[s] + 1, size |-> size]
           q == Append(pending, r)
           n == Overflow(q)
           h == SubSeq(q, 1, n)
           t == SubSeq(q, n + 1, Len(q))
<1>1. /\ r \in Record /\ q \in Seq(Record) /\ Len(q) \in Nat \ {0} /\ n \in 0 .. Len(q) - 1
      /\ pending' = t /\ dropped' = dropped \cup ToSet(h)
      /\ ToSet(q) = Queued \cup {r}
  BY AppendSplits
<1>2. Ages(q)
  BY AppendAges
<1>3. <<r.stream, r.seq>> = new
  OBVIOUS
<1> HIDE DEF r, q
<1>4. n \in 0 .. Len(q)
  BY <1>1
<1> HIDE DEF n
<1>5. Cut(q, n, h, t) /\ h \in Seq(Record) /\ t \in Seq(Record)
  BY <1>1, <1>4, SubSeqCuts
<1> HIDE DEF h, t
<1>6. Older(ToSet(h), ToSet(t)) /\ ToSet(q) = ToSet(h) \cup ToSet(t)
  BY <1>1, <1>2, <1>4, <1>5, SplitAges
<1>7. Keys(ToSet(h)) \cap Keys(ToSet(t)) = {}
  BY <1>5, <1>6, Elements, OlderKeys
<1>8. Keys(ToSet(h)) \cup Keys(ToSet(t)) = QueuedKeys \cup {new}
  <2>1. Keys({r}) = {new}
    BY <1>3 DEF Keys
  <2>2. Keys(Queued \cup {r}) = Keys(Queued) \cup Keys({r})
    BY KeysUnion
  <2>3. Keys(ToSet(h) \cup ToSet(t)) = Keys(ToSet(h)) \cup Keys(ToSet(t))
    BY KeysUnion
  <2>4. ToSet(h) \cup ToSet(t) = Queued \cup {r}
    BY <1>1, <1>6
  <2> QED BY <2>1, <2>2, <2>3, <2>4 DEF QueuedKeys
<1>9. QueuedKeys' = Keys(ToSet(t)) /\ DroppedKeys' = DroppedKeys \cup Keys(ToSet(h))
  BY <1>1, KeysUnion DEF QueuedKeys, DroppedKeys, Queued
<1>10. new \notin Allocated /\ Allocated' = Allocated \cup {new}
  <2>1. new = <<s, seq[s] + 1>> /\ seq[s] \in 0 .. MaxSeq /\ seq[s] < MaxSeq /\ MaxSeq \in Nat
    BY Parameters DEF Parameters, AppendRecord, TypeOK
  <2>2. seq' = [seq EXCEPT ![s] = seq[s] + 1]
    BY DEF AppendRecord
  <2>3. new \in Streams \X (1 .. MaxSeq) /\ new[1] = s /\ new[2] = seq[s] + 1
    BY <2>1
  <2>4. ASSUME NEW k \in Streams \X (1 .. MaxSeq)
        PROVE  k[2] <= seq'[k[1]] <=> k[2] <= seq[k[1]] \/ k = new
    <3>1. k = <<k[1], k[2]>> /\ k[1] \in Streams /\ k[2] \in 1 .. MaxSeq
      OBVIOUS
    <3>2. CASE k[1] = s
      <4>1. seq'[k[1]] = seq[s] + 1
        BY <2>2, <3>2 DEF TypeOK
      <4>2. k[2] <= seq[s] + 1 <=> k[2] <= seq[s] \/ k[2] = seq[s] + 1
        BY <2>1, <3>1
      <4> QED BY <2>1, <2>3, <3>1, <3>2, <4>1, <4>2
    <3>3. CASE k[1] # s
      BY <2>2, <2>3, <3>1, <3>3 DEF TypeOK
    <3> QED BY <3>2, <3>3
  <2>5. ~(new[2] <= seq[new[1]])
    BY <2>1, <2>3
  <2> QED BY <2>3, <2>4, <2>5 DEF Allocated
<1> QED BY <1>7, <1>8, <1>9, <1>10

\* Nothing that moves no record moves a key.
LEMMA KeysFrame ==
  /\ UNCHANGED pending => QueuedKeys' = QueuedKeys
  /\ UNCHANGED dropped => DroppedKeys' = DroppedKeys
  /\ UNCHANGED lost => LostKeys' = LostKeys
  /\ UNCHANGED seq => Allocated' = Allocated
  /\ \A p \in Drainers : batch'[p] = batch[p] => TakenKeys(p)' = TakenKeys(p)
  /\ \A i \in SinkIds : sinks'[i] = sinks[i] => SinkKeys(i)' = SinkKeys(i)
  BY DEF QueuedKeys, DroppedKeys, LostKeys, Allocated, TakenKeys, SinkKeys, Taken, Queued

\* The last sink is a sink.
LEMMA LastSink == NumSinks \in SinkIds /\ 1 \in SinkIds /\ SinkIds \subseteq Nat
  BY Parameters DEF Parameters, SinkIds

\* An append finds a place for the new key and for those it discards.
LEMMA AppendPlaces ==
  ASSUME TypeOK, QueueInv, WhereInv, SinksInv,
         NEW s \in Streams, NEW size \in Sizes, AppendRecord(s, size)
  PROVE  WhereInv' /\ SinksInv'
<1>1. PICK new, cut :
        /\ QueuedKeys' = (QueuedKeys \cup {new}) \ cut
        /\ DroppedKeys' = DroppedKeys \cup cut /\ cut \subseteq QueuedKeys \cup {new}
        /\ new \notin Allocated /\ Allocated' = Allocated \cup {new}
  BY AppendKeys
<1>2. UNCHANGED <<batch, lost, sinks, at, pc>>
  BY DEF AppendRecord, drainers, storage
<1>3. /\ LostKeys' = LostKeys
      /\ \A p \in Drainers : TakenKeys(p)' = TakenKeys(p)
      /\ \A i \in SinkIds : SinkKeys(i)' = SinkKeys(i)
  BY <1>2, KeysFrame
<1>4. StoredKeys' = StoredKeys
  BY <1>3, LastSink DEF StoredKeys
<1>5. WhereInv'
  <2>1. \A k : k \in Allocated' <=>
          \/ k \in QueuedKeys' \/ k \in DroppedKeys' \/ k \in LostKeys' \/ k \in StoredKeys'
          \/ \E p \in Drainers : k \in TakenKeys(p)'
    BY <1>1, <1>3, <1>4 DEF WhereInv
  <2>2. /\ new \notin DroppedKeys /\ new \notin LostKeys /\ new \notin StoredKeys
        /\ \A p \in Drainers : new \notin TakenKeys(p)
    BY <1>1 DEF WhereInv
  <2>3. \A p \in Drainers : TakenKeys(p)' \cap
          (QueuedKeys' \cup DroppedKeys' \cup LostKeys' \cup StoredKeys') = {}
    BY <1>1, <1>3, <1>4, <2>2 DEF WhereInv
  <2>4. /\ QueuedKeys' \cap (DroppedKeys' \cup LostKeys' \cup StoredKeys') = {}
        /\ DroppedKeys' \cap (LostKeys' \cup StoredKeys') = {}
        /\ LostKeys' \cap StoredKeys' = {}
    BY <1>1, <1>3, <1>4, <2>2 DEF WhereInv
  <2>5. \A p, o \in Drainers : p # o => TakenKeys(p)' \cap TakenKeys(o)' = {}
    BY <1>3 DEF WhereInv
  <2> QED BY <2>1, <2>3, <2>4, <2>5 DEF WhereInv
<1>6. SinksInv'
  <2>1. ASSUME NEW i \in SinkIds
        PROVE  /\ KeyApart(sinks[i])' /\ SinkKeys(i)' \subseteq Allocated'
               /\ SinkKeys(i)' \cap QueuedKeys' = {}
    BY <1>1, <1>2, <1>3 DEF SinksInv, KeyApart
  <2>2. \A p \in Drainers, i \in SinkIds : at'[p] <= i => TakenKeys(p)' \cap SinkKeys(i)' = {}
    BY <1>2, <1>3 DEF SinksInv
  <2>3. \A p \in Drainers : /\ KeyApart(batch[p])'
                            /\ pc'[p] \notin {"lock", "write"} => batch'[p] = <<>>
    BY <1>2 DEF SinksInv, KeyApart
  <2> QED BY <2>1, <2>2, <2>3 DEF SinksInv
<1> QED BY <1>5, <1>6

\* A drain that takes the queue moves its keys to the batch.
LEMMA TakePlaces ==
  ASSUME TypeOK, FlushInv, QueueInv, WhereInv, SinksInv, NEW p \in Drainers, DrainTake(p)
  PROVE  WhereInv' /\ SinksInv'
<1>1. /\ batch' = [batch EXCEPT ![p] = pending] /\ pending' = <<>> /\ pc[p] = "swap"
      /\ pc' = [pc EXCEPT ![p] = "lock"] /\ UNCHANGED <<seq, dropped, lost, sinks, at>>
  BY DEF DrainTake, Goto, storage
<1>2. at[p] = 1 /\ batch[p] = <<>>
  BY <1>1 DEF FlushInv, Answers, SinksInv
<1>3. /\ Allocated' = Allocated /\ DroppedKeys' = DroppedKeys /\ LostKeys' = LostKeys
      /\ \A o \in Drainers \ {p} : TakenKeys(o)' = TakenKeys(o)
      /\ \A i \in SinkIds : SinkKeys(i)' = SinkKeys(i)
  BY <1>1, KeysFrame DEF TypeOK
<1>4. StoredKeys' = StoredKeys
  BY <1>3, LastSink DEF StoredKeys
<1>5. TakenKeys(p) = {} /\ QueuedKeys' = {} /\ TakenKeys(p)' = QueuedKeys
  BY <1>1, <1>2, KeysEmpty DEF TakenKeys, Taken, QueuedKeys, Queued, TypeOK
<1>6. WhereInv'
  <2>1. \A k : k \in Allocated' <=>
          \/ k \in QueuedKeys' \/ k \in DroppedKeys' \/ k \in LostKeys' \/ k \in StoredKeys'
          \/ \E o \in Drainers : k \in TakenKeys(o)'
    BY <1>3, <1>4, <1>5 DEF WhereInv
  <2>2. \A o \in Drainers : TakenKeys(o)' \cap
          (QueuedKeys' \cup DroppedKeys' \cup LostKeys' \cup StoredKeys') = {}
    BY <1>3, <1>4, <1>5 DEF WhereInv
  <2>3. /\ QueuedKeys' \cap (DroppedKeys' \cup LostKeys' \cup StoredKeys') = {}
        /\ DroppedKeys' \cap (LostKeys' \cup StoredKeys') = {}
        /\ LostKeys' \cap StoredKeys' = {}
    BY <1>3, <1>4, <1>5 DEF WhereInv
  <2>4. \A o, r \in Drainers : o # r => TakenKeys(o)' \cap TakenKeys(r)' = {}
    BY <1>3, <1>5 DEF WhereInv
  <2> QED BY <2>1, <2>2, <2>3, <2>4 DEF WhereInv
<1>7. SinksInv'
  <2>1. ASSUME NEW i \in SinkIds
        PROVE  /\ KeyApart(sinks[i])' /\ SinkKeys(i)' \subseteq Allocated'
               /\ SinkKeys(i)' \cap QueuedKeys' = {}
    BY <1>1, <1>3, <1>5 DEF SinksInv, KeyApart
  <2>2. \A o \in Drainers, i \in SinkIds : at'[o] <= i => TakenKeys(o)' \cap SinkKeys(i)' = {}
    BY <1>1, <1>3, <1>5 DEF SinksInv
  <2>3. ASSUME NEW o \in Drainers
        PROVE  KeyApart(batch[o])' /\ (pc'[o] \notin {"lock", "write"} => batch'[o] = <<>>)
    <3>1. CASE o = p
      <4>1. KeyApart(pending)
        BY AgesApart DEF TypeOK, QueueInv
      <4> QED BY <1>1, <3>1, <4>1 DEF TypeOK, KeyApart
    <3>2. CASE o # p
      BY <1>1, <3>2 DEF TypeOK, SinksInv, KeyApart
    <3> QED BY <3>1, <3>2
  <2> QED BY <2>1, <2>2, <2>3 DEF SinksInv
<1> QED BY <1>6, <1>7

\* A batch that is refused moves to what is lost.
LEMMA FailPlaces ==
  ASSUME TypeOK, WhereInv, SinksInv, NEW p \in Drainers, SinkFail(p)
  PROVE  WhereInv' /\ SinksInv'
<1>1. /\ batch' = [batch EXCEPT ![p] = <<>>] /\ lost' = lost \cup Taken(p)
      /\ at' = [at EXCEPT ![p] = 1] /\ UNCHANGED <<pending, seq, dropped, sinks>>
      /\ \A o \in Drainers \ {p} : pc'[o] = pc[o]
  BY DEF SinkFail, Leave, Goto, Taken, queue, TypeOK
<1>2. /\ Allocated' = Allocated /\ DroppedKeys' = DroppedKeys /\ QueuedKeys' = QueuedKeys
      /\ \A o \in Drainers \ {p} : TakenKeys(o)' = TakenKeys(o)
      /\ \A i \in SinkIds : SinkKeys(i)' = SinkKeys(i)
  BY <1>1, KeysFrame DEF TypeOK
<1>3. StoredKeys' = StoredKeys
  BY <1>2, LastSink DEF StoredKeys
<1>4. TakenKeys(p)' = {} /\ LostKeys' = LostKeys \cup TakenKeys(p)
  BY <1>1, KeysEmpty, KeysUnion DEF TakenKeys, Taken, LostKeys, TypeOK
<1>5. WhereInv'
  <2>1. \A k : k \in Allocated' <=>
          \/ k \in QueuedKeys' \/ k \in DroppedKeys' \/ k \in LostKeys' \/ k \in StoredKeys'
          \/ \E o \in Drainers : k \in TakenKeys(o)'
    BY <1>2, <1>3, <1>4 DEF WhereInv
  <2>2. \A o \in Drainers : TakenKeys(o)' \cap
          (QueuedKeys' \cup DroppedKeys' \cup LostKeys' \cup StoredKeys') = {}
    BY <1>2, <1>3, <1>4 DEF WhereInv
  <2>3. /\ QueuedKeys' \cap (DroppedKeys' \cup LostKeys' \cup StoredKeys') = {}
        /\ DroppedKeys' \cap (LostKeys' \cup StoredKeys') = {}
        /\ LostKeys' \cap StoredKeys' = {}
    BY <1>2, <1>3, <1>4 DEF WhereInv
  <2>4. \A o, r \in Drainers : o # r => TakenKeys(o)' \cap TakenKeys(r)' = {}
    BY <1>2, <1>4 DEF WhereInv
  <2> QED BY <2>1, <2>2, <2>3, <2>4 DEF WhereInv
<1>6. SinksInv'
  <2>1. ASSUME NEW i \in SinkIds
        PROVE  /\ KeyApart(sinks[i])' /\ SinkKeys(i)' \subseteq Allocated'
               /\ SinkKeys(i)' \cap QueuedKeys' = {}
    BY <1>1, <1>2 DEF SinksInv, KeyApart
  <2>2. \A o \in Drainers, i \in SinkIds : at'[o] <= i => TakenKeys(o)' \cap SinkKeys(i)' = {}
    BY <1>1, <1>2, <1>4 DEF SinksInv, TypeOK
  <2>3. ASSUME NEW o \in Drainers
        PROVE  KeyApart(batch[o])' /\ (pc'[o] \notin {"lock", "write"} => batch'[o] = <<>>)
    <3>1. CASE o = p
      <4>1. batch'[o] = <<>> /\ DOMAIN batch'[o] = {}
        BY <1>1, <3>1 DEF TypeOK
      <4> QED BY <4>1 DEF KeyApart
    <3>2. CASE o # p
      BY <1>1, <3>2 DEF TypeOK, SinksInv, KeyApart
    <3> QED BY <3>1, <3>2
  <2> QED BY <2>1, <2>2, <2>3 DEF SinksInv
<1> QED BY <1>5, <1>6

\* A batch that is written is in one sink more, and leaves the drainer with the last.
LEMMA WritePlaces ==
  ASSUME TypeOK, WhereInv, SinksInv, NEW p \in Drainers, SinkWrite(p), NEW k \in {at[p]}
  PROVE  WhereInv' /\ SinksInv'
<1>1. /\ k = at[p] /\ k \in SinkIds /\ k \in Nat /\ pc[p] = "write" /\ NumSinks \in Nat
      /\ sinks' = [sinks EXCEPT ![k] = sinks[k] \o batch[p]]
      /\ UNCHANGED <<pending, seq, dropped, lost>>
      /\ \A o \in Drainers \ {p} : /\ pc'[o] = pc[o] /\ at'[o] = at[o]
                                   /\ batch'[o] = batch[o]
      /\ sinks[k] \in Seq(Record) /\ batch[p] \in Seq(Record)
  BY LastSink, Parameters DEF Parameters, SinkWrite, Goto, queue, TypeOK
<1>2. /\ Allocated' = Allocated /\ DroppedKeys' = DroppedKeys /\ QueuedKeys' = QueuedKeys
      /\ LostKeys' = LostKeys
      /\ \A o \in Drainers \ {p} : TakenKeys(o)' = TakenKeys(o)
      /\ \A i \in SinkIds \ {k} : SinkKeys(i)' = SinkKeys(i) /\ sinks'[i] = sinks[i]
  BY <1>1, KeysFrame DEF TypeOK
<1>3. /\ sinks'[k] = sinks[k] \o batch[p]
      /\ SinkKeys(k)' = SinkKeys(k) \cup TakenKeys(p)
  BY <1>1, ConcatKeys DEF SinkKeys, TakenKeys, Taken, TypeOK
<1>4. TakenKeys(p) \cap SinkKeys(k) = {} /\ TakenKeys(p) \subseteq Allocated
  BY <1>1 DEF SinksInv, WhereInv
<1>5. ASSUME NEW i \in SinkIds
      PROVE  /\ KeyApart(sinks[i])' /\ SinkKeys(i)' \subseteq Allocated'
             /\ SinkKeys(i)' \cap QueuedKeys' = {}
  <2>1. CASE i = k
    <3>1. KeyApart(sinks[k] \o batch[p])
      BY <1>1, <1>4, ConcatKeys DEF SinksInv, SinkKeys, TakenKeys, Taken
    <3>2. SinkKeys(k)' \subseteq Allocated' /\ SinkKeys(k)' \cap QueuedKeys' = {}
      BY <1>1, <1>2, <1>3, <1>4 DEF SinksInv, WhereInv
    <3> QED BY <1>3, <2>1, <3>1, <3>2
  <2>2. CASE i # k
    BY <1>2, <2>2 DEF SinksInv
  <2> QED BY <2>1, <2>2
<1>6. ASSUME NEW o \in Drainers \ {p}, NEW i \in SinkIds, at'[o] <= i
      PROVE  TakenKeys(o)' \cap SinkKeys(i)' = {}
  BY <1>1, <1>2, <1>3, <1>6 DEF SinksInv, WhereInv
<1>7. ASSUME NEW o \in Drainers \ {p}
      PROVE  KeyApart(batch[o])' /\ (pc'[o] \notin {"lock", "write"} => batch'[o] = <<>>)
  BY <1>1 DEF SinksInv, KeyApart
<1>8. CASE k < NumSinks
  <2>1. pc'[p] = "write" /\ at'[p] = k + 1 /\ batch'[p] = batch[p]
    BY <1>1, <1>8 DEF SinkWrite, TypeOK
  <2>2. TakenKeys(p)' = TakenKeys(p) /\ StoredKeys' = StoredKeys
    BY <1>1, <1>2, <1>8, <2>1, KeysFrame, LastSink DEF StoredKeys
  <2>3. WhereInv'
    BY <1>2, <2>2 DEF WhereInv
  <2>4. ASSUME NEW i \in SinkIds, at'[p] <= i PROVE TakenKeys(p)' \cap SinkKeys(i)' = {}
    <3>1. i \in Nat /\ k <= i /\ i # k
      BY <1>1, <2>1, <2>4, LastSink
    <3> QED BY <1>1, <1>2, <2>2, <3>1 DEF SinksInv
  <2>5. KeyApart(batch[p])' /\ (pc'[p] \notin {"lock", "write"} => batch'[p] = <<>>)
    BY <2>1 DEF SinksInv
  <2> QED BY <1>5, <1>6, <1>7, <2>3, <2>4, <2>5 DEF SinksInv
<1>9. CASE ~(k < NumSinks)
  <2>1. k = NumSinks
    BY <1>1, <1>9 DEF SinkIds
  <2>2. at'[p] = 1 /\ batch'[p] = <<>>
    BY <1>1, <1>9 DEF SinkWrite, TypeOK
  <2>3. TakenKeys(p)' = {} /\ StoredKeys' = StoredKeys \cup TakenKeys(p)
    BY <1>3, <2>1, <2>2, KeysEmpty DEF StoredKeys, TakenKeys, Taken
  <2>4. WhereInv'
    <3>1. \A e : e \in Allocated' <=>
            \/ e \in QueuedKeys' \/ e \in DroppedKeys' \/ e \in LostKeys' \/ e \in StoredKeys'
            \/ \E o \in Drainers : e \in TakenKeys(o)'
      BY <1>2, <2>3 DEF WhereInv
    <3>2. \A o \in Drainers : TakenKeys(o)' \cap
            (QueuedKeys' \cup DroppedKeys' \cup LostKeys' \cup StoredKeys') = {}
      BY <1>2, <2>3 DEF WhereInv
    <3>3. /\ QueuedKeys' \cap (DroppedKeys' \cup LostKeys' \cup StoredKeys') = {}
          /\ DroppedKeys' \cap (LostKeys' \cup StoredKeys') = {}
          /\ LostKeys' \cap StoredKeys' = {}
      BY <1>2, <2>3 DEF WhereInv
    <3>4. \A o, r \in Drainers : o # r => TakenKeys(o)' \cap TakenKeys(r)' = {}
      BY <1>2, <2>3 DEF WhereInv
    <3> QED BY <3>1, <3>2, <3>3, <3>4 DEF WhereInv
  <2>5. KeyApart(batch[p])' /\ (pc'[p] \notin {"lock", "write"} => batch'[p] = <<>>)
    <3>1. DOMAIN batch'[p] = {}
      BY <2>2
    <3> QED BY <2>2, <3>1 DEF KeyApart
  <2> QED BY <1>5, <1>6, <1>7, <2>3, <2>4, <2>5 DEF SinksInv
<1> QED BY <1>8, <1>9

\* Every step leaves each record in one place.
LEMMA PlaceStep ==
  TypeOK /\ FlushInv /\ QueueInv /\ WhereInv /\ SinksInv /\ [Next]_vars
    => WhereInv' /\ SinksInv'
<1> SUFFICES ASSUME TypeOK, FlushInv, QueueInv, WhereInv, SinksInv, [Next]_vars
             PROVE  WhereInv' /\ SinksInv'
  OBVIOUS
\* A drainer without a batch that goes anywhere, and one that waits for the lock and
\* gets it, leave the records where they are.
<1>1. ASSUME NEW p \in Drainers, UNCHANGED <<pending, seq, dropped, lost, sinks, batch, at>>,
             \A o \in Drainers \ {p} : pc'[o] = pc[o],
             pc[p] \notin {"lock", "write"} \/ pc'[p] = "write"
      PROVE  WhereInv' /\ SinksInv'
  <2>1. /\ Allocated' = Allocated /\ DroppedKeys' = DroppedKeys /\ QueuedKeys' = QueuedKeys
        /\ LostKeys' = LostKeys
        /\ \A o \in Drainers : TakenKeys(o)' = TakenKeys(o)
        /\ \A i \in SinkIds : SinkKeys(i)' = SinkKeys(i)
    BY <1>1, KeysFrame
  <2>2. StoredKeys' = StoredKeys
    BY <2>1, LastSink DEF StoredKeys
  <2>3. WhereInv'
    BY <2>1, <2>2 DEF WhereInv
  <2>4. ASSUME NEW i \in SinkIds
        PROVE  /\ KeyApart(sinks[i])' /\ SinkKeys(i)' \subseteq Allocated'
               /\ SinkKeys(i)' \cap QueuedKeys' = {}
    BY <1>1, <2>1 DEF SinksInv, KeyApart
  <2>5. \A o \in Drainers, i \in SinkIds : at'[o] <= i => TakenKeys(o)' \cap SinkKeys(i)' = {}
    BY <1>1, <2>1 DEF SinksInv
  <2>6. ASSUME NEW o \in Drainers
        PROVE  KeyApart(batch[o])' /\ (pc'[o] \notin {"lock", "write"} => batch'[o] = <<>>)
    BY <1>1 DEF SinksInv, KeyApart
  <2> QED BY <2>3, <2>4, <2>5, <2>6 DEF SinksInv
<1>2. ASSUME UNCHANGED <<pending, seq, dropped, lost, sinks, batch, at, pc>>
      PROVE  WhereInv' /\ SinksInv'
  <2>1. /\ Allocated' = Allocated /\ DroppedKeys' = DroppedKeys /\ QueuedKeys' = QueuedKeys
        /\ LostKeys' = LostKeys
        /\ \A o \in Drainers : TakenKeys(o)' = TakenKeys(o)
        /\ \A i \in SinkIds : SinkKeys(i)' = SinkKeys(i)
    BY <1>2, KeysFrame
  <2>2. StoredKeys' = StoredKeys
    BY <2>1, LastSink DEF StoredKeys
  <2>3. WhereInv'
    BY <2>1, <2>2 DEF WhereInv
  <2>4. SinksInv'
    BY <1>2, <2>1 DEF SinksInv, KeyApart
  <2> QED BY <2>3, <2>4
<1>3. CASE UNCHANGED vars
  BY <1>2, <1>3 DEF vars, queue, drainers, storage
<1>4. ASSUME NEW s \in Streams, NEW size \in Sizes, AppendRecord(s, size)
      PROVE  WhereInv' /\ SinksInv'
  BY <1>4, AppendPlaces
<1>5. CASE Wake \/ Cancel
  BY <1>2, <1>5 DEF Wake, Cancel, queue, drainers, storage
<1>6. ASSUME NEW p \in Drainers, NEW o, Begin(p, o) PROVE WhereInv' /\ SinksInv'
  BY <1>1, <1>6 DEF Begin, queue, storage, TypeOK
<1>7. ASSUME NEW p \in Callers, Flush(p) \/ Close(p) PROVE WhereInv' /\ SinksInv'
  BY <1>6, <1>7 DEF Flush, Close, Drainers
<1>8. CASE RunTick \/ RunSignal \/ RunStop
  BY <1>6, <1>8 DEF RunTick, RunSignal, RunStop, Drainers
<1>9. ASSUME NEW p \in Drainers, DrainEmpty(p) PROVE WhereInv' /\ SinksInv'
  BY <1>1, <1>9 DEF DrainEmpty, Goto, queue, storage, TypeOK
<1>10. ASSUME NEW p \in Drainers, DrainTake(p) PROVE WhereInv' /\ SinksInv'
  BY <1>10, TakePlaces
<1>11. ASSUME NEW p \in Drainers, WriteLock(p) PROVE WhereInv' /\ SinksInv'
  BY <1>1, <1>11 DEF WriteLock, Goto, queue, storage, TypeOK
<1>12. ASSUME NEW p \in Drainers, SinkWrite(p) PROVE WhereInv' /\ SinksInv'
  BY <1>12, WritePlaces
<1>13. ASSUME NEW p \in Drainers, SinkFail(p) PROVE WhereInv' /\ SinksInv'
  BY <1>13, FailPlaces
<1>14. ASSUME NEW p \in Drainers, FlushSync(p) PROVE WhereInv' /\ SinksInv'
  BY <1>1, <1>14 DEF FlushSync, Leave, Goto, queue, TypeOK
<1>15. ASSUME NEW p \in Drainers, Check(p) PROVE WhereInv' /\ SinksInv'
  BY <1>1, <1>15 DEF Check, Leave, Goto, queue, storage, TypeOK
<1>16. ASSUME NEW p \in Drainers, SyncLock(p) PROVE WhereInv' /\ SinksInv'
  BY <1>1, <1>16 DEF SyncLock, Goto, queue, storage, TypeOK
<1>17. ASSUME NEW p \in Drainers, Sync(p) PROVE WhereInv' /\ SinksInv'
  BY <1>1, <1>17 DEF Sync, Leave, Goto, queue, TypeOK
<1>18. ASSUME NEW p \in Drainers, MarkClosed(p) PROVE WhereInv' /\ SinksInv'
  BY <1>1, <1>18 DEF MarkClosed, Goto, storage, TypeOK
<1> QED BY <1>3, <1>4, <1>5, <1>7, <1>8, <1>9, <1>10, <1>11, <1>12, <1>13, <1>14, <1>15,
     <1>16, <1>17, <1>18 DEF Next, Drain

\* No record is lost between two drains, none is written twice and none is in two
\* places: for any number of callers, sinks and records, wherever a sink call fails.
THEOREM EveryRecordInOnePlaceAlways == Spec => []EveryRecordInOnePlace
<1>1. Init => WhereInv /\ SinksInv
  <2> SUFFICES ASSUME Init PROVE WhereInv /\ SinksInv
    OBVIOUS
  <2>1. /\ QueuedKeys = {} /\ DroppedKeys = {} /\ LostKeys = {}
        /\ \A p \in Drainers : TakenKeys(p) = {}
        /\ \A i \in SinkIds : SinkKeys(i) = {}
    BY KeysEmpty DEF Init, QueuedKeys, DroppedKeys, LostKeys, TakenKeys, SinkKeys, Taken, Queued
  <2>2. StoredKeys = {}
    BY <2>1, LastSink DEF StoredKeys
  <2>3. Allocated = {}
    <3>1. ASSUME NEW k \in Streams \X (1 .. MaxSeq) PROVE ~(k[2] <= seq[k[1]])
      BY DEF Init
    <3> QED BY <3>1 DEF Allocated
  <2>4. \A p \in Drainers : batch[p] = <<>> /\ DOMAIN batch[p] = {}
    BY DEF Init
  <2>5. \A i \in SinkIds : DOMAIN sinks[i] = {}
    BY DEF Init
  <2>6. WhereInv
    BY <2>1, <2>2, <2>3 DEF WhereInv
  <2>7. SinksInv
    BY <2>1, <2>4, <2>5 DEF SinksInv, KeyApart
  <2> QED BY <2>6, <2>7
<1>2. TypeOK /\ WhereInv /\ SinksInv => EveryRecordInOnePlace
  <2> SUFFICES ASSUME TypeOK, WhereInv, SinksInv PROVE EveryRecordInOnePlace
    OBVIOUS
  <2>1. Keys(AllTaken) = UNION {TakenKeys(p) : p \in Drainers}
    BY DEF AllTaken, Keys, TakenKeys
  <2>2. Keys(Stored) = StoredKeys
    BY DEF Stored, StoredKeys, SinkKeys
  <2>3. Keys(Queued \cup dropped \cup AllTaken \cup lost \cup Stored)
          = QueuedKeys \cup DroppedKeys \cup Keys(AllTaken) \cup LostKeys \cup StoredKeys
    BY <2>2 DEF Keys, QueuedKeys, DroppedKeys, LostKeys
  <2>4. Keys(Queued \cup dropped \cup AllTaken \cup lost \cup Stored) = Allocated
    <3>1. \A k : k \in Keys(AllTaken) <=> \E p \in Drainers : k \in TakenKeys(p)
      BY <2>1
    <3> QED BY <2>3, <3>1 DEF WhereInv
  <2>5. \A p, o \in Drainers : p # o => Apart(Taken(p), Taken(o))
    BY DEF Apart, WhereInv, TakenKeys
  <2>6. /\ Keys(dropped \cup AllTaken \cup lost \cup Stored)
             = DroppedKeys \cup Keys(AllTaken) \cup LostKeys \cup StoredKeys
        /\ Keys(AllTaken \cup lost \cup Stored) = Keys(AllTaken) \cup LostKeys \cup StoredKeys
        /\ Keys(lost \cup Stored) = LostKeys \cup StoredKeys
    BY <2>2 DEF Keys, DroppedKeys, LostKeys
  <2>7. Keys(AllTaken) \cap (QueuedKeys \cup DroppedKeys \cup LostKeys \cup StoredKeys) = {}
    BY <2>1 DEF WhereInv
  <2>8. /\ Apart(Queued, dropped \cup AllTaken \cup lost \cup Stored)
        /\ Apart(dropped, AllTaken \cup lost \cup Stored)
        /\ Apart(AllTaken, lost \cup Stored)
        /\ Apart(lost, Stored)
    BY <2>2, <2>6, <2>7 DEF Apart, WhereInv, QueuedKeys, DroppedKeys, LostKeys
  <2>9. \A i \in SinkIds : IsInjective(sinks[i])
    BY DEF SinksInv, KeyApart, IsInjective
  <2> QED BY <2>4, <2>5, <2>8, <2>9 DEF EveryRecordInOnePlace, Allocated
<1> QED BY <1>1, <1>2, TypeCorrect, FlushKept, QueueKept, PlaceStep, PTL DEF Spec

=============================================================================
