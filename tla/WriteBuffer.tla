----------------------------- MODULE WriteBuffer -----------------------------
(***************************************************************************)
(* The durability pipeline of internal/engine/storage/writebuffer.go.      *)
(*                                                                         *)
(* Appenders put records in a queue under one lock; the Run goroutine and  *)
(* any number of Flush and Close callers drain it into the sinks.  A drain *)
(* takes the whole queue under the queue lock, lets that lock go, and only *)
(* then takes the write lock under which the batch goes to the sinks, one  *)
(* after another.  Every lock section is one action here, so that the      *)
(* drains interleave where those of the code do.                           *)
(*                                                                         *)
(* sinks[1] is the journal (a file: what it holds survives a power loss    *)
(* once Sync returned, and it ignores the context).  The sinks after it    *)
(* are ledgers (durable at commit, and they refuse a cancelled context).   *)
(***************************************************************************)
EXTENDS Naturals, Sequences, FiniteSets, SequencesExt

CONSTANTS
  Streams,           \* the stream names records are filed under
  Sizes,             \* the queued sizes a record may have
  Callers,           \* goroutines that call Flush or Close
  Runner,            \* the goroutine that executes Run
  None,              \* "nobody holds the write lock"
  NumSinks,          \* the number of sinks, the journal included
  WatermarkRecords,  \* Config.WatermarkRecords
  WatermarkBytes,    \* Config.WatermarkBytes
  QueueBytes,        \* Config.QueueBytes
  MaxSeq,            \* bound: records appended per stream
  MaxFailures        \* bound: sink calls that fail

ASSUME Parameters ==
  /\ NumSinks \in Nat \ {0}
  /\ Sizes \subseteq Nat \ {0}
  /\ WatermarkRecords \in Nat \ {0}
  /\ WatermarkBytes \in Nat \ {0}
  /\ QueueBytes \in Nat \ {0}
  /\ MaxSeq \in Nat
  /\ MaxFailures \in Nat
  /\ Runner \notin Callers
  /\ None \notin Callers \cup {Runner}

VARIABLES
  pending,   \* b.pending
  bytes,     \* b.bytes
  seq,       \* b.seq
  closed,    \* b.closed
  signal,    \* a token is in b.signal
  waking,    \* appenders that released b.mu and have not called wake yet
  ctxDone,   \* the context Run was given is cancelled
  writer,    \* who holds b.writeMu
  op,        \* what each drainer is executing
  pc,        \* and where it is
  batch,     \* the records it took from the queue
  at,        \* the sink it writes next
  sinks,     \* the records each sink holds
  synced,    \* how many of the journal's records are on disk
  failures,  \* sink calls that failed
  dropped,   \* history: records discarded by the queue bound (b.dropped counts them)
  lost,      \* history: records of a batch a sink refused
  owed       \* history: what a Flush has to make durable: the journal and the
             \* batch it took, as they were when it looked at the queue

queue     == <<pending, bytes, seq, closed, dropped>>
wakeups   == <<signal, waking>>
storage   == <<sinks, synced, failures, lost>>
drainers  == <<op, pc, batch, at, owed>>
vars      == <<queue, wakeups, ctxDone, writer, drainers, storage>>

Drainers == Callers \cup {Runner}
SinkIds  == 1..NumSinks
Journal  == sinks[1]
Record   == [stream : Streams, seq : Nat \ {0}, size : Sizes]

Ops == {"none", "tick", "signal", "stop", "flush", "close"}
Pcs == {"rest", "swap", "lock", "write", "fsync", "check", "synclock", "sync",
        "mark", "gone"}

QueuedBytes(q) ==
  LET upTo[n \in 0 .. Len(q)] == IF n = 0 THEN 0 ELSE upTo[n - 1] + q[n].size
  IN  upTo[Len(q)]

-----------------------------------------------------------------------------
(* Append *)

\* The discarding loop goes on for every number of records whose loss is not enough
\* to bring the queue to half its bound, and leaves one record at least.
Discarded(q) ==
  Cardinality({m \in 0 .. Len(q) - 2 :
                 QueuedBytes(SubSeq(q, m + 1, Len(q))) > QueueBytes \div 2})

\* mutant: the bound is checked before the new record is counted.
OverflowOneLate(q) ==
  IF QueuedBytes(Front(q)) <= QueueBytes THEN 0 ELSE Discarded(q)

\* How many of the oldest records of q are discarded: none while it fits.
Overflow(q) == IF QueuedBytes(q) <= QueueBytes THEN 0 ELSE Discarded(q)

\* mutant: the watermarks no longer wake Run, only an overflow does.
MustWakeOverflow(q, total, overflow) == overflow

\* What calls for a wakeup, with q of total bytes left in the queue.
MustWake(q, total, overflow) ==
  Len(q) >= WatermarkRecords \/ total >= WatermarkBytes \/ overflow

AppendRecord(s, size) ==
  LET r == [stream |-> s, seq |-> seq[s] + 1, size |-> size]
      q == Append(pending, r)
      n == Overflow(q)
  IN  /\ ~closed
      /\ seq[s] < MaxSeq
      /\ seq' = [seq EXCEPT ![s] = @ + 1]
      /\ pending' = SubSeq(q, n + 1, Len(q))
      /\ bytes' = bytes + size - QueuedBytes(SubSeq(q, 1, n))
      /\ dropped' = dropped \cup ToSet(SubSeq(q, 1, n))
      /\ waking' = IF MustWake(pending', bytes', QueuedBytes(q) > QueueBytes)
                   THEN waking + 1 ELSE waking
      /\ UNCHANGED <<closed, signal, ctxDone, writer, drainers, storage>>

\* The token is dropped when one is already there.
Wake ==
  /\ waking > 0
  /\ waking' = waking - 1
  /\ signal' = TRUE
  /\ UNCHANGED <<queue, ctxDone, writer, drainers, storage>>

-----------------------------------------------------------------------------
(* The operations that drain *)

Begin(p, o) ==
  /\ pc[p] = "rest"
  /\ op' = [op EXCEPT ![p] = o]
  /\ pc' = [pc EXCEPT ![p] = "swap"]
  /\ UNCHANGED <<queue, waking, ctxDone, writer, batch, at, owed, storage>>

Flush(c)  == Begin(c, "flush") /\ UNCHANGED signal
Close(c)  == Begin(c, "close") /\ UNCHANGED signal

\* The three cases of Run's select, each of which may win when several are ready.
RunTick   == Begin(Runner, "tick") /\ UNCHANGED signal
RunSignal == signal /\ Begin(Runner, "signal") /\ signal' = FALSE
RunStop   == ctxDone /\ Begin(Runner, "stop") /\ UNCHANGED signal

Cancel ==
  /\ ~ctxDone
  /\ ctxDone' = TRUE
  /\ UNCHANGED <<queue, wakeups, writer, drainers, storage>>

Goto(p, label) == pc' = [pc EXCEPT ![p] = label]

\* Where a drainer goes once its operation returns: Run is over when a drain
\* fails, a caller may call again.  Close and Run's shutdown mark the buffer
\* closed first, whatever the drain said.
Leave(p, failed) ==
  /\ owed' = [owed EXCEPT ![p] = {}]
  /\ IF op[p] \in {"stop", "close"}
     THEN Goto(p, "mark") /\ UNCHANGED op
     ELSE /\ Goto(p, IF failed /\ p = Runner THEN "gone" ELSE "rest")
          /\ op' = [op EXCEPT ![p] = "none"]

-----------------------------------------------------------------------------
(* drain and drainAll *)

\* A Flush that looks at the queue now answers for these records.
Owes(p) == owed' = [owed EXCEPT ![p] = IF op[p] = "flush"
                                       THEN ToSet(Journal) \cup ToSet(pending) ELSE {}]

DrainEmpty(p) ==
  /\ pc[p] = "swap"
  /\ pending = <<>>
  /\ Owes(p)
  /\ Goto(p, IF op[p] = "flush" THEN "synclock" ELSE "check")
  /\ UNCHANGED <<queue, wakeups, ctxDone, writer, op, batch, at, storage>>

\* mutant: the queue is copied and not swapped out.
DrainCopy(p) ==
  /\ pc[p] = "swap"
  /\ pending # <<>>
  /\ batch' = [batch EXCEPT ![p] = pending]
  /\ Owes(p)
  /\ Goto(p, "lock")
  /\ UNCHANGED <<queue, wakeups, ctxDone, writer, op, at, storage>>

DrainTake(p) ==
  /\ pc[p] = "swap"
  /\ pending # <<>>
  /\ batch' = [batch EXCEPT ![p] = pending]
  /\ pending' = <<>>
  /\ bytes' = 0
  /\ Owes(p)
  /\ Goto(p, "lock")
  /\ UNCHANGED <<seq, closed, dropped, wakeups, ctxDone, writer, op, at, storage>>

\* mutant: batches are not serialized.
WriteUnlocked(p) ==
  /\ pc[p] = "lock"
  /\ writer' = p
  /\ Goto(p, "write")
  /\ UNCHANGED <<queue, wakeups, ctxDone, op, batch, at, owed, storage>>

WriteLock(p) ==
  /\ pc[p] = "lock"
  /\ writer = None
  /\ writer' = p
  /\ Goto(p, "write")
  /\ UNCHANGED <<queue, wakeups, ctxDone, op, batch, at, owed, storage>>

\* Run's periodic and watermark drains pass on its own context; Flush, Close and
\* the fallback flush of the shutdown have one that is still good.
ContextDone(p) == ctxDone /\ op[p] \in {"tick", "signal"}

\* mutant: the loop over the sinks runs once too often.
SinkWriteTooMany(p) ==
  LET k == at[p] IN
  /\ pc[p] = "write"
  /\ sinks' = [sinks EXCEPT ![k] = @ \o batch[p]]
  /\ at' = [at EXCEPT ![p] = k + 1]
  /\ UNCHANGED <<queue, wakeups, ctxDone, writer, op, pc, batch, owed, synced, failures, lost>>

SinkWrite(p) ==
  LET k == at[p] IN
  /\ pc[p] = "write"
  /\ k > 1 => ~ContextDone(p)
  /\ sinks' = [sinks EXCEPT ![k] = @ \o batch[p]]
  /\ IF k < NumSinks
     THEN /\ at' = [at EXCEPT ![p] = k + 1]
          /\ UNCHANGED <<pc, batch, writer>>
     ELSE /\ at' = [at EXCEPT ![p] = 1]
          /\ batch' = [batch EXCEPT ![p] = <<>>]
          /\ IF op[p] = "flush"
             THEN Goto(p, "fsync") /\ UNCHANGED writer
             ELSE Goto(p, "check") /\ writer' = None
  /\ UNCHANGED <<queue, wakeups, ctxDone, op, owed, synced, failures, lost>>

\* A sink that refuses a batch ends the operation; the batch is not requeued.
SinkFail(p) ==
  /\ pc[p] = "write"
  /\ \/ at[p] > 1 /\ ContextDone(p) /\ UNCHANGED failures
     \/ failures < MaxFailures /\ failures' = failures + 1
  /\ lost' = lost \cup ToSet(batch[p])
  /\ batch' = [batch EXCEPT ![p] = <<>>]
  /\ at' = [at EXCEPT ![p] = 1]
  /\ writer' = None
  /\ Leave(p, TRUE)
  /\ UNCHANGED <<queue, wakeups, ctxDone, sinks, synced>>

\* mutant: a Flush returns without the sync.
FlushNoSync(p) ==
  /\ pc[p] = "fsync"
  /\ writer' = None
  /\ Leave(p, FALSE)
  /\ UNCHANGED <<queue, wakeups, ctxDone, batch, at, sinks, synced, failures, lost>>

\* drain(ctx, true) syncs the batch it wrote before it lets the write lock go.
FlushSync(p) ==
  /\ pc[p] = "fsync"
  /\ writer' = None
  /\ \/ /\ synced' = Len(Journal)
        /\ Leave(p, FALSE)
        /\ UNCHANGED failures
     \/ /\ failures < MaxFailures
        /\ failures' = failures + 1
        /\ Leave(p, TRUE)
        /\ UNCHANGED synced
  /\ UNCHANGED <<queue, wakeups, ctxDone, batch, at, sinks, lost>>

Check(p) ==
  /\ pc[p] = "check"
  /\ IF pending # <<>> THEN Goto(p, "swap") /\ UNCHANGED <<op, owed>>
     ELSE IF op[p] = "signal" THEN Leave(p, FALSE)
     ELSE Goto(p, "synclock") /\ UNCHANGED <<op, owed>>
  /\ UNCHANGED <<queue, wakeups, ctxDone, writer, batch, at, storage>>

SyncLock(p) ==
  /\ pc[p] = "synclock"
  /\ writer = None
  /\ writer' = p
  /\ Goto(p, "sync")
  /\ UNCHANGED <<queue, wakeups, ctxDone, op, batch, at, owed, storage>>

\* syncSinks ignores what the sinks answer.
Sync(p) ==
  /\ pc[p] = "sync"
  /\ writer' = None
  /\ \/ synced' = Len(Journal) /\ UNCHANGED failures
     \/ failures < MaxFailures /\ failures' = failures + 1 /\ UNCHANGED synced
  /\ Leave(p, FALSE)
  /\ UNCHANGED <<queue, wakeups, ctxDone, batch, at, sinks, lost>>

MarkClosed(p) ==
  /\ pc[p] = "mark"
  /\ closed' = TRUE
  /\ op' = [op EXCEPT ![p] = "none"]
  /\ Goto(p, IF p = Runner THEN "gone" ELSE "rest")
  /\ UNCHANGED <<pending, bytes, seq, dropped, wakeups, ctxDone, writer, batch, at,
                 owed, storage>>

-----------------------------------------------------------------------------
Init ==
  /\ pending = <<>> /\ bytes = 0 /\ closed = FALSE
  /\ seq = [s \in Streams |-> 0]
  /\ signal = FALSE /\ waking = 0
  /\ ctxDone = FALSE
  /\ writer = None
  /\ op = [p \in Drainers |-> "none"]
  /\ pc = [p \in Drainers |-> "rest"]
  /\ batch = [p \in Drainers |-> <<>>]
  /\ at = [p \in Drainers |-> 1]
  /\ owed = [p \in Drainers |-> {}]
  /\ sinks = [k \in SinkIds |-> <<>>]
  /\ synced = 0 /\ failures = 0
  /\ dropped = {} /\ lost = {}

Drain(p) ==
  \/ DrainEmpty(p) \/ DrainTake(p) \/ WriteLock(p) \/ SinkWrite(p) \/ SinkFail(p)
  \/ FlushSync(p) \/ Check(p) \/ SyncLock(p) \/ Sync(p) \/ MarkClosed(p)

Next ==
  \/ \E s \in Streams, size \in Sizes : AppendRecord(s, size)
  \/ Wake
  \/ \E c \in Callers : Flush(c) \/ Close(c)
  \/ RunTick \/ RunSignal \/ RunStop
  \/ Cancel
  \/ \E p \in Drainers : Drain(p)

Spec == Init /\ [][Next]_vars

-----------------------------------------------------------------------------
(* Fairness: the Run goroutine, the appender's wake and every drain that has
   begun keep running, and Go's mutexes hand a waiter the lock after a
   millisecond, so a drainer that waits for b.writeMu gets it.  The ticker is
   left out: with a long FlushPeriod the wakeup is all there is. *)
Fairness ==
  /\ WF_vars(Wake) /\ WF_vars(RunSignal)
  /\ \A p \in Drainers : WF_vars(Drain(p)) /\ SF_vars(WriteLock(p) \/ SyncLock(p))

FairSpec == Spec /\ Fairness

-----------------------------------------------------------------------------
(* Properties *)

\* The state is what the declarations of WriteBuffer and its callers allow; what
\* b.bytes may be is part of QueueBounded.
TypeOK ==
  /\ pending \in Seq(Record)
  /\ seq \in [Streams -> 0 .. MaxSeq]
  /\ closed \in BOOLEAN /\ signal \in BOOLEAN /\ ctxDone \in BOOLEAN
  /\ waking \in Nat
  /\ writer \in Drainers \cup {None}
  /\ op \in [Drainers -> Ops]
  /\ pc \in [Drainers -> Pcs]
  /\ batch \in [Drainers -> Seq(Record)]
  /\ at \in [Drainers -> SinkIds]
  /\ owed \in [Drainers -> SUBSET Record]
  /\ sinks \in [SinkIds -> Seq(Record)]
  /\ synced \in Nat
  /\ failures \in 0 .. MaxFailures
  /\ dropped \subseteq Record
  /\ lost \subseteq Record

\* A record that was accepted is in exactly one place: the queue, the batch of
\* one drainer, discarded by the queue bound, lost to a failing sink, or in the
\* last sink; and no sink holds a record twice.  Two drains that race for the
\* queue neither write a record twice nor let one fall between them.
Keys(S)     == {<<r.stream, r.seq>> : r \in S}
Apart(S, T) == Keys(S) \cap Keys(T) = {}
Taken(p)    == ToSet(batch[p])
AllTaken    == UNION {Taken(p) : p \in Drainers}
Queued      == ToSet(pending)
Stored      == ToSet(sinks[NumSinks])
EveryRecordInOnePlace ==
  /\ Keys(Queued \cup dropped \cup AllTaken \cup lost \cup Stored)
       = {k \in Streams \X (1 .. MaxSeq) : k[2] <= seq[k[1]]}
  /\ \A p, q \in Drainers : p # q => Apart(Taken(p), Taken(q))
  /\ Apart(Queued, dropped \cup AllTaken \cup lost \cup Stored)
  /\ Apart(dropped, AllTaken \cup lost \cup Stored)
  /\ Apart(AllTaken, lost \cup Stored)
  /\ Apart(lost, Stored)
  /\ \A k \in SinkIds : IsInjective(sinks[k])

\* What a sink holds, it holds in the order of the sink before it, which never
\* misses any of it: the ledger is the journal less the batches it refused.
Follows(t, s) ==
  \E f \in [DOMAIN t -> DOMAIN s] :
    /\ \A i \in DOMAIN t : t[i] = s[f[i]]
    /\ \A i, j \in DOMAIN t : i < j => f[i] < f[j]
LedgerFollowsJournal == \A k \in SinkIds \ {1} : Follows(sinks[k], sinks[k - 1])

\* b.bytes is what the queue holds, the queue never outgrows its bound by more
\* than the one record it must keep, and what it discards is older than
\* everything it keeps, however appends, overflows and drains interleave.
QueueBounded ==
  /\ bytes = QueuedBytes(pending)
  /\ bytes <= QueueBytes \/ Len(pending) = 1
  /\ \A d \in dropped, r \in ToSet(pending) : d.stream = r.stream => d.seq < r.seq

\* Flush returns nil: drain(ctx, true) syncs the batch it wrote and tells, and over an
\* empty queue it calls syncSinks, which has nothing to tell.
FlushReturnsNil(c) ==
  /\ op[c] = "flush" /\ pc[c] \in {"fsync", "sync"} /\ pc'[c] = "rest"
  /\ pc[c] = "fsync" => failures' = failures
SyncSwallowed(c) == pc[c] = "sync" /\ failures' # failures
OnDisk(records)  == records \subseteq ToSet(SubSeq(sinks'[1], 1, synced'))

\* What a Flush that returns nil has done, whatever other drainers did meanwhile: the
\* journal holds all it held, and all that was queued, when the Flush looked at the
\* queue; and all of that is on disk, unless the Flush found the queue empty and its
\* own sync was refused, which nobody learns (see FlushSyncs).
FlushIsDurable ==
  [][\A c \in Callers :
       FlushReturnsNil(c) => /\ owed[c] \subseteq ToSet(sinks'[1])
                             /\ OnDisk(owed[c]) \/ SyncSwallowed(c)]_vars

\* "Flush writes and syncs everything queued" (writebuffer.go:197): all that was in the
\* journal and in the queue when a Flush that returns nil looked is on disk.
FlushSyncs == [][\A c \in Callers : FlushReturnsNil(c) => OnDisk(owed[c])]_vars

\* A queue that reached the record watermark is taken without waiting for the
\* ticker, unless Run has returned: no wakeup is lost to the one-token signal.
Full         == Len(pending) >= WatermarkRecords
FullIsTaken  == Full ~> (~Full \/ pc[Runner] = "gone")
=============================================================================
