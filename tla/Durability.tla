------------------------------ MODULE Durability ------------------------------
(***************************************************************************)
(* What a storage scope still holds after crashes: the journal file, the   *)
(* audit ledger, the checkpoint and the two halves of the clean marker,    *)
(* over any number of process lifetimes (internal/engine/storage:          *)
(* journal.go, sqlite.go, recovery.go, reindex.go, marker.go, scope.go).   *)
(*                                                                         *)
(* One stream, one writer: the races of several drainers are the subject   *)
(* of WriteBuffer.  A start follows the order the package's comments and   *)
(* durability tests prescribe: open the scope, recover unless the marker   *)
(* is clean, checkpoint, mark dirty, write; and on the way out close the   *)
(* buffer and mark clean.  A kill leaves what reached the kernel, a power  *)
(* loss only what was synced and an arbitrary part of the rest.            *)
(***************************************************************************)
EXTENDS Naturals, Sequences, FiniteSets, SequencesExt

CONSTANTS
  Torn,          \* what is left of a record that was cut short
  MaxRecords,    \* bound: records appended over all lifetimes
  MaxCrashes,    \* bound: kills and power losses
  MaxFailures,   \* bound: ledger transactions and syncs that fail
  MaxRepairs,    \* bound: recoveries and reindexes beyond the one a start runs
  MaxMishaps     \* bound: all three together

Types == {"message", "tool"}
Record == [id : 1 .. MaxRecords, seq : 1 .. MaxRecords, type : Types]

ASSUME Bounds ==
  /\ MaxRecords \in Nat /\ MaxCrashes \in Nat /\ MaxFailures \in Nat /\ MaxRepairs \in Nat
  /\ MaxMishaps \in Nat

ASSUME TornLine == Torn \notin Record

\* A piece of the journal file, as one write left it: a record and whether its line end
\* is behind it, or a fragment of a record.  What is written next joins a piece without
\* its line end; it alters none.
Unended(r) == [of |-> r, ended |-> FALSE]
Fragment == Unended(Torn)
Piece    == [of : Record, ended : BOOLEAN] \cup {Fragment}

VARIABLES
  journal,    \* the pieces of the journal file, as the kernel has them
  synced,     \* how many of them are on disk
  messages,   \* table messages: ids
  tools,      \* table tool_call_audit: records, one for a sequence number
  events,     \* table events: how many rows each record has
  checkpoint, \* meta: the sequence number recovery starts after
  flagFile,   \* the sentinel file: "clean" or "dirty" (missing, damaged)
  onDisk,     \* what the sentinel may read after a power loss: it is never synced
  flagDb,     \* meta: shutdown_state
  phase,      \* where the process is; "down" when there is none
  seq,        \* b.seq of the stream
  queue,      \* b.pending
  batch,      \* the records a drain took or a recovery replays
  sync,       \* the drain in progress is a Flush or a Close
  crashes, failures, repairs,
  appended,   \* history: how many records were ever appended
  flushed,    \* history: records of a Flush that returned nil
  unclean,    \* history: a lifetime began to write and has not finished MarkClean
  reused,     \* history: a sequence number was given to two records
  astray,     \* history: records drained to a journal that did not hold whole lines only
  unsafe      \* history: a Close went on although its sync failed

file    == <<journal, synced>>
ledger  == <<messages, tools, events, checkpoint>>
marker  == <<flagFile, onDisk, flagDb>>
process == <<phase, seq, queue, batch, sync>>
bounds  == <<crashes, failures, repairs>>
written == <<appended, flushed, unclean, reused, astray, unsafe>>
vars    == <<file, ledger, marker, process, bounds, written>>

Opening == {"opened", "replay", "reindex", "recovered", "dirtyFile", "dirtyDb"}
Serving == {"running", "journal", "ledger", "fsync"}
Closing == {"cleanFile", "cleanDb", "closed"}
Phases  == {"down"} \cup Opening \cup Serving \cup Closing

-----------------------------------------------------------------------------
(* Journal *)

\* A line parses when it is one record; the last one of the file needs no line end.
Parses(j, n) ==
  /\ j[n].of # Torn
  /\ n > 1 => j[n - 1].ended
  /\ n < Len(j) => j[n].ended

\* The piece the first line that does not parse begins with.
FirstBad(j) == CHOOSE n \in 1 .. Len(j) + 1 :
                 /\ n <= Len(j) => ~Parses(j, n)
                 /\ \A m \in 1 .. n - 1 : Parses(j, m)

\* ReadJournal: the records before that line.
ReadJournal(j) == [n \in 1 .. FirstBad(j) - 1 |-> j[n].of]

\* What a file may hold when it is cut off behind its first n pieces: some more of them,
\* and possibly a part of the next or all of it but its line end.
Remains(j, n) ==
  {SubSeq(j, 1, m) : m \in n .. Len(j)}
    \cup {Append(SubSeq(j, 1, m), Fragment) : m \in n .. Len(j) - 1}
    \cup {Append(SubSeq(j, 1, m), Unended(j[m + 1].of)) : m \in n .. Len(j) - 1}

\* TruncatePartialJournal cuts as many bytes as the bad line has, less its line end, off
\* the end of the file: the line itself when it is the last one and has no line end.
TruncatePartialJournal(j) ==
  LET n    == FirstBad(j)
      kept == SubSeq(j, 1, n - 1)
      ends == {m \in n .. Len(j) : j[m].ended}
  IN  IF n > Len(j) THEN {j}
      ELSE IF ends = {} THEN {kept}
      ELSE IF ends = {Len(j)} THEN {Append(kept, Fragment)}
      ELSE Remains(j, n - 1) \ {j, kept}

\* All lines are records with their line ends: what is appended now is read as it is.
WholeLines(j) == \A n \in DOMAIN j : j[n].ended

AppendLines(j, records) == j \o [n \in DOMAIN records |-> [of |-> records[n], ended |-> TRUE]]

-----------------------------------------------------------------------------
(* Ledger: one transaction *)

\* The records after a sequence number are written.  A tool call has one row for its
\* number: one that is there stays, and the first of a batch is the one that is added.
WriteAudit(records, after) ==
  LET new  == {k \in DOMAIN records : records[k].seq > after}
      call == {k \in new : records[k].type = "tool"}
  IN  /\ messages' = messages \cup {records[k].id : k \in new \ call}
      /\ tools' = tools \cup
           {records[k] : k \in {m \in call :
              /\ \A t \in tools : t.seq # records[m].seq
              /\ \A l \in call : l < m => records[l].seq # records[m].seq}}
      /\ events' = [i \in DOMAIN events |->
                      events[i] + Cardinality({k \in new : records[k].id = i})]

\* Bound: mishaps are left.
Bounded == crashes + failures + repairs < MaxMishaps

\* A call of a sink fails: a transaction is rolled back, a sync has no effect.
SinkFails ==
  /\ Bounded /\ failures < MaxFailures
  /\ failures' = failures + 1

-----------------------------------------------------------------------------
(* A start *)

Open ==
  /\ phase = "down"
  /\ phase' = "opened"
  /\ UNCHANGED <<file, ledger, marker, seq, queue, batch, sync, bounds, written>>

\* mutant: the sentinel alone decides.
MarkerSentinel == flagFile

\* CleanMarker.State: clean only when both halves say so.
MarkerState == IF flagFile = "clean" /\ flagDb = "clean" THEN "clean" ELSE "dirty"

StartClean ==
  /\ phase = "opened"
  /\ MarkerState = "clean"
  /\ phase' = "dirtyFile"
  /\ UNCHANGED <<file, ledger, marker, seq, queue, batch, sync, bounds, written>>

\* recoverStream up to the replay, and reindexing: read the records and repair the tail.
\* The rows Recover writes about its own repairs are left out.
ReadAndTruncate ==
  /\ journal' \in TruncatePartialJournal(journal)
  /\ synced' = IF synced > Len(journal') THEN Len(journal') ELSE synced
  /\ batch' = ReadJournal(journal)

Recover ==
  /\ \/ phase = "opened" /\ MarkerState = "dirty" /\ UNCHANGED repairs
     \/ phase = "recovered" /\ Bounded /\ repairs < MaxRepairs /\ repairs' = repairs + 1
  /\ ReadAndTruncate
  /\ phase' = "replay"
  /\ UNCHANGED <<ledger, marker, seq, queue, sync, crashes, failures, written>>

Replay ==
  /\ phase = "replay"
  /\ WriteAudit(batch, checkpoint)
  /\ batch' = <<>>
  /\ phase' = "recovered"
  /\ UNCHANGED <<file, checkpoint, marker, seq, queue, sync, bounds, written>>

\* Reindex: one transaction empties the tables and the checkpoints, another
\* writes what the journals hold.
ReindexClear ==
  /\ phase \in {"opened", "recovered"}
  /\ Bounded /\ repairs < MaxRepairs
  /\ repairs' = repairs + 1
  /\ ReadAndTruncate
  /\ messages' = {}
  /\ tools' = {}
  /\ events' = [i \in DOMAIN events |-> 0]
  /\ checkpoint' = 0
  /\ phase' = "reindex"
  /\ UNCHANGED <<marker, seq, queue, sync, crashes, failures, written>>

ReindexWrite ==
  /\ phase = "reindex"
  /\ WriteAudit(batch, 0)
  /\ batch' = <<>>
  /\ phase' = "recovered"
  /\ UNCHANGED <<file, checkpoint, marker, seq, queue, sync, bounds, written>>

\* A failed transaction is reported to the caller, who gives up.
RepairFails ==
  /\ phase \in {"replay", "reindex"}
  /\ SinkFails
  /\ batch' = <<>>
  /\ phase' = "down"
  /\ UNCHANGED <<file, ledger, marker, seq, queue, sync, crashes, repairs, written>>

\* mutant: the checkpoint is the number the next record will get.
CheckpointNext ==
  /\ phase = "recovered"
  /\ checkpoint' = 1 + Len(ReadJournal(journal))
  /\ phase' = "dirtyFile"
  /\ UNCHANGED <<file, messages, tools, events, marker, seq, queue, batch, sync, bounds,
                 written>>

\* Scope.Checkpoint with the highest sequence number of the journal.
Checkpoint ==
  /\ phase = "recovered"
  /\ checkpoint' = LET seqs == {r.seq : r \in ToSet(ReadJournal(journal))} \cup {0}
                   IN  CHOOSE n \in seqs : \A m \in seqs : m <= n
  /\ phase' = "dirtyFile"
  /\ UNCHANGED <<file, messages, tools, events, marker, seq, queue, batch, sync, bounds,
                 written>>

StartWithoutCheckpoint ==
  /\ phase = "recovered"
  /\ phase' = "dirtyFile"
  /\ UNCHANGED <<file, ledger, marker, seq, queue, batch, sync, bounds, written>>

-----------------------------------------------------------------------------
(* The marker: the sentinel first, the ledger's flag after it *)

WriteSentinel(value) ==
  /\ flagFile' = value
  /\ onDisk' = onDisk \cup {value, "dirty"}
  /\ UNCHANGED <<file, ledger, flagDb, seq, queue, batch, sync, bounds, written>>

MarkDirtyFile == phase = "dirtyFile" /\ WriteSentinel("dirty") /\ phase' = "dirtyDb"

\* The buffer is built once the start is marked: New begins every stream at zero.
MarkDirtyDb ==
  /\ phase = "dirtyDb"
  /\ flagDb' = "dirty"
  /\ phase' = "running"
  /\ seq' = 0
  /\ unclean' = TRUE
  /\ UNCHANGED <<file, ledger, flagFile, onDisk, queue, batch, sync, bounds, appended,
                 flushed, reused, astray, unsafe>>

MarkCleanFile == phase = "cleanFile" /\ WriteSentinel("clean") /\ phase' = "cleanDb"

MarkCleanDb ==
  /\ phase = "cleanDb"
  /\ flagDb' = "clean"
  /\ phase' = "closed"
  /\ unclean' = FALSE
  /\ UNCHANGED <<file, ledger, flagFile, onDisk, seq, queue, batch, sync, bounds, appended,
                 flushed, reused, astray, unsafe>>

Exit ==
  /\ phase = "closed"
  /\ phase' = "down"
  /\ seq' = 0
  /\ UNCHANGED <<file, ledger, marker, queue, batch, sync, bounds, written>>

-----------------------------------------------------------------------------
(* Writing *)

AppendRecord(type) ==
  /\ phase \in Serving
  /\ appended < MaxRecords
  /\ appended' = appended + 1
  /\ reused' = (reused \/ seq # appended)
  /\ seq' = seq + 1
  /\ queue' = Append(queue, [id |-> appended + 1, seq |-> seq + 1, type |-> type])
  /\ UNCHANGED <<file, ledger, marker, phase, batch, sync, bounds, flushed, unclean,
                 astray, unsafe>>

\* drain: a watermark drain writes, a Flush or a Close also syncs.
StartDrain(withSync) ==
  /\ phase = "running"
  /\ queue # <<>> \/ withSync
  /\ batch' = queue
  /\ queue' = <<>>
  /\ sync' = withSync
  /\ phase' = IF queue = <<>> THEN "fsync" ELSE "journal"
  /\ astray' = IF WholeLines(journal) THEN astray ELSE astray \cup ToSet(queue)
  /\ UNCHANGED <<file, ledger, marker, seq, bounds, appended, flushed, unclean, reused, unsafe>>

WriteJournal ==
  /\ phase = "journal"
  /\ journal' = AppendLines(journal, batch)
  /\ phase' = "ledger"
  /\ UNCHANGED <<synced, ledger, marker, seq, queue, batch, sync, bounds, written>>

WriteLedger ==
  /\ phase = "ledger"
  /\ WriteAudit(batch, 0)
  /\ phase' = IF sync THEN "fsync" ELSE "running"
  /\ batch' = IF sync THEN batch ELSE <<>>
  /\ UNCHANGED <<file, checkpoint, marker, seq, queue, sync, bounds, written>>

\* The error ends the drain: the batch stays in the journal only.
LedgerFails ==
  /\ phase = "ledger"
  /\ SinkFails
  /\ batch' = <<>> /\ sync' = FALSE
  /\ phase' = "running"
  /\ UNCHANGED <<file, ledger, marker, seq, queue, crashes, repairs, written>>

\* mutant: a Flush does not look at what the sync of its batch says.
FsyncSwallowed ==
  /\ phase = "fsync"
  /\ \/ synced' = Len(journal) /\ UNCHANGED failures
     \/ SinkFails /\ UNCHANGED synced
  /\ flushed' = flushed \cup ToSet(batch)
  /\ batch' = <<>> /\ sync' = FALSE
  /\ phase' = "running"
  /\ UNCHANGED <<journal, ledger, marker, seq, queue, crashes, repairs, appended, unclean,
                 reused, astray, unsafe>>

\* A sync that fails ends the Flush with its error; the records stay where they are.
Fsync ==
  /\ phase = "fsync"
  /\ \/ /\ synced' = Len(journal)
        /\ flushed' = flushed \cup ToSet(batch)
        /\ UNCHANGED failures
     \/ SinkFails /\ UNCHANGED <<synced, flushed>>
  /\ batch' = <<>> /\ sync' = FALSE
  /\ phase' = "running"
  /\ UNCHANGED <<journal, ledger, marker, seq, queue, crashes, repairs, appended, unclean,
                 reused, astray, unsafe>>

\* mutant: the shutdown marks itself clean without a sync of what the drains wrote.
ShutdownUnsynced ==
  /\ phase = "running"
  /\ queue = <<>>
  /\ phase' = "cleanFile"
  /\ UNCHANGED <<file, ledger, marker, seq, queue, batch, sync, bounds, written>>

\* Close leaves nothing in memory and syncs, whatever the sync says; then the shutdown
\* marks itself clean.
Shutdown ==
  /\ phase = "running"
  /\ queue = <<>>
  /\ \/ synced' = Len(journal) /\ UNCHANGED <<failures, unsafe>>
     \/ SinkFails /\ unsafe' = TRUE /\ UNCHANGED synced
  /\ phase' = "cleanFile"
  /\ UNCHANGED <<journal, ledger, marker, seq, queue, batch, sync, crashes, repairs, appended,
                 flushed, unclean, reused, astray>>

-----------------------------------------------------------------------------
(* Crashes *)

Die ==
  /\ phase # "down"
  /\ phase' = "down"
  /\ seq' = 0 /\ queue' = <<>> /\ batch' = <<>> /\ sync' = FALSE
  /\ Bounded /\ crashes < MaxCrashes
  /\ crashes' = crashes + 1
  /\ UNCHANGED <<ledger, flagDb, failures, repairs, written>>

\* The process is gone; a journal write or a sentinel write may be cut short.
Kill ==
  /\ Die
  /\ IF phase = "journal"
     THEN journal' \in Remains(AppendLines(journal, batch), Len(journal))
     ELSE UNCHANGED journal
  /\ IF phase \in {"dirtyFile", "cleanFile"}
     THEN flagFile' \in {flagFile, "dirty"} /\ onDisk' = onDisk \cup {"dirty"}
     ELSE UNCHANGED <<flagFile, onDisk>>
  /\ UNCHANGED synced

PowerLoss ==
  /\ Die
  /\ journal' \in Remains(IF phase = "journal" THEN AppendLines(journal, batch) ELSE journal,
                          synced)
  /\ synced' = Len(journal')
  /\ flagFile' \in onDisk
  /\ onDisk' = {flagFile'}

-----------------------------------------------------------------------------
Init ==
  /\ journal = <<>> /\ synced = 0
  /\ messages = {} /\ tools = {} /\ events = [i \in 1 .. MaxRecords |-> 0]
  /\ checkpoint = 0
  /\ flagFile = "dirty" /\ onDisk = {"dirty"} /\ flagDb = "dirty"
  /\ phase = "down" /\ seq = 0 /\ queue = <<>> /\ batch = <<>> /\ sync = FALSE
  /\ crashes = 0 /\ failures = 0 /\ repairs = 0
  /\ appended = 0 /\ flushed = {} /\ unclean = FALSE /\ reused = FALSE
  /\ astray = {} /\ unsafe = FALSE

Next ==
  \/ Open \/ StartClean \/ Recover \/ Replay \/ Checkpoint \/ StartWithoutCheckpoint
  \/ ReindexClear \/ ReindexWrite \/ RepairFails
  \/ MarkDirtyFile \/ MarkDirtyDb \/ MarkCleanFile \/ MarkCleanDb \/ Exit
  \/ \E type \in Types : AppendRecord(type)
  \/ \E withSync \in BOOLEAN : StartDrain(withSync)
  \/ WriteJournal \/ WriteLedger \/ LedgerFails \/ Fsync \/ Shutdown
  \/ Kill \/ PowerLoss

Spec == Init /\ [][Next]_vars

-----------------------------------------------------------------------------
(* Properties *)

\* The state is what the files, the tables and the process can hold.
TypeOK ==
  /\ journal \in Seq(Piece) /\ synced \in 0 .. Len(journal)
  /\ messages \subseteq 1 .. MaxRecords /\ tools \subseteq Record
  /\ events \in [1 .. MaxRecords -> Nat]
  /\ checkpoint \in 0 .. MaxRecords
  /\ flagFile \in {"clean", "dirty"} /\ flagDb \in {"clean", "dirty"}
  /\ flagFile \in onDisk /\ onDisk \subseteq {"clean", "dirty"}
  /\ phase \in Phases
  /\ seq \in 0 .. MaxRecords
  /\ queue \in Seq(Record) /\ batch \in Seq(Record) /\ sync \in BOOLEAN
  /\ crashes \in 0 .. MaxCrashes /\ failures \in 0 .. MaxFailures
  /\ repairs \in 0 .. MaxRepairs
  /\ appended \in 0 .. MaxRecords
  /\ flushed \subseteq Record /\ unclean \in BOOLEAN /\ reused \in BOOLEAN
  /\ astray \subseteq Record /\ unsafe \in BOOLEAN

\* A record whose Flush returned nil can be read from the journal from then on,
\* through kills, power losses, torn writes, failed syncs, repairs and later appends,
\* unless its drain found the journal with a line that was not whole.
FlushedSurvives == flushed \ astray \subseteq ToSet(ReadJournal(journal))

\* "TruncatePartialJournal removes a trailing partial line so the next append starts on a
\* record boundary" (journal.go:153): whatever a Flush that returned nil wrote, behind
\* whatever a crash and a recovery left, can be read from then on.
EveryFlushSurvives == flushed \subseteq ToSet(ReadJournal(journal))

\* A lifetime that wrote and did not finish its shutdown is never taken for an
\* orderly one, although the sentinel may read as any of its earlier values after
\* a power loss and each half of the marker is written on its own.
CrashIsSeen == phase = "opened" /\ unclean => MarkerState = "dirty"

\* A writer never appends behind a fragment: recovery cuts it off, and a start that
\* skips recovery is one after a shutdown that left none.  Not so once a Close took a
\* failed sync for a good one, or records went astray (see EveryFlushSurvives).
FragmentsAreCut ==
  phase \in Serving /\ ~unsafe /\ astray = {} => Fragment \notin ToSet(journal)

InLedger(r) == IF r.type = "message" THEN r.id \in messages ELSE r \in tools
Holds(j)    == \A r \in ToSet(ReadJournal(j)) : InLedger(r)

\* While no sequence number was given twice, recovery and reindex leave every
\* record of the journal in the ledger, whichever of them was cut short before,
\* whatever the live ledger refused, and whatever the checkpoint says.
RecoveryCompletes == phase = "recovered" /\ ~reused => Holds(journal)

\* What Recover is for: "Every record written before the kill has to come back"
\* (durability_test.go:124).
RecoveredLedgerHoldsJournal == phase = "recovered" => Holds(journal)
=============================================================================
