----------------------------- MODULE LogCollector -----------------------------
(***************************************************************************)
(* The log collector (internal/engine/logging): callers log, one goroutine *)
(* writes, and a shutdown cancels it, closes the collector, or both.       *)
(*                                                                         *)
(* A record is the number of its log call.  The clock is read twice for    *)
(* it: stamp[r] is the day of its field ts, day[r] the day of its At,      *)
(* which chooses the file; files[d] is what was written for day d, with    *)
(* O_APPEND across reopenings.  An external writer is a file of which the  *)
(* day never changes.                                                      *)
(***************************************************************************)
EXTENDS Naturals, Sequences, SequencesExt, FiniteSets

CONSTANTS
  Loggers,
  BufferSize,
  MaxLogged,   \* bound: log calls
  Days          \* bound: days

ASSUME LogParameters == Days \in Nat \ {0} /\ MaxLogged \in Nat

VARIABLES
  records,      \* c.records
  stopped,      \* c.stopped
  stop,         \* whether c.stop is closed
  done,         \* how often c.done was closed
  started,      \* c.started
  openFile,         \* the day of the open file, 0 for none
  files,
  dropped,
  today,
  logged,       \* log calls so far
  stamp, day,
  logger,       \* every caller: where it is and its record
  run,          \* where Run is
  close,        \* where Close is
  cancelled,    \* Run's context
  due           \* records in the queue when an end was first asked for

logVars == <<records, stopped, stop, done, started, openFile, files, dropped, today, logged, stamp,
          day, logger, run, close, cancelled, due>>
logQueue == <<records, dropped>>
shutdown == <<stopped, stop, done, started, run, close, cancelled, due>>
logDisk == <<openFile, files, today>>
logCalls == <<logged, stamp, day, logger>>

Midnight == today < Days /\ today' = today + 1
            /\ UNCHANGED <<openFile, files, logCalls, logQueue, shutdown>>

\* Handle assembles the frozen fields, the time first; a call whose level is not enabled
\* makes none ...
Handle(l) ==
  /\ logger[l].at = "idle" /\ logged < MaxLogged
  /\ logged' = logged + 1
  /\ stamp' = [stamp EXCEPT ![logged'] = today]
  /\ logger' = [logger EXCEPT ![l] = [at |-> "note", record |-> logged']]
  /\ UNCHANGED <<day, logQueue, shutdown, logDisk>>

\* ... and notes the record under the time it is by then.
NoteRecord(l) ==
  /\ logger[l].at = "note"
  /\ day' = [day EXCEPT ![logger[l].record] = today]
  /\ logger' = [logger EXCEPT ![l].at = "check"]
  /\ UNCHANGED <<logged, stamp, logQueue, shutdown, logDisk>>

\* enqueue refuses once the collector is stopped.
Check(l) ==
  /\ logger[l].at = "check"
  /\ logger' = [logger EXCEPT ![l].at = IF stopped \/ stop THEN "idle" ELSE "send"]
  /\ UNCHANGED <<logQueue, shutdown, logDisk, logged, stamp, day>>

\* A full queue sheds the record that comes.
Enqueue(l) ==
  /\ logger[l].at = "send"
  /\ logger' = [logger EXCEPT ![l].at = "idle"]
  /\ IF Len(records) < BufferSize THEN records' = Append(records, logger[l].record) /\ UNCHANGED dropped
     ELSE dropped' = dropped + 1 /\ UNCHANGED records
  /\ UNCHANGED <<shutdown, logDisk, logged, stamp, day>>

\* mutant: the file that is open is the one.
WriteOpen(r) ==
  \E d \in {IF openFile = 0 THEN day[r] ELSE openFile} :
    openFile' = d /\ files' = [files EXCEPT ![d] = Append(@, r)]

\* write: it may fail to render, to open or to write; fileFor closes a file of another
\* day, and one that is full, and opens the one of the record's day.
WriteRecord(r) ==
  \/ openFile' = day[r] /\ files' = [files EXCEPT ![day[r]] = Append(@, r)]
  \/ UNCHANGED <<openFile, files>>
  \/ UNCHANGED files /\ openFile' = IF openFile = day[r] THEN openFile ELSE 0

Start ==
  /\ run = "idle"
  /\ run' = "loop" /\ started' = TRUE
  /\ UNCHANGED <<stopped, stop, done, close, cancelled, due, logQueue, logDisk, logCalls>>

\* Run writes one record after the other; the ticker only syncs.
Run ==
  /\ run = "loop" /\ records # <<>>
  /\ WriteRecord(Head(records)) /\ records' = Tail(records)
  /\ UNCHANGED <<shutdown, dropped, today, logCalls>>

\* mutant: a cancelled Run leaves the queue as it is.
RunEndsAtOnce ==
  /\ run = "loop"
  /\ run' = IF cancelled THEN "end" ELSE IF stop THEN "drain" ELSE run
  /\ run' # run
  /\ UNCHANGED <<stopped, stop, done, started, close, cancelled, due, logQueue, logDisk, logCalls>>

\* Run leaves its loop for the last drain, also while records wait.
RunEnds ==
  /\ run = "loop" /\ (stop \/ cancelled)
  /\ run' = "drain"
  /\ UNCHANGED <<stopped, stop, done, started, close, cancelled, due, logQueue, logDisk, logCalls>>

Drain ==
  /\ run = "drain"
  /\ IF records = <<>> THEN run' = "end" /\ UNCHANGED <<openFile, files, records>>
     ELSE WriteRecord(Head(records)) /\ records' = Tail(records) /\ UNCHANGED run
  /\ UNCHANGED <<stopped, stop, done, started, close, cancelled, due, dropped, today, logCalls>>

\* The deferred close of done, which panics when Close has closed it.
RunOver ==
  /\ run = "end"
  /\ run' = "over" /\ done' = done + 1
  /\ UNCHANGED <<stopped, stop, started, close, cancelled, due, logQueue, logDisk, logCalls>>

CancelRun ==
  /\ ~cancelled /\ run # "idle"
  /\ cancelled' = TRUE /\ due' = IF stop THEN due ELSE ToSet(records)
  /\ UNCHANGED <<stopped, stop, done, started, run, close, logQueue, logDisk, logCalls>>

\* Close, once: the flag, the channel, and a look at whether there is a goroutine.
CloseBegin ==
  /\ close = "idle"
  /\ stopped' = TRUE /\ close' = "stop"
  /\ UNCHANGED <<stop, done, started, run, cancelled, due, logQueue, logDisk, logCalls>>

CloseStop ==
  /\ close = "stop"
  /\ stop' = TRUE /\ close' = "look"
  /\ due' = IF cancelled THEN due ELSE ToSet(records)
  /\ UNCHANGED <<stopped, done, started, run, cancelled, logQueue, logDisk, logCalls>>

CloseLook ==
  /\ close = "look"
  /\ close' = IF started THEN "wait" ELSE "drain"
  /\ UNCHANGED <<stopped, stop, done, started, run, cancelled, due, logQueue, logDisk, logCalls>>

CloseDrain ==
  /\ close = "drain"
  /\ IF records = <<>>
     THEN close' = "file" /\ done' = done + 1 /\ UNCHANGED <<openFile, files, records>>
     ELSE WriteRecord(Head(records)) /\ records' = Tail(records) /\ UNCHANGED <<close, done>>
  /\ UNCHANGED <<stopped, stop, started, run, cancelled, due, dropped, today, logCalls>>

CloseWait ==
  /\ close = "wait" /\ done > 0
  /\ close' = "file"
  /\ UNCHANGED <<stopped, stop, done, started, run, cancelled, due, logQueue, logDisk, logCalls>>

CloseFile ==
  /\ close = "file"
  /\ close' = "over" /\ openFile' = 0
  /\ UNCHANGED <<stopped, stop, done, started, run, cancelled, due, logQueue, files, today, logCalls>>

-----------------------------------------------------------------------------
LogInit ==
  /\ records = <<>> /\ stopped = FALSE /\ stop = FALSE /\ done = 0 /\ started = FALSE
  /\ openFile = 0 /\ files = [d \in 1 .. Days |-> <<>>] /\ dropped = 0 /\ today = 1
  /\ logged = 0 /\ stamp = [r \in 1 .. MaxLogged |-> 0] /\ day = stamp
  /\ logger = [l \in Loggers |-> [at |-> "idle", record |-> 0]]
  /\ run = "idle" /\ close = "idle" /\ cancelled = FALSE /\ due = {}

\* A done that was closed twice has brought the process down.
LogNext == done < 2 /\
  \/ Midnight
  \/ \E l \in Loggers : Handle(l) \/ NoteRecord(l) \/ Check(l) \/ Enqueue(l)
  \/ Start \/ Run \/ RunEnds \/ Drain \/ RunOver \/ CancelRun
  \/ CloseBegin \/ CloseStop \/ CloseLook \/ CloseDrain \/ CloseWait \/ CloseFile

LogSpec == LogInit /\ [][LogNext]_logVars

-----------------------------------------------------------------------------
(* Properties *)

\* The state is what the declarations allow.
LogTypeOK ==
  /\ Len(records) <= BufferSize /\ dropped \in 0 .. MaxLogged
  /\ openFile \in 0 .. Days
  /\ stop => stopped

\* A record is written once at most, to the file of the day it was noted, however late
\* the goroutine comes to it; its field ts is of that day, or of an earlier one when
\* midnight came between the two readings of the clock.
OnceInItsFile ==
  \A d \in 1 .. Days : \A i, j \in DOMAIN files[d] :
    /\ day[files[d][i]] = d /\ stamp[files[d][i]] \in 1 .. d
    /\ i # j => files[d][i] # files[d][j]

\* An orderly end drains: what was queued when the context was cancelled, or the
\* collector closed if that came first, is not in the queue any more once Run, or a
\* Close that found none, is through.  What comes between Run's last look and Close is
\* left in the queue: Close waits for a goroutine that is gone and does not look.
EndDrains == run \in {"end", "over"} \/ close \in {"file", "over"} => due \cap ToSet(records) = {}

\* Violated: "A collector built and abandoned without ever being run still has to be
\* closable, because a shutdown path cannot know which one it got" (collector.go:394-396):
\* Close waits for a goroutine or does its work, and the two never both end the collector.
EndedOnce == done < 2
=============================================================================
