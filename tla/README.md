# MarxAgent: a verification development

MarxAgent is an agent engine written in Go: a loop that talks to a language model and runs
the tools it calls (`internal/core`), and the engine around it (`internal/engine`): durable
storage, sub agents, the gateway to model providers, language servers, MCP servers, logging,
caching, sandboxing. This directory holds TLA+ modules for the parts in which concurrency,
crashes and partial failure make the code hard to test, TLC configurations that check them on
small instances, and TLAPS proofs of what matters most for every instance.

`PROJECT.json` is the index: components, runs, mutants, the code lines every definition
stands for, findings, hazards and theorems. This file explains them.

## 1. Inventory

| component | source | state it keeps | operations | talks to | what is hard |
|---|---|---|---|---|---|
| Write buffer | `storage/writebuffer.go` | queue, byte count, sequence numbers, wakeup token, `closed`, write lock | `Append`, `Flush`, `Close`, `Run` | journal and ledger as sinks | two locks taken one after the other; several drains; a token that may coalesce; queue bound; a sink that refuses |
| Journal, ledger, marker, recovery | `storage/journal.go`, `sqlite.go`, `marker.go`, `recovery.go`, `reindex.go`, `scope.go`, `lock.go` | JSONL file, SQLite tables, checkpoint, sentinel file and database flag | `Open`, `Recover`, `Reindex`, `Checkpoint`, `MarkDirty`, `MarkClean`, `TruncatePartial` | file system, SQLite | kill and power loss between any two writes; a torn line; recovery interrupted by a crash |
| Sub agent pool | `subagent/pool.go` | slots, order, `running`, per-slot state, result and cancel function | `CreateSlot`, `DeleteSlot`, `StopSlot`, `StartSlot`, `Start`, `Wait`, `Close` | registry, broker, builder, agents | pool lock and slot lock never held together; deferred calls of the task goroutine |
| Broker, mailboxes | `subagent/broker.go`, `message.go` | mailboxes by identifier, counters, `closed`; per mailbox a channel and a flag | `Register`, `Send`, `Broadcast`, `Receive`, `FileOrphans`, `Unregister`, `Close` | storage, pool, registry | journalled under the lock, delivered after it; bounded mailboxes |
| Registry | `subagent/registry.go`, `state.go` | agents with state and transitions | `Spawn`, `Register`, `SetState`, `Finish`, `Delete`, `Shutdown` | broker, spawner | check, unlock, spawn, insert |
| Orchestration, templates, builder | `subagent/orchestration.go`, `template*.go`, `builder.go` | loaded templates | `Sequential`, `Parallel`, `Pipeline`, `Load` | registry, files | fan-out and error collection |
| Agent loop | `core/agent.go`, `loop.go`, `state.go` | `running`, transcript, event channel | `Run` with `executeLoop`, `State` | provider, hooks, tools, consumer of events | a failure at each of a dozen places; bounded channel; cancellation; transcript outlives the run |
| Hooks | `core/hooks.go` | hooks by point, ring of failures | `Register`, `Unregister`, the runners of the loop | agent loop | bounded ring, registration during a run |
| Event bus | `core/event.go` | subscribers, a queue for each, dispatcher | `Publish`, `Subscribe`, unsubscribe | everything that observes | the last unsubscribe stops a dispatcher that may be handing out an event |
| Context manager | `context/manager.go`, `ring.go`, `strategy.go`, `spill.go` | ring of key results, spilled files | `Admit`, `Compact`, `Plan`, `Append`, `Handle` | agent loop through a hook | the size is reported before key results are put back |
| Gateway | `gateway/gateway.go`, `sse.go` | response chain, usage | `ChatStream`, `InvalidateChain`, `ResetUsage`, `Close` | provider formats, HTTP | the chain is shared by all streams; retries |
| Provider formats | `gateway/openai_*.go`, `anthropic_messages.go`, `adapter.go` | the open blocks of a stream | translation of requests and streams | gateway | bodies that end anywhere, calls that interleave, a history held in another format |
| Prefix cache manager | `cache/cache.go` | snapshots, statistics, alarm | `Record`, `Observe`, `Invalidate`, `Reset` | gateway | number taken in one lock section and stored in another |
| LSP client | `lsp/client.go` | generation, pending requests, restart count | `Ensure`, `Request`, `Restart`, `Close`, `Stop` | server process | late readers of a dead server; restart bound; retry |
| LSP protocol, injector, tools | `lsp/protocol.go`, `types.go`, `injector.go`, `tools.go` | open documents with their versions, the diagnostics of each | `Open`, `CloseDocument`, four tools that ask, `Inject`, the diagnostics tool | LSP client | the pool does not hear when the server is replaced; a report is read while it is pushed |
| MCP client, pool | `mcp/client.go`, `pool.go` | session, tool cache, clients by name | `Start`, `Tools`, `RefreshTools`, `Execute`, `Health`, `Close` | MCP server | tools of a session that was invalidated; repeated calls |
| Log collector | `logging/collector.go`, `handler.go` | bounded queue, counters, writer | `Handle`, `Run`, `Close` | files | drop at the bound; shutdown |
| Tool pool, built-in tools | `tools/` | a map of tools under one lock | `Register`, `Enable`, `Execute` | files, shell, sandbox | file system access |
| Sandbox | `sandbox/` | none | command construction | operating system | operating system calls |
| Security | `security/` | policies, a tally | `Scan`, `Evaluate`, `WrapToolOutput` | tools | policies that answer differently; text |
| Skills | `skills/` | an index replaced as a whole, its order | `Refresh`, `Search`, `Activate` | files | directories edited during a scan; two locks |
| Wiki | `wiki/` | entry files, listing, search index with its schema | `Put`, `Get`, `Delete`, `Rebuild`, `Search` | files, SQLite | a crash or failure between file, index and listing; another program's schema |
| Core data types | `core/message.go`, `tool.go`, `provider.go` | none | validation | all | none |
| Platform | `platform/` | none | wrappers | operating system | none |

How they meet: the agent loop calls its provider (a gateway) and its tools, asks its hooks and
announces what it appends on the event channel of the run. The pool puts a builder's agent on
a slot, records its fate with the registry and its result with the broker, whose journal is a
storage scope; a scope is the write buffer over a journal and a ledger.

What makes the modelled components correct, in a line each:

- **Write buffer**: an accepted record is written exactly once, or is counted as dropped or
  lost; the ledger never has what the journal misses; what a `Flush` that returned nil owed is
  in the journal and on disk (violated where it found the queue empty: the error of its sync is
  thrown away); a full queue does not wait for the ticker.
- **Durability**: a flushed record survives every crash (violated where a crash left a record
  without its newline); a crash is never taken for a clean end; nothing is written behind a
  fragment; after recovery the ledger has what the journal has.
- **Pool**: claims are neither leaked nor released twice; the limit holds; no slot stays busy
  for good; registry and pool agree; a result that says done was reported; one task per slot.
- **Broker**: a message is in the journal before it is in a mailbox, and in each mailbox once;
  every destination takes it or counts it as dropped; no send meets a closed channel; messages
  of successive sends keep their order; a slow reader blocks nobody.
- **Agent loop**: every call is answered for, exactly once, run or refused; events tell the
  transcript in order and say how a run ended; runs do not mix; a cancelled run ends.

- **Language servers**: an answer goes to the question it was given to and a question is asked
  twice at most, through crashes, restarts and late readers; one server is started at a time;
  a document's texts have different versions; no file with problems is silent.
- **Registry and orchestration**: what is recorded as running has work that will record its
  end; what ended has no handle; the population passes its bound by the other compositions at
  most, and by what the notes of failures make.
- **Model calls**: a stream ends once, a report of its usage is counted once or, in the messages
  format, replaced by another; what the provider sent comes
  out whole and in order wherever the body ends, and a request carries all of the conversation.
- **MCP**: nobody is served the tools of a session that was replaced; a session is closed once.
- **Context and prefix cache**: compaction keeps the newest message, the recent turns and the
  failed results, and tells whoever holds the old history; the recorded changes of the prefix
  follow one another; no caller reports a collapse of the hit rate twice.
- **Event bus, hooks, policies**: a subscriber gets its events in order, none lost, no goroutine
  sleeps through one; every hook that stays runs, in its place; the strictest policy decides.
- **Log, wiki, skills**: a record is in the file of the day it was noted, once, and an orderly end drains;
  the index of the wiki says what its files say; the list of skills grows only at its end.

The hazards behind these properties are listed in `PROJECT.json`, each at its line.

## 2. Modules

| module | models | status |
|---|---|---|
| `WriteBuffer` | the write buffer, lock section by lock section | checked, proved |
| `WriteBufferProofs` | all safety properties of its run | 2020 obligations |
| `Durability` | one stream over several process lifetimes | checked, proved |
| `DurabilityProofs` | all its invariants but the violated ones | 1838 obligations |
| `DataLemmas` | least and greatest numbers, enumerations, what sequence operators leave where | 696 obligations |
| `SlotPool` | slots, claims and task goroutines, with what of registry and broker they touch | checked, proved |
| `SlotPoolProofs` | all safety invariants of the passing runs | 622 obligations |
| `Broker` | sends, routes, mailboxes and their readers | checked, proved |
| `Delivery` | what the broker promises, without locks, routes or capacities | refined by `Broker` |
| `BrokerProofs` | all safety invariants, and the refinement | 1369 obligations |
| `AgentLoop` | runs of one agent on one transcript | checked, proved |
| `AgentLoopProofs` | all its invariants | 2958 obligations |
| `LspClient` | callers, the servers they launch, the reader of each | checked, proved |
| `LspDocuments` | the tools over the language server: documents, versions, questions | checked, proved |
| `Diagnostics` | the diagnostics store, the injector and the tool that read it | checked |
| `Registry` | spawns in their lock sections, compositions, deletion | checked, proved |
| `Gateway` | streams that share a chain, an adapter and a usage count | checked, proved |
| `ProviderStream` | the three stream parsers, and what the loop makes of their chunks | checked |
| `ChatRequest` | the three request builders over one conversation | checked |
| `McpClient` | sessions, tools listed by pages, calls, health | checked, proved |
| `EventBus`, `Hooks`, `Policy` | dispatchers and workers; triggers; chains of policies | checked, proved |
| `CoreServices` | `Registry`, `McpClient`, `EventBus`, `Hooks`, `Policy`, `LspClient`, `LspDocuments`, `Gateway` side by side | checked, proved |
| `CoreServicesProofs` | all invariants of these eight and of the eight together | 4228 obligations |
| `ContextManager` | the conversation and its compaction | checked, proved |
| `PrefixCache`, `HitRate` | the snapshots of the prefix; the watch over hit rates | checked, proved |
| `LogCollector` | handler, bounded queue, Run, Close, files by day | checked, proved |
| `Wiki`, `Skills` | articles, rows and listing; the index of skills | checked, proved |
| `MemoryServices` | `ContextManager`, `PrefixCache`, `HitRate`, `LogCollector`, `Wiki`, `Skills` side by side | checked, proved |
| `MemoryServicesProofs` | all invariants and action properties of these six and of the six together | 2684 obligations |
| `MCServices` | the run of `Durability`, these two, and the three checked parts above | |
| `MC*` | instances for TLC: symmetry sets, nothing else | |

### WriteBuffer

`pending`, `bytes`, `seq`, `closed` are the fields under `b.mu`; `signal` is the one-token
channel; `writer` is `b.writeMu`. Each drainer (the Run goroutine, and a set of callers of
`Flush` and `Close`) has an `op`, a `pc` between its lock sections, and the `batch` it took.
`AppendRecord` is one action up to the release of `b.mu`, with its overflow; the call of
`wake` behind it is another (`waking`, `Wake`), since other goroutines run between the two.
`DrainTake` / `DrainEmpty` is the first lock section of `drain`; `WriteLock`, `SinkWrite`,
`SinkFail`, `FlushSync` the second; `Check` is the loop of `drainAll`, `SyncLock` and `Sync` are
`syncSinks`, which drops the error of the sync; `RunTick`, `RunSignal`,
`RunStop` are the three cases of Run's select. `sinks[1]` is the journal; `synced` is how much
of it fsync has put on disk. A record is a stream, a number and a size: its payload decides
nothing. Which records a sink refuses is a choice: any call may fail, up to `MaxFailures`,
and a ledger also refuses once Run's context is cancelled, as `database/sql` does.

### Durability

One stream and one writer, since the races of several are `WriteBuffer`'s subject. The state
is what survives (journal file, tables, checkpoint, both halves of the marker) and what does
not (`phase`, `seq`, `queue`, `batch`). The composition of a start and of a shutdown is no
function of `src/`: it is what the package's comments and durability tests do (open, recover
unless clean, checkpoint, mark dirty, write; close the buffer, mark clean).

The journal is a sequence of pieces: a record with its line end, a record without it (`Unended`),
or a part of a record (`Fragment`). A line is what stands between two line ends, so a piece
without one is continued by the next append, and the line parses only if it is one record;
`ReadJournal` stops at the first that does not. `Kill` keeps what reached the kernel, with a write
in progress cut anywhere; `PowerLoss` keeps what was synced, and any beginning of the rest, cut
within a record, between a record and its line end, or behind it (`Remains`). The sentinel file is
written without fsync, so after a power loss it reads as any value it had since the last one
(`onDisk`). `TruncatePartialJournal` is modelled by what it does to bytes: it cuts the length of the
first bad line off the end of the file, which is that line only if it is the last; if lines follow
it, what goes is part of them. A sync may fail, in a Flush, which returns the error, and in a
Close, which does not and marks itself clean all the same (`unsafe` remembers that). `astray` are
the records that were drained to a journal in which some line was not whole. `WriteAudit` states a
transaction by what the tables have afterwards: a tool call is written unless its stream and
number are there already. A fragment is no record (`TornLine`): JSON that was cut short does not
parse.

### SlotPool

A task is a call of `Start` and the goroutine it leaves. Its `pc` stands between lock
sections: `Claim` (slot and concurrency in one section of `p.mu`), `LoadTemplate`, `Launch`,
`Build`, `RunEnds`, `Settle`, `Report`, `RecordSuccess` or `RecordFailure` with
`NoteFailure`, `FileResult`, and the deferred calls `Clean` (the cancel function), `Free` and
`Drop` (the two halves of `release`). The control operations interleave with all of it:
`CreateSlot` with `RegisterSlot` (which may be refused and rolled back), `DeleteSlot` with
`Unregister`, `StopSlot` with `MarkStopped`, `StartSlot`, `Close` with `CloseSlot`. The
registry is the state it records for a slot's agent; the broker is a call that may fail.

### Broker and Delivery

A call of `Send` is a member of `Sends` with a program counter between its lock sections:
`Send` is the section of `b.mu` up to line 201, in which the message is validated, journalled
and numbered; `Refuse` stands for each of its early returns; `Route` takes the read lock and
finds the mailboxes; `Look` and `Put` are the two halves of `deliver`, the look at the closed
flag and the send on the channel; `RouteEnds` gives the lock up; `Count` is the last section,
which counts a delivery. The read lock is not a variable: it is held by whoever is between
`Route` and `RouteEnds`, and every section under the write lock asks for there to be nobody.
A broadcast visits its mailboxes in any order, as Go's maps do. A mailbox is a number; an
identifier that is registered again gets a new one, and whoever holds an old mailbox may still
read what is in it. `Close` empties the map under the lock and closes the mailboxes one by one
without it (`closing`, `CloseMailbox`). The channel operations of `Put` and `Receive` are
atomic as Go's are; the counters that follow a `Put` under the mailbox's lock are counted with
it, as nothing reads them in between but statistics.

`Delivery` has three actions: promise, deliver, return. The refinement mapping reads a
mailbox as what was read from it followed by what waits in it, so that reading is no step of
`Delivery`, and the promised messages as those in the journal.

### AgentLoop

`Run` is its check-and-set of `running`; the goroutine's `pc` goes through `executeLoop` with
one action per place where something outside may decide: a hook, the provider, a send on the
bounded channel, a tool. Every `Emit` is the select of `emit`: the event goes out, or the
cancelled context ends the run. `PreToolExec` and `Gate` may refuse, `PostToolExec` may drop
results or report an error over complete ones, `EmitResults` may fail to encode. `NewTurn` is
where Go's locals of a turn go out of scope. Text is not modelled: a chunk brings nothing,
something, or a call. Assumptions about the caller's code: a hook does not make up results or
calls, a model does not repeat a call identifier in one answer, and the hook that edits
requests does not repair them (it could hide `RequestsAreAnswered`). `InitialMessages` is
empty.

### LspClient, LspDocuments, Diagnostics

All of the client is under one lock, so `LspClient` has one action per section of it and lets
callers interleave in between: `EnsureServer`, `Backoff`, `Launch`, `CountServer`, `Hello`,
`Greet`, `Ready`, `Started` are the way to a running server, with `Abandon` and `Spend` where
the handshake fails; `RegisterWaiter`, `AskServer`, `WaitEnds` are `exchangeRaw`; `MarkRetry`
and `ClearRetry` are the retry. A server is the number of its launch; its questions are on the
`wire`, and its reader answers (`DeliverAnswer`), notices the end late (`NoticeEnd`) and tears
down (`TeardownServer`). A server ends on its own (`CrashServer`, where `MayCrash` lets it) or
with the context of its start (`KillServer`). A question is told from another by who asks it, in
which attempt and whether it is a handshake; an answer is the question it answers, which makes
`AnswersMatch` more than a match of numbers.

`LspDocuments` is one level up. The client underneath is reduced to a server that dies, is
noticed dead and is launched again. `OpenDocument` raises the version in the section of `openMu` and
tells the server outside of it; the four tools that ask take the same steps.

`Diagnostics` is the store, which the reader goroutine fills at any time, and its two readers,
which take the documents one after another, each in a lock section of its own.

### Registry

A `Work` is one spawn of one composition. `CheckLimit`, `RegisterBox`, `Spawn`, `Insert` (or
`Undo`) are `Spawn` between its lock sections; `MarkRunning`, `Promise`, `RunAgent`,
`FinishAgent`, `Note`, `UnregisterBox` what the composition does with the agent. An identifier
is chosen from the number of agents, as `nextIndex` does, so two spawns can choose the same.
`PopulationNearBound` counts what passes the bound unchecked: an insertion by each other
composition, and the record that the note of a failure makes when its agent was deleted
meanwhile (`Noted`).

### Gateway, ProviderStream, ChatRequest

A stream of `Gateway` has a caller's side (`at`: building, sending, reading) and a goroutine's
(`go`: parsing, recording, putting, the last event), which is where it meets the others: chain,
adapter and usage are shared. A response is named by the stream it came over, and a sum of
usage is the set of the reports in it, so that a report counted twice shows. The format is chosen
in the initial state. Only `responses` has a chain; it reports usage with the end, the others before
it, up to `MaxReports` times. Completions add a report to what is there, messages replace it
(`Reported`), the report of another stream included; the field `replaced` keeps those. A report
stands for one counter: each is added up or replaced for itself.

`ProviderStream` is fed by a provider that sends blocks in the same number of pieces, and stops
anywhere. It says what each parser holds back, what it lets go of when, and in which order;
`Content` is what `appendOrMerge` of the agent loop makes of the chunks.

`ChatRequest` grows a conversation turn by turn and converts it, in each state, to all three
formats, whichever it was held in. A block is its kind; a request is refused or has parts.

### McpClient, ContextManager, PrefixCache, HitRate

`McpClient` numbers sessions; `Ensure` and `Connect` are under the start lock, `Page` and
`Store` list tools over the session a caller read before, which may be gone meanwhile.

`ContextManager` appends messages of a few sizes, sends the history, and compacts. `Cut`,
`KeepFrom`, `Fold`, `Truncate` and `PreserveKeyResults` are functions over sequences; `held` is
what a provider's chain or a cached prefix stands for, which an append leaves a prefix of the
history and a compaction does not, unless it is told.

`PrefixCache` records in two sections and builds in two; a signature is a number. `HitRate` takes
the rate under the lock (`Observe`), reads `alarmActive` without it (`DecideAlarm`) and notes an
alarm, or its end, under it again (`RaiseAlarm`, `ArmAlarm`); two callers observe. `AlarmOnce` is
about the alarms of one caller; two callers may both report one collapse (see below).

### EventBus, Hooks, Policy

A dispatcher of the bus is a record of its own, since one that was cancelled may still be
handing out an event when the next has begun; `incoming` and each subscriber's queue are
unbounded, as in the code; wakeups are tokens. A trigger of `Hooks` goes through the copy of the
entries it made, while others register and unregister, the hooks themselves included. `Policy`
evaluates the three kinds of policy in chains of up to two, and tallies.

### LogCollector, Skills, Wiki

`LogCollector` has loggers that read the clock for the field `ts` (`Handle`), read it again for the
record's time, which chooses its file (`NoteRecord`), and check and enqueue in two steps; `Run` with
its last drain, `Close` with its look at `started`, and days that pass at any time. `Skills` scans directory by directory
under one lock and publishes under another while users edit. `Wiki` has one operation of a writer at a
time in its steps (file, rename, row, listing), a search that opens the database, another program's
schema, and crashes between any two. `drifted` is what the index may be behind on: what a mishap
touched, and what an open of the index dropped although another had just indexed it.

### CoreServices, MemoryServices

The parts of a session run concurrently. None of them reads a variable of another, so
`CoreNext` and `MemoryNext` are interleavings: a step of one part leaves the variables of the
others alone. What is promised of several parts together (`EveryoneIsHeard`,
`ServersAnswerWhatWasAsked`, `ModelCallsAreWhole`, `PrefixIsKept`, `WrittenOnceWhereItBelongs`, `HistoryIsKept`) is
stated here, once, for TLC and for the proofs.
Since the parts are extended by one module, each names its own definitions: `RegistryInit`,
`BusNext`, `LogSpec`.

### MCServices

Interleaving parts that share no state would show TLC nothing that one alone does not, at the
price of the product of their states. `MCServices` therefore picks a part in the initial state
and runs it alone: `SumInit` and `SumNext` have one disjunct for each part, the states of
the run are the union of the parts' states, and each property speaks of its part. A step of a
part of `CoreServices` is one of `CoreNext`, as one of `MemoryServices` is of `MemoryNext`, so
what is proved of those holds of the run. The module extends `Durability`, `CoreServices` and
`MemoryServices`, whose variables and assumptions it keeps; a part that does not run waits in
one initial state (`Waiting`). The other three are instances on one set of variables, the stage
`s1` to `s7`, which saves TLC the variables that would stand still.

## 3. What is checked

| run | instance | shows |
|---|---|---|
| `write_buffer` | one stream, two records per watermark, one caller, Run, journal and ledger, three records, one failure | `EveryRecordInOnePlace`, `LedgerFollowsJournal`, `QueueBounded` at every step; `FlushIsDurable` as an action property; `FullIsTaken` under fairness |
| `write_buffer_flush` | one sink, one record, one failure | finding 1: `FlushSyncs` is violated |
| `durability_restart` | two records, three of crashes, refused transactions and extra repairs | finding 2: `RecoveredLedgerHoldsJournal` is violated |
| `slot_pool` | two tasks, one slot over the pool's life, limit one, fairness | `ClaimsCounted`, `LimitRespected`, `NoSlotLost`, `SlotsAreKnown`, `DoneIsReported` at every step, and `Served` |
| `slot_pool_one` | three tasks, one slot | finding 3: `OneTaskPerSlot` is violated |
| `broker` | two sends to either of two agents or to both, three mailboxes of one message, fairness | `NoSendOnClosed`, `EveryMailboxAnswers`, `InTurn` at every step; `KeepsPromise`, the refinement of `Delivery`; `SendReturns` under fairness |
| `durability_newline` | two records, one crash | finding 5: `EveryFlushSurvives` is violated |
| `agent_loop` | two runs, two iterations of up to two calls, one event of buffer | `RunsApart`, `OnlyTheLastDangles`, `RunOrRefused`, `AnnouncedInOrder`, `SaysHowItEnded`; `CancelledEnds` under fairness |
| `agent_loop_request` | two runs, one iteration, one call | finding 4: `RequestsAreAnswered` is violated |
| `services` | storage as in `durability_restart` with two crashes; the instances of `MCServices` for the other parts | see the table below |
| `log_collector_once` | two loggers, two records, a queue of one | finding 6: `EndedOnce` is violated |
| `lsp_client_held` | two callers, two launches, no server that ends on its own | finding 7: `HeldServerRuns` is violated |

What the properties of `services` say, and of which part (1.6 million states, depth 43):

| property | part | says |
|---|---|---|
| `ServicesTypeOK` | all | the state of each part is what its code can hold |
| `FlushedSurvives`, `CrashIsSeen`, `FragmentsAreCut`, `RecoveryCompletes` | storage | as in `Durability` |
| `ServersAnswerWhatWasAsked` | LspClient, LspDocuments | `AnswersMatch`, `AskedTwice`, `OneStart`; `VersionsOnce` |
| `RecordsAreTrue` | Registry | `RecordsMatchWork`, `PopulationNearBound` |
| `ModelCallsAreWhole` | Gateway | `EndsOnce`, `UsageCountedOnce` |
| `TextsAreWhole` | ProviderStream, ChatRequest, Diagnostics | `CallsAreWhole`, `HandedOnWhole`; `NothingLost`; `EveryFileSpeaks` |
| `ToolsOfTheSession` | McpClient | `ToolsServed`, `SessionsClosedOnce` |
| `PrefixIsKept` | ContextManager, PrefixCache, HitRate | `HeldIsPrefix`; `ChangesChain`; `AlarmOnce` |
| `EveryoneIsHeard` | EventBus, Hooks, Policy | `EventsInOrder`, `NoLostWakeup`; `EveryHookRuns`; `StrictestDecides` |
| `WrittenOnceWhereItBelongs` | LogCollector, Wiki | `OnceInItsFile`, `EndDrains`; `IndexFollowsFiles` |
| `HistoryIsKept` (of steps) | Skills, ContextManager | `OrderIsKept`; `WhatCompactionKeeps` |

Every property of a passing run has a mutant in `PROJECT.json`: a plausible bug in one mapped
definition, under which TLC finds the property violated in the same run. The modules hold more
of them, one for almost every conjunct of the properties above, and TLC finds each of these
violated in the run as well: `MarkAnyway` (AskedTwice), `OpenUnread` (VersionsOnce),
`SpreadFilled` (EveryFileSpeaks), `PromiseOrDrop` (RecordsMatchWork), `CheckOneMore`
(PopulationNearBound), `EndAlways` (EndsOnce), `KeptCalls`
(HandedOnWhole), `CompletionsOfCalls` (NothingLost), `InvalidateAnyway` (SessionsClosedOnce),
`RecordFirst` (ChangesChain), `RaiseOnly` (AlarmOnce), `FanLate` (NoLostWakeup), `LookOnly` (EventsInOrder), `StopsAtApproval`
(StrictestDecides), `RunEndsAtOnce` (EndDrains), `ClearNothing` (IndexFollowsFiles),
`KeepMessages` and `PreserveNothing` (WhatCompactionKeeps).

### Bounds

- `MaxSeq = 3` with a watermark of two and a queue of two records in bytes: the third record
  overflows, the second wakes Run; a Flush and Run hold batches at once, and a third batch may
  be refused. The proofs of this module have no such bound.
- `MaxRecords = 2`, `MaxCrashes = 2`: a crash after either record, or one while recovering from
  another; the number of starts has no bound. `MaxFailures` and `MaxRepairs` are one each and
  `MaxMishaps = 2` bounds all of them: any two in either order, a ledger that missed a batch and
  a crash, or a reindex that a crash cuts. A reindex cut after an earlier crash left a checkpoint
  is a third and beyond this bound; `durability_restart` allows three, and the invariants are
  proved for any number of them. A truncation that cuts lines behind a bad one takes three records;
  an instance of three records and two mishaps was checked apart from the runs (1.7 million
  states), one of three and three as well (8.5 million), and the proofs cover it.
- `MaxSlots = 1` with two tasks is contention for one slot and the passage from one task to
  the next, and a limit of one is where a claim waits for the other task. Two tasks at once are
  in `slot_pool_one`; the safety of any number of tasks and slots under any limit is proved.
- Two sends are enough for one to be in the middle of a route while the other is journalled,
  routed or finished; three mailboxes for an identifier to be registered again; a capacity of
  one (64 in the code) for the second message to find a mailbox full.
- `NumRuns = 2` because the second run starts on what the first left. `MaxMessages = 3` is the
  longest transcript a request is made with: user, answer, result of one run, or the remains
  of the first run and the second's message. A second turn behind two results, or a second
  run behind a transcript of three, stops there; it may do so, as the guard of `Ask` is the
  only place the bound appears and a failing `Ask` is allowed anyway. `EventBuffer = 1` makes
  every send compete with the consumer.

- The parts of `services`: two callers and two launches of a language server, with one restart
  allowed, are a crash during a question, its retry on the next server, and the refusal of a
  third; two callers, one document, three openings and two servers; two files and a budget of
  one problem; three spawns of two compositions on two places; two model calls with one retry,
  a channel of one chunk and up to two reports of usage each, in all three formats (`ApiFormats`), with
  text in one of them (`TextFormats`); three blocks of two pieces; two turns; two users and three MCP
  sessions of two pages; four messages over a budget of four, so that folding and truncation
  both happen; two event types and two subscriptions; three registrations of two hooks; two
  records in a queue of one over two days; two builders; a window of two out of six
  observations by two callers; two skills in two directories with two edits; two articles, two
  texts, one mishap; chains of two of five policies. In each the second actor is what
  the first can be interrupted by, and the last of each bound is where a limit is met.

Deadlock is not checked where the system may come to rest: all records written, all bounds
used up, all runs over.

### Fairness

- `WriteBuffer`: a goroutine that is inside a drain goes on (weak fairness of `Drain`), the
  appender calls `wake`, Run takes its signal; and Go's mutexes hand over to a waiter after a
  millisecond (starvation mode of `sync.Mutex`), which is strong fairness of taking
  `b.writeMu`. The ticker has none: `FullIsTaken` is about the wakeup.
- `SlotPool`: a claim polls on a timer, goroutines run, and an agent ends its turn once its
  context is cancelled. An agent that is not cancelled may run for ever, and `Served` says
  nothing about a caller behind it.
- `Broker`: a goroutine inside `Send` goes on, and taking the write lock to count is strongly
  fair, since `sync.RWMutex` makes new readers wait behind a writer. Taking it to be journalled
  is not needed: `SendReturns` begins there. Nothing makes anybody read a mailbox.
- `AgentLoop`: only a cancelled run has to go on, by any of its steps but another chunk: Go's
  select picks among ready cases at random, so it does not take chunks for ever past a done
  context. Nothing makes the consumer read.

- `services` states no fairness: it checks what never goes wrong, not that something happens.

## 4. Findings

1. `FlushSyncs` (`writebuffer.go:344`): over an empty queue `Flush` calls `syncSinks`, which drops
   the error of the sync, and returns nil. Whatever Run wrote and nobody has synced is then not on
   disk; the comment of `Flush` (line 197) says it "writes and syncs everything queued". With a
   batch of its own `Flush` does return the error. `Close` loses it in the same way (line 265).
   What holds, and is proved, is `FlushIsDurable`: nothing else lets a `Flush` return nil early.
2. `RecoveredLedgerHoldsJournal` (`writebuffer.go:127`, `recovery.go:136`): sequence numbers
   begin again in every process while the checkpoint of an earlier one remains, so recovery
   skips new records that reached only the journal. A start that finds the marker clean need
   not be involved; two crashes are enough.
3. `OneTaskPerSlot` (`pool.go:874`): a slot is idle before the deferred calls of its last task
   ran; `release` then frees it under the next task, and a third is put beside it.
4. `RequestsAreAnswered` (`loop.go:108`): an answer with tool calls is in the transcript before
   the steps that may fail; after such a failure the next run sends a call with no result,
   which the loop's own comment calls a rejected request.
5. `EveryFlushSurvives` (`journal.go:134`): a crash may cut the file exactly between a record and
   its newline. `ReadJournal` takes that last line for a record, `TruncatePartialJournal` has
   nothing to cut, and the next append continues the line: neither record parses any more, and
   nothing behind them is read, although a `Flush` returned nil over them. The comment of
   `TruncatePartialJournal` (line 153) says that the next append starts on a record boundary, and a
   test (`journal_test.go:132`) that it must. Where the journal had whole lines only when a drain
   began, its records do survive: that is `FlushedSurvives`.
6. `EndedOnce` (`logging/collector.go:391`): `Close` decides by `started` whether to wait for
   Run's goroutine or to do its work. A goroutine that is scheduled only afterwards finds `stop`
   closed and closes `done` a second time, which panics. The comment at lines 394-396 says that
   a shutdown path cannot know which one it got.
7. `HeldServerRuns` (`lsp/client.go:393`): `startOnce` starts the server under `startCtx` and
   cancels that when it returns. The default starter and the sandboxes bind the process to the
   context of its start (`exec.CommandContext`; `sandbox/process.go:90`, `sandbox_linux.go:109`,
   `sandbox_darwin.go:111`), so a server is killed once its handshake is over, while the client
   holds it as initialized until its reader notices. The comment at line 47 says that
   `StartTimeout` bounds the initialize handshake. Without `Kill` the property holds. The tests
   of the client start their servers with a starter that ignores its context.

Met on the way, and kept out of the runs. Each is a behavior of the modules unless it says
otherwise.

- Write buffer: a drain takes the queue under one lock and the write lock only afterwards
  (`writebuffer.go:328`), so two drains may write their batches the other way round, and the
  journal has a later number before an earlier one; the comments at lines 50 and 107 promise the
  opposite. A `Flush` that finds the queue empty while another drain holds the batch it took
  returns before that batch is written (line 316). A write of the journal that fails may leave part
  of its lines in the file, and the buffered writer then refuses all that follow; this is not in
  the modules, in which a write that fails leaves nothing.
- Shutdown: since `Close` returns nil although its sync failed, the caller marks the scope clean over
  a journal that is not on disk.

- Broker: numbers are given under the lock and mailboxes filled after it (`broker.go:201`), so two
  sends may arrive against the order of their numbers; the declaration of `sequence` (line 51) says
  that a number is assigned under the lock of the mailbox lookup so that the two agree. What does
  hold, and is proved, is `InTurn`: sends that do not overlap. A broadcast that was journalled before `Close` and routed after it finds no mailbox
  and counts as delivered; a mailbox that was unregistered may still be read by who holds it,
  although the comment of `Unregister` says its messages are not delivered to anyone.
- Pool: a comment of `state.go` says that the pool's lock and a slot's are never held together;
  the snapshot of a slot is taken under the read lock of the pool.
- LSP client: a handshake that timed out is not told from another that failed.
- LSP tools: a question can be about a document its server was never given
  (`AskedAboutGiven` in `LspDocuments`; `tools.go:69` says otherwise): Open remembers a document
  before it tells the server, and a server that replaces another is told nothing. Two Opens may
  tell it versions out of order. `CloseDocument` does not forget the document's diagnostics
  (`types.go:308`), nor does a restart.
- Diagnostics: a filter that asks for warnings still shows errors only, since the worst severity
  wanted begins at error. More files than the budget has places exceed it. The header of the
  tool counts in another lock section than its list.
- Gateway: a request may carry the part of a history that follows one response and name another
  (`ResumesWhatItNames` in `Gateway`; `gateway.go:257`): the gateway's record and the adapter's
  are read in two sections. A call whose arguments had not begun when the body ended is emitted
  with empty arguments. A message of nothing but unsigned thinking makes every later request of
  its conversation fail (`anthropic_messages.go:227`).
- MCP: a caller that gives up takes the shared session with it.
- Context: key results are put back after the report was made, so the report may say a history
  fits that does not; a forced truncation and a plan that cuts nothing do not preserve them.
- Gateway, messages format: a report replaces the adapter's counters (`anthropic_messages.go:569`),
  and the adapter is shared. The comment speaks of the repeated reports of one stream; the report of
  a stream that was cancelled, or runs beside another, is lost when the other reports.
- Prefix cache: `Build` may return the signature of another caller's snapshot. Two concurrent
  callers of `Observe` may both report one collapse: `alarmActive` is read without the lock
  (`cache.go:442`) and set under it (lines 459-461), against the comment at lines 192-194.
- Hooks: `Unregister` compares code pointers, so of two closures of one function it may remove
  the other.
- Log: the clock is read for `ts` (`handler.go:44`) and again for the time that chooses the file
  (line 65), so a record of midnight may stand in the file of the day after its `ts`, although the
  comment at lines 272-274 says that the record's own timestamp chooses the file. The newest record is dropped where the comment says the oldest (`collector.go:269`); a
  file that reached its size is closed and opened again; what is queued after a cancelled Run
  stays in the queue, for Close waits for a goroutine that is gone.
- Policy: the comment of `Chain` says it takes the first answer that is not a plain permission;
  it keeps the last approval, and a denial before or after it. The decision is the strictest
  either way, which is what is checked.
- Skills: one skill that cannot be read fails the whole refresh.
- Wiki: two callers may both open the index, without a lock (`wiki.go:361-409`), and the second may
  drop what the first has just indexed, also of a fresh index; concurrent writes of one article share a temporary name; the limit of a short query
  is applied before sorting; nothing is synced; an index that was dropped for its version is
  rebuilt only when asked.

## 5. What is proved

The proofs hold for every value of the constants that satisfies each module's `Parameters` or
`Bounds` (positive limits; finite sets of tasks and of spawns; a runner, or the free state of a
lock, that is not a caller; a fragment that is no record; a positive bound of the reports of a
stream, `GatewayParameters`, as one format has its only report in its end). No fairness is used. Every invariant named
here was checked by TLC on an instance before it was proved.

**WriteBufferProofs.** `TypeCorrect` is `Spec => []TypeOK`, inductive as it stands.
`DurableFlush` is `Spec => FlushIsDurable`. What a Flush owes is fixed when it looks at the
queue: the journal of that moment and the batch it takes. The action property does not follow
from types: when the Flush returns it must know that its own batch has reached the journal and
that what it synced covers everything it owes, unless the sync it made was `syncSinks` and was
refused. `FlushInv` is that knowledge by program
counter, and inductive because sinks only grow and a batch leaves its drainer only into the
journal or into an error.

`LedgerFollowsAlways` needs `FollowInv`: whoever is between two sinks holds the write lock, and
the sink it left already ends with its batch, so that the next sink followed by the batch is
still a selection of it (`FollowsBoth` extends the selection). `QueueBoundedAlways` is about
a sum: `QueuedBytes` is a recursive function, `SumsExist` shows that there is one such function
and `SumAppend` and `SumSplit` how it adds up, by the least index at which it would not.
`QueueInv` adds to the property what makes it inductive: the queue is in the order of its
numbers and all that was discarded is older. `EveryRecordInOnePlaceAlways` is proved of the
keys (stream and number) a record has: `WhereInv` says in which of five places a key is, and
`SinksInv` that nothing is in a sink which is still to be written to it. The proof has one lemma
for each way a record moves: appended, taken, failed, written.

**DurabilityProofs.** `DurabilityInv` has three parts. `FilesInv` follows a record by the place in
the file it must be read from: it is `Saved` up to a piece when some piece up to there is the
record and all pieces up to it have their line ends, so that no append can continue it and no
truncation reaches it. A flushed record that did not go astray is saved within what is synced, one
that waits for its sync within the file. As long as nothing went astray, what lacks a line end is
the last piece of the file (`Tidy`), and as long as no Close lost the error of its sync either,
there is no fragment from recovery on, and a flag in the database that reads clean means none at
all and a journal that is synced to its end, which no power loss tears (`CleanInv`). `RemainsKeeps` and `TruncateKeeps`
are the two lemmas about cuts: what is saved before the cut stays so, and a truncation never goes
behind the first bad line. They give `FlushedSurvivesAlways`, `CrashIsSeenAlways` and
`FragmentsAreCutAlways`. `RecoveryInv` is what `RecoveryCompletesAlways` needs: while no number was
given twice, a number stands for one record and the ledger has those a checkpoint covers
(`NumbersInv`, over the file, the queue and the batch together, `Written`); what recovery read is
all there is in the file (`StagesInv`), so that afterwards the ledger has it (`LinesRecovered`).
`FirstInv` says why no record can be astray in that case: all records are of one lifetime, and
before the first there was no line to continue.

**AgentLoopProofs.** One invariant, `AgentInv`, in eight parts that need each other. `TurnsInv`:
one run works at a time, in the order of numbers. `CallsInv` and `LastInv`: the answer a run
works on is the last message, and which of its calls are in hand at which place of the loop.
`MessagesInv`: results stand behind their answer in its order. `DangleInv`: where a transcript must
be whole. `MarksInv`: which calls of the last answer were run or refused so far. `EventsInv`:
which messages are still to be announced (`Waiting`), and how the run ended. Steps are
classified first (by how the transcript grows, `Growth`; by what is marked, `MarkKinds`; by what
is sent, `EventKinds`) and each invariant is proved by class. `OnlyTheLastDanglesAlways`
holds although a failure may stop the loop anywhere, since whoever fails works on the
last answer.

**SlotPoolProofs.** Four inductive invariants, each with one step per action.
`CountInv` is `ClaimsCounted` with the limit: the count is the cardinality of the tasks
between claim and drop. It holds although the states of the slots drift (finding 3), because
the code counts claims and slots apart. `LostStep` shows `NoSlotLost` to be inductive: every
step that makes a slot busy names its holder, and every step that ends a holder frees its
slot. `SlotInv` carries the slots in creation, in deletion and in the registry;
`OutcomeInv` relates a task's outcome, its place and the report.

**BrokerProofs.** Invariants and a refinement. `OpenInv` says why no send meets a closed
channel: a mailbox in the map has one identifier and is neither closed nor about to be, and a
route, during which the map stands still, only has mailboxes of the map before it. The
uniqueness matters: `Unregister` would otherwise close a mailbox that is still in the map.
`PlaceInv` says where each message is by program counter: in the journal from its first step,
in a mailbox only if its route has been there. `OrderKept` (`InTurn`) follows with it, because
whoever is in the middle of a `Put` has not returned, so nobody has it in `before`, and its
message goes to the end. `Promised` is `Spec => KeepsPromise`: `PlaceInv` gives the guards of
`Delivery`'s steps. `EveryMailboxAnswersAlways` adds `FateInv`, in which a mailbox a route found
is still ahead of the route, has taken the message or has dropped it, and exactly one of them;
`SingleInv`, that it took it once; and `CountInv`, which counts the finite set of the sends that
returned with every destination content, whether or not there are finitely many sends.

**CoreServicesProofs.** Each part is proved on its own specification, with an inductive
invariant of its own; `PartsRun` says that a behavior of `CoreSpec` is one of each part's
specification, and carries the results over. The six invariants of `services` that speak of
these parts are then theorems of `CoreSpec`.

- *Registry.* `RecordsMatchWork` is inductive beside the types: the step that takes work away
  from an agent records how it ended, or finds no record. `PopulationNearBound` rests on
  `OrderInv` (a composition spawns one agent at a time) and on `Covers`: the agents are among
  those of the last check that let somebody through, one for each composition that was under
  way then or since, and one for each noted failure. Whoever passes the check starts the count
  again.
- *MCP client.* A list of tools is stored without a look at what became of its session.
  `ListingInv` says why that is right: a new session needs the start lock, which the reader of
  the list holds, so until it lets go there is its session or none. `ClosedInv` adds to
  `SessionsClosedOnce` that sessions to come are not closed.
- *Event bus.* `BusInv` has five parts beside the shape. `Membership`: the list of subscribers is
  those who have not left, there is a current dispatcher while anybody is in it, and every other
  dispatcher is cancelled. `Handout`: a cancelled dispatcher that is still handing out an event
  has only subscribers before it that have left, and no two dispatchers are at the same
  subscriber; this is what the last unsubscribe and the next subscribe could break. `Order`:
  what a subscriber holds is older than what is being handed out to it, and that older than
  what is incoming. `Whole`: an event somebody wants has come, is in a dispatcher's hand with
  him still ahead, or is incoming. `Awake`: who waits over a queue that is not empty has its token.
- *Hooks.* A trigger runs on a copy of the list. `NobodyPassed` keeps the hooks that were
  registered throughout it (`due`) among those that ran and those still to run; `InOrder` needs
  that the sequence numbers in the list are given out, so that `Before` is total on it
  (`BeforeOrders`) and an insertion has one place.
- *Policy.* `Considered` is what an evaluation knows of the policies it has been before: all
  of them allowed and its approval is whether one asked for it, or it is over and one denied.
  That the answer does not depend on the order of the chain follows.
- *Client of a language server.* `AskInv` is about the callers: the flag is set while
  somebody starts a server, so whoever begins to start one is alone (`OneStarts`); the mark
  is set while a caller is in a second question, so nobody else begins one (`OneAgain`); and
  where a caller is bounds how often its question was asked (`Counted`), which is `AskedTwice`
  without a count of the paths that lead there. Each step of a caller is a case of `Moves`,
  which says what a step may do to flag and mark, and `MoveKeeps` is proved once. `WaitInv` is
  about the answers: an identifier is never given out twice, over all servers, and what is on the
  wire under one that somebody is registered with is that caller's question, so an answer
  that comes late finds its identifier gone and nobody else's in its place.
- *Tools over a language server.* `DocInv`: a text that is to be told has a version of the
  opening it belongs to, no later than the document's, and an opening has a number that no other
  has. Raising the version under `openMu` then makes it differ from all that are on their way.
- *Gateway.* `GatewayInv` says of each stream what it has sent, by where its goroutine is
  (`FeedIs`): only text before an end was seen; the end it saw in its hand until it is sent, and
  then the last; and a channel that was closed without an end only if the context had ended.
  `Once` is `UsageCountedOnce` report by report: every report that was made is somewhere
  (`Somewhere`), at one place only (`InOnePlace`), and one that was replaced was so by a message's
  other report (`ReplacedByAnother`); a stream holds any only between taking them from the adapter
  and adding them.

**MemoryServicesProofs.** The same scheme for six parts; `MemoryPartsRun` carries it over, also
for the two action properties, whose conjunction is `HistoryIsKept`.

- *Context.* `ContextInv` is that what is held begins the history and that messages have
  numbers of their own. The work is in `Folding`, about what a compaction makes of a history:
  it ends as the old one did and has each of its failed results, whichever of the three ways it
  was cut. `StepKeepsWhatItMust` reads `WhatCompactionKeeps` off it.
- *Prefix cache.* `CacheInv` states `ChangesChain` with the snapshot as the end of the chain, so
  that a build which takes its number in one section and stores in another cannot leave a gap.
- *Hit rate.* An alarm of a caller is `Outstanding` while no recovery stands behind it. `RateInv`:
  then `alarmActive` says so and that caller is not about to raise another. The flag is only cleared
  by a step that notes a recovery, after which nobody's alarm is outstanding; another caller that
  decided before the flag was set may still raise one of its own, which the property allows.
- *Log.* `OnePlace`: a record is with its caller, in the queue or in the file of its day, and
  at one of them; `CallsDated`: its `ts` is of that day or an earlier one, as the clock is read
  twice in that order; `Ending` and `Drained` say that nothing ends before it was asked to, and
  that once it has, whoever ended it, what was due is no longer queued. It holds
  although `done` may be closed twice (finding 6).
- *Wiki.* An operation takes four steps in files and tables, and a crash, a failure, an edit by
  hand or an open that drops the rows may come between any two. `Untouched` is what the operation may still
  rely on about articles that nothing touched since it looked; `TextsHeld`, that every text in
  the index or on its way there was an article's; `Followed`, that index and listing follow
  the files but for what drifted and what the operation is about.
- *Skills.* `NextOrderIs` says what a refresh makes of the order: names that stay, in
  the order they had, and new ones behind them. `SkillInv` says that whoever scans works from the
  order that is there, because it holds `refreshMu`.

**Only model-checked**: the liveness properties `FullIsTaken`, `Served`, `SendReturns` and
`CancelledEnds`, since fairness and `ENABLED` are out of the prover's reach; `ServicesTypeOK`,
which is the types of all parts (those of `Durability`, `Registry` and `McpClient` are proved, and
the inductive invariants of the others contain what they need of theirs);
and `TextsAreWhole`, a conjunction over instances. `ProviderStream`, `ChatRequest` and
`Diagnostics` are functions over data, with sums and filters of sequences whose results for every
input would need induction. Violations are shown by traces, not proved.

## 6. What is not modelled

- Of the modelled components: statistics and logging; `Wait` and the watchers of the pool,
  which only read; the query side of the ledger; the cross-process lock; streams of a scope
  that do not share state; the contents of messages; `FileOrphans`, and a broker
  whose `LastSeq` fails after the write.
- Of the modules of `services`: counters and statistics, `ResetUsage` and cache hints of the
  gateway, rotation of a log file by size, the registry's summaries and message counts, search
  in skills, the ring buffer and the spill files of the context manager (one slice under one
  lock; files that are written once), the pools of clients (maps under one lock). That a call
  of the language server client ends is a matter of its timers and not checked.
- LSP framing, the detector and the envelope of the security package, template parsing:
  functions over text, which examples test better than a model of text would.
- Sandbox, platform, built-in tools: the operating system is all there is to them.
- Core data types: declarations and validation.

## 7. Plan

The safety invariants and action properties of every component with steps of several actors are
proved. What is left to prove is of functions over data (`TextsAreWhole`) and needs a prover that
can do induction over sequences.

Abstract specifications that could stand beside `Delivery`: the write buffer as a log with a
durable prefix; the pool as a counter of claims.
