------------------------------ MODULE AgentLoop ------------------------------
(***************************************************************************)
(* The loop of one agent (internal/core: loop.go, Run and State of         *)
(* agent.go, state.go): a run appends the user's message, asks the model,  *)
(* appends its answer, runs the tools it called and appends their results, *)
(* until the model calls no tool.  Everything it appends it announces on   *)
(* the run's event channel, which is bounded and which nobody has to read. *)
(*                                                                         *)
(* Hooks and the provider are the caller's code: each may refuse wherever  *)
(* the loop asks it.  A hook that panics is isolated by the registry and   *)
(* so is one that did nothing; a tool that fails or panics has a result.   *)
(* The transcript outlives a run, and the next run sends it as it is.      *)
(***************************************************************************)
EXTENDS Naturals, Sequences, FiniteSets, SequencesExt

CONSTANTS
  NumRuns,        \* bound: calls of Run that get past its checks
  MaxCalls,       \* bound: tool calls in one answer of the model
  MaxIterations,  \* config.MaxIterations
  EventBuffer,    \* config.EventBuffer
  MaxMessages     \* bound: a request is made while the transcript is no longer

ASSUME Parameters ==
  /\ NumRuns \in Nat /\ MaxCalls \in Nat /\ MaxMessages \in Nat
  /\ MaxIterations \in Nat \ {0} /\ EventBuffer \in Nat \ {0}

Runs  == 1 .. NumRuns
Calls == 1 .. MaxCalls

VARIABLES
  running,     \* a.running
  transcript,  \* a.state.data.Messages
  pc,          \* where the goroutine of each run is
  ctxDone,     \* its context is cancelled
  iteration,
  content,     \* the accumulator: whether it holds anything, and how many calls
  calls,       \* toolCalls, once the gate has answered
  refused,     \* those of them the gate refused
  todo,        \* the calls whose tool has not returned
  toolErr,     \* runTools reported an error
  next,        \* the first appended message that was not announced
  buffered,    \* events in the run's channel
  failed,      \* the runs whose runErr is set
  sent,        \* history: the state changes and the last events each run sent
  executed,    \* history: the calls handed to a tool
  stopped      \* history: the calls a gate refused

turn    == <<content, calls, refused, todo, toolErr>>
channel == <<next, buffered, sent>>
history == <<executed, stopped>>
vars    == <<running, transcript, pc, ctxDone, iteration, turn, channel, failed, history>>

Loop   == {"pre_loop", "user", "iterate", "stream", "completion", "state", "post_model",
           "tool_call", "pre_tool", "tools", "results", "announce", "partial"}
Ending == {"post_loop", "last_event", "release"}
Pcs    == {"idle"} \cup Loop \cup Ending \cup {"close", "over"}
Message == [role : {"user", "assistant", "tool"}, run : Runs,
            calls : 0 .. MaxCalls,  \* assistant: its tool_use blocks
            of : Nat, call : 0 .. MaxCalls]  \* tool: the message and the block it answers

Said(role, r, n)  == [role |-> role, run |-> r, calls |-> n, of |-> 0, call |-> 0]
Result(r, i, k)   == [role |-> "tool", run |-> r, calls |-> 0, of |-> i, call |-> k]
Nothing           == [some |-> FALSE, calls |-> 0]
LastIndex         == Len(transcript)
AnswerOf(r)       == CHOOSE i \in DOMAIN transcript :
                       /\ transcript[i].role = "assistant" /\ transcript[i].run = r
                       /\ \A j \in i + 1 .. LastIndex : transcript[j].role # "assistant"

Goto(r, l) == pc' = [pc EXCEPT ![r] = l]
Fail(r)    == Goto(r, "post_loop") /\ failed' = failed \cup {r}
Move(r, l) == Goto(r, l) /\ UNCHANGED failed

-----------------------------------------------------------------------------
(* Run and the events *)

\* mutant: the flag is not looked at.
RunAnyway(r) ==
  /\ pc[r] = "idle"
  /\ \A q \in 1 .. r - 1 : pc[q] # "idle"
  /\ running' = TRUE
  /\ Goto(r, "pre_loop")
  /\ UNCHANGED <<transcript, ctxDone, iteration, turn, channel, failed, history>>

Run(r) ==
  /\ pc[r] = "idle"
  /\ \A q \in 1 .. r - 1 : pc[q] # "idle"
  /\ ~running
  /\ running' = TRUE
  /\ Goto(r, "pre_loop")
  /\ UNCHANGED <<transcript, ctxDone, iteration, turn, channel, failed, history>>

Cancel(r) ==
  /\ pc[r] \notin {"idle", "over"}
  /\ ~ctxDone[r]
  /\ ctxDone' = [ctxDone EXCEPT ![r] = TRUE]
  /\ UNCHANGED <<running, transcript, pc, iteration, turn, channel, failed, history>>

\* The consumer takes an event, or does not care to.
Receive(r) ==
  /\ buffered[r] > 0
  /\ buffered' = [buffered EXCEPT ![r] = @ - 1]
  /\ UNCHANGED <<running, transcript, pc, ctxDone, iteration, turn, next, failed, sent,
                 history>>

\* mutant: the channel has no bound.
SendUnbounded(r, events) ==
  /\ buffered' = [buffered EXCEPT ![r] = @ + 1]
  /\ sent' = [sent EXCEPT ![r] = @ \o events]

Send(r, events) ==
  /\ buffered[r] < EventBuffer
  /\ buffered' = [buffered EXCEPT ![r] = @ + 1]
  /\ sent' = [sent EXCEPT ![r] = @ \o events]

\* mutant: a full channel is waited for, whatever the context says.
EmitWaits(r, events, l) == Send(r, events) /\ Move(r, l)

\* emit: the event goes out, or the context ends the run.
Emit(r, events, l) ==
  \/ Send(r, events) /\ Move(r, l)
  \/ ctxDone[r] /\ Fail(r) /\ UNCHANGED <<buffered, sent>>

\* The locals of one turn of the loop: as they are declared, and again once it is left.
NewTurn(r) ==
  /\ content' = [content EXCEPT ![r] = Nothing]
  /\ calls' = [calls EXCEPT ![r] = {}]
  /\ refused' = [refused EXCEPT ![r] = {}]
  /\ todo' = [todo EXCEPT ![r] = {}]
  /\ toolErr' = [toolErr EXCEPT ![r] = FALSE]

StateChange(i) == <<<<"state_change", i>>>>

-----------------------------------------------------------------------------
(* executeLoop, up to the answer of the model *)

PreLoop(r) ==
  /\ pc[r] = "pre_loop"
  /\ \/ Fail(r) /\ UNCHANGED <<transcript, next>>
     \/ /\ Move(r, "user")
        /\ transcript' = Append(transcript, Said("user", r, 0))
        /\ next' = [next EXCEPT ![r] = Len(transcript')]
  /\ UNCHANGED <<running, ctxDone, iteration, turn, buffered, sent, history>>

EmitUser(r) ==
  /\ pc[r] = "user"
  /\ Emit(r, StateChange(LastIndex), "iterate")
  /\ UNCHANGED <<running, transcript, ctxDone, iteration, turn, next, history>>

\* The bound, the context, buildRequest with its two hooks, and ChatStream.
Ask(r) ==
  /\ pc[r] = "iterate"
  /\ \/ Fail(r) /\ UNCHANGED <<iteration, turn>>
     \/ /\ iteration[r] < MaxIterations /\ LastIndex <= MaxMessages
        /\ ~ctxDone[r]
        /\ iteration' = [iteration EXCEPT ![r] = @ + 1]
        /\ NewTurn(r)
        /\ Move(r, "stream")
  /\ UNCHANGED <<running, transcript, ctxDone, channel, history>>

\* A chunk is announced first and accumulated then: it may bring nothing (the
\* provider's "done"), text, or a call.
Chunk(r) ==
  /\ pc[r] = "stream"
  /\ Send(r, <<>>)
  /\ \/ UNCHANGED content
     \/ content' = [content EXCEPT ![r].some = TRUE]
     \/ /\ content[r].calls < MaxCalls
        /\ content' = [content EXCEPT ![r] = [some |-> TRUE, calls |-> @.calls + 1]]
  /\ UNCHANGED <<running, transcript, pc, ctxDone, iteration, calls, refused, todo, toolErr,
                 next, failed, history>>

Keep(r) == transcript' = Append(transcript, Said("assistant", r, content[r].calls))

\* The stream reports an error or brings an invalid chunk, which was announced if
\* it could be encoded, or the context ends it: what was received so far is kept
\* as an incomplete message.
StreamFails(r) ==
  /\ pc[r] = "stream"
  /\ UNCHANGED <<buffered, sent>> \/ Send(r, <<>>)
  /\ IF content[r].some
     THEN /\ Keep(r)
          /\ next' = [next EXCEPT ![r] = Len(transcript')]
          /\ Move(r, "partial")
     ELSE Fail(r) /\ UNCHANGED <<transcript, next>>
  /\ UNCHANGED <<running, ctxDone, iteration, turn, history>>

\* The error of the stream ends the run whether or not the event went out.
EmitIncomplete(r) ==
  /\ pc[r] = "partial"
  /\ \/ Send(r, StateChange(LastIndex))
     \/ ctxDone[r] /\ UNCHANGED <<buffered, sent>>
  /\ Fail(r)
  /\ UNCHANGED <<running, transcript, ctxDone, iteration, turn, next, history>>

StreamEnds(r) ==
  /\ pc[r] = "stream"
  /\ IF content[r].some
     THEN /\ Keep(r)
          /\ next' = [next EXCEPT ![r] = Len(transcript')]
          /\ Move(r, "completion")
     ELSE Move(r, "post_model") /\ UNCHANGED <<transcript, next>>
  /\ UNCHANGED <<running, ctxDone, iteration, turn, buffered, sent, history>>

EmitCompletion(r) ==
  /\ pc[r] = "completion"
  /\ Emit(r, <<>>, "state")
  /\ UNCHANGED <<running, transcript, ctxDone, iteration, turn, next, history>>

EmitAnswer(r) ==
  /\ pc[r] = "state"
  /\ Emit(r, StateChange(LastIndex), "post_model")
  /\ UNCHANGED <<running, transcript, ctxDone, iteration, turn, next, history>>

-----------------------------------------------------------------------------
(* The tools *)

\* mutant: what the gate dropped stays dropped.
ReconcileDropped(original, accepted) == accepted

\* reconcileRefusedCalls: every call of the model is answered for.
Reconcile(original, accepted) == original

\* The post_model_call hook; without calls the run is over; the
\* tool_call_received hook, which refuses the calls it does not return.
Gate(r) ==
  LET original == 1 .. content[r].calls IN
  /\ pc[r] = "post_model"
  /\ \/ Fail(r) /\ UNCHANGED <<calls, refused, stopped>>
     \/ original = {} /\ Move(r, "post_loop") /\ UNCHANGED <<calls, refused, stopped>>
     \/ /\ original # {}
        /\ \E accepted \in SUBSET original :
             /\ calls' = [calls EXCEPT ![r] = Reconcile(original, accepted)]
             /\ refused' = [refused EXCEPT ![r] = original \ accepted]
             /\ stopped' = stopped \cup {<<AnswerOf(r), k>> : k \in original \ accepted}
        /\ Move(r, "tool_call")
  /\ UNCHANGED <<running, transcript, ctxDone, iteration, content, todo, toolErr, channel,
                 executed>>

EmitToolCalls(r) ==
  /\ pc[r] = "tool_call"
  /\ Emit(r, <<>>, "pre_tool")
  /\ UNCHANGED <<running, transcript, ctxDone, iteration, turn, next, history>>

\* mutant: a refused call is handed to its tool as well.
OfferAll(r) == calls[r]

Offered(r) == calls[r] \ refused[r]

\* The pre_tool_exec hooks, one call after another: one that refuses ends the run
\* before any tool has started.
PreToolExec(r) ==
  /\ pc[r] = "pre_tool"
  /\ \/ /\ Offered(r) # {}
        /\ Fail(r)
        /\ UNCHANGED <<todo, executed>>
     \/ /\ todo' = [todo EXCEPT ![r] = Offered(r)]
        /\ executed' = executed \cup {<<AnswerOf(r), k>> : k \in Offered(r)}
        /\ Move(r, "tools")
  /\ UNCHANGED <<running, transcript, ctxDone, iteration, content, calls, refused, toolErr,
                 channel, stopped>>

\* The tools run at once, and end in any order.
ToolEnds(r, k) ==
  /\ pc[r] = "tools"
  /\ k \in todo[r]
  /\ todo' = [todo EXCEPT ![r] = @ \ {k}]
  /\ UNCHANGED <<running, transcript, pc, ctxDone, iteration, content, calls, refused, toolErr,
                 channel, failed, history>>

\* The post_tool_exec hook, which may drop results but not make any up, and the
\* tool_result hooks: an error, also that there are fewer results than calls, does
\* not keep the results out of the transcript.
PostToolExec(r) ==
  /\ pc[r] = "tools"
  /\ todo[r] = {}
  /\ \E kept \in SUBSET calls[r], err \in BOOLEAN :
       /\ kept # calls[r] => err
       /\ toolErr' = [toolErr EXCEPT ![r] = err]
       /\ calls' = [calls EXCEPT ![r] = kept]
       /\ IF kept = {} THEN Fail(r) ELSE Move(r, "results")
  /\ UNCHANGED <<running, transcript, ctxDone, iteration, content, refused, todo, channel,
                 history>>

\* mutant: the announcements start behind the first result.
FirstToAnnounceSkips(n) == n + 2

FirstToAnnounce(n) == n + 1

\* The calls in the order of their blocks.
InBlockOrder(S) == CHOOSE f \in [1 .. Cardinality(S) -> S] :
                     \A m, n \in 1 .. Cardinality(S) : m < n => f[m] < f[n]

\* The results are appended together once their event is out, which it cannot be
\* when a hook returned a result that is no JSON.
EmitResults(r) ==
  /\ pc[r] = "results"
  /\ \/ Emit(r, <<>>, "announce")
     \/ toolErr[r] /\ Fail(r) /\ UNCHANGED <<buffered, sent>>
  /\ IF pc'[r] = "announce"
     THEN /\ transcript' = transcript \o
               [n \in 1 .. Cardinality(calls[r]) |->
                  Result(r, AnswerOf(r), InBlockOrder(calls[r])[n])]
          /\ next' = [next EXCEPT ![r] = FirstToAnnounce(LastIndex)]
     ELSE UNCHANGED <<transcript, next>>
  /\ UNCHANGED <<running, ctxDone, iteration, turn, history>>

Announce(r) ==
  /\ pc[r] = "announce"
  /\ next[r] <= LastIndex
  /\ Emit(r, StateChange(next[r]), "announce")
  /\ next' = [next EXCEPT ![r] = @ + 1]
  /\ UNCHANGED <<running, transcript, ctxDone, iteration, turn, history>>

Answered(r) ==
  /\ pc[r] = "announce"
  /\ next[r] > LastIndex
  /\ IF toolErr[r] THEN Fail(r) ELSE Move(r, "iterate")
  /\ UNCHANGED <<running, transcript, ctxDone, iteration, turn, channel, history>>

-----------------------------------------------------------------------------
(* The end of a run *)

\* The post_loop hook may refuse, and so may the encoding of the final state.
PostLoop(r) ==
  /\ pc[r] = "post_loop"
  /\ Goto(r, "last_event")
  /\ failed' \in {failed, failed \cup {r}}
  /\ iteration' = [iteration EXCEPT ![r] = 0]
  /\ NewTurn(r)
  /\ UNCHANGED <<running, transcript, ctxDone, channel, history>>

\* mutant: a failed run says done behind its error.
LastEventsBoth(r) == (IF r \in failed THEN <<<<"error", 0>>>> ELSE <<>>) \o <<<<"done", 0>>>>

LastEvents(r) == <<<<IF r \in failed THEN "error" ELSE "done", 0>>>>

LastEvent(r) ==
  /\ pc[r] = "last_event"
  /\ \/ Send(r, LastEvents(r))
     \/ ctxDone[r] /\ UNCHANGED <<buffered, sent>>
  /\ Move(r, "release")
  /\ UNCHANGED <<running, transcript, ctxDone, iteration, turn, next, history>>

\* The agent is free again before the channel is closed.
Release(r) ==
  /\ pc[r] = "release"
  /\ running' = FALSE
  /\ Move(r, "close")
  /\ UNCHANGED <<transcript, ctxDone, iteration, turn, channel, history>>

\* The channel and the context are the caller's from here; they are not followed on.
CloseEvents(r) ==
  /\ pc[r] = "close"
  /\ Move(r, "over")
  /\ ctxDone' = [ctxDone EXCEPT ![r] = FALSE]
  /\ next' = [next EXCEPT ![r] = 1]
  /\ buffered' = [buffered EXCEPT ![r] = 0]
  /\ sent' = [sent EXCEPT ![r] = <<>>]
  /\ UNCHANGED <<running, transcript, iteration, turn, history>>

-----------------------------------------------------------------------------
Init ==
  /\ running = FALSE /\ transcript = <<>>
  /\ pc = [r \in Runs |-> "idle"] /\ ctxDone = [r \in Runs |-> FALSE]
  /\ iteration = [r \in Runs |-> 0]
  /\ content = [r \in Runs |-> Nothing]
  /\ calls = [r \in Runs |-> {}] /\ refused = [r \in Runs |-> {}]
  /\ todo = [r \in Runs |-> {}] /\ toolErr = [r \in Runs |-> FALSE]
  /\ next = [r \in Runs |-> 1] /\ buffered = [r \in Runs |-> 0]
  /\ failed = {} /\ sent = [r \in Runs |-> <<>>]
  /\ executed = {} /\ stopped = {}

\* What the goroutine does besides taking the chunks of the stream.
Step(r) ==
  \/ PreLoop(r) \/ EmitUser(r) \/ Ask(r) \/ StreamFails(r) \/ EmitIncomplete(r)
  \/ StreamEnds(r) \/ EmitCompletion(r) \/ EmitAnswer(r) \/ Gate(r) \/ EmitToolCalls(r)
  \/ PreToolExec(r) \/ \E k \in Calls : ToolEnds(r, k)
  \/ PostToolExec(r) \/ EmitResults(r) \/ Announce(r) \/ Answered(r)
  \/ PostLoop(r) \/ LastEvent(r) \/ Release(r) \/ CloseEvents(r)

Next == \E r \in Runs : Run(r) \/ Cancel(r) \/ Receive(r) \/ Chunk(r) \/ Step(r)

Spec == Init /\ [][Next]_vars

\* A cancelled run goes on: hooks return, tools and the provider heed their context,
\* and a select with its context done does not take chunks for ever.
Fairness == \A r \in Runs : WF_vars(ctxDone[r] /\ Step(r))

FairSpec == Spec /\ Fairness

-----------------------------------------------------------------------------
(* Properties *)

\* The state is what the declarations of the agent and its accumulator allow.
TypeOK ==
  /\ running \in BOOLEAN /\ transcript \in Seq(Message)
  /\ pc \in [Runs -> Pcs] /\ ctxDone \in [Runs -> BOOLEAN]
  /\ iteration \in [Runs -> 0 .. MaxIterations]
  /\ content \in [Runs -> [some : BOOLEAN, calls : 0 .. MaxCalls]]
  /\ calls \in [Runs -> SUBSET Calls] /\ refused \in [Runs -> SUBSET Calls]
  /\ todo \in [Runs -> SUBSET Calls] /\ toolErr \in [Runs -> BOOLEAN]
  /\ next \in [Runs -> Nat] /\ buffered \in [Runs -> 0 .. EventBuffer]
  /\ failed \subseteq Runs
  /\ sent \in [Runs -> Seq({"state_change", "error", "done"} \X Nat)]
  /\ executed \subseteq (Nat \X Calls) /\ stopped \subseteq (Nat \X Calls)

\* The messages of a run are together: no run appends between those of another.
RunsApart ==
  \A i, j, k \in DOMAIN transcript :
    i < j /\ j < k /\ transcript[i].run = transcript[k].run
      => transcript[j].run = transcript[i].run

\* The messages that answer the calls of the i-th message, and the calls they answer.
ResultsOf(i) == {j \in DOMAIN transcript : transcript[j].of = i}
Results(i)   == {transcript[j].call : j \in ResultsOf(i)}
Dangling(i)  == (1 .. transcript[i].calls) \ Results(i)
InOrder(i)   == /\ ResultsOf(i) = i + 1 .. i + Cardinality(ResultsOf(i))
                /\ \A j, k \in ResultsOf(i) :
                     j < k => transcript[j].call < transcript[k].call

\* A call without its result is in the last answer of a run that failed or is
\* still at it, and results stand directly behind their answer in the order of its
\* calls: refusals, failing hooks and a gate that drops calls leave no other trace.
OnlyTheLastDangles ==
  \A i \in DOMAIN transcript :
    /\ InOrder(i)
    /\ Dangling(i) # {} =>
         LET r == transcript[i].run IN
         /\ r \in failed \/ pc[r] \in Loop \ {"iterate", "stream"}
         /\ \A j \in i + 1 .. LastIndex :
              transcript[j].run = r => transcript[j].role = "tool"

\* A call that has a result was run or refused, and never both; each run of a tool
\* belongs to a call the model made.
RunOrRefused ==
  /\ executed \cap stopped = {}
  /\ \A i \in DOMAIN transcript : \A k \in Results(i) : <<i, k>> \in executed \cup stopped
  /\ \A c \in executed : c[2] <= transcript[c[1]].calls

\* The state changes a run announced are the messages it appended, in order and
\* without a gap, and all of them once it says done.
Own(r)  == {i \in DOMAIN transcript : transcript[i].run = r}
Told(r) == {n \in DOMAIN sent[r] : sent[r][n][1] = "state_change"}
AnnouncedInOrder ==
  \A r \in Runs :
    /\ \A n \in Told(r) :
         /\ sent[r][n][2] \in Own(r)
         /\ \A m \in Told(r) : m < n => sent[r][m][2] < sent[r][n][2]
         /\ \A i \in Own(r) : i < sent[r][n][2] => \E m \in Told(r) : sent[r][m][2] = i
    /\ <<"done", 0>> \in ToSet(sent[r]) => \A i \in Own(r) : \E n \in Told(r) : sent[r][n][2] = i

\* The stream of a run ends once: nothing follows its error or done event, which
\* says whether it failed, and only a cancelled run ends without one.
SaysHowItEnded ==
  \A r \in Runs :
    /\ \A n \in DOMAIN sent[r] : sent[r][n][1] # "state_change" => n = Len(sent[r])
    /\ pc[r] \in {"release", "close"} =>
         \/ ctxDone[r] /\ ToSet(sent[r]) \cap {<<"error", 0>>, <<"done", 0>>} = {}
         \/ sent[r] # <<>> /\ Last(sent[r])[1] = IF r \in failed THEN "error" ELSE "done"

\* A cancelled run ends, though nobody reads its events: it is never stuck on its
\* channel, in a tool that heeds the context, or on the next run.
CancelledEnds == \A r \in Runs : ctxDone[r] ~> pc[r] = "over"

\* "every one of the three API formats requires an answer for each: a tool_use
\* with no tool_result is a rejected request" (loop.go:149): what is sent to the
\* model has a result for every call.
RequestsAreAnswered ==
  \A r \in Runs : pc[r] = "stream" => \A i \in DOMAIN transcript : Dangling(i) = {}
=============================================================================
