---------------------------- MODULE AgentLoopProofs ----------------------------
(***************************************************************************)
(* What holds of an agent for every number of runs, calls, iterations and  *)
(* messages, and every size of the event channel: its runs keep apart, a   *)
(* call without a result is in the last answer of a run that failed, and   *)
(* the events tell what was appended and how the run ended.                *)
(*                                                                         *)
(* The invariants follow the one run that is active from label to label:   *)
(* which message is the last one while it works on the calls of an answer, *)
(* which calls have a mark, and which messages are still to be announced.  *)
(***************************************************************************)
EXTENDS AgentLoop, DataLemmas

Active  == Loop \cup Ending
Holding == {"completion", "state", "post_model", "tool_call", "pre_tool", "tools", "results"}

\* One run at a time, in the order of their numbers.
TurnsInv ==
  /\ \A r \in Runs : pc[r] \in Active => running
  /\ \A q, r \in Runs : pc[q] \in Active /\ pc[r] \in Active => q = r
  /\ \A q, r \in Runs : q < r /\ pc[r] # "idle" => pc[q] \notin Active \cup {"idle"}
  /\ \A i \in DOMAIN transcript : pc[transcript[i].run] # "idle"
  /\ \A i, j \in DOMAIN transcript : i < j => transcript[i].run <= transcript[j].run

\* The answer a run works on is the last message, and these are its calls.
IsLast(r) == LastIndex > 0 /\ transcript[LastIndex] = Said("assistant", r, content[r].calls)
CallsOf(r) ==
  /\ content[r].calls > 0 => content[r].some
  /\ pc[r] \in {"completion", "state"} => content[r].some
  /\ pc[r] \in {"tool_call", "pre_tool", "tools", "results", "announce"} =>
       content[r].calls > 0 /\ calls[r] \subseteq 1 .. content[r].calls
  /\ pc[r] \in {"tool_call", "pre_tool", "tools"} => calls[r] = 1 .. content[r].calls
  /\ pc[r] \in {"results", "announce"} /\ ~toolErr[r] => calls[r] = 1 .. content[r].calls
CallsInv == \A r \in Runs : CallsOf(r)
LastInv == \A r \in Runs : pc[r] \in Holding /\ content[r].some => IsLast(r)

-----------------------------------------------------------------------------
(* The operators of the model *)

\* The answer whose calls a run works on.
LEMMA AnswerIsLast ==
  ASSUME TypeOK, NEW r \in Runs, IsLast(r)
  PROVE  AnswerOf(r) = LastIndex /\ LastIndex \in Nat /\ LastIndex \in DOMAIN transcript
<1>1. LastIndex \in Nat /\ DOMAIN transcript = 1 .. LastIndex /\ LastIndex \in DOMAIN transcript
  BY DEF TypeOK, LastIndex, IsLast
<1> DEFINE P(i) == /\ transcript[i].role = "assistant" /\ transcript[i].run = r
                   /\ \A j \in i + 1 .. LastIndex : transcript[j].role # "assistant"
<1>2. P(LastIndex)
  BY <1>1 DEF IsLast, Said
<1>3. ASSUME NEW i \in DOMAIN transcript, P(i) PROVE i = LastIndex
  <2>1. i < LastIndex => LastIndex \in i + 1 .. LastIndex
    BY <1>1
  <2> QED BY <1>1, <1>2, <1>3, <2>1
<1> HIDE DEF P
<1>4. (CHOOSE i \in DOMAIN transcript : P(i)) = LastIndex
  BY <1>1, <1>2, <1>3
<1> QED BY <1>1, <1>4 DEF AnswerOf, P

\* The results of a set of calls are one for each, in the order of the calls.
LEMMA BlockOrder ==
  ASSUME NEW S \in SUBSET Calls
  PROVE  /\ Cardinality(S) \in Nat
         /\ InBlockOrder(S) \in [1 .. Cardinality(S) -> S]
         /\ \A m, n \in 1 .. Cardinality(S) : m < n => InBlockOrder(S)[m] < InBlockOrder(S)[n]
         /\ \A k \in S : \E n \in 1 .. Cardinality(S) : InBlockOrder(S)[n] = k
<1> DEFINE N == Cardinality(S)
           f == InBlockOrder(S)
<1>1. S \in SUBSET (0 .. MaxCalls) /\ MaxCalls \in Nat /\ S \in SUBSET Nat
  BY Parameters DEF Parameters, Calls
<1>2. IsFiniteSet(S) /\ N \in Nat
  <2>1. IsFiniteSet(0 .. MaxCalls)
    BY <1>1, FS_Interval
  <2> QED BY <1>1, <2>1, FS_Subset, FS_CardinalityType
<1>3. f \in [1 .. N -> S] /\ \A m, n \in 1 .. N : m < n => f[m] < f[n]
  BY <1>1, Enumeration DEF InBlockOrder
<1>4. f \in Injection(1 .. N, S)
  <2>1. ASSUME NEW m \in 1 .. N, NEW n \in 1 .. N, m # n PROVE f[m] # f[n]
    <3> HIDE DEF f
    <3>1. m < n \/ n < m
      BY <1>2, <2>1
    <3>2. f[m] \in Nat /\ f[n] \in Nat
      BY <1>1, <1>3
    <3> QED BY <1>3, <3>1, <3>2
  <2> QED BY <1>3, <2>1 DEF Injection, IsInjective
<1>5. f \in Surjection(1 .. N, S)
  <2>1. IsFiniteSet(1 .. N) /\ Cardinality(1 .. N) = N
    BY <1>2, FS_Interval
  <2> HIDE DEF f
  <2> QED BY <1>2, <1>4, <2>1, FS_Injection
<1>6. \A k \in S : \E n \in 1 .. N : f[n] = k
  BY <1>5 DEF Surjection
<1> QED BY <1>2, <1>3, <1>6

-----------------------------------------------------------------------------
(* Types *)

Event == {"state_change", "error", "done"} \X Nat

\* What is sent are events, and no more of them wait than the channel holds.
LEMMA SendType ==
  ASSUME TypeOK, NEW r \in Runs, NEW events \in Seq(Event), Send(r, events)
  PROVE  /\ buffered' \in [Runs -> 0 .. EventBuffer]
         /\ sent' \in [Runs -> Seq({"state_change", "error", "done"} \X Nat)]
<1>1. buffered' \in [Runs -> 0 .. EventBuffer]
  BY Parameters DEF Parameters, TypeOK, Send
<1>2. sent[r] \o events \in Seq(Event)
  BY DEF TypeOK, Event
<1>3. sent' = [sent EXCEPT ![r] = sent[r] \o events] /\ sent \in [Runs -> Seq(Event)]
  BY DEF Send, TypeOK, Event
<1>4. sent' \in [Runs -> Seq(Event)]
  BY <1>2, <1>3
<1> QED BY <1>1, <1>4 DEF Event

\* A run goes from place to place, or to its last hook when it fails.
LEMMA MoveType ==
  ASSUME TypeOK, NEW r \in Runs, NEW l \in Pcs
  PROVE  /\ Goto(r, l) => pc' \in [Runs -> Pcs]
         /\ Move(r, l) => pc' \in [Runs -> Pcs] /\ failed' \subseteq Runs
         /\ Fail(r) => pc' \in [Runs -> Pcs] /\ failed' \subseteq Runs
<1>1. "post_loop" \in Pcs
  BY DEF Pcs, Loop, Ending
<1> QED BY <1>1 DEF TypeOK, Goto, Move, Fail

\* The same of an event that is sent or given up.
LEMMA EmitType ==
  ASSUME TypeOK, NEW r \in Runs, NEW events \in Seq(Event), NEW l \in Pcs, Emit(r, events, l)
  PROVE  /\ buffered' \in [Runs -> 0 .. EventBuffer]
         /\ sent' \in [Runs -> Seq({"state_change", "error", "done"} \X Nat)]
         /\ pc' \in [Runs -> Pcs] /\ failed' \subseteq Runs
<1>1. buffered \in [Runs -> 0 .. EventBuffer] /\ sent \in [Runs -> Seq({"state_change", "error", "done"} \X Nat)]
  BY DEF TypeOK
<1> QED BY <1>1, SendType, MoveType DEF Emit

\* The events the loop sends are events.
LEMMA EventTypes ==
  /\ <<>> \in Seq(Event)
  /\ \A i \in Nat : StateChange(i) \in Seq(Event)
  /\ \A r : LastEvents(r) \in Seq(Event)
  BY DEF Event, StateChange, LastEvents

\* A new turn begins with empty locals.
LEMMA NewTurnType ==
  ASSUME TypeOK, NEW r \in Runs, NewTurn(r)
  PROVE  /\ content' \in [Runs -> [some : BOOLEAN, calls : 0 .. MaxCalls]]
         /\ calls' \in [Runs -> SUBSET Calls] /\ refused' \in [Runs -> SUBSET Calls]
         /\ todo' \in [Runs -> SUBSET Calls] /\ toolErr' \in [Runs -> BOOLEAN]
<1>1. Nothing \in [some : BOOLEAN, calls : 0 .. MaxCalls]
  BY Parameters DEF Parameters, Nothing
<1> QED BY <1>1 DEF TypeOK, NewTurn

\* A message more.
LEMMA SaidType ==
  ASSUME TypeOK, NEW r \in Runs, NEW role \in {"user", "assistant"}, NEW n \in 0 .. MaxCalls,
         transcript' = Append(transcript, Said(role, r, n))
  PROVE  transcript' \in Seq(Message) /\ Len(transcript') \in Nat
<1>1. Said(role, r, n) \in Message
  BY Parameters DEF Parameters, Said, Message
<1> QED BY <1>1 DEF TypeOK

\* The messages of the results.
ResultsFor(r) == [n \in 1 .. Cardinality(calls[r]) |->
                    Result(r, AnswerOf(r), InBlockOrder(calls[r])[n])]

\* Results are messages, one for each call that was run.
LEMMA ResultsType ==
  ASSUME TypeOK, NEW r \in Runs, IsLast(r)
  PROVE  ResultsFor(r) \in Seq(Message) /\ Len(ResultsFor(r)) = Cardinality(calls[r])
         /\ Cardinality(calls[r]) \in Nat
<1> DEFINE S == calls[r]
<1>1. /\ S \in SUBSET Calls /\ Cardinality(S) \in Nat
      /\ InBlockOrder(S) \in [1 .. Cardinality(S) -> S]
  BY BlockOrder DEF TypeOK
<1>2. AnswerOf(r) \in Nat
  BY AnswerIsLast
<1>3. \A n \in 1 .. Cardinality(S) : InBlockOrder(S)[n] \in 0 .. MaxCalls
  BY <1>1, Parameters DEF Parameters, Calls
<1>4. \A n \in 1 .. Cardinality(S) : Result(r, AnswerOf(r), InBlockOrder(S)[n]) \in Message
  BY <1>2, <1>3, Parameters DEF Parameters, Result, Message
<1> QED BY <1>1, <1>4 DEF ResultsFor

\* Every step keeps the types.
LEMMA TypeStep == TypeOK /\ CallsInv /\ LastInv /\ [Next]_vars => TypeOK'
<1> SUFFICES ASSUME TypeOK, CallsInv, LastInv, [Next]_vars PROVE TypeOK'
  OBVIOUS
<1> USE DEF turn, channel, history
<1>p. Loop \subseteq Pcs /\ Ending \subseteq Pcs /\ "close" \in Pcs /\ "over" \in Pcs
  BY DEF Pcs
<1>1. CASE UNCHANGED vars
  BY <1>1 DEF TypeOK, vars
<1> SUFFICES ASSUME NEW r \in Runs, Run(r) \/ Cancel(r) \/ Receive(r) \/ Chunk(r) \/ Step(r)
             PROVE  TypeOK'
  BY <1>1 DEF Next
<1>l. LastIndex \in Nat /\ StateChange(LastIndex) \in Seq(Event)
  BY EventTypes DEF TypeOK, LastIndex
<1>k. Keep(r) => transcript' \in Seq(Message) /\ [next EXCEPT ![r] = Len(transcript')] \in [Runs -> Nat]
  <2>1. content[r].calls \in 0 .. MaxCalls
    BY DEF TypeOK
  <2> QED BY <2>1, SaidType DEF Keep, TypeOK
<1>2. CASE Run(r)
  BY <1>2, <1>p, MoveType DEF TypeOK, Run, Loop
<1>3. CASE Cancel(r)
  BY <1>3 DEF TypeOK, Cancel
<1>4. CASE Receive(r)
  <2>1. buffered[r] \in 0 .. EventBuffer /\ buffered[r] > 0
    BY <1>4 DEF TypeOK, Receive
  <2>2. buffered[r] - 1 \in 0 .. EventBuffer
    BY <2>1, Parameters DEF Parameters
  <2>3. buffered' \in [Runs -> 0 .. EventBuffer]
    BY <1>4, <2>2 DEF TypeOK, Receive
  <2> QED BY <1>4, <2>3 DEF TypeOK, Receive
<1>5. CASE Chunk(r)
  <2>1. content' \in [Runs -> [some : BOOLEAN, calls : 0 .. MaxCalls]]
    <3>1. content[r] \in [some : BOOLEAN, calls : 0 .. MaxCalls]
      BY DEF TypeOK
    <3>2. CASE content[r].calls < MaxCalls
               /\ content' = [content EXCEPT ![r] = [some |-> TRUE, calls |-> @.calls + 1]]
      <4>1. content[r].calls + 1 \in 0 .. MaxCalls
        BY <3>1, <3>2, Parameters DEF Parameters
      <4>2. [some |-> TRUE, calls |-> content[r].calls + 1] \in [some : BOOLEAN, calls : 0 .. MaxCalls]
        BY <4>1
      <4> QED BY <3>2, <4>2 DEF TypeOK
    <3>3. CASE content' = [content EXCEPT ![r].some = TRUE]
      BY <3>1, <3>3 DEF TypeOK
    <3>4. CASE UNCHANGED content
      BY <3>4 DEF TypeOK
    <3> QED BY <1>5, <3>2, <3>3, <3>4 DEF Chunk
  <2>2. Send(r, <<>>)
    BY <1>5 DEF Chunk
  <2> QED BY <1>5, <2>1, <2>2, SendType, EventTypes DEF TypeOK, Chunk
<1>6. CASE PreLoop(r)
  <2>1. "user" \in Pcs /\ 0 \in 0 .. MaxCalls
    BY <1>p, Parameters DEF Parameters, Loop
  <2>2. CASE Fail(r) /\ UNCHANGED <<transcript, next>>
    BY <1>6, <2>1, <2>2, MoveType DEF TypeOK, PreLoop
  <2>3. CASE /\ Move(r, "user")
             /\ transcript' = Append(transcript, Said("user", r, 0))
             /\ next' = [next EXCEPT ![r] = Len(transcript')]
    <3>1. transcript' \in Seq(Message) /\ Len(transcript') \in Nat
      BY <2>1, <2>3, SaidType
    <3> QED BY <1>6, <2>1, <2>3, <3>1, MoveType DEF TypeOK, PreLoop
  <2> QED BY <1>6, <2>2, <2>3 DEF PreLoop
<1>7. CASE EmitUser(r) \/ EmitAnswer(r)
  <2>1. Emit(r, StateChange(LastIndex), "iterate") \/ Emit(r, StateChange(LastIndex), "post_model")
    BY <1>7 DEF EmitUser, EmitAnswer
  <2>2. "iterate" \in Pcs /\ "post_model" \in Pcs
    BY <1>p DEF Loop
  <2> QED BY <1>7, <1>l, <2>1, <2>2, EmitType DEF TypeOK, EmitUser, EmitAnswer
<1>8. CASE Ask(r)
  <2>1. "stream" \in Pcs
    BY <1>p DEF Loop
  <2>2. CASE Fail(r) /\ UNCHANGED <<iteration, turn>>
    BY <1>8, <2>2, MoveType DEF TypeOK, Ask
  <2>3. CASE /\ iteration[r] < MaxIterations
             /\ iteration' = [iteration EXCEPT ![r] = @ + 1]
             /\ NewTurn(r)
             /\ Move(r, "stream")
    <3>1. iteration[r] + 1 \in 0 .. MaxIterations
      BY <2>3, Parameters DEF Parameters, TypeOK
    <3>2. iteration' \in [Runs -> 0 .. MaxIterations]
      BY <2>3, <3>1 DEF TypeOK
    <3> QED BY <1>8, <2>1, <2>3, <3>2, NewTurnType, MoveType DEF TypeOK, Ask
  <2> QED BY <1>8, <2>2, <2>3 DEF Ask
<1>9. CASE StreamFails(r)
  <2>1. buffered' \in [Runs -> 0 .. EventBuffer]
        /\ sent' \in [Runs -> Seq({"state_change", "error", "done"} \X Nat)]
    BY <1>9, SendType, EventTypes DEF TypeOK, StreamFails
  <2>2. /\ transcript' \in Seq(Message) /\ next' \in [Runs -> Nat]
        /\ pc' \in [Runs -> Pcs] /\ failed' \subseteq Runs
    BY <1>9, <1>k, <1>p, MoveType DEF TypeOK, StreamFails, Loop
  <2> QED BY <1>9, <2>1, <2>2 DEF TypeOK, StreamFails
<1>10. CASE EmitIncomplete(r)
  <2>1. buffered' \in [Runs -> 0 .. EventBuffer]
        /\ sent' \in [Runs -> Seq({"state_change", "error", "done"} \X Nat)]
    BY <1>10, <1>l, SendType DEF TypeOK, EmitIncomplete
  <2> QED BY <1>10, <2>1, MoveType DEF TypeOK, EmitIncomplete
<1>11. CASE StreamEnds(r)
  <2>1. /\ transcript' \in Seq(Message) /\ next' \in [Runs -> Nat]
        /\ pc' \in [Runs -> Pcs] /\ failed' \subseteq Runs
    BY <1>11, <1>k, <1>p, MoveType DEF TypeOK, StreamEnds, Loop
  <2> QED BY <1>11, <2>1 DEF TypeOK, StreamEnds
<1>12. CASE EmitCompletion(r) \/ EmitToolCalls(r)
  <2>1. Emit(r, <<>>, "state") \/ Emit(r, <<>>, "pre_tool")
    BY <1>12 DEF EmitCompletion, EmitToolCalls
  <2>2. "state" \in Pcs /\ "pre_tool" \in Pcs
    BY <1>p DEF Loop
  <2> QED BY <1>12, <2>1, <2>2, EmitType, EventTypes DEF TypeOK, EmitCompletion, EmitToolCalls
<1>13. CASE Gate(r)
  <2>1. 1 .. content[r].calls \subseteq Calls
    BY Parameters DEF Parameters, TypeOK, Calls
  <2>2. pc' \in [Runs -> Pcs] /\ failed' \subseteq Runs
    BY <1>13, <1>p, MoveType DEF Gate, Loop, Ending
  <2>3. CASE UNCHANGED <<calls, refused, stopped>>
    BY <1>13, <2>2, <2>3 DEF TypeOK, Gate
  <2>4. CASE /\ 1 .. content[r].calls # {}
             /\ \E accepted \in SUBSET (1 .. content[r].calls) :
                  /\ calls' = [calls EXCEPT ![r] = Reconcile(1 .. content[r].calls, accepted)]
                  /\ refused' = [refused EXCEPT ![r] = (1 .. content[r].calls) \ accepted]
                  /\ stopped' = stopped \cup {<<AnswerOf(r), k>> : k \in (1 .. content[r].calls) \ accepted}
    <3>1. AnswerOf(r) \in Nat
      <4>1. content[r].calls > 0
        BY <2>4 DEF TypeOK
      <4>2. IsLast(r)
        BY <1>13, <4>1 DEF Gate, CallsInv, CallsOf, LastInv, Holding
      <4> QED BY <4>2, AnswerIsLast
    <3>2. PICK accepted \in SUBSET (1 .. content[r].calls) :
            /\ calls' = [calls EXCEPT ![r] = 1 .. content[r].calls]
            /\ refused' = [refused EXCEPT ![r] = (1 .. content[r].calls) \ accepted]
            /\ stopped' = stopped \cup {<<AnswerOf(r), k>> : k \in (1 .. content[r].calls) \ accepted}
      BY <2>4 DEF Reconcile
    <3>3. stopped' \subseteq (Nat \X Calls)
      BY <2>1, <3>1, <3>2 DEF TypeOK
    <3>4. calls' \in [Runs -> SUBSET Calls] /\ refused' \in [Runs -> SUBSET Calls]
      BY <2>1, <3>2 DEF TypeOK
    <3> QED BY <1>13, <2>2, <3>3, <3>4 DEF TypeOK, Gate
  <2> QED BY <1>13, <2>3, <2>4 DEF Gate
<1>14. CASE PreToolExec(r)
  <2>1. pc' \in [Runs -> Pcs] /\ failed' \subseteq Runs
    BY <1>14, <1>p, MoveType DEF PreToolExec, Loop
  <2>2. IsLast(r) /\ AnswerOf(r) \in Nat
    BY <1>14, AnswerIsLast DEF PreToolExec, CallsInv, CallsOf, LastInv, Holding
  <2>3. Offered(r) \subseteq Calls
    BY DEF Offered, TypeOK
  <2>4. todo' \in [Runs -> SUBSET Calls] /\ executed' \subseteq (Nat \X Calls)
    <3>1. {<<AnswerOf(r), k>> : k \in Offered(r)} \subseteq (Nat \X Calls)
      BY <2>2, <2>3
    <3>2. executed \subseteq (Nat \X Calls) /\ todo \in [Runs -> SUBSET Calls]
      BY DEF TypeOK
    <3>3. executed' = executed \/ executed' = executed \cup {<<AnswerOf(r), k>> : k \in Offered(r)}
      BY <1>14 DEF PreToolExec
    <3>4. todo' = todo \/ todo' = [todo EXCEPT ![r] = Offered(r)]
      BY <1>14 DEF PreToolExec
    <3> QED BY <2>3, <3>1, <3>2, <3>3, <3>4
  <2> QED BY <1>14, <2>1, <2>4 DEF TypeOK, PreToolExec
<1>15. ASSUME NEW k \in Calls, ToolEnds(r, k) PROVE TypeOK'
  BY <1>15 DEF TypeOK, ToolEnds
<1>16. CASE PostToolExec(r)
  <2>1. PICK kept \in SUBSET calls[r], err \in BOOLEAN :
          /\ toolErr' = [toolErr EXCEPT ![r] = err]
          /\ calls' = [calls EXCEPT ![r] = kept]
          /\ IF kept = {} THEN Fail(r) ELSE Move(r, "results")
    BY <1>16 DEF PostToolExec
  <2>2. pc' \in [Runs -> Pcs] /\ failed' \subseteq Runs
    BY <1>p, <2>1, MoveType DEF Loop
  <2>3. kept \in SUBSET Calls
    BY DEF TypeOK
  <2> QED BY <1>16, <2>1, <2>2, <2>3 DEF TypeOK, PostToolExec
<1>17. CASE EmitResults(r)
  <2>1. /\ buffered' \in [Runs -> 0 .. EventBuffer]
        /\ sent' \in [Runs -> Seq({"state_change", "error", "done"} \X Nat)]
        /\ pc' \in [Runs -> Pcs] /\ failed' \subseteq Runs
    <3>1. "announce" \in Pcs
      BY <1>p DEF Loop
    <3>2. CASE Emit(r, <<>>, "announce")
      BY <3>1, <3>2, EmitType, EventTypes
    <3>3. CASE Fail(r) /\ UNCHANGED <<buffered, sent>>
      BY <3>3, MoveType DEF TypeOK
    <3> QED BY <1>17, <3>2, <3>3 DEF EmitResults
  <2>2. IsLast(r)
    BY <1>17 DEF EmitResults, CallsInv, CallsOf, LastInv, Holding
  <2>3. transcript' \in Seq(Message)
    <3>1. transcript' = transcript \o ResultsFor(r) \/ transcript' = transcript
      BY <1>17 DEF EmitResults, ResultsFor
    <3>2. ResultsFor(r) \in Seq(Message) /\ transcript \in Seq(Message)
      BY <2>2, ResultsType DEF TypeOK
    <3>3. transcript \o ResultsFor(r) \in Seq(Message)
      BY <3>2
    <3> QED BY <3>1, <3>2, <3>3
  <2>4. next' \in [Runs -> Nat]
    <3>1. next' = [next EXCEPT ![r] = LastIndex + 1] \/ next' = next
      BY <1>17 DEF EmitResults, FirstToAnnounce
    <3>2. LastIndex + 1 \in Nat
      BY <1>l
    <3> QED BY <3>1, <3>2 DEF TypeOK
  <2> QED BY <1>17, <2>1, <2>3, <2>4 DEF TypeOK, EmitResults
<1>18. CASE Announce(r)
  <2>1. "announce" \in Pcs /\ next[r] \in Nat /\ StateChange(next[r]) \in Seq(Event)
    BY <1>p, EventTypes DEF Loop, TypeOK
  <2>2. next' = [next EXCEPT ![r] = next[r] + 1] /\ next[r] + 1 \in Nat
    BY <1>18, <2>1 DEF Announce
  <2>3. next' \in [Runs -> Nat]
    BY <2>2 DEF TypeOK
  <2>4. /\ buffered' \in [Runs -> 0 .. EventBuffer]
        /\ sent' \in [Runs -> Seq({"state_change", "error", "done"} \X Nat)]
        /\ pc' \in [Runs -> Pcs] /\ failed' \subseteq Runs
    BY <1>18, <2>1, EmitType DEF Announce
  <2> QED BY <1>18, <2>3, <2>4 DEF TypeOK, Announce
<1>19. CASE Answered(r)
  BY <1>19, <1>p, MoveType DEF TypeOK, Answered, Loop
<1>20. CASE PostLoop(r)
  <2>1. "last_event" \in Pcs /\ 0 \in 0 .. MaxIterations
    BY <1>p, Parameters DEF Parameters, Ending
  <2>2. pc' \in [Runs -> Pcs]
    BY <1>20, <2>1, MoveType DEF PostLoop
  <2>3. /\ content' \in [Runs -> [some : BOOLEAN, calls : 0 .. MaxCalls]]
        /\ calls' \in [Runs -> SUBSET Calls] /\ refused' \in [Runs -> SUBSET Calls]
        /\ todo' \in [Runs -> SUBSET Calls] /\ toolErr' \in [Runs -> BOOLEAN]
    BY <1>20, NewTurnType DEF PostLoop
  <2>4. iteration' \in [Runs -> 0 .. MaxIterations] /\ failed' \subseteq Runs
    BY <1>20, <2>1 DEF TypeOK, PostLoop
  <2> QED BY <1>20, <2>2, <2>3, <2>4 DEF TypeOK, PostLoop
<1>21. CASE LastEvent(r)
  <2>1. buffered' \in [Runs -> 0 .. EventBuffer]
        /\ sent' \in [Runs -> Seq({"state_change", "error", "done"} \X Nat)]
    BY <1>21, SendType, EventTypes DEF TypeOK, LastEvent
  <2> QED BY <1>21, <1>p, <2>1, MoveType DEF TypeOK, LastEvent, Ending
<1>22. CASE Release(r)
  BY <1>22, <1>p, MoveType DEF TypeOK, Release
<1>23. CASE CloseEvents(r)
  <2>1. 0 \in 0 .. EventBuffer /\ <<>> \in Seq({"state_change", "error", "done"} \X Nat)
    BY Parameters DEF Parameters
  <2>2. pc' \in [Runs -> Pcs] /\ failed' \subseteq Runs
    BY <1>23, <1>p, MoveType DEF CloseEvents
  <2> QED BY <1>23, <2>1, <2>2 DEF TypeOK, CloseEvents
<1> QED BY <1>2, <1>3, <1>4, <1>5, <1>6, <1>7, <1>8, <1>9, <1>10, <1>11, <1>12, <1>13, <1>14,
           <1>15, <1>16, <1>17, <1>18, <1>19, <1>20, <1>21, <1>22, <1>23 DEF Step

-----------------------------------------------------------------------------
(* One run at a time *)

\* What the goroutine of a run does until it frees the agent.
Work(r) ==
  \/ Chunk(r) \/ PreLoop(r) \/ EmitUser(r) \/ Ask(r) \/ StreamFails(r) \/ EmitIncomplete(r)
  \/ StreamEnds(r) \/ EmitCompletion(r) \/ EmitAnswer(r) \/ Gate(r) \/ EmitToolCalls(r)
  \/ PreToolExec(r) \/ \E k \in Calls : ToolEnds(r, k)
  \/ PostToolExec(r) \/ EmitResults(r) \/ Announce(r) \/ Answered(r)
  \/ PostLoop(r) \/ LastEvent(r)

\* The messages a step appends are those of its run.
Appends(r) ==
  \E z \in Seq(Message) : transcript' = transcript \o z /\ \A n \in DOMAIN z : z[n].run = r

\* A message of the run at the end of the transcript is what the step appends.
LEMMA AppendsOne ==
  ASSUME TypeOK, NEW r \in Runs, NEW role \in {"user", "assistant"}, NEW n \in 0 .. MaxCalls,
         transcript' = Append(transcript, Said(role, r, n))
  PROVE  Appends(r)
<1> DEFINE m == Said(role, r, n)
<1>1. m \in Message /\ m.run = r
  BY Parameters DEF Parameters, Said, Message
<1> HIDE DEF m
<1>2. <<m>> \in Seq(Message) /\ \A k \in DOMAIN <<m>> : <<m>>[k].run = r
  BY <1>1
<1>3. transcript' = transcript \o <<m>>
  BY <1>1 DEF TypeOK, m
<1> QED BY <1>2, <1>3 DEF Appends

\* A step that leaves the transcript alone appends nothing of another run.
LEMMA AppendsNone ==
  ASSUME TypeOK, NEW r \in Runs, transcript' = transcript PROVE Appends(r)
<1>1. <<>> \in Seq(Message) /\ DOMAIN <<>> = {} /\ transcript \o <<>> = transcript
  BY DEF TypeOK
<1> QED BY <1>1 DEF Appends

\* A run at work stays at work, and appends its own messages only.
LEMMA WorkStays ==
  ASSUME TypeOK, CallsInv, LastInv, NEW r \in Runs, Work(r)
  PROVE  /\ pc[r] \in Active /\ running' = running
         /\ \E l \in Active : pc' = [pc EXCEPT ![r] = l]
         /\ Appends(r)
<1> USE DEF turn, channel, history, Active, Loop, Ending, Move, Goto, Fail, Emit
<1>0. \A l \in Active : pc' = [pc EXCEPT ![r] = l] => \E m \in Active : pc' = [pc EXCEPT ![r] = m]
  OBVIOUS
<1>k. Keep(r) => Appends(r)
  <2>1. content[r].calls \in 0 .. MaxCalls
    BY DEF TypeOK
  <2> QED BY <2>1, AppendsOne DEF Keep
<1>n. transcript' = transcript => Appends(r)
  BY AppendsNone
<1>c. pc' = pc /\ pc[r] \in Active => \E l \in Active : pc' = [pc EXCEPT ![r] = l]
  BY DEF TypeOK
<1>1. CASE Chunk(r) \/ \E k \in Calls : ToolEnds(r, k)
  BY <1>1, <1>c, <1>n DEF Chunk, ToolEnds
<1>2. CASE PreLoop(r)
  <2>1. transcript' = Append(transcript, Said("user", r, 0)) => Appends(r)
    BY AppendsOne, Parameters DEF Parameters
  <2> QED BY <1>2, <1>n, <2>1 DEF PreLoop
<1>3. CASE EmitUser(r) \/ EmitIncomplete(r) \/ EmitCompletion(r) \/ EmitAnswer(r) \/ EmitToolCalls(r)
  BY <1>3, <1>n DEF EmitUser, EmitIncomplete, EmitCompletion, EmitAnswer, EmitToolCalls
<1>4. CASE Ask(r)
  BY <1>4, <1>n DEF Ask
<1>5. CASE StreamFails(r)
  BY <1>5, <1>k, <1>n DEF StreamFails
<1>6. CASE StreamEnds(r)
  BY <1>6, <1>k, <1>n DEF StreamEnds
<1>7. CASE Gate(r)
  BY <1>7, <1>n DEF Gate
<1>8. CASE PreToolExec(r) \/ PostToolExec(r)
  BY <1>8, <1>n DEF PreToolExec, PostToolExec
<1>9. CASE EmitResults(r)
  <2>1. IsLast(r)
    BY <1>9 DEF EmitResults, CallsInv, CallsOf, LastInv, Holding
  <2>2. /\ ResultsFor(r) \in Seq(Message)
        /\ \A n \in DOMAIN ResultsFor(r) : ResultsFor(r)[n].run = r
    BY <2>1, ResultsType DEF ResultsFor, Result
  <2>3. transcript' = transcript \o ResultsFor(r) => Appends(r)
    BY <2>2 DEF Appends
  <2>4. transcript' = transcript \o ResultsFor(r) \/ transcript' = transcript
    BY <1>9 DEF EmitResults, ResultsFor
  <2> QED BY <1>9, <1>n, <2>3, <2>4 DEF EmitResults
<1>10. CASE Announce(r) \/ Answered(r)
  BY <1>10, <1>n DEF Announce, Answered
<1>11. CASE PostLoop(r) \/ LastEvent(r)
  BY <1>11, <1>n DEF PostLoop, LastEvent
<1> QED BY <1>1, <1>2, <1>3, <1>4, <1>5, <1>6, <1>7, <1>8, <1>9, <1>10, <1>11 DEF Work

\* Every step is one of the work of a run, or one of these.
LEMMA StepKinds ==
  ASSUME [Next]_vars
  PROVE  \/ UNCHANGED vars
         \/ \E r \in Runs : \/ Run(r) \/ Cancel(r) \/ Receive(r) \/ Work(r)
                            \/ Release(r) \/ CloseEvents(r)
  BY DEF Next, Step, Work

\* What a transcript with messages of a run more looks like.
LEMMA AppendsShape ==
  ASSUME TypeOK, NEW r \in Runs, Appends(r)
  PROVE  /\ LastIndex \in Nat /\ LastIndex' \in Nat /\ LastIndex <= LastIndex'
         /\ DOMAIN transcript = 1 .. LastIndex /\ DOMAIN transcript' = 1 .. LastIndex'
         /\ \A i \in 1 .. LastIndex : transcript'[i] = transcript[i]
         /\ \A i \in 1 .. LastIndex' : i \notin 1 .. LastIndex => transcript'[i].run = r
<1>1. PICK z \in Seq(Message) : transcript' = transcript \o z /\ \A n \in DOMAIN z : z[n].run = r
  BY DEF Appends
<1>2. /\ transcript \in Seq(Message) /\ Len(transcript) \in Nat /\ Len(z) \in Nat
      /\ DOMAIN transcript = 1 .. Len(transcript) /\ DOMAIN z = 1 .. Len(z)
  BY DEF TypeOK
<1>3. /\ Len(transcript') = Len(transcript) + Len(z) /\ DOMAIN transcript' = 1 .. Len(transcript')
      /\ \A i \in 1 .. Len(transcript) : transcript'[i] = transcript[i]
      /\ \A n \in 1 .. Len(z) : transcript'[Len(transcript) + n] = z[n]
  BY <1>1, <1>2, ConcatElements
<1>4. ASSUME NEW i \in 1 .. Len(transcript'), i \notin 1 .. Len(transcript)
      PROVE  transcript'[i].run = r
  <2>1. i - Len(transcript) \in 1 .. Len(z) /\ i = Len(transcript) + (i - Len(transcript))
    BY <1>2, <1>3, <1>4
  <2>2. transcript'[i] = z[i - Len(transcript)]
    BY <1>3, <2>1
  <2> QED BY <1>1, <1>2, <2>1, <2>2
<1> QED BY <1>2, <1>3, <1>4 DEF LastIndex

\* Every step keeps the runs apart.
LEMMA TurnsStep == TypeOK /\ TurnsInv /\ CallsInv /\ LastInv /\ [Next]_vars => TurnsInv'
<1> SUFFICES ASSUME TypeOK, TurnsInv, CallsInv, LastInv, [Next]_vars PROVE TurnsInv'
  OBVIOUS
<1> USE DEF Active, Loop, Ending
<1>1. CASE UNCHANGED vars
  BY <1>1 DEF TurnsInv, vars
<1> SUFFICES ASSUME NEW r \in Runs,
                    Run(r) \/ Cancel(r) \/ Receive(r) \/ Work(r) \/ Release(r) \/ CloseEvents(r)
             PROVE  TurnsInv'
  BY <1>1, StepKinds
<1>t. /\ pc \in [Runs -> Pcs] /\ LastIndex \in Nat /\ DOMAIN transcript = 1 .. LastIndex
      /\ \A i \in DOMAIN transcript : transcript[i].run \in Runs
  <2>1. \A m \in Message : m.run \in Runs
    BY DEF Message
  <2> QED BY <2>1 DEF TypeOK, LastIndex
<1>r. Runs \subseteq Nat
  BY Parameters DEF Parameters, Runs
<1>2. CASE Run(r)
  <2>1. /\ pc[r] = "idle" /\ \A q \in Runs : q < r => pc[q] # "idle"
        /\ ~running /\ running' /\ pc' = [pc EXCEPT ![r] = "pre_loop"] /\ transcript' = transcript
    <3>1. \A q \in Runs : q < r => q \in 1 .. r - 1
      BY Parameters DEF Parameters, Runs
    <3> QED BY <1>2, <3>1 DEF Run, Goto
  <2>2. \A q \in Runs : pc[q] \notin Active
    BY <2>1 DEF TurnsInv
  <2>3. \A q \in Runs : r < q => pc[q] = "idle"
    BY <2>1 DEF TurnsInv
  <2>4. \A q, s \in Runs : q < s /\ pc'[s] # "idle" => pc'[q] \notin Active \cup {"idle"}
    <3> SUFFICES ASSUME NEW q \in Runs, NEW s \in Runs, q < s, pc'[s] # "idle"
                 PROVE  pc'[q] \notin Active \cup {"idle"}
      OBVIOUS
    <3>1. q # r
      BY <1>r, <1>t, <2>1, <2>3
    <3>2. pc'[q] = pc[q]
      BY <1>t, <2>1, <3>1
    <3>3. CASE s = r
      BY <2>1, <2>2, <3>2, <3>3
    <3>4. CASE s # r
      BY <1>t, <2>1, <3>2, <3>4 DEF TurnsInv
    <3> QED BY <3>3, <3>4
  <2>5. /\ \A q \in Runs : pc'[q] \in Active => q = r
        /\ \A i \in DOMAIN transcript : pc'[transcript[i].run] # "idle"
    BY <1>t, <2>1, <2>2 DEF TurnsInv
  <2> QED BY <2>1, <2>4, <2>5 DEF TurnsInv
<1>3. CASE Cancel(r) \/ Receive(r)
  BY <1>3 DEF TurnsInv, Cancel, Receive
<1>4. CASE Work(r)
  <2>1. /\ pc[r] \in Active /\ running' = running /\ Appends(r)
        /\ \E l \in Active : pc' = [pc EXCEPT ![r] = l]
    BY <1>4, WorkStays
  <2>2. /\ pc'[r] \in Active /\ \A q \in Runs : q # r => pc'[q] = pc[q]
    BY <1>t, <2>1
  <2>3. /\ LastIndex' \in Nat /\ LastIndex <= LastIndex'
        /\ DOMAIN transcript' = 1 .. LastIndex'
        /\ \A i \in 1 .. LastIndex : transcript'[i] = transcript[i]
        /\ \A i \in 1 .. LastIndex' : i \notin 1 .. LastIndex => transcript'[i].run = r
    BY <2>1, AppendsShape
  <2>4. /\ \A q \in Runs : pc'[q] \in Active => running'
        /\ \A q, s \in Runs : pc'[q] \in Active /\ pc'[s] \in Active => q = s
    BY <2>1, <2>2 DEF TurnsInv
  <2>5. \A q, s \in Runs : q < s /\ pc'[s] # "idle" => pc'[q] \notin Active \cup {"idle"}
    <3>1. pc[r] # "idle"
      BY <2>1
    <3>2. \A s \in Runs : r < s => pc[s] = "idle"
      BY <2>1 DEF TurnsInv
    <3>3. \A q \in Runs : q < r => pc[q] \notin Active \cup {"idle"}
      BY <3>1 DEF TurnsInv
    <3>4. \A q, s \in Runs : q # r /\ s # r /\ q < s /\ pc[s] # "idle" => pc[q] \notin Active \cup {"idle"}
      BY DEF TurnsInv
    <3>5. \A s \in Runs : r < s => s # r
      BY <1>r
    <3> QED BY <2>2, <3>2, <3>3, <3>4, <3>5
  <2>6. \A i \in DOMAIN transcript' : pc'[transcript'[i].run] # "idle"
    BY <1>t, <2>2, <2>3 DEF TurnsInv
  <2>7. \A i \in DOMAIN transcript : transcript[i].run <= r
    <3> SUFFICES ASSUME NEW i \in DOMAIN transcript, ~(transcript[i].run <= r) PROVE FALSE
      OBVIOUS
    <3>t. transcript[i].run \in Runs
      BY <1>t
    <3>n. transcript[i].run \in Nat /\ r \in Nat
      BY <3>t, <1>r
    <3>1. r < transcript[i].run
      BY <3>n
    <3>2. pc[r] \notin Active
      BY <3>1, <3>t, <2>1 DEF TurnsInv
    <3> QED BY <2>1, <3>2
  <2>8. \A i, j \in DOMAIN transcript' : i < j => transcript'[i].run <= transcript'[j].run
    <3> SUFFICES ASSUME NEW i \in DOMAIN transcript', NEW j \in DOMAIN transcript', i < j
                 PROVE  transcript'[i].run <= transcript'[j].run
      OBVIOUS
    <3>1. CASE j \in 1 .. LastIndex
      <4>1. i \in 1 .. LastIndex
        BY <1>t, <2>3, <3>1
      <4> QED BY <1>t, <2>3, <3>1, <4>1 DEF TurnsInv
    <3>2. CASE j \notin 1 .. LastIndex
      <4>1. transcript'[j].run = r
        BY <2>3, <3>2
      <4>2. transcript'[i].run <= r
        BY <1>t, <1>r, <2>3, <2>7
      <4> QED BY <4>1, <4>2
    <3> QED BY <3>1, <3>2
  <2> QED BY <2>4, <2>5, <2>6, <2>8 DEF TurnsInv
<1>5. CASE Release(r) \/ CloseEvents(r)
  <2>1. /\ transcript' = transcript /\ pc[r] \in {"release", "close"}
        /\ \E l \in {"close", "over"} : pc' = [pc EXCEPT ![r] = l]
        /\ running' = running \/ pc[r] = "release"
    BY <1>5 DEF Release, CloseEvents, Move, Goto
  <2>2. pc'[r] \in {"close", "over"} /\ \A q \in Runs : q # r => pc'[q] = pc[q]
    BY <1>t, <2>1
  <2>3. \A q \in Runs : pc'[q] \in Active => running'
    BY <2>1, <2>2 DEF TurnsInv
  <2>4. \A q, s \in Runs : pc'[q] \in Active /\ pc'[s] \in Active => q = s
    BY <2>2 DEF TurnsInv
  <2>5. \A q, s \in Runs : q < s /\ pc'[s] # "idle" => pc'[q] \notin Active \cup {"idle"}
    BY <2>1, <2>2 DEF TurnsInv
  <2>6. \A i \in DOMAIN transcript : pc'[transcript[i].run] # "idle"
    BY <1>t, <2>2 DEF TurnsInv
  <2> QED BY <2>1, <2>3, <2>4, <2>5, <2>6 DEF TurnsInv
<1> QED BY <1>2, <1>3, <1>4, <1>5

-----------------------------------------------------------------------------
(* The calls of an answer *)

\* A step of a run is about that run.
RunStep(r) == Run(r) \/ Cancel(r) \/ Receive(r) \/ Work(r) \/ Release(r) \/ CloseEvents(r)

\* A step of one run leaves the locals of the others.
LEMMA OthersStay ==
  ASSUME TypeOK, NEW r \in Runs, RunStep(r), NEW q \in Runs, q # r
  PROVE  /\ pc'[q] = pc[q] /\ next'[q] = next[q] /\ sent'[q] = sent[q] /\ ctxDone'[q] = ctxDone[q]
         /\ content'[q] = content[q] /\ calls'[q] = calls[q] /\ refused'[q] = refused[q]
         /\ todo'[q] = todo[q] /\ toolErr'[q] = toolErr[q]
         /\ q \in failed' <=> q \in failed
<1> USE DEF TypeOK, turn, channel, history, Move, Goto, Fail, Emit, Send
<1>1. CASE Run(r) \/ Cancel(r) \/ Receive(r) \/ Release(r) \/ CloseEvents(r)
  BY <1>1 DEF Run, Cancel, Receive, Release, CloseEvents
<1>2. CASE Chunk(r) \/ PreLoop(r) \/ EmitUser(r) \/ StreamFails(r) \/ EmitIncomplete(r)
  BY <1>2 DEF Chunk, PreLoop, EmitUser, StreamFails, EmitIncomplete
<1>3. CASE Ask(r) \/ PostLoop(r)
  BY <1>3 DEF Ask, PostLoop, NewTurn
<1>4. CASE StreamEnds(r) \/ EmitCompletion(r) \/ EmitAnswer(r) \/ EmitToolCalls(r)
  BY <1>4 DEF StreamEnds, EmitCompletion, EmitAnswer, EmitToolCalls
<1>5. CASE Gate(r)
  BY <1>5 DEF Gate
<1>6. CASE PreToolExec(r) \/ \E k \in Calls : ToolEnds(r, k)
  BY <1>6 DEF PreToolExec, ToolEnds
<1>7. CASE PostToolExec(r)
  BY <1>7 DEF PostToolExec
<1>8. CASE EmitResults(r)
  BY <1>8 DEF EmitResults
<1>9. CASE Announce(r) \/ Answered(r) \/ LastEvent(r)
  BY <1>9 DEF Announce, Answered, LastEvent
<1> QED BY <1>1, <1>2, <1>3, <1>4, <1>5, <1>6, <1>7, <1>8, <1>9 DEF RunStep, Work

\* What a step does to the calls the run works on.
LEMMA CallsOwnStep == ASSUME TypeOK, NEW r \in Runs, CallsOf(r), RunStep(r) PROVE CallsOf(r)'
<1> USE DEF turn, channel, history, Move, Goto, Fail
<1>t. /\ pc \in [Runs -> Pcs] /\ content \in [Runs -> [some : BOOLEAN, calls : 0 .. MaxCalls]]
      /\ calls \in [Runs -> SUBSET Calls] /\ toolErr \in [Runs -> BOOLEAN] /\ MaxCalls \in Nat
  BY Parameters DEF Parameters, TypeOK
<1>n. content[r] \in [some : BOOLEAN, calls : 0 .. MaxCalls] /\ content[r].calls \in Nat
  BY <1>t
<1>1. CASE Run(r) \/ Cancel(r) \/ Receive(r) \/ Release(r) \/ CloseEvents(r)
  BY <1>1, <1>t DEF CallsOf, Run, Cancel, Receive, Release, CloseEvents
<1>2. CASE Chunk(r)
  <2>1. pc[r] = "stream" /\ pc' = pc /\ calls' = calls /\ toolErr' = toolErr
    BY <1>2 DEF Chunk
  <2>2. content'[r].calls > 0 => content'[r].some
    <3>1. CASE UNCHANGED content
      BY <3>1 DEF CallsOf
    <3>2. CASE content' = [content EXCEPT ![r].some = TRUE]
      BY <1>t, <3>2
    <3>3. CASE content' = [content EXCEPT ![r] = [some |-> TRUE, calls |-> @.calls + 1]]
      BY <1>t, <3>3
    <3> QED BY <1>2, <3>1, <3>2, <3>3 DEF Chunk
  <2> QED BY <2>1, <2>2 DEF CallsOf
<1>3. CASE PreLoop(r) \/ EmitUser(r) \/ EmitIncomplete(r) \/ EmitCompletion(r) \/ EmitAnswer(r)
  BY <1>3, <1>t DEF CallsOf, PreLoop, EmitUser, EmitIncomplete, EmitCompletion, EmitAnswer, Emit
<1>4. CASE Ask(r) \/ PostLoop(r)
  BY <1>4, <1>t DEF CallsOf, Ask, PostLoop, NewTurn, Nothing
<1>5. CASE StreamFails(r) \/ StreamEnds(r)
  BY <1>5, <1>t DEF CallsOf, StreamFails, StreamEnds
<1>6. CASE Gate(r)
  <2>1. content' = content /\ toolErr' = toolErr /\ pc[r] = "post_model"
    BY <1>6 DEF Gate
  <2>2. CASE pc' = [pc EXCEPT ![r] = "post_loop"]
    BY <1>t, <2>1, <2>2 DEF CallsOf
  <2>3. CASE pc' # [pc EXCEPT ![r] = "post_loop"]
    <3>1. /\ 1 .. content[r].calls # {} /\ calls' = [calls EXCEPT ![r] = 1 .. content[r].calls]
          /\ pc' = [pc EXCEPT ![r] = "tool_call"]
      BY <1>6, <2>3 DEF Gate, Reconcile
    <3>2. content[r].calls > 0
      BY <1>n, <3>1
    <3> QED BY <1>t, <2>1, <3>1, <3>2 DEF CallsOf
  <2> QED BY <2>2, <2>3
<1>7. CASE EmitToolCalls(r) \/ PreToolExec(r) \/ \E k \in Calls : ToolEnds(r, k)
  BY <1>7, <1>t DEF CallsOf, EmitToolCalls, PreToolExec, ToolEnds, Emit
<1>8. CASE PostToolExec(r)
  <2>1. /\ content' = content /\ pc[r] = "tools" /\ pc'[r] \in {"post_loop", "results"}
        /\ calls'[r] \subseteq calls[r] /\ (~toolErr'[r] => calls'[r] = calls[r])
    BY <1>8, <1>t DEF PostToolExec
  <2> QED BY <2>1 DEF CallsOf
<1>9. CASE EmitResults(r) \/ Announce(r) \/ Answered(r) \/ LastEvent(r)
  BY <1>9, <1>t DEF CallsOf, EmitResults, Announce, Answered, LastEvent, Emit
<1> QED BY <1>1, <1>2, <1>3, <1>4, <1>5, <1>6, <1>7, <1>8, <1>9 DEF RunStep, Work

\* Every step keeps the calls of each run within its answer.
LEMMA CallsStep == TypeOK /\ CallsInv /\ [Next]_vars => CallsInv'
<1> SUFFICES ASSUME TypeOK, CallsInv, [Next]_vars, NEW q \in Runs PROVE CallsOf(q)'
  BY DEF CallsInv
<1>1. CASE UNCHANGED vars
  BY <1>1 DEF CallsInv, CallsOf, vars, turn
<1>2. ASSUME NEW r \in Runs, RunStep(r) PROVE CallsOf(q)'
  <2>1. CASE q = r
    BY <1>2, <2>1, CallsOwnStep DEF CallsInv
  <2>2. CASE q # r
    BY <1>2, <2>2, OthersStay DEF CallsInv, CallsOf
  <2> QED BY <2>1, <2>2
<1> QED BY <1>1, <1>2, StepKinds DEF RunStep

\* The answer a run works on is the last message until its results are appended.
LEMMA LastStep == TypeOK /\ TurnsInv /\ CallsInv /\ LastInv /\ [Next]_vars => LastInv'
<1> SUFFICES ASSUME TypeOK, TurnsInv, CallsInv, LastInv, [Next]_vars, NEW q \in Runs,
                    pc'[q] \in Holding, content'[q].some
             PROVE  IsLast(q)'
  BY DEF LastInv
<1>1. CASE UNCHANGED vars
  BY <1>1 DEF LastInv, IsLast, LastIndex, vars, turn
<1>2. ASSUME NEW r \in Runs, RunStep(r), q # r PROVE IsLast(q)'
  <2>1. pc[q] \in Holding /\ content[q].some /\ content'[q] = content[q]
    BY <1>2, OthersStay
  <2>2. IsLast(q)
    BY <2>1 DEF LastInv
  <2>3. ~Work(r)
    BY <1>2, <2>1, WorkStays DEF TurnsInv, Active, Holding, Loop
  <2>4. transcript' = transcript
    BY <1>2, <2>3 DEF RunStep, Run, Cancel, Receive, Release, CloseEvents
  <2> QED BY <2>1, <2>2, <2>4 DEF IsLast, LastIndex
<1>3. ASSUME RunStep(q) PROVE IsLast(q)'
  <2> USE DEF turn, channel, history, Move, Goto, Fail, Emit, Holding
  <2>t. /\ pc \in [Runs -> Pcs] /\ content \in [Runs -> [some : BOOLEAN, calls : 0 .. MaxCalls]]
    BY DEF TypeOK
  <2>s. ASSUME pc[q] \in Holding, content' = content, transcript' = transcript PROVE IsLast(q)'
    BY <2>s DEF LastInv, IsLast, LastIndex
  <2>k. ASSUME Keep(q), content' = content PROVE IsLast(q)'
    <3>1. content[q].calls \in 0 .. MaxCalls
      BY <2>t
    <3>2. Said("assistant", q, content[q].calls) \in Message
      BY <3>1, Parameters DEF Parameters, Said, Message
    <3>3. /\ Len(transcript') = Len(transcript) + 1 /\ Len(transcript) \in Nat
          /\ transcript'[Len(transcript')] = Said("assistant", q, content[q].calls)
      BY <2>k, <3>2 DEF Keep, TypeOK
    <3> QED BY <2>k, <3>3 DEF IsLast, LastIndex
  <2>1. CASE Run(q) \/ Release(q) \/ CloseEvents(q)
    BY <2>1, <2>t DEF Run, Release, CloseEvents
  <2>2. CASE Cancel(q) \/ Receive(q)
    BY <2>2, <2>s DEF Cancel, Receive
  <2>3. CASE Chunk(q) \/ PreLoop(q) \/ EmitUser(q) \/ StreamFails(q) \/ EmitIncomplete(q)
    BY <2>3, <2>t DEF Chunk, PreLoop, EmitUser, StreamFails, EmitIncomplete
  <2>4. CASE Ask(q) \/ PostLoop(q) \/ LastEvent(q) \/ Announce(q) \/ Answered(q)
    BY <2>4, <2>t DEF Ask, PostLoop, LastEvent, Announce, Answered
  <2>5. CASE StreamEnds(q)
    <3>1. content' = content
      BY <2>5 DEF StreamEnds
    <3> QED BY <2>5, <2>k, <3>1 DEF StreamEnds
  <2>6. CASE EmitCompletion(q) \/ EmitAnswer(q) \/ EmitToolCalls(q)
    BY <2>6, <2>s DEF EmitCompletion, EmitAnswer, EmitToolCalls
  <2>7. CASE Gate(q) \/ PreToolExec(q) \/ \E k \in Calls : ToolEnds(q, k)
    BY <2>7, <2>s DEF Gate, PreToolExec, ToolEnds
  <2>8. CASE PostToolExec(q)
    BY <2>8, <2>s DEF PostToolExec
  <2>9. CASE EmitResults(q)
    <3>1. pc'[q] # "announce"
      OBVIOUS
    <3> QED BY <2>9, <2>s, <3>1 DEF EmitResults
  <2> QED BY <1>3, <2>1, <2>2, <2>3, <2>4, <2>5, <2>6, <2>7, <2>8, <2>9 DEF RunStep, Work
<1> QED BY <1>1, <1>2, <1>3, StepKinds DEF RunStep

-----------------------------------------------------------------------------
(* Calls and their results *)

\* A result follows its answer, and only answers have calls.
MessagesInv ==
  \A i \in DOMAIN transcript :
    /\ InOrder(i)
    /\ transcript[i].calls > 0 => transcript[i].role = "assistant"
    /\ transcript[i].of < i

\* A user's message or an answer more changes nothing for the messages before it,
\* and has no results yet.
LEMMA SaidAppended ==
  ASSUME TypeOK, MessagesInv, NEW r \in Runs, NEW role \in {"user", "assistant"},
         NEW n \in 0 .. MaxCalls, NEW L, L = LastIndex,
         transcript' = Append(transcript, Said(role, r, n))
  PROVE  /\ L \in Nat /\ DOMAIN transcript = 1 .. L
         /\ LastIndex' = L + 1 /\ DOMAIN transcript' = 1 .. L + 1
         /\ transcript'[L + 1] = Said(role, r, n)
         /\ \A i \in 1 .. L : /\ transcript'[i] = transcript[i]
                                      /\ ResultsOf(i)' = ResultsOf(i)
                                      /\ Results(i)' = Results(i)
                                      /\ Dangling(i)' = Dangling(i)
                                      /\ InOrder(i)'
         /\ ResultsOf(L + 1)' = {} /\ Results(L + 1)' = {}
         /\ Dangling(L + 1)' = 1 .. n /\ InOrder(L + 1)'
<1> DEFINE m == Said(role, r, n)
<1>1. m \in Message /\ m.of = 0 /\ m.calls = n /\ transcript \in Seq(Message)
  BY Parameters DEF Parameters, Said, Message, TypeOK
<1>2. /\ L \in Nat /\ DOMAIN transcript = 1 .. L /\ LastIndex' = L + 1
      /\ DOMAIN transcript' = 1 .. L + 1 /\ transcript'[L + 1] = m
      /\ \A i \in 1 .. L : transcript'[i] = transcript[i]
  <2> HIDE DEF m
  <2> QED BY <1>1 DEF LastIndex, m
<1>3. \A j \in 1 .. L : transcript[j].of < j
  BY <1>2 DEF MessagesInv
<1>4. \A j \in 1 .. L : transcript[j].of \in Nat
  <2>1. \A j \in 1 .. L : transcript[j] \in Message
    BY <1>1, <1>2
  <2>2. \A k \in Message : k.of \in Nat
    BY DEF Message
  <2> QED BY <2>1, <2>2
<1> HIDE DEF m
<1>5. ASSUME NEW i \in 1 .. L
      PROVE  /\ ResultsOf(i)' = ResultsOf(i) /\ Results(i)' = Results(i)
             /\ Dangling(i)' = Dangling(i) /\ InOrder(i)'
  <2>1. ResultsOf(i) = {j \in 1 .. L : transcript[j].of = i}
    BY <1>2 DEF ResultsOf
  <2>2. ResultsOf(i)' = {j \in 1 .. L + 1 : transcript'[j].of = i}
    BY <1>2 DEF ResultsOf
  <2>3. transcript'[L + 1].of # i
    BY <1>1, <1>2
  <2>4. ResultsOf(i)' = ResultsOf(i)
    BY <1>2, <2>1, <2>2, <2>3
  <2>5. \A j \in ResultsOf(i) : transcript'[j] = transcript[j]
    BY <1>2, <2>1
  <2>6. Results(i)' = Results(i)
    BY <2>4, <2>5 DEF Results
  <2>7. Dangling(i)' = Dangling(i)
    BY <1>2, <2>6 DEF Dangling
  <2>8. InOrder(i)
    BY <1>2 DEF MessagesInv
  <2>9. InOrder(i)'
    BY <2>4, <2>5, <2>8 DEF InOrder
  <2> QED BY <2>4, <2>6, <2>7, <2>9
<1>6. ResultsOf(L + 1)' = {}
  <2>1. \A j \in 1 .. L + 1 : j \in 1 .. L \/ j = L + 1
    BY <1>2
  <2>2. \A j \in 1 .. L : transcript'[j].of # L + 1
    BY <1>2, <1>3, <1>4
  <2>3. transcript'[L + 1].of # L + 1
    BY <1>1, <1>2
  <2> QED BY <1>2, <2>1, <2>2, <2>3 DEF ResultsOf
<1>7. Results(L + 1)' = {} /\ Dangling(L + 1)' = 1 .. n
  BY <1>1, <1>2, <1>6 DEF Results, Dangling
<1>8. InOrder(L + 1)'
  <2>1. Cardinality({}) = 0
    BY FS_EmptySet
  <2>2. L + 1 + 1 .. L + 1 + 0 = {}
    BY <1>2
  <2> QED BY <1>6, <2>1, <2>2 DEF InOrder
<1> QED BY <1>1, <1>2, <1>5, <1>6, <1>7, <1>8 DEF m

\* The messages behind the L-th are the n results of r that f counts off.
ResultsBehind(r, L, n, f) ==
  /\ n \in Nat /\ f \in [1 .. n -> calls[r]]
  /\ \A k \in calls[r] : \E j \in 1 .. n : f[j] = k
  /\ \A j, k \in 1 .. n : j < k => f[j] < f[k]
  /\ LastIndex' = L + n /\ DOMAIN transcript' = 1 .. L + n
  /\ \A i \in 1 .. L : transcript'[i] = transcript[i]
  /\ \A k \in 1 .. n : transcript'[L + k] = Result(r, L, f[k])

\* The results in the transcript: one message for each call that was run, in the order of the calls.
LEMMA ResultsShape ==
  ASSUME TypeOK, NEW r \in Runs, IsLast(r), NEW L, L = LastIndex,
         transcript' = transcript \o ResultsFor(r)
  PROVE  \E n, f : ResultsBehind(r, L, n, f)
<1> DEFINE S == calls[r]
           n == Cardinality(S)
           f == InBlockOrder(S)
           z == ResultsFor(r)
<1>1. /\ L \in Nat /\ AnswerOf(r) = L /\ transcript \in Seq(Message) /\ Len(transcript) = L
  BY AnswerIsLast DEF TypeOK, LastIndex
<1>2. /\ n \in Nat /\ f \in [1 .. n -> S] /\ \A k \in S : \E j \in 1 .. n : f[j] = k
      /\ \A j, k \in 1 .. n : j < k => f[j] < f[k]
  BY BlockOrder DEF TypeOK
<1>3. /\ z \in Seq(Message) /\ Len(z) = n
      /\ \A k \in 1 .. n : z[k] = Result(r, L, f[k])
  BY <1>1, ResultsType DEF ResultsFor
<1>4. /\ Len(transcript \o z) = L + n /\ transcript \o z \in Seq(Message)
      /\ \A i \in 1 .. L : (transcript \o z)[i] = transcript[i]
      /\ \A k \in 1 .. n : (transcript \o z)[L + k] = z[k]
  <2> HIDE DEF n, z, f
  <2>1. transcript \in Seq(Message) /\ z \in Seq(Message)
    BY <1>1, <1>3
  <2>2. /\ Len(transcript \o z) = Len(transcript) + Len(z) /\ transcript \o z \in Seq(Message)
        /\ \A i \in 1 .. Len(transcript) : (transcript \o z)[i] = transcript[i]
        /\ \A k \in 1 .. Len(z) : (transcript \o z)[Len(transcript) + k] = z[k]
    BY <2>1, ConcatElements
  <2> QED BY <1>1, <1>3, <2>2
<1>5. /\ LastIndex' = L + n /\ DOMAIN transcript' = 1 .. L + n
      /\ \A i \in 1 .. L : transcript'[i] = transcript[i]
      /\ \A k \in 1 .. n : transcript'[L + k] = Result(r, L, f[k])
  BY <1>3, <1>4 DEF LastIndex
<1>6. ResultsBehind(r, L, n, f)
  <2> HIDE DEF n, f
  <2> QED BY <1>2, <1>5 DEF ResultsBehind
<1> QED BY <1>6

\* The results of an answer that is last stand behind it, for the calls they answer.
LEMMA ResultsAppended ==
  ASSUME TypeOK, MessagesInv, NEW r \in Runs, IsLast(r), NEW L, L = LastIndex,
         NEW n, NEW f, ResultsBehind(r, L, n, f)
  PROVE  /\ L \in Nat /\ L > 0 /\ DOMAIN transcript = 1 .. L
         /\ LastIndex' \in Nat /\ L <= LastIndex' /\ DOMAIN transcript' = 1 .. LastIndex'
         /\ \A i \in 1 .. L : transcript'[i] = transcript[i]
         /\ \A i \in L + 1 .. LastIndex' :
              /\ transcript'[i].role = "tool" /\ transcript'[i].run = r /\ transcript'[i].calls = 0
              /\ transcript'[i].of = L /\ transcript'[i].call \in calls[r]
              /\ ResultsOf(i)' = {} /\ Results(i)' = {} /\ Dangling(i)' = {} /\ InOrder(i)'
         /\ \A i \in 1 .. L : i # L =>
              /\ ResultsOf(i)' = ResultsOf(i) /\ Results(i)' = Results(i)
              /\ Dangling(i)' = Dangling(i) /\ InOrder(i)'
         /\ Results(L)' = calls[r] /\ InOrder(L)'
         /\ Dangling(L)' = (1 .. content[r].calls) \ calls[r]
<1> DEFINE S == calls[r]
<1>1. /\ L \in Nat /\ L > 0 /\ DOMAIN transcript = 1 .. L /\ transcript \in Seq(Message)
  BY AnswerIsLast DEF TypeOK, LastIndex, IsLast
<1>2. /\ n \in Nat /\ f \in [1 .. n -> S] /\ \A k \in S : \E j \in 1 .. n : f[j] = k
      /\ \A j, k \in 1 .. n : j < k => f[j] < f[k]
  BY DEF ResultsBehind
<1>4. /\ \A i \in 1 .. L : transcript'[i] = transcript[i]
      /\ \A k \in 1 .. n : transcript'[L + k] = Result(r, L, f[k])
  BY DEF ResultsBehind
<1>5. LastIndex' = L + n /\ DOMAIN transcript' = 1 .. L + n
  BY DEF ResultsBehind
<1> HIDE DEF S
<1>6. ASSUME NEW i \in L + 1 .. L + n
      PROVE  /\ i - L \in 1 .. n /\ i = L + (i - L)
             /\ transcript'[i] = Result(r, L, f[i - L])
  <2>1. i - L \in 1 .. n /\ i = L + (i - L)
    BY <1>1, <1>2
  <2> QED BY <1>4, <2>1
<1>7. \A i \in L + 1 .. L + n :
        /\ transcript'[i].role = "tool" /\ transcript'[i].run = r /\ transcript'[i].calls = 0
        /\ transcript'[i].of = L /\ transcript'[i].call = f[i - L]
        /\ i - L \in 1 .. n /\ f[i - L] \in S
  <2> SUFFICES ASSUME NEW i \in L + 1 .. L + n
               PROVE  /\ transcript'[i].role = "tool" /\ transcript'[i].run = r
                      /\ transcript'[i].calls = 0 /\ transcript'[i].of = L
                      /\ transcript'[i].call = f[i - L] /\ i - L \in 1 .. n /\ f[i - L] \in S
    OBVIOUS
  <2>1. i - L \in 1 .. n /\ transcript'[i] = Result(r, L, f[i - L])
    BY <1>6
  <2>2. f[i - L] \in S
    BY <1>2, <2>1
  <2> QED BY <2>1, <2>2 DEF Result
<1>8. /\ \A j \in 1 .. L : transcript'[j].of = transcript[j].of /\ transcript[j].of \in Nat /\ transcript[j].of < j
      /\ \A j \in 1 .. L + n : j \in 1 .. L \/ j \in L + 1 .. L + n
      /\ \A j \in 1 .. L : j \in 1 .. L + n
      /\ \A j \in L + 1 .. L + n : j \in 1 .. L + n /\ j \notin 1 .. L
  <2>1. \A j \in 1 .. L : transcript[j] \in Message
    BY <1>1
  <2>2. \A k \in Message : k.of \in Nat
    BY DEF Message
  <2>3. \A j \in 1 .. L : transcript[j].of < j
    BY <1>1 DEF MessagesInv
  <2> QED BY <1>1, <1>2, <1>4, <2>1, <2>2, <2>3
<1>9. ASSUME NEW i \in 1 .. L, i # L
      PROVE  /\ ResultsOf(i)' = ResultsOf(i) /\ Results(i)' = Results(i)
             /\ Dangling(i)' = Dangling(i) /\ InOrder(i)'
  <2>1. ResultsOf(i)' = {j \in 1 .. L + n : transcript'[j].of = i}
    BY <1>5 DEF ResultsOf
  <2>2. ResultsOf(i) = {j \in 1 .. L : transcript[j].of = i}
    BY <1>1 DEF ResultsOf
  <2>3. ResultsOf(i)' = ResultsOf(i)
    BY <1>7, <1>8, <1>9, <2>1, <2>2
  <2>4. \A j \in ResultsOf(i) : transcript'[j] = transcript[j]
    BY <1>4, <2>2
  <2>5. Results(i)' = Results(i)
    BY <2>3, <2>4 DEF Results
  <2>6. Dangling(i)' = Dangling(i)
    BY <1>4, <2>5 DEF Dangling
  <2>7. InOrder(i)
    BY <1>1 DEF MessagesInv
  <2>8. InOrder(i)'
    BY <2>3, <2>4, <2>7 DEF InOrder
  <2> QED BY <2>3, <2>5, <2>6, <2>8
<1>10. ASSUME NEW i \in L + 1 .. L + n
       PROVE  ResultsOf(i)' = {} /\ Results(i)' = {} /\ Dangling(i)' = {} /\ InOrder(i)'
  <2>1. i \in Nat /\ L < i
    BY <1>1, <1>2
  <2>2. \A j \in 1 .. L : transcript'[j].of # i
    BY <1>1, <1>8, <2>1
  <2>3. \A j \in L + 1 .. L + n : transcript'[j].of # i
    BY <1>1, <1>7, <2>1
  <2>4. ResultsOf(i)' = {}
    BY <1>5, <1>8, <2>2, <2>3 DEF ResultsOf
  <2>5. transcript'[i].calls = 0
    BY <1>7
  <2>6. Results(i)' = {} /\ Dangling(i)' = {}
    BY <2>4, <2>5 DEF Results, Dangling
  <2>7. Cardinality({}) = 0 /\ i + 1 .. i + 0 = {}
    BY <2>1, FS_EmptySet
  <2>8. InOrder(i)'
    BY <2>4, <2>7 DEF InOrder
  <2> QED BY <2>4, <2>6, <2>8
<1>11. ResultsOf(L)' = L + 1 .. L + n
  <2>1. \A j \in 1 .. L : transcript'[j].of # L
    BY <1>1, <1>8
  <2> QED BY <1>5, <1>7, <1>8, <2>1 DEF ResultsOf
<1>12. Results(L)' = S
  <2>1. ASSUME NEW k \in S PROVE \E j \in L + 1 .. L + n : transcript'[j].call = k
    <3>1. PICK j \in 1 .. n : f[j] = k
      BY <1>2
    <3>2. L + j \in L + 1 .. L + n
      BY <1>1, <1>2
    <3>3. transcript'[L + j] = Result(r, L, f[j])
      BY <1>4
    <3>4. Result(r, L, f[j]).call = f[j]
      BY DEF Result
    <3> QED BY <3>1, <3>2, <3>3, <3>4
  <2> QED BY <1>7, <1>11, <2>1 DEF Results
<1>13. Dangling(L)' = (1 .. content[r].calls) \ S
  <2>1. transcript'[L].calls = content[r].calls
    BY <1>1, <1>4 DEF IsLast, Said
  <2> QED BY <1>12, <2>1 DEF Dangling
<1>14. InOrder(L)'
  <2>1. Cardinality(L + 1 .. L + n) = n
    <3>1. L + 1 \in Int /\ L + n \in Int /\ (L + n) - (L + 1) + 1 = n
      BY <1>1, <1>2
    <3>2. Cardinality(L + 1 .. L + n) = IF L + 1 > L + n THEN 0 ELSE (L + n) - (L + 1) + 1
      BY <3>1, FS_Interval
    <3> QED BY <1>1, <1>2, <3>1, <3>2
  <2>2. ASSUME NEW j \in L + 1 .. L + n, NEW k \in L + 1 .. L + n, j < k
        PROVE  transcript'[j].call < transcript'[k].call
    <3>1. j - L \in 1 .. n /\ k - L \in 1 .. n /\ j - L < k - L
      BY <1>1, <1>2, <2>2
    <3>2. f[j - L] < f[k - L]
      BY <1>2, <3>1
    <3> QED BY <1>7, <3>2
  <2> QED BY <1>11, <2>1, <2>2 DEF InOrder
<1>15. L + n \in Nat /\ L <= L + n
  BY <1>1, <1>2
<1>16. \A i \in L + 1 .. L + n : transcript'[i].call \in S
  BY <1>7
<1> QED BY <1>1, <1>4, <1>5, <1>7, <1>9, <1>10, <1>12, <1>13, <1>14, <1>15, <1>16 DEF S

\* How the transcript grows: a message of the user or an answer, or the results.
SaysMore(r) ==
  \E role \in {"user", "assistant"}, n \in 0 .. MaxCalls :
    /\ transcript' = Append(transcript, Said(role, r, n))
    /\ \/ pc[r] = "pre_loop" /\ pc'[r] = "user" /\ n = 0
       \/ /\ pc[r] = "stream" /\ pc'[r] \in {"completion", "partial"} /\ role = "assistant"
          /\ n = content[r].calls /\ content[r].some /\ content' = content
ResultsIn(r) ==
  /\ pc[r] = "results" /\ pc'[r] = "announce" /\ IsLast(r)
  /\ transcript' = transcript \o ResultsFor(r)
  /\ content' = content /\ calls' = calls /\ toolErr' = toolErr

\* A transcript grows in a step by one message, by the results of an answer, or not at all.
LEMMA Growth ==
  ASSUME TypeOK, CallsInv, LastInv, NEW r \in Runs, RunStep(r)
  PROVE  \/ SaysMore(r) \/ ResultsIn(r)
         \/ transcript' = transcript /\ ~(pc[r] = "results" /\ pc'[r] = "announce")
<1> USE DEF turn, channel, history, Move, Goto, Fail, Emit
<1>t. /\ pc \in [Runs -> Pcs] /\ content[r].calls \in 0 .. MaxCalls /\ 0 \in 0 .. MaxCalls
  BY Parameters DEF Parameters, TypeOK
<1>1. CASE Run(r) \/ Cancel(r) \/ Receive(r) \/ Release(r) \/ CloseEvents(r)
  BY <1>1, <1>t DEF Run, Cancel, Receive, Release, CloseEvents
<1>2. CASE Chunk(r) \/ EmitUser(r) \/ Ask(r) \/ EmitIncomplete(r) \/ EmitCompletion(r)
  BY <1>2 DEF Chunk, EmitUser, Ask, EmitIncomplete, EmitCompletion
<1>3. CASE EmitAnswer(r) \/ Gate(r) \/ EmitToolCalls(r) \/ PreToolExec(r)
  BY <1>3 DEF EmitAnswer, Gate, EmitToolCalls, PreToolExec
<1>4. CASE (\E k \in Calls : ToolEnds(r, k)) \/ PostToolExec(r)
  BY <1>4 DEF ToolEnds, PostToolExec
<1>5. CASE Announce(r) \/ Answered(r) \/ PostLoop(r) \/ LastEvent(r)
  BY <1>5 DEF Announce, Answered, PostLoop, LastEvent
<1>6. CASE PreLoop(r)
  <2>1. CASE transcript' = transcript
    BY <1>6, <2>1 DEF PreLoop
  <2>2. CASE /\ transcript' = Append(transcript, Said("user", r, 0)) /\ Move(r, "user")
    BY <1>6, <1>t, <2>2 DEF PreLoop, SaysMore
  <2> QED BY <1>6, <2>1, <2>2 DEF PreLoop
<1>7. CASE StreamFails(r)
  BY <1>7, <1>t DEF StreamFails, SaysMore, Keep
<1>8. CASE StreamEnds(r)
  BY <1>8, <1>t DEF StreamEnds, SaysMore, Keep
<1>9. CASE EmitResults(r)
  <2>1. IsLast(r) /\ pc[r] = "results"
    BY <1>9 DEF EmitResults, CallsInv, CallsOf, LastInv, Holding
  <2>2. CASE pc'[r] = "announce"
    BY <1>9, <2>1, <2>2 DEF EmitResults, ResultsIn, ResultsFor
  <2>3. CASE pc'[r] # "announce"
    BY <1>9, <2>3 DEF EmitResults
  <2> QED BY <2>2, <2>3
<1> QED BY <1>1, <1>2, <1>3, <1>4, <1>5, <1>6, <1>7, <1>8, <1>9 DEF RunStep, Work

\* Results stay behind their answer.
LEMMA MessagesStep == TypeOK /\ CallsInv /\ LastInv /\ MessagesInv /\ [Next]_vars => MessagesInv'
<1> SUFFICES ASSUME TypeOK, CallsInv, LastInv, MessagesInv, [Next]_vars PROVE MessagesInv'
  OBVIOUS
<1>0. ASSUME transcript' = transcript PROVE MessagesInv'
  BY <1>0 DEF MessagesInv, InOrder, ResultsOf
<1>1. CASE UNCHANGED vars
  BY <1>0, <1>1 DEF vars
<1> SUFFICES ASSUME NEW r \in Runs, RunStep(r) PROVE MessagesInv'
  BY <1>1, StepKinds DEF RunStep
<1> DEFINE Good(i) == InOrder(i) /\ (transcript[i].calls > 0 => transcript[i].role = "assistant")
                      /\ transcript[i].of < i
<1>g. \A i \in DOMAIN transcript : Good(i)
  BY DEF MessagesInv
<1> SUFFICES ASSUME transcript' # transcript, NEW L, L = LastIndex PROVE MessagesInv'
  BY <1>0
<1>2. CASE SaysMore(r)
  <2>1. PICK role \in {"user", "assistant"}, n \in 0 .. MaxCalls :
          transcript' = Append(transcript, Said(role, r, n)) /\ (n > 0 => role = "assistant")
    BY <1>2 DEF SaysMore
  <2>2. /\ L \in Nat /\ DOMAIN transcript = 1 .. L /\ DOMAIN transcript' = 1 .. L + 1
        /\ transcript'[L + 1] = Said(role, r, n) /\ InOrder(L + 1)'
        /\ \A i \in 1 .. L : transcript'[i] = transcript[i] /\ InOrder(i)'
    BY <2>1, SaidAppended
  <2>3. ASSUME NEW i \in 1 .. L PROVE Good(i)'
    BY <1>g, <2>2
  <2>4. Good(L + 1)'
    BY <2>1, <2>2 DEF Said
  <2>5. \A i \in 1 .. L + 1 : i \in 1 .. L \/ i = L + 1
    BY <2>2
  <2>6. \A i \in DOMAIN transcript' : Good(i)'
    BY <2>2, <2>3, <2>4, <2>5
  <2> QED BY <2>6 DEF MessagesInv
<1>3. CASE ResultsIn(r)
  <2>1. IsLast(r) /\ transcript' = transcript \o ResultsFor(r)
    BY <1>3 DEF ResultsIn
  <2>2. PICK n, f : ResultsBehind(r, L, n, f)
    BY <2>1, ResultsShape
  <2>3. /\ L \in Nat /\ DOMAIN transcript = 1 .. L /\ DOMAIN transcript' = 1 .. LastIndex'
        /\ LastIndex' \in Nat /\ \A i \in 1 .. L : transcript'[i] = transcript[i] /\ InOrder(i)'
        /\ \A i \in L + 1 .. LastIndex' :
             transcript'[i].calls = 0 /\ transcript'[i].of = L /\ InOrder(i)'
    BY <2>1, <2>2, ResultsAppended
  <2>4. ASSUME NEW i \in 1 .. L PROVE Good(i)'
    BY <1>g, <2>3
  <2>5. ASSUME NEW i \in L + 1 .. LastIndex' PROVE Good(i)'
    BY <2>3, <2>5
  <2>6. \A i \in DOMAIN transcript' : i \in 1 .. L \/ i \in L + 1 .. LastIndex'
    BY <2>3
  <2>7. \A i \in DOMAIN transcript' : Good(i)'
    BY <2>4, <2>5, <2>6
  <2> QED BY <2>7 DEF MessagesInv
<1> QED BY <1>2, <1>3, Growth

\* Where every call a run made has its result: before a run asks, after it has its
\* answers, and behind the end of a run that did not fail.
Whole(r) == \A i \in Own(r) : Dangling(i) = {}
MustBeWhole(r) ==
  \/ pc[r] \in {"idle", "pre_loop", "user", "iterate", "stream"}
  \/ pc[r] = "post_model" /\ ~content[r].some
  \/ pc[r] = "announce" /\ ~toolErr[r]
  \/ pc[r] \in Ending \cup {"close", "over"} /\ r \notin failed
DangleOf(r) ==
  /\ MustBeWhole(r) => Whole(r)
  /\ pc[r] \in Loop \cup {"idle"} => r \notin failed
  /\ \A i, j \in Own(r) : i < j /\ Dangling(i) # {} => transcript[j].role = "tool"
DangleInv == \A r \in Runs : DangleOf(r)

\* The messages of the other runs stay as they are, and so do their results.
LEMMA OthersMessages ==
  ASSUME TypeOK, CallsInv, LastInv, MessagesInv, NEW r \in Runs, RunStep(r), NEW q \in Runs, q # r
  PROVE  /\ Own(q)' = Own(q)
         /\ \A i \in Own(q) : transcript'[i] = transcript[i] /\ Dangling(i)' = Dangling(i)
                              /\ Results(i)' = Results(i)
<1> SUFFICES ASSUME NEW L, L = LastIndex
             PROVE  /\ Own(q)' = Own(q)
                    /\ \A i \in Own(q) : transcript'[i] = transcript[i] /\ Dangling(i)' = Dangling(i)
                                         /\ Results(i)' = Results(i)
  OBVIOUS
<1>1. CASE transcript' = transcript
  BY <1>1 DEF Own, Dangling, Results, ResultsOf
<1>2. CASE SaysMore(r)
  <2>1. PICK role \in {"user", "assistant"}, n \in 0 .. MaxCalls :
          transcript' = Append(transcript, Said(role, r, n))
    BY <1>2 DEF SaysMore
  <2>2. /\ L \in Nat /\ DOMAIN transcript = 1 .. L /\ DOMAIN transcript' = 1 .. L + 1
        /\ transcript'[L + 1] = Said(role, r, n)
        /\ \A i \in 1 .. L : transcript'[i] = transcript[i] /\ Dangling(i)' = Dangling(i)
                             /\ Results(i)' = Results(i)
    BY <2>1, SaidAppended
  <2>3. transcript'[L + 1].run = r
    BY <2>2 DEF Said
  <2>4. \A i \in 1 .. L + 1 : i \in 1 .. L \/ i = L + 1
    BY <2>2
  <2>5. \A i \in 1 .. L : i \in 1 .. L + 1
    BY <2>2
  <2>6. Own(q)' = Own(q) /\ Own(q) \subseteq 1 .. L
    BY <1>2, <2>2, <2>3, <2>4, <2>5 DEF Own
  <2> QED BY <2>2, <2>6
<1>3. CASE ResultsIn(r)
  <2>1. IsLast(r) /\ transcript' = transcript \o ResultsFor(r)
    BY <1>3 DEF ResultsIn
  <2>2. PICK n, f : ResultsBehind(r, L, n, f)
    BY <2>1, ResultsShape
  <2>3. /\ L \in Nat /\ DOMAIN transcript = 1 .. L /\ DOMAIN transcript' = 1 .. LastIndex'
        /\ LastIndex' \in Nat /\ L <= LastIndex'
        /\ \A i \in 1 .. L : transcript'[i] = transcript[i]
        /\ \A i \in 1 .. L : i # L => Dangling(i)' = Dangling(i) /\ Results(i)' = Results(i)
        /\ \A i \in L + 1 .. LastIndex' : transcript'[i].run = r
    BY <2>1, <2>2, ResultsAppended
  <2>4. transcript[L].run = r
    BY <2>1 DEF IsLast, Said
  <2>5. \A i \in 1 .. LastIndex' : i \in 1 .. L \/ i \in L + 1 .. LastIndex'
    BY <2>3
  <2>6. \A i \in 1 .. L : i \in 1 .. LastIndex'
    BY <2>3
  <2>7. Own(q)' = Own(q) /\ Own(q) \subseteq 1 .. L /\ L \notin Own(q)
    BY <2>3, <2>4, <2>5, <2>6 DEF Own
  <2> QED BY <2>3, <2>7
<1> QED BY <1>1, <1>2, <1>3, Growth

\* A run fails when it ends, and only then.
LEMMA FailedStep ==
  ASSUME TypeOK, NEW r \in Runs, DangleOf(r), RunStep(r)
  PROVE  pc'[r] \in Loop \cup {"idle"} => r \notin failed'
<1> USE DEF turn, channel, history, Move, Goto, Fail, Emit, Loop, Ending
<1>t. pc \in [Runs -> Pcs]
  BY DEF TypeOK
<1>f. pc[r] \in Loop \cup {"idle"} => r \notin failed
  BY DEF DangleOf
<1>1. CASE Run(r) \/ Cancel(r) \/ Receive(r) \/ Release(r) \/ CloseEvents(r)
  BY <1>1, <1>t, <1>f DEF Run, Cancel, Receive, Release, CloseEvents
<1>2. CASE Chunk(r) \/ PreLoop(r) \/ EmitUser(r) \/ Ask(r) \/ EmitIncomplete(r)
  BY <1>2, <1>t, <1>f DEF Chunk, PreLoop, EmitUser, Ask, EmitIncomplete
<1>3. CASE StreamFails(r) \/ StreamEnds(r) \/ EmitCompletion(r) \/ EmitAnswer(r)
  BY <1>3, <1>t, <1>f DEF StreamFails, StreamEnds, EmitCompletion, EmitAnswer
<1>4. CASE Gate(r) \/ EmitToolCalls(r) \/ PreToolExec(r) \/ \E k \in Calls : ToolEnds(r, k)
  BY <1>4, <1>t, <1>f DEF Gate, EmitToolCalls, PreToolExec, ToolEnds
<1>5. CASE PostToolExec(r)
  BY <1>5, <1>t, <1>f DEF PostToolExec
<1>6. CASE EmitResults(r) \/ Announce(r) \/ Answered(r)
  BY <1>6, <1>t, <1>f DEF EmitResults, Announce, Answered
<1>7. CASE PostLoop(r) \/ LastEvent(r)
  BY <1>7, <1>t DEF PostLoop, LastEvent
<1> QED BY <1>1, <1>2, <1>3, <1>4, <1>5, <1>6, <1>7 DEF RunStep, Work

\* A run comes to such a place from one, or by its results, or because the model
\* called no tool.
LEMMA WholeBefore ==
  ASSUME TypeOK, NEW r \in Runs, CallsOf(r), RunStep(r), MustBeWhole(r)',
         ~(pc[r] = "results" /\ pc'[r] = "announce")
  PROVE  MustBeWhole(r) \/ (pc[r] = "post_model" /\ content[r].some /\ content[r].calls = 0)
<1> USE DEF turn, channel, history, Move, Goto, Fail, Emit, Ending, MustBeWhole
<1>t. /\ pc \in [Runs -> Pcs] /\ content \in [Runs -> [some : BOOLEAN, calls : 0 .. MaxCalls]]
      /\ failed \subseteq Runs /\ toolErr \in [Runs -> BOOLEAN]
  BY DEF TypeOK
<1>1. CASE Run(r) \/ Cancel(r) \/ Receive(r) \/ Release(r) \/ CloseEvents(r)
  BY <1>1, <1>t DEF Run, Cancel, Receive, Release, CloseEvents
<1>2. CASE Chunk(r) \/ PreLoop(r) \/ EmitUser(r) \/ Ask(r)
  BY <1>2, <1>t DEF Chunk, PreLoop, EmitUser, Ask
<1>3. CASE EmitIncomplete(r) \/ EmitCompletion(r)
  BY <1>3, <1>t DEF EmitIncomplete, EmitCompletion
<1>4. CASE EmitAnswer(r)
  BY <1>4, <1>t DEF EmitAnswer, CallsOf
<1>5. CASE StreamFails(r) \/ StreamEnds(r)
  BY <1>5 DEF StreamFails, StreamEnds
<1>6. CASE Gate(r)
  <2>1. content[r].calls \in Nat
    BY <1>t, Parameters DEF Parameters
  <2>2. 1 .. content[r].calls = {} => content[r].calls = 0
    BY <2>1
  <2> QED BY <1>6, <1>t, <2>2 DEF Gate
<1>7. CASE EmitToolCalls(r) \/ PreToolExec(r) \/ \E k \in Calls : ToolEnds(r, k)
  BY <1>7, <1>t DEF EmitToolCalls, PreToolExec, ToolEnds
<1>8. CASE PostToolExec(r)
  BY <1>8, <1>t DEF PostToolExec
<1>9. CASE EmitResults(r) \/ Announce(r) \/ Answered(r)
  BY <1>9, <1>t DEF EmitResults, Announce, Answered
<1>10. CASE PostLoop(r) \/ LastEvent(r)
  BY <1>10, <1>t DEF PostLoop, LastEvent
<1> QED BY <1>1, <1>2, <1>3, <1>4, <1>5, <1>6, <1>7, <1>8, <1>9, <1>10 DEF RunStep, Work

\* The own steps of a run leave calls without results at the end of it, if anywhere.
LEMMA DangleOwnStep ==
  ASSUME TypeOK, CallsInv, LastInv, MessagesInv, NEW r \in Runs, DangleOf(r), RunStep(r)
  PROVE  DangleOf(r)'
<1> SUFFICES ASSUME NEW L, L = LastIndex PROVE DangleOf(r)'
  OBVIOUS
<1>f. pc'[r] \in Loop \cup {"idle"} => r \notin failed'
  BY FailedStep
<1>d. \A i, j \in Own(r) : i < j /\ Dangling(i) # {} => transcript[j].role = "tool"
  BY DEF DangleOf
<1>l. ASSUME IsLast(r), NEW i \in Own(r), i # L PROVE Dangling(i) = {}
  <2>1. /\ L \in Nat /\ DOMAIN transcript = 1 .. L /\ L \in DOMAIN transcript
        /\ transcript[L].run = r /\ transcript[L].role = "assistant"
    BY <1>l, AnswerIsLast DEF IsLast, Said, TypeOK, LastIndex
  <2>2. L \in Own(r) /\ i < L
    BY <1>l, <2>1 DEF Own
  <2> QED BY <1>d, <2>1, <2>2
<1>1. CASE transcript' = transcript /\ ~(pc[r] = "results" /\ pc'[r] = "announce")
  <2>1. Own(r)' = Own(r) /\ \A i \in Own(r) : Dangling(i)' = Dangling(i)
    BY <1>1 DEF Own, Dangling, Results, ResultsOf
  <2>2. ASSUME MustBeWhole(r)' PROVE Whole(r)
    <3>1. CASE MustBeWhole(r)
      BY <3>1 DEF DangleOf
    <3>2. CASE pc[r] = "post_model" /\ content[r].some /\ content[r].calls = 0
      <4>1. IsLast(r)
        BY <3>2 DEF LastInv, Holding
      <4>2. transcript[L].calls = 0
        BY <3>2, <4>1 DEF IsLast, Said
      <4>3. Dangling(L) = {}
        BY <4>2 DEF Dangling
      <4> QED BY <1>l, <4>1, <4>3 DEF Whole
    <3>3. CallsOf(r)
      BY DEF CallsInv
    <3> QED BY <1>1, <2>2, <3>1, <3>2, <3>3, WholeBefore
  <2>3. MustBeWhole(r)' => Whole(r)'
    BY <2>1, <2>2 DEF Whole
  <2>4. \A i, j \in Own(r)' : i < j /\ Dangling(i)' # {} => transcript'[j].role = "tool"
    BY <1>1, <1>d, <2>1
  <2> QED BY <1>f, <2>3, <2>4 DEF DangleOf
<1>2. CASE SaysMore(r)
  <2>1. PICK role \in {"user", "assistant"}, n \in 0 .. MaxCalls :
          /\ transcript' = Append(transcript, Said(role, r, n))
          /\ pc'[r] = "user" => n = 0
          /\ pc[r] \in {"pre_loop", "stream"} /\ pc'[r] \in {"user", "completion", "partial"}
    BY <1>2 DEF SaysMore
  <2>2. /\ L \in Nat /\ DOMAIN transcript = 1 .. L /\ DOMAIN transcript' = 1 .. L + 1
        /\ Dangling(L + 1)' = 1 .. n
        /\ \A i \in 1 .. L : transcript'[i] = transcript[i] /\ Dangling(i)' = Dangling(i)
    BY <2>1, SaidAppended
  <2>3. \A i \in Own(r) : Dangling(i) = {}
    BY <2>1 DEF DangleOf, MustBeWhole, Whole
  <2>4. \A i \in Own(r)' : (i \in Own(r) /\ i \in 1 .. L) \/ i = L + 1
    BY <2>2 DEF Own
  <2>5. \A i \in Own(r)' : i # L + 1 => Dangling(i)' = {}
    BY <2>2, <2>3, <2>4
  <2>6. MustBeWhole(r)' => Whole(r)'
    <3>1. MustBeWhole(r)' => n = 0
      BY <2>1 DEF MustBeWhole, Ending
    <3>2. n = 0 => Dangling(L + 1)' = {}
      BY <2>2
    <3> QED BY <2>5, <3>1, <3>2 DEF Whole
  <2>7. \A i, j \in Own(r)' : i < j /\ Dangling(i)' # {} => transcript'[j].role = "tool"
    <3>1. \A j \in Own(r)' : j \in Nat /\ ~(L + 1 < j)
      BY <2>2, <2>4
    <3> QED BY <2>5, <3>1
  <2> QED BY <1>f, <2>6, <2>7 DEF DangleOf
<1>3. CASE ResultsIn(r)
  <2>1. /\ IsLast(r) /\ transcript' = transcript \o ResultsFor(r) /\ pc'[r] = "announce"
        /\ pc[r] = "results" /\ toolErr' = toolErr
    BY <1>3 DEF ResultsIn
  <2>2. PICK n, f : ResultsBehind(r, L, n, f)
    BY <2>1, ResultsShape
  <2>3. /\ L \in Nat /\ DOMAIN transcript = 1 .. L /\ DOMAIN transcript' = 1 .. LastIndex'
        /\ LastIndex' \in Nat /\ L <= LastIndex'
        /\ \A i \in 1 .. L : transcript'[i] = transcript[i]
        /\ \A i \in 1 .. L : i # L => Dangling(i)' = Dangling(i)
        /\ \A i \in L + 1 .. LastIndex' : Dangling(i)' = {} /\ transcript'[i].role = "tool"
        /\ Dangling(L)' = (1 .. content[r].calls) \ calls[r]
    BY <2>1, <2>2, ResultsAppended
  <2>4. \A i \in Own(r)' : (i \in Own(r) /\ i \in 1 .. L) \/ i \in L + 1 .. LastIndex'
    BY <2>3 DEF Own
  <2>5. \A i \in Own(r)' : i # L => Dangling(i)' = {}
    BY <1>l, <2>1, <2>3, <2>4
  <2>6. MustBeWhole(r)' => Whole(r)'
    <3>1. MustBeWhole(r)' => ~toolErr[r]
      BY <2>1 DEF MustBeWhole, Ending
    <3>2. ~toolErr[r] => calls[r] = 1 .. content[r].calls
      BY <2>1 DEF CallsInv, CallsOf
    <3>3. MustBeWhole(r)' => Dangling(L)' = {}
      BY <2>3, <3>1, <3>2
    <3> QED BY <2>5, <3>3 DEF Whole
  <2>7. \A i, j \in Own(r)' : i < j /\ Dangling(i)' # {} => transcript'[j].role = "tool"
    <3>1. \A j \in Own(r)' : L < j => j \in L + 1 .. LastIndex'
      BY <2>3, <2>4
    <3> QED BY <2>3, <2>5, <3>1
  <2> QED BY <1>f, <2>6, <2>7 DEF DangleOf
<1> QED BY <1>1, <1>2, <1>3, Growth

\* Every step of every run does.
LEMMA DangleStep ==
  TypeOK /\ CallsInv /\ LastInv /\ MessagesInv /\ DangleInv /\ [Next]_vars => DangleInv'
<1> SUFFICES ASSUME TypeOK, CallsInv, LastInv, MessagesInv, DangleInv, [Next]_vars, NEW q \in Runs
             PROVE  DangleOf(q)'
  BY DEF DangleInv
<1>0. DangleOf(q)
  BY DEF DangleInv
<1>1. CASE UNCHANGED vars
  BY <1>0, <1>1 DEF DangleOf, MustBeWhole, Whole, Own, Dangling, Results, ResultsOf, vars, turn
<1>2. ASSUME NEW r \in Runs, RunStep(r) PROVE DangleOf(q)'
  <2>1. CASE q = r
    BY <1>0, <1>2, <2>1, DangleOwnStep
  <2>2. CASE q # r
    <3>1. /\ pc'[q] = pc[q] /\ content'[q] = content[q] /\ toolErr'[q] = toolErr[q]
          /\ q \in failed' <=> q \in failed
      BY <1>2, <2>2, OthersStay
    <3>2. Own(q)' = Own(q)
          /\ \A i \in Own(q) : transcript'[i] = transcript[i] /\ Dangling(i)' = Dangling(i)
      BY <1>2, <2>2, OthersMessages
    <3>3. MustBeWhole(q)' => Whole(q)'
      BY <1>0, <3>1, <3>2 DEF DangleOf, MustBeWhole, Whole
    <3>4. \A i, j \in Own(q)' : i < j /\ Dangling(i)' # {} => transcript'[j].role = "tool"
      BY <1>0, <3>2 DEF DangleOf
    <3> QED BY <1>0, <3>1, <3>3, <3>4 DEF DangleOf
  <2> QED BY <2>1, <2>2
<1> QED BY <1>1, <1>2, StepKinds DEF RunStep

-----------------------------------------------------------------------------
(* Calls that were run or refused *)

\* The calls that were handed to a tool or refused are calls of the model, a call
\* with a result is one of them, and the answer a run works on has the marks its
\* place in the loop has given.
Marks == executed \cup stopped
MarksOf(r) ==
  /\ pc[r] \in {"completion", "state", "post_model"} /\ content[r].some =>
       \A c \in Marks : c[1] # LastIndex
  /\ pc[r] \in {"tool_call", "pre_tool"} =>
       /\ \A c \in executed : c[1] # LastIndex
       /\ \A k \in 1 .. content[r].calls : <<LastIndex, k>> \in stopped <=> k \in refused[r]
  /\ pc[r] \in {"tools", "results"} =>
       \A k \in 1 .. content[r].calls : <<LastIndex, k>> \in Marks
CallsMarked ==
  /\ executed \cap stopped = {}
  /\ \A c \in Marks : c[1] \in DOMAIN transcript /\ c[2] <= transcript[c[1]].calls
  /\ \A i, k : i \in DOMAIN transcript /\ k \in Results(i) => <<i, k>> \in Marks
MarksInv == CallsMarked /\ \A r \in Runs : MarksOf(r)

\* The two steps that give marks.
Gated(r) ==
  /\ pc[r] = "post_model" /\ pc'[r] = "tool_call" /\ content[r].calls > 0
  /\ content' = content /\ transcript' = transcript /\ executed' = executed
  /\ \E accepted \in SUBSET (1 .. content[r].calls) :
       /\ refused'[r] = (1 .. content[r].calls) \ accepted
       /\ stopped' = stopped \cup {<<AnswerOf(r), k>> : k \in (1 .. content[r].calls) \ accepted}
Started(r) ==
  /\ pc[r] = "pre_tool" /\ pc'[r] = "tools"
  /\ content' = content /\ transcript' = transcript /\ stopped' = stopped
  /\ executed' = executed \cup {<<AnswerOf(r), k>> : k \in Offered(r)}

\* A step marks calls as refused, as started, or marks nothing.
LEMMA MarkKinds ==
  ASSUME TypeOK, NEW r \in Runs, RunStep(r)
  PROVE  \/ Gated(r) \/ Started(r)
         \/ /\ executed' = executed /\ stopped' = stopped
            /\ transcript' = transcript =>
                 /\ pc'[r] \in {"completion", "state", "post_model", "tool_call", "pre_tool", "tools", "results"} =>
                      content'[r] = content[r]
                 /\ pc'[r] \in {"completion", "state", "post_model"} /\ content[r].some =>
                      pc[r] \in {"completion", "state", "post_model"}
                 /\ pc'[r] \in {"tool_call", "pre_tool"} =>
                      pc[r] \in {"tool_call", "pre_tool"} /\ refused'[r] = refused[r]
                 /\ pc'[r] \in {"tools", "results"} => pc[r] \in {"tools", "results"}
<1> USE DEF turn, channel, history, Move, Goto, Fail, Emit
<1>t. /\ pc \in [Runs -> Pcs] /\ content \in [Runs -> [some : BOOLEAN, calls : 0 .. MaxCalls]]
      /\ refused \in [Runs -> SUBSET Calls] /\ MaxCalls \in Nat
  BY Parameters DEF Parameters, TypeOK
<1>1. CASE Run(r) \/ Cancel(r) \/ Receive(r) \/ Release(r) \/ CloseEvents(r)
  BY <1>1, <1>t DEF Run, Cancel, Receive, Release, CloseEvents
<1>2. CASE Chunk(r) \/ PreLoop(r) \/ EmitUser(r) \/ Ask(r)
  BY <1>2, <1>t DEF Chunk, PreLoop, EmitUser, Ask
<1>3. CASE StreamFails(r)
  BY <1>3, <1>t DEF StreamFails
<1>4. CASE StreamEnds(r)
  <2>1. CASE content[r].some
    <3>1. Len(transcript') = Len(transcript) + 1
      <4>1. Said("assistant", r, content[r].calls) \in Message
        BY <1>t, Parameters DEF Parameters, Said, Message
      <4> QED BY <1>4, <2>1, <4>1 DEF StreamEnds, Keep, TypeOK
    <3>2. Len(transcript) \in Nat
      BY DEF TypeOK
    <3>3. transcript' # transcript
      BY <3>1, <3>2
    <3> QED BY <1>4, <3>3 DEF StreamEnds
  <2>2. CASE ~content[r].some
    BY <1>4, <1>t, <2>2 DEF StreamEnds
  <2> QED BY <2>1, <2>2
<1>5. CASE EmitIncomplete(r) \/ EmitCompletion(r) \/ EmitAnswer(r)
  BY <1>5, <1>t DEF EmitIncomplete, EmitCompletion, EmitAnswer
<1>6. CASE Gate(r)
  <2>1. CASE Move(r, "tool_call")
    <3>1. PICK accepted \in SUBSET (1 .. content[r].calls) :
            /\ refused' = [refused EXCEPT ![r] = (1 .. content[r].calls) \ accepted]
            /\ stopped' = stopped \cup {<<AnswerOf(r), k>> : k \in (1 .. content[r].calls) \ accepted}
      BY <1>6, <1>t, <2>1 DEF Gate
    <3>2. content[r].calls > 0
      <4>1. 1 .. content[r].calls # {}
        BY <1>6, <1>t, <2>1 DEF Gate
      <4> QED BY <1>t, <4>1
    <3>3. refused'[r] = (1 .. content[r].calls) \ accepted
      BY <1>t, <3>1
    <3>4. /\ pc[r] = "post_model" /\ pc'[r] = "tool_call"
          /\ content' = content /\ transcript' = transcript /\ executed' = executed
      BY <1>6, <1>t, <2>1 DEF Gate
    <3> QED BY <3>1, <3>2, <3>3, <3>4 DEF Gated
  <2>2. CASE ~Move(r, "tool_call")
    BY <1>6, <1>t, <2>2 DEF Gate
  <2> QED BY <2>1, <2>2
<1>7. CASE EmitToolCalls(r) \/ \E k \in Calls : ToolEnds(r, k)
  BY <1>7, <1>t DEF EmitToolCalls, ToolEnds
<1>8. CASE PreToolExec(r)
  BY <1>8, <1>t DEF PreToolExec, Started
<1>9. CASE PostToolExec(r)
  BY <1>9, <1>t DEF PostToolExec
<1>10. CASE EmitResults(r) \/ Announce(r) \/ Answered(r)
  BY <1>10, <1>t DEF EmitResults, Announce, Answered
<1>11. CASE PostLoop(r) \/ LastEvent(r)
  BY <1>11, <1>t DEF PostLoop, LastEvent
<1> QED BY <1>1, <1>2, <1>3, <1>4, <1>5, <1>6, <1>7, <1>8, <1>9, <1>10, <1>11 DEF RunStep, Work

\* The marks of the runs that do not take the step.
LEMMA OthersMarks ==
  ASSUME TypeOK, TurnsInv, CallsInv, LastInv, NEW r \in Runs, RunStep(r), NEW q \in Runs, q # r,
         MarksOf(q)
  PROVE  MarksOf(q)'
<1>1. CASE Work(r)
  <2>1. pc'[q] = pc[q]
    BY <1>1, OthersStay DEF RunStep
  <2>2. pc[q] \notin Active
    BY <1>1, WorkStays DEF TurnsInv
  <2> QED BY <2>1, <2>2 DEF MarksOf, Active, Loop
<1>2. CASE ~Work(r)
  <2>1. transcript' = transcript /\ executed' = executed /\ stopped' = stopped
    BY <1>2 DEF RunStep, Run, Cancel, Receive, Release, CloseEvents, history
  <2>2. pc'[q] = pc[q] /\ content'[q] = content[q] /\ refused'[q] = refused[q]
    BY OthersStay
  <2> QED BY <2>1, <2>2 DEF MarksOf, Marks, LastIndex
<1> QED BY <1>1, <1>2

\* The answer the run works on.
LEMMA WorkedOn ==
  ASSUME TypeOK, CallsInv, LastInv, NEW r \in Runs, content[r].calls > 0, pc[r] \in Holding,
         NEW L, L = LastIndex
  PROVE  /\ IsLast(r) /\ AnswerOf(r) = L /\ L \in Nat /\ L \in DOMAIN transcript
         /\ transcript[L].calls = content[r].calls
<1>1. IsLast(r)
  BY DEF CallsInv, CallsOf, LastInv
<1> QED BY <1>1, AnswerIsLast DEF IsLast, Said

\* Refusing calls keeps the marks: those of this answer had none.
LEMMA GatedMarks ==
  ASSUME TypeOK, CallsInv, LastInv, NEW r \in Runs, CallsMarked, MarksOf(r), Gated(r)
  PROVE  CallsMarked' /\ MarksOf(r)'
<1> SUFFICES ASSUME NEW L, L = LastIndex PROVE CallsMarked' /\ MarksOf(r)'
  OBVIOUS
<1>1. PICK accepted \in SUBSET (1 .. content[r].calls) :
        /\ refused'[r] = (1 .. content[r].calls) \ accepted
        /\ stopped' = stopped \cup {<<AnswerOf(r), k>> : k \in (1 .. content[r].calls) \ accepted}
  BY DEF Gated
<1>2. /\ pc[r] = "post_model" /\ pc'[r] = "tool_call" /\ content[r].calls > 0
      /\ content' = content /\ transcript' = transcript /\ executed' = executed
  BY DEF Gated
<1>3. /\ AnswerOf(r) = L /\ L \in Nat /\ L \in DOMAIN transcript
      /\ transcript[L].calls = content[r].calls /\ content[r].some /\ content[r].calls \in Nat
  <2>1. content[r].calls \in Nat
    BY Parameters DEF TypeOK, Parameters
  <2>2. content[r].some
    BY <1>2 DEF CallsInv, CallsOf
  <2> QED BY <1>2, <2>1, <2>2, WorkedOn DEF Holding
<1> DEFINE new == {<<L, k>> : k \in refused'[r]}
<1>4. stopped' = stopped \cup new
  BY <1>1, <1>3
<1>5. \A c \in Marks : c[1] # L
  BY <1>2, <1>3 DEF MarksOf
<1>6. \A c \in new : c[1] = L /\ c[2] <= transcript[c[1]].calls
  BY <1>1, <1>3
<1>7. executed' \cap stopped' = {}
  BY <1>2, <1>4, <1>5, <1>6 DEF CallsMarked, Marks
<1>8. \A c \in Marks' : c[1] \in DOMAIN transcript' /\ c[2] <= transcript'[c[1]].calls
  <2>1. \A c \in Marks' : c \in Marks \/ c \in new
    BY <1>2, <1>4 DEF Marks
  <2> QED BY <1>2, <1>3, <1>6, <2>1 DEF CallsMarked
<1>9. \A i, k : i \in DOMAIN transcript' /\ k \in Results(i)' => <<i, k>> \in Marks'
  <2>1. DOMAIN transcript' = DOMAIN transcript /\ \A i : Results(i)' = Results(i)
    BY <1>2 DEF Results, ResultsOf
  <2>2. Marks \subseteq Marks'
    BY <1>2, <1>4 DEF Marks
  <2>3. \A i, k : i \in DOMAIN transcript /\ k \in Results(i) => <<i, k>> \in Marks
    BY DEF CallsMarked
  <2> QED BY <2>1, <2>2, <2>3
<1>10. \A c \in executed' : c[1] # LastIndex'
  BY <1>2, <1>5 DEF Marks, LastIndex
<1>11. ASSUME NEW k \in 1 .. content[r].calls PROVE <<L, k>> \in stopped' <=> k \in refused'[r]
  <2>1. <<L, k>> \notin stopped
    BY <1>5 DEF Marks
  <2>2. <<L, k>> \in new <=> k \in refused'[r]
    OBVIOUS
  <2> QED BY <1>4, <2>1, <2>2
<1>12. LastIndex' = L
  BY <1>2 DEF LastIndex
<1>13. MarksOf(r)'
  BY <1>2, <1>10, <1>11, <1>12 DEF MarksOf
<1> QED BY <1>7, <1>8, <1>9, <1>13 DEF CallsMarked

\* Starting the calls that were not refused keeps the marks.
LEMMA StartedMarks ==
  ASSUME TypeOK, CallsInv, LastInv, NEW r \in Runs, CallsMarked, MarksOf(r), Started(r)
  PROVE  CallsMarked' /\ MarksOf(r)'
<1> SUFFICES ASSUME NEW L, L = LastIndex PROVE CallsMarked' /\ MarksOf(r)'
  OBVIOUS
<1>2. /\ pc[r] = "pre_tool" /\ pc'[r] = "tools" /\ calls[r] = 1 .. content[r].calls
      /\ content' = content /\ transcript' = transcript /\ stopped' = stopped
      /\ content[r].calls > 0
  BY DEF Started, CallsInv, CallsOf
<1>3. /\ AnswerOf(r) = L /\ L \in Nat /\ L \in DOMAIN transcript
      /\ transcript[L].calls = content[r].calls /\ content[r].calls \in Nat
  <2>1. content[r].calls \in Nat
    BY Parameters DEF Parameters, TypeOK
  <2>2. pc[r] \in Holding
    BY <1>2 DEF Holding
  <2> QED BY <1>2, <2>1, <2>2, WorkedOn
<1> DEFINE new == {<<L, k>> : k \in Offered(r)}
<1>4. executed' = executed \cup new
  BY <1>3 DEF Started
<1>5. /\ \A k \in Offered(r) : k \in 1 .. content[r].calls /\ k \notin refused[r]
      /\ \A k \in 1 .. content[r].calls : k \in Offered(r) \/ k \in refused[r]
  BY <1>2 DEF Offered
<1>6. \A k \in 1 .. content[r].calls : <<L, k>> \in stopped <=> k \in refused[r]
  BY <1>2 DEF MarksOf
<1>7. \A c \in new : c[1] = L /\ c[2] <= transcript[c[1]].calls /\ c \notin stopped
  BY <1>3, <1>5, <1>6
<1>8. executed' \cap stopped' = {}
  BY <1>2, <1>4, <1>7 DEF CallsMarked
<1>9. \A c \in Marks' : c[1] \in DOMAIN transcript' /\ c[2] <= transcript'[c[1]].calls
  <2>1. \A c \in Marks' : c \in Marks \/ c \in new
    BY <1>2, <1>4 DEF Marks
  <2> QED BY <1>2, <1>3, <1>7, <2>1 DEF CallsMarked
<1>10. \A i, k : i \in DOMAIN transcript' /\ k \in Results(i)' => <<i, k>> \in Marks'
  <2>1. DOMAIN transcript' = DOMAIN transcript /\ \A i : Results(i)' = Results(i)
    BY <1>2 DEF Results, ResultsOf
  <2>2. Marks \subseteq Marks'
    BY <1>2, <1>4 DEF Marks
  <2>3. \A i, k : i \in DOMAIN transcript /\ k \in Results(i) => <<i, k>> \in Marks
    BY DEF CallsMarked
  <2> QED BY <2>1, <2>2, <2>3
<1>11. ASSUME NEW k \in 1 .. content[r].calls PROVE <<L, k>> \in Marks'
  BY <1>2, <1>4, <1>5, <1>6 DEF Marks
<1>12. LastIndex' = L
  BY <1>2 DEF LastIndex
<1>13. MarksOf(r)'
  BY <1>2, <1>11, <1>12 DEF MarksOf
<1> QED BY <1>8, <1>9, <1>10, <1>13 DEF CallsMarked

\* Every step keeps the marks.
LEMMA MarksStep ==
  /\ TypeOK /\ TurnsInv /\ CallsInv /\ LastInv /\ MessagesInv /\ MarksInv
  /\ [Next]_vars
  => MarksInv'
<1> SUFFICES ASSUME TypeOK, TurnsInv, CallsInv, LastInv, MessagesInv, MarksInv, [Next]_vars
             PROVE  MarksInv'
  OBVIOUS
<1>1. CASE UNCHANGED vars
  BY <1>1 DEF MarksInv, CallsMarked, MarksOf, Marks, Results, ResultsOf, LastIndex, vars, turn, history
<1> SUFFICES ASSUME NEW r \in Runs, RunStep(r) PROVE MarksInv'
  BY <1>1, StepKinds DEF RunStep
<1>2. CallsMarked /\ MarksOf(r)
  BY DEF MarksInv
<1>3. SUFFICES CallsMarked' /\ MarksOf(r)'
  BY OthersMarks DEF MarksInv
<1>4. CASE Gated(r)
  BY <1>2, <1>4, GatedMarks
<1>5. CASE Started(r)
  BY <1>2, <1>5, StartedMarks
<1>6. CASE ~Gated(r) /\ ~Started(r)
  <2>1. executed' = executed /\ stopped' = stopped /\ Marks' = Marks
    BY <1>6, MarkKinds DEF Marks
  <2>2. CASE transcript' = transcript
    <3>1. CallsMarked'
      BY <1>2, <2>1, <2>2 DEF CallsMarked, Results, ResultsOf
    <3>2. LastIndex' = LastIndex
      BY <2>2 DEF LastIndex
    <3>3. /\ pc'[r] \in {"completion", "state", "post_model", "tool_call", "pre_tool", "tools", "results"} =>
               content'[r] = content[r]
          /\ pc'[r] \in {"completion", "state", "post_model"} /\ content[r].some =>
               pc[r] \in {"completion", "state", "post_model"}
          /\ pc'[r] \in {"tool_call", "pre_tool"} =>
               pc[r] \in {"tool_call", "pre_tool"} /\ refused'[r] = refused[r]
          /\ pc'[r] \in {"tools", "results"} => pc[r] \in {"tools", "results"}
      BY <1>6, <2>2, MarkKinds
    <3>4. MarksOf(r)'
      BY <1>2, <2>1, <3>2, <3>3 DEF MarksOf
    <3> QED BY <3>1, <3>4
  <2> SUFFICES ASSUME NEW L, L = LastIndex PROVE transcript' # transcript => CallsMarked' /\ MarksOf(r)'
    BY <2>2
  <2>3. CASE SaysMore(r)
    <3>1. PICK role \in {"user", "assistant"}, n \in 0 .. MaxCalls :
            transcript' = Append(transcript, Said(role, r, n))
      BY <2>3 DEF SaysMore
    <3>2. /\ L \in Nat /\ DOMAIN transcript = 1 .. L /\ DOMAIN transcript' = 1 .. L + 1
          /\ LastIndex' = L + 1 /\ Results(L + 1)' = {}
          /\ \A i \in 1 .. L : transcript'[i] = transcript[i] /\ Results(i)' = Results(i)
      BY <3>1, SaidAppended
    <3>3. \A i \in 1 .. L + 1 : i \in 1 .. L \/ i = L + 1
      BY <3>2
    <3>4. \A i \in 1 .. L : i \in 1 .. L + 1 /\ i # L + 1
      BY <3>2
    <3>5. \A c \in Marks' : c[1] \in DOMAIN transcript' /\ c[2] <= transcript'[c[1]].calls
      BY <1>2, <2>1, <3>2, <3>4 DEF CallsMarked
    <3>6. \A i, k : i \in DOMAIN transcript' /\ k \in Results(i)' => <<i, k>> \in Marks'
      <4>1. \A i, k : i \in 1 .. L /\ k \in Results(i)' => <<i, k>> \in Marks'
        BY <1>2, <2>1, <3>2 DEF CallsMarked
      <4>2. \A k \in Results(L + 1)' : <<L + 1, k>> \in Marks'
        BY <3>2
      <4> QED BY <3>2, <3>3, <4>1, <4>2
    <3>7. \A c \in Marks' : c[1] # LastIndex'
      BY <1>2, <2>1, <3>2, <3>4 DEF CallsMarked
    <3>8. pc'[r] \in {"user", "completion", "partial"}
      BY <2>3 DEF SaysMore
    <3> QED BY <1>2, <2>1, <3>5, <3>6, <3>7, <3>8 DEF CallsMarked, MarksOf
  <2>4. CASE ResultsIn(r)
    <3>1. /\ IsLast(r) /\ transcript' = transcript \o ResultsFor(r) /\ pc'[r] = "announce"
          /\ pc[r] = "results"
      BY <2>4 DEF ResultsIn
    <3>2. PICK n, f : ResultsBehind(r, L, n, f)
      BY <3>1, ResultsShape
    <3>3. /\ L \in Nat /\ DOMAIN transcript = 1 .. L /\ DOMAIN transcript' = 1 .. LastIndex'
          /\ LastIndex' \in Nat /\ L <= LastIndex'
          /\ \A i \in 1 .. L : transcript'[i] = transcript[i]
          /\ \A i \in 1 .. L : i # L => Results(i)' = Results(i)
          /\ \A i \in L + 1 .. LastIndex' : Results(i)' = {}
          /\ Results(L)' = calls[r]
      BY <3>1, <3>2, ResultsAppended
    <3>4. \A i \in 1 .. LastIndex' : i \in 1 .. L \/ i \in L + 1 .. LastIndex'
      BY <3>3
    <3>5. \A i \in 1 .. L : i \in 1 .. LastIndex'
      BY <3>3
    <3>6. \A c \in Marks' : c[1] \in DOMAIN transcript' /\ c[2] <= transcript'[c[1]].calls
      BY <1>2, <2>1, <3>3, <3>5 DEF CallsMarked
    <3>7. \A k \in calls[r] : <<L, k>> \in Marks
      BY <1>2, <3>1 DEF MarksOf, CallsInv, CallsOf
    <3>8. \A i, k : i \in DOMAIN transcript' /\ k \in Results(i)' => <<i, k>> \in Marks'
      <4>1. ASSUME NEW i \in 1 .. L, i # L PROVE \A k : k \in Results(i)' => <<i, k>> \in Marks'
        BY <1>2, <2>1, <3>3, <4>1 DEF CallsMarked
      <4>2. \A k \in Results(L)' : <<L, k>> \in Marks'
        BY <2>1, <3>3, <3>7
      <4>3. \A i, k : i \in L + 1 .. LastIndex' /\ k \in Results(i)' => <<i, k>> \in Marks'
        BY <3>3
      <4> QED BY <3>3, <3>4, <4>1, <4>2, <4>3
    <3> QED BY <1>2, <2>1, <3>1, <3>6, <3>8 DEF CallsMarked, MarksOf
  <2> QED BY <2>3, <2>4, Growth
<1> QED BY <1>4, <1>5, <1>6

-----------------------------------------------------------------------------
(* The events *)

\* The first message of a run that need not have been announced yet.
Waiting(r) == IF pc[r] \in {"user", "completion", "state", "partial"} THEN LastIndex
              ELSE IF pc[r] = "announce" THEN next[r] ELSE LastIndex + 1
IsTold(r, i) == \E n \in Told(r) : sent[r][n][2] = i
AnnouncedOf(r) ==
  /\ \A n \in Told(r) : sent[r][n][2] \in Own(r)
  /\ \A m, n \in Told(r) : m < n => sent[r][m][2] < sent[r][n][2]
  /\ \A n \in Told(r), i \in Own(r) :
       i < sent[r][n][2] => \E m \in Told(r) : sent[r][m][2] = i
  /\ <<"done", 0>> \in ToSet(sent[r]) => \A i \in Own(r) : IsTold(r, i)
EndedOf(r) ==
  /\ \A n \in DOMAIN sent[r] : sent[r][n][1] # "state_change" => n = Len(sent[r])
  /\ pc[r] \in {"release", "close"} =>
       \/ ctxDone[r] /\ ToSet(sent[r]) \cap {<<"error", 0>>, <<"done", 0>>} = {}
       \/ sent[r] # <<>> /\ Last(sent[r])[1] = IF r \in failed THEN "error" ELSE "done"
WaitingOf(r) ==
  /\ pc[r] \in {"idle", "over"} => sent[r] = <<>>
  /\ pc[r] \in Loop \cup {"post_loop", "last_event"} =>
       \A n \in DOMAIN sent[r] : sent[r][n][1] = "state_change"
  /\ pc[r] \in {"user", "completion", "state", "partial"} => LastIndex \in Own(r)
  /\ pc[r] = "announce" =>
       next[r] > 0 /\ \A i \in DOMAIN transcript : next[r] <= i => i \in Own(r)
  /\ pc[r] # "over" /\ r \notin failed => \A i \in Own(r) : i < Waiting(r) => IsTold(r, i)
  /\ pc[r] \in Loop => \A n \in Told(r) : sent[r][n][2] < Waiting(r)
EventsOf(r) == AnnouncedOf(r) /\ EndedOf(r) /\ WaitingOf(r)
EventsInv == \A r \in Runs : EventsOf(r)

\* What a step does to the events of its run.
Plain == {"pre_loop", "iterate", "stream", "post_model", "tool_call", "pre_tool", "tools", "results"}
Quiet(r) ==
  /\ transcript' = transcript /\ sent'[r] = sent[r]
  /\ ctxDone[r] => ctxDone'[r]
  /\ r \in failed => r \in failed'
  /\ \/ pc'[r] = pc[r] /\ next'[r] = next[r] /\ (r \in failed' => r \in failed)
     \/ pc[r] \in Loop /\ pc'[r] = "post_loop" /\ r \in failed'
     \/ /\ pc[r] \in Plain \cup {"idle", "post_loop"}
        /\ pc'[r] \in Plain \cup {"post_loop", "last_event"}
        /\ pc[r] = "post_loop" => pc'[r] = "last_event"
     \/ pc[r] = "completion" /\ pc'[r] = "state"
     \/ pc[r] = "announce" /\ pc'[r] = "iterate" /\ next[r] > LastIndex
     \/ pc[r] = "last_event" /\ pc'[r] = "release" /\ ctxDone[r]
     \/ pc[r] = "release" /\ pc'[r] = "close" /\ (r \in failed' => r \in failed)
Tells(r) ==
  /\ transcript' = transcript
  /\ r \in failed => r \in failed'
  /\ sent'[r] = sent[r] \o StateChange(Waiting(r))
  /\ \/ pc[r] \in {"user", "state"} /\ pc'[r] \in {"iterate", "post_model"}
     \/ /\ pc[r] = "announce" /\ pc'[r] = "announce"
        /\ next[r] <= LastIndex /\ next'[r] = next[r] + 1
     \/ pc[r] = "partial" /\ pc'[r] = "post_loop" /\ r \in failed'
Grows(r) ==
  /\ sent'[r] = sent[r]
  /\ r \in failed => r \in failed'
  /\ SaysMore(r) \/ (ResultsIn(r) /\ next'[r] = LastIndex + 1)
Ends(r) ==
  /\ pc[r] = "last_event" /\ pc'[r] = "release" /\ failed' = failed
  /\ transcript' = transcript /\ sent'[r] = sent[r] \o LastEvents(r)
Closes(r) == pc'[r] = "over" /\ sent'[r] = <<>>

\* Sending no event changes no event.
LEMMA SendNothing == ASSUME TypeOK, NEW r \in Runs, Send(r, <<>>) PROVE sent' = sent
<1>1. sent \in [Runs -> Seq(Event)]
  BY DEF TypeOK, Event
<1>2. sent[r] \in Seq(Event)
  BY <1>1
<1>3. sent[r] \o <<>> = sent[r]
  BY <1>2
<1>4. sent' = [sent EXCEPT ![r] = sent[r]]
  BY <1>3 DEF Send
<1> QED BY <1>1, <1>4

\* A step sends nothing, announces messages, appends them, ends the run, or closes its channel.
LEMMA EventKinds ==
  ASSUME TypeOK, CallsInv, LastInv, NEW r \in Runs, RunStep(r)
  PROVE  Quiet(r) \/ Tells(r) \/ Grows(r) \/ Ends(r) \/ Closes(r)
<1> USE DEF turn, channel, history, Move, Goto, Fail, Loop
<1>t. /\ pc \in [Runs -> Pcs] /\ ctxDone \in [Runs -> BOOLEAN] /\ next \in [Runs -> Nat]
      /\ sent \in [Runs -> Seq({"state_change", "error", "done"} \X Nat)] /\ failed \subseteq Runs
  BY DEF TypeOK
<1>n. ASSUME NEW l, Emit(r, <<>>, l)
      PROVE  /\ sent' = sent
             /\ \/ pc' = [pc EXCEPT ![r] = l] /\ failed' = failed
                \/ pc' = [pc EXCEPT ![r] = "post_loop"] /\ failed' = failed \cup {r}
  BY <1>n, SendNothing DEF Emit
<1>s. ASSUME NEW i, Send(r, StateChange(i)) PROVE sent'[r] = sent[r] \o StateChange(i)
  BY <1>s, <1>t DEF Send
<1>1. CASE Run(r) \/ Cancel(r) \/ Receive(r) \/ Release(r)
  BY <1>1, <1>t DEF Run, Cancel, Receive, Release, Quiet, Plain
<1>2. CASE CloseEvents(r)
  BY <1>2, <1>t DEF CloseEvents, Closes
<1>3. CASE Chunk(r)
  BY <1>3, SendNothing DEF Chunk, Quiet
<1>4. CASE PreLoop(r)
  <2>1. CASE SaysMore(r)
    BY <1>4, <2>1, <1>t DEF PreLoop, Grows
  <2>2. CASE ~SaysMore(r)
    <3>1. transcript' = transcript
      BY <1>4, <2>2, Growth DEF RunStep, Work, ResultsIn, PreLoop
    <3>2. Len(Append(transcript, Said("user", r, 0))) # Len(transcript)
      <4>1. Said("user", r, 0) \in Message
        BY Parameters DEF Parameters, Said, Message
      <4> QED BY <4>1 DEF TypeOK
    <3>3. Fail(r)
      BY <1>4, <3>1, <3>2 DEF PreLoop
    <3> QED BY <1>4, <1>t, <3>1, <3>3 DEF PreLoop, Quiet
  <2> QED BY <2>1, <2>2
<1>5. CASE EmitUser(r) \/ EmitAnswer(r)
  <2>1. CASE Send(r, StateChange(LastIndex)) /\ pc'[r] \in {"iterate", "post_model"}
    <3>1. sent'[r] = sent[r] \o StateChange(LastIndex)
      BY <1>s, <2>1
    <3>2. pc[r] \in {"user", "state"} /\ transcript' = transcript /\ (r \in failed => r \in failed')
      BY <1>5 DEF EmitUser, EmitAnswer, Emit
    <3>3. Waiting(r) = LastIndex
      BY <3>2 DEF Waiting
    <3> QED BY <2>1, <3>1, <3>2, <3>3 DEF Tells
  <2>2. CASE ~(Send(r, StateChange(LastIndex)) /\ pc'[r] \in {"iterate", "post_model"})
    BY <1>5, <1>t, <2>2 DEF EmitUser, EmitAnswer, Emit, Quiet
  <2> QED BY <2>1, <2>2
<1>6. CASE Ask(r)
  BY <1>6, <1>t DEF Ask, Quiet, Plain
<1>7. CASE StreamFails(r) \/ StreamEnds(r)
  <2>1. sent' = sent
    BY <1>7, SendNothing DEF StreamFails, StreamEnds
  <2>2. CASE content[r].some
    <3>1. SaysMore(r)
      <4>1. content[r].calls \in 0 .. MaxCalls
        BY DEF TypeOK
      <4> QED BY <1>7, <1>t, <2>2, <4>1 DEF StreamFails, StreamEnds, Keep, SaysMore
    <3> QED BY <1>7, <2>1, <2>2, <3>1 DEF StreamFails, StreamEnds, Grows
  <2>3. CASE ~content[r].some
    BY <1>7, <1>t, <2>1, <2>3 DEF StreamFails, StreamEnds, Quiet, Plain
  <2> QED BY <2>2, <2>3
<1>8. CASE EmitIncomplete(r)
  <2>1. CASE Send(r, StateChange(LastIndex))
    BY <1>8, <1>s, <1>t, <2>1 DEF EmitIncomplete, Tells, Waiting
  <2>2. CASE ~Send(r, StateChange(LastIndex))
    BY <1>8, <1>t, <2>2 DEF EmitIncomplete, Quiet
  <2> QED BY <2>1, <2>2
<1>9. CASE EmitCompletion(r)
  BY <1>9, <1>n, <1>t DEF EmitCompletion, Quiet
<1>10. CASE Gate(r)
  BY <1>10, <1>t DEF Gate, Quiet, Plain
<1>11. CASE EmitToolCalls(r)
  BY <1>11, <1>n, <1>t DEF EmitToolCalls, Quiet, Plain
<1>12. CASE PreToolExec(r) \/ \E k \in Calls : ToolEnds(r, k)
  BY <1>12, <1>t DEF PreToolExec, ToolEnds, Quiet, Plain
<1>13. CASE PostToolExec(r)
  BY <1>13, <1>t DEF PostToolExec, Quiet, Plain
<1>14. CASE EmitResults(r)
  <2>1. sent' = sent
    BY <1>14, <1>n DEF EmitResults
  <2>2. CASE pc'[r] = "announce"
    <3>1. ResultsIn(r)
      BY <1>14, <2>2, Growth DEF RunStep, Work, EmitResults, SaysMore
    <3>2. next'[r] = LastIndex + 1
      BY <1>14, <1>t, <2>2 DEF EmitResults, FirstToAnnounce
    <3>3. r \in failed => r \in failed'
      BY <1>14 DEF EmitResults, Emit
    <3> QED BY <2>1, <3>1, <3>2, <3>3 DEF Grows
  <2>3. CASE pc'[r] # "announce"
    BY <1>14, <1>t, <2>1, <2>3 DEF EmitResults, Emit, Quiet
  <2> QED BY <2>2, <2>3
<1>15. CASE Announce(r)
  <2>1. CASE Send(r, StateChange(next[r])) /\ pc'[r] = "announce"
    <3>1. next'[r] = next[r] + 1 /\ sent'[r] = sent[r] \o StateChange(next[r])
      BY <1>15, <1>s, <1>t, <2>1 DEF Announce
    <3>2. /\ pc[r] = "announce" /\ transcript' = transcript /\ next[r] <= LastIndex
          /\ r \in failed => r \in failed'
      BY <1>15 DEF Announce, Emit
    <3>3. Waiting(r) = next[r]
      BY <3>2 DEF Waiting
    <3> QED BY <2>1, <3>1, <3>2, <3>3 DEF Tells
  <2>2. CASE ~(Send(r, StateChange(next[r])) /\ pc'[r] = "announce")
    BY <1>15, <1>t, <2>2 DEF Announce, Emit, Quiet
  <2> QED BY <2>1, <2>2
<1>16. CASE Answered(r)
  BY <1>16, <1>t DEF Answered, Quiet
<1>17. CASE PostLoop(r)
  BY <1>17, <1>t DEF PostLoop, Quiet
<1>18. CASE LastEvent(r)
  <2>1. CASE Send(r, LastEvents(r))
    BY <1>18, <1>t, <2>1 DEF LastEvent, Send, Ends
  <2>2. CASE ~Send(r, LastEvents(r))
    BY <1>18, <1>t, <2>2 DEF LastEvent, Quiet
  <2> QED BY <2>1, <2>2
<1> QED BY <1>1, <1>2, <1>3, <1>4, <1>5, <1>6, <1>7, <1>8, <1>9, <1>10, <1>11, <1>12, <1>13,
           <1>14, <1>15, <1>16, <1>17, <1>18 DEF RunStep, Work

\* The types the events and the messages have.
LEMMA EventFacts ==
  ASSUME TypeOK, NEW r \in Runs
  PROVE  /\ sent[r] \in Seq(Event) /\ Len(sent[r]) \in Nat /\ DOMAIN sent[r] = 1 .. Len(sent[r])
         /\ \A n \in DOMAIN sent[r] : sent[r][n] \in Event /\ sent[r][n][2] \in Nat
         /\ Told(r) \subseteq DOMAIN sent[r]
         /\ next[r] \in Nat /\ LastIndex \in Nat /\ DOMAIN transcript = 1 .. LastIndex
         /\ Own(r) \subseteq 1 .. LastIndex
<1>1. sent[r] \in Seq(Event) /\ next[r] \in Nat /\ transcript \in Seq(Message)
  BY DEF TypeOK, Event
<1>2. \A x \in Event : x[2] \in Nat
  BY DEF Event
<1>3. /\ Len(sent[r]) \in Nat /\ DOMAIN sent[r] = 1 .. Len(sent[r])
      /\ \A n \in 1 .. Len(sent[r]) : sent[r][n] \in Event
  BY <1>1
<1>4. LastIndex \in Nat /\ DOMAIN transcript = 1 .. LastIndex
  BY <1>1 DEF LastIndex
<1> QED BY <1>1, <1>2, <1>3, <1>4 DEF Told, Own

\* A run that sent state changes only has not said how it ended, and all it sent tells of messages.
LEMMA NotEnded ==
  ASSUME NEW r \in Runs, \A n \in DOMAIN sent[r] : sent[r][n][1] = "state_change"
  PROVE  ToSet(sent[r]) \cap {<<"error", 0>>, <<"done", 0>>} = {} /\ Told(r) = DOMAIN sent[r]
  BY DEF ToSet, Told

\* Nothing was sent: the place the run waits at is as far as it was.
LEMMA QuietEvents ==
  ASSUME TypeOK, TypeOK', NEW r \in Runs, EventsOf(r), Quiet(r)
  PROVE  EventsOf(r)'
<1>1. /\ transcript' = transcript /\ sent'[r] = sent[r] /\ LastIndex' = LastIndex
      /\ Own(r)' = Own(r) /\ Told(r)' = Told(r) /\ \A i : IsTold(r, i)' <=> IsTold(r, i)
  BY DEF Quiet, Own, Told, IsTold, LastIndex
<1>2. AnnouncedOf(r) /\ EndedOf(r) /\ WaitingOf(r)
  BY DEF EventsOf
<1>3. AnnouncedOf(r)'
  BY <1>1, <1>2 DEF AnnouncedOf
<1>4. EndedOf(r)'
  <2>1. pc[r] = "last_event" => ToSet(sent[r]) \cap {<<"error", 0>>, <<"done", 0>>} = {}
    BY <1>2, NotEnded DEF WaitingOf
  <2>2. pc'[r] \in {"release", "close"} =>
          \/ pc[r] \in {"release", "close"} /\ (r \in failed' <=> r \in failed)
          \/ pc[r] = "last_event" /\ ctxDone[r]
    BY DEF Quiet, Plain
  <2>3. pc'[r] \in {"release", "close"} =>
          \/ ctxDone'[r] /\ ToSet(sent[r]) \cap {<<"error", 0>>, <<"done", 0>>} = {}
          \/ sent[r] # <<>> /\ Last(sent[r])[1] = IF r \in failed' THEN "error" ELSE "done"
    <3>1. ctxDone[r] => ctxDone'[r]
      BY DEF Quiet
    <3>2. CASE pc[r] \in {"release", "close"} /\ (r \in failed' <=> r \in failed)
      BY <1>2, <3>1, <3>2 DEF EndedOf
    <3>3. CASE pc[r] = "last_event" /\ ctxDone[r]
      BY <2>1, <3>1, <3>3
    <3> QED BY <2>2, <3>2, <3>3
  <2> QED BY <1>1, <1>2, <2>3 DEF EndedOf
<1>5. WaitingOf(r)'
  <2> USE DEF Loop, Plain
  <2>n. /\ LastIndex \in Nat /\ Own(r) \subseteq 1 .. LastIndex /\ next[r] \in Nat
        /\ \A n \in Told(r) : sent[r][n][2] \in 1 .. LastIndex
    BY <1>2, EventFacts DEF AnnouncedOf
  <2>f. r \notin failed' => r \notin failed
    BY DEF Quiet
  <2>1. CASE pc'[r] = pc[r] /\ next'[r] = next[r]
    <3>1. Waiting(r)' = Waiting(r)
      BY <1>1, <2>1 DEF Waiting
    <3> QED BY <1>1, <1>2, <2>1, <2>f, <3>1 DEF WaitingOf
  <2>2. CASE pc[r] \in Loop /\ pc'[r] = "post_loop" /\ r \in failed'
    BY <1>1, <1>2, <2>2 DEF WaitingOf
  <2>3. CASE /\ pc[r] \in Plain \cup {"idle", "post_loop"}
             /\ pc'[r] \in Plain \cup {"post_loop", "last_event"}
             /\ pc[r] = "post_loop" => pc'[r] = "last_event"
    <3>1. Waiting(r)' = LastIndex + 1 /\ Waiting(r) = LastIndex + 1
      BY <1>1, <2>3 DEF Waiting
    <3>2. \A n \in Told(r) : sent[r][n][2] < LastIndex + 1
      BY <2>n
    <3>3. \A n \in DOMAIN sent[r] : sent[r][n][1] = "state_change"
      BY <1>2, <2>3 DEF WaitingOf
    <3> QED BY <1>1, <1>2, <2>3, <2>f, <3>1, <3>2, <3>3 DEF WaitingOf
  <2>4. CASE pc[r] = "completion" /\ pc'[r] = "state"
    <3>1. Waiting(r)' = LastIndex /\ Waiting(r) = LastIndex
      BY <1>1, <2>4 DEF Waiting
    <3> QED BY <1>1, <1>2, <2>4, <2>f, <3>1 DEF WaitingOf
  <2>5. CASE pc[r] = "announce" /\ pc'[r] = "iterate" /\ next[r] > LastIndex
    <3>1. Waiting(r)' = LastIndex + 1 /\ Waiting(r) = next[r]
      BY <1>1, <2>5 DEF Waiting
    <3>2. \A n \in Told(r) : sent[r][n][2] < LastIndex + 1
      BY <2>n
    <3>3. \A i \in Own(r) : i < next[r]
      BY <2>n, <2>5
    <3> QED BY <1>1, <1>2, <2>5, <2>f, <3>1, <3>2, <3>3 DEF WaitingOf
  <2>6. CASE \/ pc[r] = "last_event" /\ pc'[r] = "release"
             \/ pc[r] = "release" /\ pc'[r] = "close"
    <3>1. Waiting(r)' = LastIndex + 1 /\ Waiting(r) = LastIndex + 1
      BY <1>1, <2>6 DEF Waiting
    <3> QED BY <1>1, <1>2, <2>6, <2>f, <3>1 DEF WaitingOf
  <2> QED BY <2>1, <2>2, <2>3, <2>4, <2>5, <2>6 DEF Quiet
<1> QED BY <1>3, <1>4, <1>5 DEF EventsOf

\* A message was announced: it is the one the run waited at.
LEMMA TellsEvents ==
  ASSUME TypeOK, NEW r \in Runs, EventsOf(r), DangleOf(r), Tells(r)
  PROVE  EventsOf(r)'
<1> SUFFICES ASSUME NEW w, w = Waiting(r), NEW L, L = Len(sent[r]) PROVE EventsOf(r)'
  OBVIOUS
<1>0. AnnouncedOf(r) /\ EndedOf(r) /\ WaitingOf(r)
  BY DEF EventsOf
<1>1. /\ transcript' = transcript /\ LastIndex' = LastIndex /\ Own(r)' = Own(r)
      /\ pc[r] \in {"user", "state", "announce", "partial"}
  BY DEF Tells, Own, LastIndex
<1>2. r \notin failed /\ pc[r] \in Loop
  BY <1>1 DEF DangleOf, Loop
<1>3. w \in Own(r) /\ w \in Nat
  <2>1. CASE pc[r] \in {"user", "state", "partial"}
    BY <1>0, <2>1, EventFacts DEF WaitingOf, Waiting
  <2>2. CASE pc[r] = "announce"
    <3>1. next[r] \in 1 .. LastIndex
      BY <1>0, <2>2, EventFacts DEF WaitingOf, Tells
    <3> QED BY <1>0, <2>2, <3>1, EventFacts DEF WaitingOf, Waiting
  <2> QED BY <1>1, <2>1, <2>2
<1>4. /\ L \in Nat /\ DOMAIN sent[r] = 1 .. L /\ DOMAIN sent'[r] = 1 .. L + 1
      /\ \A n \in 1 .. L : sent'[r][n] = sent[r][n]
      /\ sent'[r][L + 1] = <<"state_change", w>> /\ Len(sent'[r]) = L + 1
  <2>1. sent[r] \in Seq(Event) /\ <<"state_change", w>> \in Event
    BY <1>3, EventFacts DEF Event
  <2>2. sent'[r] = sent[r] \o <<<<"state_change", w>>>>
    BY DEF Tells, StateChange
  <2> QED BY <2>1, <2>2
<1>5. \A n \in 1 .. L : sent[r][n][1] = "state_change" /\ sent[r][n][2] \in Nat
  BY <1>0, <1>2, <1>4, EventFacts DEF WaitingOf
<1>6. \A n \in 1 .. L + 1 : n \in 1 .. L \/ n = L + 1
  BY <1>4
<1>7. /\ Told(r) = 1 .. L /\ Told(r)' = 1 .. L + 1
      /\ \A n \in 1 .. L + 1 : sent'[r][n][1] = "state_change"
  <2>1. \A n \in 1 .. L + 1 : sent'[r][n][1] = "state_change"
    BY <1>4, <1>5, <1>6
  <2>2. Told(r) = 1 .. L
    BY <1>4, <1>5 DEF Told
  <2>3. Told(r)' = 1 .. L + 1
    BY <1>4, <2>1 DEF Told
  <2> QED BY <2>1, <2>2, <2>3
<1>8. /\ \A n \in 1 .. L : sent[r][n][2] < w
      /\ \A i \in Own(r) : i < w => \E n \in 1 .. L : sent[r][n][2] = i
  BY <1>0, <1>2, <1>7 DEF WaitingOf, IsTold, Loop
<1>9. /\ \A n \in 1 .. L : n \in 1 .. L + 1 /\ sent'[r][n][2] = sent[r][n][2]
      /\ L + 1 \in 1 .. L + 1 /\ sent'[r][L + 1][2] = w
  BY <1>4
<1>10. \A i \in Own(r) : i < w \/ i = w => IsTold(r, i)'
  BY <1>7, <1>8, <1>9 DEF IsTold
<1>11. AnnouncedOf(r)'
  <2>1. \A n \in Told(r)' : sent'[r][n][2] \in Own(r)'
    BY <1>0, <1>1, <1>3, <1>6, <1>7, <1>9 DEF AnnouncedOf
  <2>2. ASSUME NEW m \in Told(r)', NEW n \in Told(r)', m < n
        PROVE  sent'[r][m][2] < sent'[r][n][2]
    <3>1. m \in 1 .. L
      BY <1>4, <1>7, <2>2
    <3>2. CASE n \in 1 .. L
      BY <1>0, <1>7, <1>9, <2>2, <3>1, <3>2 DEF AnnouncedOf
    <3>3. CASE n = L + 1
      BY <1>8, <1>9, <3>1, <3>3
    <3> QED BY <1>6, <1>7, <3>2, <3>3
  <2>3. ASSUME NEW n \in Told(r)', NEW i \in Own(r)', i < sent'[r][n][2]
        PROVE  \E m \in Told(r)' : sent'[r][m][2] = i
    <3>1. i \in Own(r) /\ i \in Nat
      BY <1>1, EventFacts
    <3>2. i < w
      <4>1. CASE n \in 1 .. L
        <5>1. i < sent[r][n][2] /\ sent[r][n][2] < w /\ sent[r][n][2] \in Nat
          BY <1>5, <1>8, <1>9, <2>3, <4>1
        <5>2. w \in Nat /\ i \in Nat
          BY <1>3, <3>1
        <5> QED BY <5>1, <5>2
      <4>2. CASE n = L + 1
        BY <1>9, <2>3, <4>2
      <4> QED BY <1>6, <1>7, <4>1, <4>2
    <3> QED BY <1>10, <3>1, <3>2 DEF IsTold
  <2>4. <<"done", 0>> \notin ToSet(sent'[r])
    BY <1>4, <1>7 DEF ToSet
  <2> QED BY <2>1, <2>2, <2>3, <2>4 DEF AnnouncedOf
<1>12. EndedOf(r)'
  BY <1>4, <1>7 DEF EndedOf, Tells
<1>13. WaitingOf(r)'
  <2>1. \A n \in Told(r)' : sent'[r][n][2] < w + 1
    <3>1. \A n \in 1 .. L : sent[r][n][2] < w + 1
      BY <1>3, <1>5, <1>8
    <3>2. w < w + 1
      BY <1>3
    <3> QED BY <1>6, <1>7, <1>9, <3>1, <3>2
  <2>2. CASE pc[r] \in {"user", "state"} /\ pc'[r] \in {"iterate", "post_model"}
    <3>1. Waiting(r)' = LastIndex + 1 /\ w = LastIndex
      BY <1>1, <2>2 DEF Waiting
    <3>2. \A i \in Own(r) : i < w \/ i = w
      BY <1>3, <3>1, EventFacts
    <3>3. \A n \in Told(r)' : sent'[r][n][2] < w + 1
      BY <2>1
    <3> QED BY <1>1, <1>4, <1>7, <1>10, <2>2, <3>1, <3>2, <3>3 DEF WaitingOf
  <2>3. CASE pc[r] = "announce" /\ pc'[r] = "announce" /\ next'[r] = next[r] + 1
    <3>1. Waiting(r)' = w + 1 /\ w = next[r]
      BY <1>1, <2>3 DEF Waiting
    <3>2. \A i \in Own(r) : i < w + 1 => i < w \/ i = w
      BY <1>3, EventFacts
    <3>3. \A n \in Told(r)' : sent'[r][n][2] < w + 1
      BY <2>1
    <3>4. next'[r] > 0 /\ \A i \in DOMAIN transcript : next'[r] <= i => i \in Own(r)
      BY <1>0, <1>3, <2>3, <3>1, EventFacts DEF WaitingOf
    <3> QED BY <1>1, <1>4, <1>7, <1>10, <2>3, <3>1, <3>2, <3>3, <3>4 DEF WaitingOf
  <2>4. CASE pc[r] = "partial" /\ pc'[r] = "post_loop" /\ r \in failed'
    BY <1>4, <1>7, <2>4 DEF WaitingOf, Loop
  <2> QED BY <2>2, <2>3, <2>4 DEF Tells
<1> QED BY <1>11, <1>12, <1>13 DEF EventsOf

\* Messages were appended: they are what the run waits at.
LEMMA GrowsEvents ==
  ASSUME TypeOK, MessagesInv, NEW r \in Runs, EventsOf(r), Grows(r)
  PROVE  EventsOf(r)'
<1> SUFFICES ASSUME NEW L, L = LastIndex PROVE EventsOf(r)'
  OBVIOUS
<1>0. AnnouncedOf(r) /\ EndedOf(r) /\ WaitingOf(r)
  BY DEF EventsOf
<1>1. sent'[r] = sent[r] /\ Told(r)' = Told(r) /\ \A i : IsTold(r, i)' <=> IsTold(r, i)
  BY DEF Grows, Told, IsTold
<1>2. /\ pc[r] \in {"pre_loop", "stream", "results"}
      /\ pc'[r] \in {"user", "completion", "partial", "announce"}
      /\ pc'[r] # "announce" => SaysMore(r)
      /\ pc'[r] = "announce" => ResultsIn(r) /\ next'[r] = L + 1
  BY DEF Grows, SaysMore, ResultsIn
<1>3. /\ L \in Nat /\ DOMAIN transcript = 1 .. L /\ Own(r) \subseteq 1 .. L
      /\ \A n \in Told(r) : sent[r][n][2] \in Own(r)
  BY <1>0, EventFacts DEF AnnouncedOf
<1>4. /\ Own(r) \subseteq Own(r)' /\ \A i \in Own(r)' : i \in Own(r) \/ (i \in Nat /\ L < i)
      /\ Waiting(r)' = L + 1
      /\ pc'[r] # "announce" => LastIndex' \in Own(r)'
      /\ pc'[r] = "announce" => \A i \in DOMAIN transcript' : L + 1 <= i => i \in Own(r)'
  <2>1. CASE SaysMore(r)
    <3>1. PICK role \in {"user", "assistant"}, n \in 0 .. MaxCalls :
            /\ transcript' = Append(transcript, Said(role, r, n))
            /\ pc'[r] \in {"user", "completion", "partial"}
      BY <2>1 DEF SaysMore
    <3>2. /\ DOMAIN transcript' = 1 .. L + 1 /\ LastIndex' = L + 1
          /\ transcript'[L + 1] = Said(role, r, n)
          /\ \A i \in 1 .. L : transcript'[i] = transcript[i]
      BY <3>1, SaidAppended
    <3>3. transcript'[L + 1].run = r
      BY <3>2 DEF Said
    <3>4. \A i \in 1 .. L + 1 : i \in 1 .. L \/ (i = L + 1 /\ i \in Nat /\ L < i)
      BY <1>3
    <3>5. (\A i \in 1 .. L : i \in 1 .. L + 1) /\ L + 1 \in 1 .. L + 1
      BY <1>3
    <3>6. Own(r) \subseteq Own(r)' /\ L + 1 \in Own(r)'
      BY <1>3, <3>2, <3>3, <3>5 DEF Own
    <3>7. \A i \in Own(r)' : i \in Own(r) \/ (i \in Nat /\ L < i)
      BY <1>3, <3>2, <3>4 DEF Own
    <3> QED BY <3>1, <3>2, <3>6, <3>7 DEF Waiting
  <2>2. CASE ResultsIn(r)
    <3>1. /\ IsLast(r) /\ transcript' = transcript \o ResultsFor(r) /\ pc'[r] = "announce"
          /\ next'[r] = L + 1
      BY <1>2, <2>2 DEF ResultsIn
    <3>2. PICK n, f : ResultsBehind(r, L, n, f)
      BY <3>1, ResultsShape
    <3>3. /\ DOMAIN transcript' = 1 .. LastIndex' /\ LastIndex' \in Nat /\ L <= LastIndex'
          /\ \A i \in 1 .. L : transcript'[i] = transcript[i]
          /\ \A i \in L + 1 .. LastIndex' : transcript'[i].run = r
      BY <3>1, <3>2, ResultsAppended
    <3>4. \A i \in 1 .. LastIndex' : i \in 1 .. L \/ (i \in L + 1 .. LastIndex' /\ i \in Nat /\ L < i)
      BY <1>3, <3>3
    <3>5. \A i \in 1 .. L : i \in 1 .. LastIndex'
      BY <1>3, <3>3
    <3>6. Own(r) \subseteq Own(r)'
      BY <1>3, <3>3, <3>5 DEF Own
    <3>7. \A i \in Own(r)' : i \in Own(r) \/ (i \in Nat /\ L < i)
      BY <1>3, <3>3, <3>4 DEF Own
    <3>8. \A i \in 1 .. LastIndex' : L + 1 <= i => i \in L + 1 .. LastIndex'
      BY <1>3, <3>3
    <3>9. \A i \in DOMAIN transcript' : L + 1 <= i => i \in Own(r)'
      BY <3>3, <3>8 DEF Own
    <3> QED BY <3>1, <3>6, <3>7, <3>9 DEF Waiting
  <2> QED BY <1>2, <2>1, <2>2
<1>5. \A n \in DOMAIN sent[r] : sent[r][n][1] = "state_change"
  BY <1>0, <1>2 DEF WaitingOf, Loop
<1>6. \A i \in Own(r)' : i < L + 1 => i \in Own(r)
  BY <1>3, <1>4
<1>7. AnnouncedOf(r)'
  <2>1. \A n \in Told(r), i \in Own(r)' : i < sent[r][n][2] => i \in Own(r)
    <3> SUFFICES ASSUME NEW n \in Told(r), NEW i \in Own(r)', i < sent[r][n][2] PROVE i \in Own(r)
      OBVIOUS
    <3>1. sent[r][n][2] \in 1 .. L
      BY <1>3
    <3> QED BY <1>3, <1>4, <3>1
  <2>2. <<"done", 0>> \notin ToSet(sent[r])
    BY <1>5, NotEnded
  <2>3. \A n \in Told(r) : sent[r][n][2] \in Own(r)'
    BY <1>3, <1>4
  <2>4. \A n \in Told(r), i \in Own(r)' :
          i < sent[r][n][2] => \E m \in Told(r) : sent[r][m][2] = i
    BY <1>0, <2>1 DEF AnnouncedOf
  <2>5. \A m, n \in Told(r) : m < n => sent[r][m][2] < sent[r][n][2]
    BY <1>0 DEF AnnouncedOf
  <2> QED BY <1>1, <2>2, <2>3, <2>4, <2>5 DEF AnnouncedOf
<1>8. EndedOf(r)'
  BY <1>0, <1>1, <1>2 DEF EndedOf
<1>9. WaitingOf(r)'
  <2>1. r \notin failed' => \A i \in Own(r)' : i < L + 1 => IsTold(r, i)
    <3>1. r \notin failed' => r \notin failed
      BY DEF Grows
    <3>2. Waiting(r) = L + 1 /\ pc[r] # "over"
      BY <1>2 DEF Waiting
    <3> QED BY <1>0, <1>6, <3>1, <3>2 DEF WaitingOf
  <2>2. \A n \in Told(r) : sent[r][n][2] < L + 1
    BY <1>3
  <2>3. pc'[r] = "announce" => next'[r] = L + 1 /\ L + 1 > 0
    BY <1>2, <1>3
  <2> QED BY <1>1, <1>2, <1>4, <1>5, <2>1, <2>2, <2>3 DEF WaitingOf
<1> QED BY <1>7, <1>8, <1>9 DEF EventsOf

\* The last event: after done nothing is left to announce.
LEMMA EndsEvents ==
  ASSUME TypeOK, NEW r \in Runs, EventsOf(r), Ends(r)
  PROVE  EventsOf(r)'
<1> SUFFICES ASSUME NEW L, L = Len(sent[r]) PROVE EventsOf(r)'
  OBVIOUS
<1> DEFINE x == <<IF r \in failed THEN "error" ELSE "done", 0>>
<1>0. AnnouncedOf(r) /\ EndedOf(r) /\ WaitingOf(r)
  BY DEF EventsOf
<1>1. /\ transcript' = transcript /\ Own(r)' = Own(r) /\ failed' = failed
      /\ pc[r] = "last_event" /\ pc'[r] = "release"
  BY DEF Ends, Own
<1>2. /\ L \in Nat /\ DOMAIN sent[r] = 1 .. L /\ DOMAIN sent'[r] = 1 .. L + 1
      /\ \A n \in 1 .. L : sent'[r][n] = sent[r][n]
      /\ sent'[r][L + 1] = x /\ Len(sent'[r]) = L + 1
  <2>1. sent[r] \in Seq(Event) /\ x \in Event
    BY EventFacts DEF Event
  <2>2. sent'[r] = sent[r] \o <<x>>
    BY DEF Ends, LastEvents
  <2> HIDE DEF x
  <2> QED BY <2>1, <2>2
<1>3. \A n \in 1 .. L : sent[r][n][1] = "state_change"
  BY <1>0, <1>1, <1>2 DEF WaitingOf
<1>4. x[1] \in {"error", "done"} /\ (r \in failed => x[1] = "error") /\ (r \notin failed => x[1] = "done")
  OBVIOUS
<1>5. \A n \in 1 .. L + 1 : n \in 1 .. L \/ n = L + 1
  BY <1>2
<1>6. \A n \in 1 .. L : n \in 1 .. L + 1 /\ n # L + 1
  BY <1>2
<1>7. Told(r)' = Told(r) /\ Told(r) = 1 .. L
  <2>1. Told(r) = 1 .. L
    BY <1>2, <1>3 DEF Told
  <2>2. Told(r)' = {n \in 1 .. L + 1 : sent'[r][n][1] = "state_change"}
    BY <1>2 DEF Told
  <2>3. sent'[r][L + 1][1] # "state_change"
    BY <1>2, <1>4
  <2> QED BY <1>2, <1>3, <1>5, <1>6, <2>1, <2>2, <2>3
<1>8. \A i : IsTold(r, i)' <=> IsTold(r, i)
  BY <1>2, <1>7 DEF IsTold
<1>9. r \notin failed => \A i \in Own(r) : IsTold(r, i)
  <2>1. Waiting(r) = LastIndex + 1
    BY <1>1 DEF Waiting
  <2>2. \A i \in Own(r) : i < LastIndex + 1
    BY EventFacts
  <2> QED BY <1>0, <1>1, <2>1, <2>2 DEF WaitingOf
<1>10. <<"done", 0>> \in ToSet(sent'[r]) => r \notin failed
  <2> SUFFICES ASSUME NEW n \in 1 .. L + 1, sent'[r][n] = <<"done", 0>>, r \in failed PROVE FALSE
    BY <1>2 DEF ToSet
  <2>1. n \notin 1 .. L
    <3>1. sent'[r][n][1] = "done"
      OBVIOUS
    <3> QED BY <1>2, <1>3, <3>1
  <2>2. sent'[r][n][1] = "error"
    BY <1>2, <1>4, <1>5, <2>1
  <2> QED BY <2>2
<1>11. AnnouncedOf(r)'
  <2>1. \A n \in Told(r) : sent'[r][n] = sent[r][n]
    BY <1>2, <1>7
  <2>2. <<"done", 0>> \in ToSet(sent'[r]) => \A i \in Own(r)' : IsTold(r, i)'
    BY <1>1, <1>8, <1>9, <1>10
  <2>3. /\ \A n \in Told(r)' : sent'[r][n][2] \in Own(r)'
        /\ \A m, n \in Told(r)' : m < n => sent'[r][m][2] < sent'[r][n][2]
    <3>1. Told(r)' = Told(r) /\ Own(r)' = Own(r)
      BY <1>1, <1>7
    <3>2. /\ \A n \in Told(r) : sent[r][n][2] \in Own(r)
          /\ \A m, n \in Told(r) : m < n => sent[r][m][2] < sent[r][n][2]
      BY <1>0 DEF AnnouncedOf
    <3>3. \A n \in Told(r)' : sent'[r][n][2] \in Own(r)'
      BY <2>1, <3>1, <3>2
    <3>4. \A m, n \in Told(r)' : m < n => sent'[r][m][2] < sent'[r][n][2]
      BY <2>1, <3>1, <3>2
    <3> QED BY <3>3, <3>4
  <2>4. \A n \in Told(r)', i \in Own(r)' :
          i < sent'[r][n][2] => \E m \in Told(r)' : sent'[r][m][2] = i
    <3>1. Told(r)' = Told(r) /\ Own(r)' = Own(r)
      BY <1>1, <1>7
    <3>2. \A n \in Told(r), i \in Own(r) :
            i < sent[r][n][2] => \E m \in Told(r) : sent[r][m][2] = i
      BY <1>0 DEF AnnouncedOf
    <3> QED BY <2>1, <3>1, <3>2
  <2> QED BY <2>2, <2>3, <2>4 DEF AnnouncedOf
<1>12. EndedOf(r)'
  <2>1. \A n \in DOMAIN sent'[r] : sent'[r][n][1] # "state_change" => n = Len(sent'[r])
    BY <1>2, <1>3, <1>5
  <2>2. sent'[r] # <<>> /\ Last(sent'[r]) = x
    BY <1>2 DEF Last
  <2> QED BY <1>1, <2>1, <2>2 DEF EndedOf
<1>13. WaitingOf(r)'
  <2>1. r \notin failed' => \A i \in Own(r)' : IsTold(r, i)'
    BY <1>1, <1>8, <1>9
  <2> QED BY <1>1, <2>1 DEF WaitingOf, Loop
<1> QED BY <1>11, <1>12, <1>13 DEF EventsOf

\* A closed channel has nothing left to say.
LEMMA ClosesEvents ==
  ASSUME NEW r \in Runs, Closes(r)
  PROVE  EventsOf(r)'
<1>1. pc'[r] = "over" /\ sent'[r] = <<>> /\ DOMAIN sent'[r] = {} /\ Told(r)' = {}
  BY DEF Closes, Told
<1>2. ToSet(sent'[r]) = {}
  BY <1>1 DEF ToSet
<1>3. AnnouncedOf(r)'
  BY <1>1, <1>2 DEF AnnouncedOf
<1>4. EndedOf(r)'
  BY <1>1 DEF EndedOf
<1>5. WaitingOf(r)'
  BY <1>1 DEF WaitingOf, Loop
<1> QED BY <1>3, <1>4, <1>5 DEF EventsOf

\* The events of the runs that do not take the step.
LEMMA OthersEvents ==
  ASSUME TypeOK, TurnsInv, CallsInv, LastInv, MessagesInv, NEW r \in Runs, RunStep(r),
         NEW q \in Runs, q # r, EventsOf(q)
  PROVE  EventsOf(q)'
<1>1. /\ pc'[q] = pc[q] /\ next'[q] = next[q] /\ sent'[q] = sent[q] /\ ctxDone'[q] = ctxDone[q]
      /\ q \in failed' <=> q \in failed
  BY OthersStay
<1>2. Own(q)' = Own(q)
  BY OthersMessages
<1>3. Told(q)' = Told(q) /\ \A i : IsTold(q, i)' <=> IsTold(q, i)
  BY <1>1 DEF Told, IsTold
<1>4. AnnouncedOf(q) /\ EndedOf(q) /\ WaitingOf(q)
  BY DEF EventsOf
<1>5. AnnouncedOf(q)'
  BY <1>1, <1>2, <1>3, <1>4 DEF AnnouncedOf
<1>6. EndedOf(q)'
  BY <1>1, <1>4 DEF EndedOf
<1>7. WaitingOf(q)'
  <2>1. CASE Work(r)
    <3>1. pc[q] \notin Active
      BY <2>1, WorkStays DEF TurnsInv
    <3>2. /\ pc[q] \notin Loop /\ pc[q] \notin {"user", "completion", "state", "partial"}
          /\ pc[q] # "announce" /\ pc[q] \notin {"post_loop", "last_event"}
      BY <3>1 DEF Active, Loop, Ending
    <3>3. Waiting(q) = LastIndex + 1
      BY <3>2 DEF Waiting
    <3>4. \A i \in Own(q) : i < LastIndex + 1
      BY EventFacts
    <3>5. pc[q] # "over" /\ q \notin failed => \A i \in Own(q) : IsTold(q, i)
      BY <1>4, <3>3, <3>4 DEF WaitingOf
    <3> QED BY <1>1, <1>2, <1>3, <1>4, <3>2, <3>5 DEF WaitingOf
  <2>2. CASE ~Work(r)
    <3>1. transcript' = transcript /\ LastIndex' = LastIndex
      BY <2>2 DEF RunStep, Run, Cancel, Receive, Release, CloseEvents, LastIndex
    <3>2. Waiting(q)' = Waiting(q)
      BY <1>1, <3>1 DEF Waiting
    <3> QED BY <1>1, <1>2, <1>3, <1>4, <3>1, <3>2 DEF WaitingOf
  <2> QED BY <2>1, <2>2
<1> QED BY <1>5, <1>6, <1>7 DEF EventsOf

\* Every step keeps what the events say.
LEMMA EventsStep ==
  /\ TypeOK /\ TurnsInv /\ CallsInv /\ LastInv /\ MessagesInv /\ DangleInv /\ EventsInv
  /\ [Next]_vars
  => EventsInv'
<1> SUFFICES ASSUME TypeOK, TurnsInv, CallsInv, LastInv, MessagesInv, DangleInv, EventsInv,
                    [Next]_vars, NEW q \in Runs
             PROVE  EventsOf(q)'
  BY DEF EventsInv
<1>0. EventsOf(q) /\ DangleOf(q)
  BY DEF EventsInv, DangleInv
<1>1. CASE UNCHANGED vars
  BY <1>0, <1>1 DEF EventsOf, AnnouncedOf, EndedOf, WaitingOf, Waiting, IsTold, Told, Own,
                    LastIndex, vars, channel
<1>2. ASSUME NEW r \in Runs, RunStep(r) PROVE EventsOf(q)'
  <2>1. CASE q # r
    BY <1>0, <1>2, <2>1, OthersEvents
  <2>2. CASE q = r
    <3>1. RunStep(q)
      BY <1>2, <2>2
    <3>2. TypeOK'
      BY TypeStep
    <3> QED BY <1>0, <3>1, <3>2, EventKinds, QuietEvents, TellsEvents, GrowsEvents, EndsEvents,
               ClosesEvents
  <2> QED BY <2>1, <2>2
<1> QED BY <1>1, <1>2, StepKinds DEF RunStep

-----------------------------------------------------------------------------
(* What holds of every behaviour *)

AgentInv ==
  /\ TypeOK /\ TurnsInv /\ CallsInv /\ LastInv
  /\ MessagesInv /\ DangleInv /\ MarksInv /\ EventsInv

\* Nothing has run.
LEMMA InitInv == Init => AgentInv
<1> SUFFICES ASSUME Init PROVE AgentInv
  OBVIOUS
<1>1. /\ transcript = <<>> /\ DOMAIN transcript = {} /\ \A r \in Runs : Own(r) = {}
      /\ failed = {} /\ executed = {} /\ stopped = {} /\ running = FALSE
      /\ \A r \in Runs : pc[r] = "idle" /\ content[r].calls = 0 /\ sent[r] = <<>>
  BY DEF Init, Own, Nothing
<1>2. TypeOK
  <2>1. /\ running \in BOOLEAN /\ transcript \in Seq(Message) /\ failed \subseteq Runs
        /\ executed \subseteq (Nat \X Calls) /\ stopped \subseteq (Nat \X Calls)
    <3>1. <<>> \in Seq(Message)
      OBVIOUS
    <3> QED BY <1>1, <3>1
  <2>2. /\ pc \in [Runs -> Pcs] /\ ctxDone \in [Runs -> BOOLEAN]
        /\ next \in [Runs -> Nat] /\ toolErr \in [Runs -> BOOLEAN]
        /\ calls \in [Runs -> SUBSET Calls] /\ refused \in [Runs -> SUBSET Calls]
        /\ todo \in [Runs -> SUBSET Calls]
    BY DEF Init, Pcs
  <2>3. /\ iteration \in [Runs -> 0 .. MaxIterations] /\ buffered \in [Runs -> 0 .. EventBuffer]
    BY Parameters DEF Init, Parameters
  <2>4. content \in [Runs -> [some : BOOLEAN, calls : 0 .. MaxCalls]]
    BY Parameters DEF Init, Parameters, Nothing
  <2>5. sent \in [Runs -> Seq({"state_change", "error", "done"} \X Nat)]
    BY DEF Init
  <2> QED BY <2>1, <2>2, <2>3, <2>4, <2>5 DEF TypeOK
<1>3. TurnsInv
  BY <1>1 DEF TurnsInv, Active, Loop, Ending
<1>4. CallsInv /\ LastInv
  BY <1>1 DEF CallsInv, CallsOf, LastInv, Holding
<1>5. MessagesInv
  BY <1>1 DEF MessagesInv
<1>6. DangleInv
  BY <1>1 DEF DangleInv, DangleOf, Whole
<1>7. MarksInv
  BY <1>1 DEF MarksInv, CallsMarked, MarksOf, Marks
<1>8. EventsInv
  <2> SUFFICES ASSUME NEW r \in Runs PROVE EventsOf(r)
    BY DEF EventsInv
  <2>1. DOMAIN sent[r] = {} /\ Told(r) = {} /\ ToSet(sent[r]) = {} /\ pc[r] = "idle"
    BY <1>1 DEF Told, ToSet
  <2> QED BY <1>1, <2>1 DEF EventsOf, AnnouncedOf, EndedOf, WaitingOf, Loop
<1> QED BY <1>2, <1>3, <1>4, <1>5, <1>6, <1>7, <1>8 DEF AgentInv

\* Every step keeps the whole invariant.
LEMMA NextInv == AgentInv /\ [Next]_vars => AgentInv'
  BY TypeStep, TurnsStep, CallsStep, LastStep, MessagesStep, DangleStep, MarksStep, EventsStep
  DEF AgentInv

\* The invariant holds throughout.
LEMMA AgentInvAlways == Spec => []AgentInv
  BY InitInv, NextInv, PTL DEF Spec

\* The state of the agent is what its declarations allow.
THEOREM TypeCorrect == Spec => []TypeOK
<1>1. AgentInv => TypeOK
  BY DEF AgentInv
<1> QED BY <1>1, AgentInvAlways, PTL

\* One run at a time: the flag that Run takes keeps the messages of a run together.
THEOREM RunsApartAlways == Spec => []RunsApart
<1>1. AgentInv => RunsApart
  <2> SUFFICES ASSUME AgentInv, NEW i \in DOMAIN transcript, NEW j \in DOMAIN transcript,
                      NEW k \in DOMAIN transcript, i < j, j < k,
                      transcript[i].run = transcript[k].run
               PROVE  transcript[j].run = transcript[i].run
    BY DEF RunsApart
  <2>1. transcript[i].run <= transcript[j].run /\ transcript[j].run <= transcript[k].run
    BY DEF AgentInv, TurnsInv
  <2>2. transcript[i] \in Message /\ transcript[j] \in Message
    BY DEF AgentInv, TypeOK
  <2>3. transcript[i].run \in Nat /\ transcript[j].run \in Nat
    BY <2>2, Parameters DEF Message, Runs, Parameters
  <2> QED BY <2>1, <2>3
<1> QED BY <1>1, AgentInvAlways, PTL

\* What a refusal, a failing hook or a dropped result leaves in the transcript: calls
\* without results in the last answer of a run that failed, and nowhere else.
THEOREM OnlyTheLastDanglesAlways == Spec => []OnlyTheLastDangles
<1>1. AgentInv => OnlyTheLastDangles
  <2> SUFFICES ASSUME AgentInv, NEW i \in DOMAIN transcript
               PROVE  /\ InOrder(i)
                      /\ Dangling(i) # {} =>
                           LET r == transcript[i].run IN
                           /\ r \in failed \/ pc[r] \in Loop \ {"iterate", "stream"}
                           /\ \A j \in i + 1 .. LastIndex :
                                transcript[j].run = r => transcript[j].role = "tool"
    BY DEF OnlyTheLastDangles
  <2>1. InOrder(i)
    BY DEF AgentInv, MessagesInv
  <2>2. ASSUME Dangling(i) # {}, NEW r, r = transcript[i].run
        PROVE  /\ r \in failed \/ pc[r] \in Loop \ {"iterate", "stream"}
               /\ \A j \in i + 1 .. LastIndex :
                    transcript[j].run = r => transcript[j].role = "tool"
    <3>1. r \in Runs /\ pc[r] \in Pcs /\ i \in Own(r)
      <4>1. transcript[i] \in Message
        BY DEF AgentInv, TypeOK
      <4>2. transcript[i].run \in Runs
        BY <4>1 DEF Message
      <4> QED BY <2>2, <4>2 DEF AgentInv, TypeOK, Own
    <3>2. DangleOf(r)
      BY <3>1 DEF AgentInv, DangleInv
    <3>3. ~MustBeWhole(r)
      BY <2>2, <3>1, <3>2 DEF DangleOf, Whole
    <3>4. r \in failed \/ pc[r] \in Loop \ {"iterate", "stream"}
      BY <3>1, <3>3 DEF MustBeWhole, Pcs, Loop, Ending
    <3>5. ASSUME NEW j \in i + 1 .. LastIndex, transcript[j].run = r
          PROVE  transcript[j].role = "tool"
      <4>1. DOMAIN transcript = 1 .. LastIndex /\ LastIndex \in Nat
        BY DEF AgentInv, TypeOK, LastIndex
      <4>2. j \in DOMAIN transcript /\ i < j
        BY <4>1
      <4>3. j \in Own(r)
        BY <3>5, <4>2 DEF Own
      <4> QED BY <2>2, <3>1, <3>2, <4>2, <4>3 DEF DangleOf
    <3> QED BY <3>4, <3>5
  <2> QED BY <2>1, <2>2
<1> QED BY <1>1, AgentInvAlways, PTL

\* A call that has a result was handed to its tool or refused, not both, and no tool
\* runs for a call the model did not make.
THEOREM RunOrRefusedAlways == Spec => []RunOrRefused
<1>1. AgentInv => RunOrRefused
  <2> SUFFICES ASSUME AgentInv PROVE RunOrRefused
    OBVIOUS
  <2>1. CallsMarked
    BY DEF AgentInv, MarksInv
  <2>2. ASSUME NEW i \in DOMAIN transcript, NEW k \in Results(i)
        PROVE  <<i, k>> \in executed \cup stopped
    BY <2>1 DEF CallsMarked, Marks
  <2>3. executed \cap stopped = {} /\ \A c \in executed : c[2] <= transcript[c[1]].calls
    BY <2>1 DEF CallsMarked, Marks
  <2> QED BY <2>2, <2>3, Zenon DEF RunOrRefused
<1> QED BY <1>1, AgentInvAlways, PTL

\* The state changes of a run are the messages it appended, in order, without a gap,
\* and all of them once it says done.
THEOREM AnnouncedInOrderAlways == Spec => []AnnouncedInOrder
<1>1. AgentInv => AnnouncedInOrder
  <2> SUFFICES ASSUME AgentInv, NEW r \in Runs
               PROVE  /\ \A n \in Told(r) :
                           /\ sent[r][n][2] \in Own(r)
                           /\ \A m \in Told(r) : m < n => sent[r][m][2] < sent[r][n][2]
                           /\ \A i \in Own(r) :
                                i < sent[r][n][2] => \E m \in Told(r) : sent[r][m][2] = i
                      /\ <<"done", 0>> \in ToSet(sent[r]) =>
                           \A i \in Own(r) : \E n \in Told(r) : sent[r][n][2] = i
    BY DEF AnnouncedInOrder
  <2>1. AnnouncedOf(r)
    BY DEF AgentInv, EventsInv, EventsOf
  <2> QED BY <2>1 DEF AnnouncedOf, IsTold
<1> QED BY <1>1, AgentInvAlways, PTL

\* Nothing follows the error or the done of a run, which says whether it failed, and
\* only a cancelled run goes without one.
THEOREM SaysHowItEndedAlways == Spec => []SaysHowItEnded
<1>1. AgentInv => SaysHowItEnded
  BY DEF AgentInv, EventsInv, EventsOf, EndedOf, SaysHowItEnded
<1> QED BY <1>1, AgentInvAlways, PTL
=============================================================================
