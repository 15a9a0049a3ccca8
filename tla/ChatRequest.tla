----------------------------- MODULE ChatRequest -----------------------------
(***************************************************************************)
(* What the gateway makes of a conversation: the checks of universal.go    *)
(* and the request builders of the three formats, over the histories that  *)
(* internal/core can leave behind.                                         *)
(*                                                                         *)
(* A block is its type and, for calls and results, the call it belongs to. *)
(* "blank" is a text without characters, "signed" a thinking block with    *)
(* its signature, "odd" an image of a media type the gateway rejects.      *)
(***************************************************************************)
EXTENDS Naturals, Sequences, FiniteSets, SequencesExt, FiniteSetsExt

CONSTANT MaxTurns  \* bound: inputs of the user

VARIABLES
  provider,  \* the format the conversation is held in
  history,   \* the messages of the agent's state
  turn,      \* "user" or "model": who speaks next, or "tools"
  spoken     \* inputs so far

vars == <<provider, history, turn, spoken>>

Providers == {"completions", "messages", "responses"}
Block(t) == [type |-> t, id |-> 0]
Call(i)   == [type |-> "call", id |-> i]
Result(i) == [type |-> "result", id |-> i]
Said(role, blocks) == [role |-> role, blocks |-> blocks]

Refused == [ok |-> FALSE, parts |-> <<>>]
Parts(ps) == [ok |-> TRUE, parts |-> ps]
Unless(bad, ps) == IF bad \/ ps = <<>> THEN Refused ELSE Parts(ps)
Has(m, ts) == \E i \in DOMAIN m.blocks : m.blocks[i].type \in ts
Only(bs, ts) == SelectSeq(bs, LAMBDA b : b.type \in ts)

-----------------------------------------------------------------------------
(* Checks and conversions *)

\* ValidateRequest: every message has content, a tool message results alone, and an
\* image a media type.
Valid(m) ==
  /\ m.blocks # <<>>
  /\ m.role = "tool" => ~Has(m, {"text", "blank", "signed", "thinking", "reasoning", "call"})
  /\ ~Has(m, {"odd"})

Texts == {"text", "blank"}

\* anthropicMessages: an unsigned thinking block is dropped, and a message of which
\* nothing is left refused.
Messages(m) ==
  CASE m.role = "user" ->
         Unless(Has(m, {"signed", "thinking", "reasoning", "call"}),
                <<Said("user", Only(m.blocks, Texts \cup {"image", "result"}))>>)
    [] m.role = "assistant" ->
         LET kept == Only(m.blocks, Texts \cup {"signed", "call"})
         IN Unless(kept = <<>> \/ Has(m, {"reasoning", "image", "result"}),
                   <<Said("assistant", kept)>>)
    [] OTHER -> Parts(<<Said("user", m.blocks)>>)

\* mutant: an assistant that calls says nothing.
CompletionsOfCalls(m) ==
  CASE m.role = "user" -> Parts(<<Said("user", Only(m.blocks, Texts \cup {"image"}))>>)
    [] m.role = "assistant" ->
         LET calls == Only(m.blocks, {"call"})
             said == IF calls = <<>> THEN Only(m.blocks, {"text"}) ELSE <<>>
         IN Unless(said \o calls = <<>>, <<Said("assistant", said \o calls)>>)
    [] OTHER -> Parts([i \in DOMAIN m.blocks |-> Said("tool", <<m.blocks[i]>>)])

\* completionsMessages: one message for each result, the texts of an assistant joined
\* before its calls, thinking dropped.
Completions(m) ==
  CASE m.role = "user" -> Parts(<<Said("user", Only(m.blocks, Texts \cup {"image"}))>>)
    [] m.role = "assistant" ->
         LET said == Only(m.blocks, {"text"})
             calls == Only(m.blocks, {"call"})
         IN Unless(said \o calls = <<>>, <<Said("assistant", said \o calls)>>)
    [] OTHER -> Parts([i \in DOMAIN m.blocks |-> Said("tool", <<m.blocks[i]>>)])

\* responsesItems: one item for each block, a text without characters dropped.
Responses(m) ==
  LET Items(role, ts) == LET bs == Only(m.blocks, ts)
                         IN [i \in DOMAIN bs |-> Said(role, <<bs[i]>>)]
  IN CASE m.role = "user" ->
            LET kept == Only(m.blocks, {"text", "image"})
            IN Unless(kept = <<>> \/ Has(m, {"signed", "thinking", "reasoning", "call", "result"}),
                      <<Said("user", kept)>>)
       [] m.role = "assistant" -> Unless(FALSE, Items("assistant", {"text", "reasoning", "call"}))
       [] OTHER -> Parts(Items("tool", {"result"}))

Convert(f, m) ==
  IF ~Valid(m) THEN Refused
  ELSE CASE f = "messages" -> Messages(m)
         [] f = "completions" -> Completions(m)
         [] OTHER -> Responses(m)

\* BuildRequest: the request, unless a message is refused.
Request(f) ==
  IF \E i \in DOMAIN history : ~Convert(f, history[i]).ok THEN Refused
  ELSE Parts(FlattenSeq([i \in DOMAIN history |-> Convert(f, history[i]).parts]))

-----------------------------------------------------------------------------
(* The conversation *)

\* An input is text, an image of any media type, or structured data with or without text.
Speak ==
  /\ turn = "user" /\ spoken < MaxTurns
  /\ \E t \in {"text", "blank", "image", "odd"} :
       history' = Append(history, Said("user", <<Block(t)>>))
  /\ turn' = "model" /\ spoken' = spoken + 1
  /\ UNCHANGED provider

\* A request that is refused ends the run, and so does one that fails.
Fail == turn = "model" /\ turn' = "user" /\ UNCHANGED <<provider, history, spoken>>

\* What a stream leaves behind: whole, or as far as it came.  Only the messages format
\* signs what the model thinks, and the signature comes last; only a response with an
\* identifier is kept without any content.
Thoughts == IF provider = "messages" THEN {<<>>, <<Block("signed")>>} ELSE {<<>>, <<Block("thinking")>>}
Answer ==
  /\ turn = "model" /\ Request(provider).ok
  /\ \E th \in Thoughts, tx \in {<<>>, <<Block("text")>>},
        calls \in {<<>>, <<Call(2 * spoken)>>, <<Call(2 * spoken), Call(2 * spoken + 1)>>} :
       /\ provider = "responses" \/ th \o tx \o calls # <<>>
       /\ history' = Append(history, Said("assistant", th \o tx \o calls))
       /\ turn' = IF calls = <<>> THEN "user" ELSE "tools"
  /\ UNCHANGED <<provider, spoken>>

BreakOff ==
  /\ turn = "model" /\ Request(provider).ok
  /\ \E bs \in {<<Block("thinking")>>, <<Block("text")>>} \cup
               {th \o <<Block("text")>> : th \in Thoughts} :
       history' = Append(history, Said("assistant", bs))
  /\ turn' = "user"
  /\ UNCHANGED <<provider, spoken>>

\* A message for each result.
RunTools ==
  /\ turn = "tools"
  /\ LET calls == Only(Last(history).blocks, {"call"})
     IN history' = history \o [i \in DOMAIN calls |-> Said("tool", <<Result(calls[i].id)>>)]
  /\ turn' = "user"
  /\ UNCHANGED <<provider, spoken>>

Init ==
  /\ provider \in Providers
  /\ history = <<>> /\ turn = "user" /\ spoken = 0

Next == Speak \/ Fail \/ Answer \/ BreakOff \/ RunTools

Spec == Init /\ [][Next]_vars

-----------------------------------------------------------------------------
(* Properties *)

\* The state is one a conversation can reach.
TypeOK ==
  /\ provider \in Providers /\ turn \in {"user", "model", "tools"} /\ spoken \in 0 .. MaxTurns
  /\ \A i \in DOMAIN history : history[i].role \in {"user", "assistant", "tool"}

Flat(ms, ts) == Only(FlattenSeq([i \in DOMAIN ms |-> ms[i].blocks]), ts)

\* A conversation sent in any format, be it another than it was held in, is refused or
\* carries all that was said, called and answered, in its order, and each result where
\* the format looks for it.
NothingLost ==
  \A f \in Providers : Request(f).ok =>
    /\ Flat(Request(f).parts, {"text", "image", "call", "result"})
         = Flat(history, {"text", "image", "call", "result"})
    /\ \A i \in DOMAIN Request(f).parts :
         LET m == Request(f).parts[i]
         IN Has(m, {"result"}) => m.role = (IF f = "messages" THEN "user" ELSE "tool")
=============================================================================
