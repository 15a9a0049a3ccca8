---------------------------- MODULE ProviderStream ----------------------------
(***************************************************************************)
(* The three stream parsers of internal/engine/gateway, fed by a provider  *)
(* over the event decoder of sse.go, and what the loop of internal/core    *)
(* puts together from the chunks they emit.                                *)
(*                                                                         *)
(* A response is a sequence of blocks; the content of each comes in the    *)
(* same number of pieces.  The arguments of a tool call are JSON only      *)
(* before the first and after the last piece.  A provider sends the blocks *)
(* of a message one after another, never two of thinking in a row, and may *)
(* interleave the tool calls of the two other formats.  The body may end   *)
(* anywhere.                                                               *)
(***************************************************************************)
EXTENDS Naturals, Sequences, FiniteSets, SequencesExt, FiniteSetsExt

CONSTANTS
  MaxBlocks,  \* bound: blocks of a response
  Pieces      \* bound: pieces of each

Formats == {"completions", "messages", "responses"}
Kinds   == {"text", "thinking", "tool"}

VARIABLES
  format,
  block,    \* what the provider sent: per block its kind, pieces, signature, and end
  held,     \* the parser's open blocks in the order they were opened
  finished, \* the provider gave the reason it stopped
  out,      \* the chunks emitted
  tally,    \* the adapter's usage
  over      \* how the stream went: "no", "end", "fail", "cut", "left"

vars == <<format, block, held, finished, out, tally, over>>

Reported == [input |-> 2, output |-> 3]  \* what the provider counts in the end
Chunk(t, i, n) == [type |-> t, index |-> i, pieces |-> n]
Done  == Chunk("done", 0, 0)
Error == Chunk("error", 0, 0)

-----------------------------------------------------------------------------
(* Parsing *)

\* mutant: thinking is not kept for its signature.
KeptCalls(k) == k = "tool"

\* A block whose content is emitted piece by piece and one that is kept until it is
\* whole.  Only messages keep a thinking block, for its signature.
Kept(k) == k = "tool" \/ (format = "messages" /\ k = "thinking")

\* What the parser emits when it lets go of a block.
Release(h) ==
  IF h.kind = "tool"
  THEN IF h.got \in {0, Pieces} THEN <<Chunk("call", h.index, h.got)>> ELSE <<Error>>
  ELSE IF h.signed THEN <<Chunk("signature", h.index, 0)>> ELSE <<>>

\* Lets go of all of them, up to the first that is malformed, and ends the stream.
ReleaseAll(hs) ==
  LET emitted == FlattenSeq([j \in 1 .. Len(hs) |-> Release(hs[j])])
      bad     == {j \in 1 .. Len(emitted) : emitted[j] = Error}
  IN IF bad = {} THEN emitted ELSE SubSeq(emitted, 1, Min(bad))

EndWith(chunks) ==
  IF chunks # <<>> /\ Last(chunks) = Error THEN chunks ELSE Append(chunks, Done)

\* mutant: a block is not forgotten when it was let go of.
ForgetNothing(i) == held

Forget(i) == SelectSeq(held, LAMBDA h : h.index # i)

-----------------------------------------------------------------------------
(* Events *)

Going == over = "no"

\* content_block_start, the first delta of a tool call, output_item.added.  A message
\* begins with a report of its usage.
Open(k) ==
  /\ Going /\ ~finished /\ Len(block) < MaxBlocks
  /\ format = "messages" => \A i \in DOMAIN block : block[i].closed
  /\ k = "thinking" /\ block # <<>> => Last(block).kind # "thinking"
  /\ block' = Append(block, [kind |-> k, sent |-> 0, signed |-> FALSE, closed |-> FALSE])
  /\ held' = IF Kept(k) THEN Append(held, [index |-> Len(block) + 1, kind |-> k, got |-> 0,
                                           signed |-> FALSE])
             ELSE held
  /\ tally' = IF format = "messages" /\ block = <<>> THEN [input |-> 2, output |-> 1] ELSE tally
  /\ UNCHANGED <<format, finished, out, over>>

Piece(i) ==
  LET k == block[i].kind IN
  /\ Going /\ ~finished /\ i \in DOMAIN block /\ block[i].sent < Pieces /\ ~block[i].closed
  /\ k # "tool" /\ format # "messages" => i = Len(block)
  /\ block' = [block EXCEPT ![i].sent = @ + 1]
  /\ held' = [j \in DOMAIN held |-> IF held[j].index = i THEN [held[j] EXCEPT !.got = @ + 1]
                                    ELSE held[j]]
  /\ out' = IF k = "tool" THEN out ELSE Append(out, Chunk(k, i, 1))
  /\ UNCHANGED <<format, finished, tally, over>>

\* The signature of a thinking block follows its text.
Sign(i) ==
  /\ Going /\ format = "messages" /\ i \in DOMAIN block
  /\ block[i].kind = "thinking" /\ block[i].sent = Pieces /\ ~block[i].closed /\ ~block[i].signed
  /\ block' = [block EXCEPT ![i].signed = TRUE]
  /\ held' = [j \in DOMAIN held |-> IF held[j].index = i THEN [held[j] EXCEPT !.signed = TRUE]
                                    ELSE held[j]]
  /\ UNCHANGED <<format, finished, out, tally, over>>

\* content_block_stop lets the block go; output_item.done repeats the whole arguments.
Close(i) ==
  /\ Going /\ format # "completions" /\ i \in DOMAIN block
  /\ block[i].sent = Pieces /\ ~block[i].closed
  /\ format = "messages" /\ block[i].kind = "thinking" => block[i].signed
  /\ block' = [block EXCEPT ![i].closed = TRUE]
  /\ IF format = "messages"
     THEN /\ out' = out \o ReleaseAll(SelectSeq(held, LAMBDA h : h.index = i))
          /\ held' = Forget(i)
     ELSE /\ held' = [j \in DOMAIN held |-> IF held[j].index = i THEN [held[j] EXCEPT !.got = Pieces]
                                            ELSE held[j]]
          /\ UNCHANGED out
  /\ UNCHANGED <<format, finished, tally, over>>

AllSent == \A i \in DOMAIN block :
  block[i].sent = Pieces /\ (format = "completions" \/ block[i].closed)

\* The reason: finish_reason, after which a chunk may report the usage, or message_delta,
\* which reports it.  Completions report their usage with the reason or after it, which
\* nothing here tells apart.  Calls that end a completion are let go of at once.
Finish ==
  /\ Going /\ ~finished /\ AllSent /\ format # "responses" /\ block # <<>>
  /\ finished' = TRUE
  /\ IF format = "completions"
     THEN \/ out' = out \o ReleaseAll(held) /\ held' = <<>>
          \/ UNCHANGED <<out, held>>
     ELSE UNCHANGED <<out, held>>
  /\ tally' = IF format = "messages" THEN [tally EXCEPT !.output = 3] ELSE Reported
  /\ UNCHANGED <<format, block, over>>

\* [DONE], message_stop, response.completed.
End ==
  /\ Going /\ AllSent /\ block # <<>> /\ (finished \/ format = "responses")
  /\ over' = "end"
  /\ out' = out \o EndWith(ReleaseAll(held))
  /\ held' = <<>>
  /\ tally' = IF format = "responses" THEN Reported ELSE tally
  /\ UNCHANGED <<format, block, finished>>

\* An error event, one nobody knows, or one that is not JSON: half an event at the end of
\* the body is one of these.
Fail ==
  /\ Going
  /\ over' = "fail"
  /\ out' = Append(out, Error)
  /\ UNCHANGED <<format, block, held, finished, tally>>

\* The body ends or breaks off between two events: what is open is let go of.
Cut ==
  /\ Going
  /\ over' = "cut"
  /\ out' = out \o EndWith(ReleaseAll(held))
  /\ held' = <<>>
  /\ UNCHANGED <<format, block, finished, tally>>

\* The consumer takes no more.
Leave ==
  /\ Going
  /\ over' = "left"
  /\ UNCHANGED <<format, block, held, finished, out, tally>>

-----------------------------------------------------------------------------
Init ==
  /\ format \in Formats
  /\ block = <<>> /\ held = <<>> /\ finished = FALSE /\ out = <<>> /\ over = "no"
  /\ tally = [input |-> 0, output |-> 0]

Next ==
  \/ \E k \in Kinds : Open(k)
  \/ \E i \in 1 .. MaxBlocks : Piece(i) \/ Sign(i) \/ Close(i)
  \/ Finish \/ End \/ Fail \/ Cut \/ Leave

Spec == Init /\ [][Next]_vars

-----------------------------------------------------------------------------
(* What the loop makes of the chunks *)

\* appendOrMerge of internal/core/loop.go: text joins the text before it, a signature the
\* thinking it comes after.
Add(content, c) ==
  LET mine == IF c.type = "signature" THEN "thinking" ELSE c.type
      fresh == [type |-> mine, pieces |-> {}, signature |-> 0]
      joins == content # <<>> /\ Last(content).type = mine /\ mine \in {"text", "thinking"}
      base == IF joins THEN Last(content) ELSE fresh
      now == CASE c.type = "signature" -> [base EXCEPT !.signature = c.index]
               [] c.type = "call" -> [base EXCEPT !.pieces = {<<c.index, c.pieces>>}]
               [] OTHER -> [base EXCEPT !.pieces = @ \cup {c.index}]
  IN IF c.type \in {"done", "error"} THEN content
     ELSE IF joins THEN Append(Front(content), now) ELSE Append(content, now)

Content == FoldLeft(Add, <<>>, out)

\* The calls in the order they were emitted, and the order they were opened.
Emitted == SelectSeq(out, LAMBDA c : c.type = "call")
Calls   == {i \in DOMAIN block : block[i].kind = "tool"}
Spoken  == {i \in DOMAIN block : block[i].kind # "tool"}

-----------------------------------------------------------------------------
(* Properties *)

\* The state is what the parsers can hold.
TypeOK ==
  /\ format \in Formats /\ finished \in BOOLEAN /\ over \in {"no", "end", "fail", "cut", "left"}
  /\ Len(block) <= MaxBlocks
  /\ \A h \in Range(held) : h.index \in DOMAIN block /\ h.got <= block[h.index].sent
  /\ \A c \in Range(out) : c.index <= Len(block) /\ c.pieces <= Pieces

\* Wherever a stream breaks off, a tool call is emitted once, after those opened before
\* it and with all of its arguments or none: never with a part of them, and nothing
\* follows the end.
CallsAreWhole ==
  /\ \A i, j \in DOMAIN Emitted : i < j => Emitted[i].index < Emitted[j].index
  /\ \A i \in DOMAIN Emitted : Emitted[i].pieces \in {0, Pieces}
  /\ \A i \in DOMAIN out : out[i] \in {Done, Error} => i = Len(out)

\* A response the provider ended is handed on whole: every piece of what was said in its
\* order, every call with its arguments, the usage it counted, and the signature of each
\* thinking block on the text that was signed.
HandedOnWhole ==
  over = "end" =>
    /\ Last(out) = Done /\ tally = Reported
    /\ {Emitted[i].index : i \in DOMAIN Emitted} = Calls
    /\ \A i \in DOMAIN Emitted : Emitted[i].pieces = Pieces
    /\ \A i \in Spoken : Cardinality({j \in DOMAIN out : out[j] = Chunk(block[i].kind, i, 1)}) = Pieces
    /\ format = "messages" =>
         \A i \in DOMAIN block : block[i].kind = "thinking" =>
            \E j \in DOMAIN Content : Content[j] = [type |-> "thinking", pieces |-> {i}, signature |-> i]
=============================================================================
