------------------------------- MODULE Gateway -------------------------------
(***************************************************************************)
(* The provider gateway of internal/engine/gateway/gateway.go, shared by   *)
(* several conversations (a sub agent builder gives all of its agents one  *)
(* provider), with the response chain it and its adapter each record and   *)
(* the usage the adapter collects for it.                                  *)
(*                                                                         *)
(* A stream is one call of ChatStream: the caller's way through it, and    *)
(* the goroutine that feeds the channel, which may outlive the call.  What *)
(* the adapter parses is any text, reports of usage and one ending;        *)
(* ProviderStream models how it is parsed.                                 *)
(* The usage is one of its counters, for they are added up and replaced    *)
(* each for itself, and is named by the reports in it; a report that does  *)
(* not give the counter changes nothing.                                   *)
(***************************************************************************)
EXTENDS Naturals, Sequences

CONSTANTS
  Talkers,     \* conversations, each with one call at a time
  MaxCalls,    \* bound: calls per conversation
  MaxRetries,  \* config.MaxRetries
  ChunkBuffer, \* capacity of the chunk channel
  ApiFormats,  \* the formats spoken, of "responses", "completions" and "messages"
  TextFormats, \* bound: the formats in which a stream has text, once
  MaxReports   \* bound: reports of usage per stream

ASSUME GatewayParameters == MaxReports \in Nat \ {0}

VARIABLES
  apiFormat,     \* config.Format
  responseChain, \* g.chain.previous; a response is named by its stream
  adapterChain,  \* the adapter's previous
  chainMu,       \* who holds g.chainMu over calls of the adapter
  usage,         \* g.usage and the adapter's, and the reports that others replaced
  invalidating,  \* InvalidateChain is between its two sections
  answered,      \* the responses each conversation's history names
  stream         \* every call

chains == <<apiFormat, responseChain, adapterChain, chainMu>>
gatewayVars == <<chains, usage, invalidating, answered, stream>>

Streams == Talkers \X (1 .. MaxCalls)
UsageReports == Streams \X (1 .. MaxReports)
NoCall  == <<>>
Talker(s) == s[1]
FreshCall ==
  [at |-> "idle", go |-> "none", attempt |-> 0, seen |-> NoCall, from |-> NoCall,
   prev |-> NoCall, done |-> FALSE, chunk |-> "none", chan |-> <<>>, sent |-> <<>>,
   saw |-> FALSE, reports |-> 0, held |-> {}]

\* Stream s becomes r.
Becomes(s, r) == stream' = [stream EXCEPT ![s] = r]
\* The request is forgotten when it was sent.
RequestSent(s, place) ==
  [stream[s] EXCEPT !.at = place, !.attempt = 0, !.from = NoCall, !.prev = NoCall]
MuIsFree == chainMu = NoCall

-----------------------------------------------------------------------------
(* ChatStream *)

CallProvider(s) ==
  /\ stream[s].at = "idle"
  /\ s[2] > 1 => stream[<<Talker(s), s[2] - 1>>].at = "over"
  /\ Becomes(s, [stream[s] EXCEPT !.at = "look"])
  /\ UNCHANGED <<chains, usage, invalidating, answered>>

\* The context of the call ends, by the caller or by the gateway's timeout.
EndCall(s) ==
  /\ stream[s].at \notin {"idle", "over"} /\ ~stream[s].done
  /\ Becomes(s, [stream[s] EXCEPT !.done = TRUE])
  /\ UNCHANGED <<chains, usage, invalidating, answered>>

\* applyResponseChain, under chainMu, reads the adapter's record; where the format has no
\* chain it forgets the gateway's ...
LookAtChain(s) ==
  /\ stream[s].at = "look" /\ MuIsFree
  /\ IF apiFormat = "responses"
     THEN /\ Becomes(s, [stream[s] EXCEPT !.at = "decide", !.seen = adapterChain])
          /\ chainMu' = s /\ UNCHANGED responseChain
     ELSE /\ Becomes(s, [stream[s] EXCEPT !.at = "build"])
          /\ responseChain' = NoCall /\ UNCHANGED chainMu
  /\ UNCHANGED <<apiFormat, adapterChain, usage, invalidating, answered>>

\* ... and keeps what follows the turn both records name, or clears both.
FollowChain(s) ==
  LET seen == stream[s].seen IN
  /\ stream[s].at = "decide"
  /\ chainMu' = NoCall
  /\ IF seen = NoCall \/ responseChain = NoCall
     THEN /\ Becomes(s, [stream[s] EXCEPT !.at = "build", !.seen = NoCall])
          /\ UNCHANGED <<responseChain, adapterChain>>
     ELSE IF seen = responseChain /\ seen \in answered[Talker(s)]
     THEN /\ Becomes(s, [stream[s] EXCEPT !.at = "build", !.seen = NoCall, !.from = seen])
          /\ UNCHANGED <<responseChain, adapterChain>>
     ELSE /\ responseChain' = NoCall /\ adapterChain' = NoCall
          /\ Becomes(s, [stream[s] EXCEPT !.at = "build", !.seen = NoCall])
  /\ UNCHANGED <<apiFormat, usage, invalidating, answered>>

\* BuildRequest names the adapter's record.
BuildRequest(s) ==
  /\ stream[s].at = "build"
  /\ Becomes(s, [stream[s] EXCEPT !.at = "send", !.prev = adapterChain])
  /\ UNCHANGED <<chains, usage, invalidating, answered>>

\* One attempt: a failure that may be tried again, one that may not, or a stream.
SendRequest(s) ==
  /\ stream[s].at = "send"
  /\ \/ ~stream[s].done /\ stream[s].attempt < MaxRetries
        /\ Becomes(s, [stream[s] EXCEPT !.attempt = @ + 1])
     \/ Becomes(s, RequestSent(s, "over"))
     \/ ~stream[s].done /\ Becomes(s, [RequestSent(s, "read") EXCEPT !.go = "parse"])
  /\ UNCHANGED <<chains, usage, invalidating, answered>>

-----------------------------------------------------------------------------
(* consume *)

\* A stream reports what was used.  The reports are added up, but what a message reports
\* replaces what is there, whichever stream it came from.
Reported(s) ==
  LET report == {<<s, stream'[s].reports>>} IN
  usage' = IF apiFormat = "messages"
           THEN [usage EXCEPT !.adapter = report, !.replaced = @ \cup usage.adapter]
           ELSE [usage EXCEPT !.adapter = @ \cup report]

\* A report in a chunk of a completion, at the start of a message or near its end.
ReportUsage(s) ==
  /\ stream[s].go = "parse" /\ ~stream[s].saw
  /\ apiFormat # "responses" /\ stream[s].reports < MaxReports
  /\ Becomes(s, [stream[s] EXCEPT !.reports = @ + 1]) /\ Reported(s)
  /\ UNCHANGED <<chains, invalidating, answered>>

\* The next chunk: text, the end, which gives a response its name and a report, an error,
\* or nothing any more.
ParseChunk(s) ==
  /\ stream[s].go = "parse"
  /\ \/ /\ ~stream[s].saw /\ apiFormat = "responses"
        /\ Becomes(s, [stream[s] EXCEPT !.go = "record", !.chunk = "named", !.saw = TRUE,
                                        !.reports = 1])
        /\ Reported(s)
     \/ /\ ~stream[s].saw /\ UNCHANGED usage
        /\ \E c \in {"text", "done", "error"} :
             /\ c = "text" => stream[s].sent = <<>> /\ apiFormat \in TextFormats
             /\ c = "done" => apiFormat # "responses"
             /\ Becomes(s, [stream[s] EXCEPT !.go = "put", !.chunk = c, !.saw = c # "text"])
     \/ Becomes(s, [stream[s] EXCEPT !.go = "take"]) /\ UNCHANGED usage
  /\ UNCHANGED <<chains, invalidating, answered>>

RecordResponse(s) ==
  /\ stream[s].go = "record" /\ MuIsFree
  /\ responseChain' = s
  /\ Becomes(s, [stream[s] EXCEPT !.go = "tell"])
  /\ UNCHANGED <<apiFormat, adapterChain, chainMu, usage, invalidating, answered>>

RecordAdapter(s) ==
  /\ stream[s].go = "tell"
  /\ adapterChain' = s
  /\ Becomes(s, [stream[s] EXCEPT !.go = "put"])
  /\ UNCHANGED <<apiFormat, responseChain, chainMu, usage, invalidating, answered>>

\* The chunk goes into the channel, or the context has ended; when both are possible
\* either may happen.
PutChunk(s) ==
  /\ stream[s].go = "put"
  /\ \/ /\ Len(stream[s].chan) < ChunkBuffer
        /\ Becomes(s, [stream[s] EXCEPT !.go = "parse", !.chunk = "none",
                                        !.chan = Append(@, stream[s].chunk),
                                        !.sent = Append(@, stream[s].chunk)])
     \/ stream[s].done /\ Becomes(s, [stream[s] EXCEPT !.go = "closed", !.chunk = "none"])
  /\ UNCHANGED <<chains, usage, invalidating, answered>>

\* mutant: the adapter keeps what it handed out.
TakeCopy(s) ==
  /\ stream[s].go = "take"
  /\ Becomes(s, [stream[s] EXCEPT !.go = "add", !.held = usage.adapter])
  /\ UNCHANGED <<chains, usage, invalidating, answered>>

TakeUsage(s) ==
  /\ stream[s].go = "take"
  /\ Becomes(s, [stream[s] EXCEPT !.go = "add", !.held = usage.adapter])
  /\ usage' = [usage EXCEPT !.adapter = {}]
  /\ UNCHANGED <<chains, invalidating, answered>>

RecordUsage(s) ==
  /\ stream[s].go = "add"
  /\ usage' = [usage EXCEPT !.gateway = @ \cup stream[s].held]
  /\ Becomes(s, [stream[s] EXCEPT !.go = "last", !.held = {}])
  /\ UNCHANGED <<chains, invalidating, answered>>

\* mutant: every stream is given an end.
EndAlways(s) ==
  /\ stream[s].go = "last"
  /\ \/ /\ Len(stream[s].chan) < ChunkBuffer
        /\ Becomes(s, [stream[s] EXCEPT !.go = "closed", !.chan = Append(@, "done"),
                                        !.sent = Append(@, "done")])
     \/ stream[s].done /\ Becomes(s, [stream[s] EXCEPT !.go = "closed"])
  /\ UNCHANGED <<chains, usage, invalidating, answered>>

\* A stream that did not say how it ended is given an end, and the channel is closed.
EndStream(s) ==
  /\ stream[s].go = "last"
  /\ \/ stream[s].saw /\ Becomes(s, [stream[s] EXCEPT !.go = "closed"])
     \/ /\ ~stream[s].saw /\ Len(stream[s].chan) < ChunkBuffer
        /\ Becomes(s, [stream[s] EXCEPT !.go = "closed", !.chan = Append(@, "done"),
                                        !.sent = Append(@, "done")])
     \/ ~stream[s].saw /\ stream[s].done /\ Becomes(s, [stream[s] EXCEPT !.go = "closed"])
  /\ UNCHANGED <<chains, usage, invalidating, answered>>

-----------------------------------------------------------------------------
(* The caller, consumeStream of internal/core/loop.go, and the owner *)

\* The end names the response in the history; an error, the closed channel or the
\* caller's own context ends the call.
ReadChunk(s) ==
  /\ stream[s].at = "read"
  /\ \/ /\ stream[s].chan # <<>>
        /\ LET next == IF Head(stream[s].chan) = "error" THEN "over" ELSE "read"
           IN Becomes(s, [stream[s] EXCEPT !.chan = Tail(@), !.at = next])
        /\ answered' = IF Head(stream[s].chan) = "named"
                       THEN [answered EXCEPT ![Talker(s)] = @ \cup {s}] ELSE answered
     \/ /\ stream[s].chan = <<>> /\ stream[s].go = "closed"
        /\ Becomes(s, [stream[s] EXCEPT !.at = "over"]) /\ UNCHANGED answered
     \/ stream[s].done /\ Becomes(s, [stream[s] EXCEPT !.at = "over"]) /\ UNCHANGED answered
  /\ UNCHANGED <<chains, usage, invalidating>>

InvalidateChain ==
  /\ ~invalidating /\ MuIsFree /\ responseChain # NoCall
  /\ responseChain' = NoCall /\ invalidating' = TRUE
  /\ UNCHANGED <<apiFormat, adapterChain, chainMu, usage, answered, stream>>

InvalidateAdapter ==
  /\ invalidating
  /\ adapterChain' = NoCall /\ invalidating' = FALSE
  /\ UNCHANGED <<apiFormat, responseChain, chainMu, usage, answered, stream>>

-----------------------------------------------------------------------------
GatewayInit ==
  /\ apiFormat \in ApiFormats
  /\ responseChain = NoCall /\ adapterChain = NoCall /\ chainMu = NoCall
  /\ usage = [gateway |-> {}, adapter |-> {}, replaced |-> {}]
  /\ invalidating = FALSE
  /\ answered = [t \in Talkers |-> {}]
  /\ stream = [s \in Streams |-> FreshCall]

GatewayNext ==
  \/ \E s \in Streams :
       \/ CallProvider(s) \/ EndCall(s) \/ LookAtChain(s) \/ FollowChain(s)
       \/ BuildRequest(s) \/ SendRequest(s) \/ ReportUsage(s) \/ ParseChunk(s)
       \/ RecordResponse(s) \/ RecordAdapter(s) \/ PutChunk(s) \/ TakeUsage(s) \/ RecordUsage(s)
       \/ EndStream(s) \/ ReadChunk(s)
  \/ InvalidateChain \/ InvalidateAdapter

GatewaySpec == GatewayInit /\ [][GatewayNext]_gatewayVars

-----------------------------------------------------------------------------
(* Properties *)

\* The state is what the declarations of ProviderGateway and its adapter allow.
GatewayTypeOK ==
  /\ {responseChain, adapterChain, chainMu} \subseteq Streams \cup {NoCall}
  /\ \A t \in Talkers : answered[t] \subseteq Streams
  /\ \A s \in Streams : /\ Len(stream[s].chan) <= ChunkBuffer
                        /\ stream[s].attempt <= MaxRetries
                        /\ {stream[s].from, stream[s].prev} \subseteq Streams \cup {NoCall}

\* What the streams reported is counted once, whichever stream takes it: one that was
\* cancelled leaves its report to the next.  A report is with the gateway, with the adapter
\* or with one stream that has taken it, and none is lost, but a message's: it is replaced by
\* a later one of its stream, as it should be, or by that of another stream, while it is
\* with the adapter (anthropic_messages.go:566-568 speaks of the first only).
UsageCountedOnce ==
  LET taken    == UNION {stream[s].held : s \in Streams}
      reported == {r \in UsageReports : r[2] <= stream[r[1]].reports} IN
  /\ usage.gateway \cup usage.adapter \cup taken \cup usage.replaced = reported
  /\ usage.gateway \cap usage.adapter = {}
  /\ taken \cap (usage.gateway \cup usage.adapter) = {}
  /\ \A s \in Streams, t \in Streams : s # t => stream[s].held \cap stream[t].held = {}
  /\ usage.replaced \cap (usage.gateway \cup usage.adapter \cup taken) = {}
  /\ usage.replaced # {} => apiFormat = "messages"
  /\ \A r \in usage.replaced : \E q \in reported : q[1] # r[1] \/ q[2] > r[2]

\* Nothing follows the end of a stream, and a channel that is closed although its context
\* had not ended was given one.
EndsOnce ==
  \A s \in Streams :
    LET ends == {i \in 1 .. Len(stream[s].sent) : stream[s].sent[i] # "text"} IN
    /\ ends \subseteq {Len(stream[s].sent)}
    /\ stream[s].go = "closed" /\ ~stream[s].done => ends # {}

\* "a partially replayed conversation is worse than a full resend" (gateway.go:257): a
\* request that carries a part of the history names the response that part follows, and
\* one that names a response carries what follows it.  It does not hold: the gateway
\* resumes from its own chain and the adapter names the response of another.
ResumesWhatItNames ==
  \A s \in Streams : stream[s].at = "send" => stream[s].from = stream[s].prev
=============================================================================
