-------------------------------- MODULE Broker --------------------------------
(***************************************************************************)
(* The message broker of internal/engine/subagent: Broker (broker.go) and  *)
(* its mailboxes (message.go).                                             *)
(*                                                                         *)
(* Send writes the message to the journal under the broker's lock, lets    *)
(* the lock go, and then hands the message to the mailboxes under the read *)
(* lock, so that any number of sends route at once.  A mailbox is a        *)
(* bounded channel; handing over is a look at its closed flag and, in      *)
(* another step, a send on its channel, which panics if it is closed by    *)
(* then.  What excludes the panic is the broker's lock, not the mailbox.   *)
(*                                                                         *)
(* Holding the read lock is to be in the middle of a route; a section      *)
(* under the write lock is one action, which needs every route to be over. *)
(***************************************************************************)
EXTENDS Naturals, Sequences, FiniteSets, SequencesExt

CONSTANTS
  Agents,     \* the identifiers mailboxes are registered under
  Main,       \* config.MainID, one of them
  Broadcast,  \* RouteBroadcast
  None,       \* nil
  Sends,      \* calls of Send, each with its message
  Capacity,   \* MailboxCapacity
  MaxBoxes    \* bound: mailboxes made over the life of the broker

ASSUME Parameters ==
  /\ Main \in Agents /\ Broadcast \notin Agents
  /\ MaxBoxes \in Nat \ {0} /\ Capacity \in Nat
  /\ None \notin 1 .. MaxBoxes /\ None \notin Agents /\ None # Broadcast

VARIABLES
  boxOf,      \* b.mailboxes
  made,       \* how many mailboxes were made
  closed,     \* b.closed
  closing,    \* mailboxes Close took out of the map and has not closed yet
  shut,       \* mailboxes that are closed, flag and channel
  queue,      \* the channel of each mailbox
  received,   \* history: what was read from it
  dropped,    \* history: what did not fit in it (m.dropped counts them)
  journal,    \* the broker's stream: a message's number is its position
  sent,       \* b.sent
  delivered,  \* b.delivered
  pc,         \* where each Send is
  to,         \* message.ToAgentID
  left,       \* the mailboxes its route has not visited
  target,     \* the mailbox whose closed flag it has looked at
  accepted,   \* every destination so far took the message
  addressed,  \* history: the mailboxes its route found
  returned,   \* history: the sends that have returned
  before      \* history: those that had returned when this one was journalled

boxes    == <<boxOf, made, closed, closing, shut>>
contents == <<queue, received, dropped>>
counters == <<journal, sent, delivered>>
send     == <<pc, to, left, target, accepted>>
history  == <<addressed, returned, before>>
vars     == <<boxes, contents, counters, send, history>>

Boxes == 1 .. MaxBoxes
Live  == {boxOf[a] : a \in Agents} \ {None}
Pcs   == {"idle", "journalled", "routing", "put", "count", "over"}

Routing      == {s \in Sends : pc[s] \in {"routing", "put"}}
LockIsFree   == Routing = {}
Goto(s, l)   == pc' = [pc EXCEPT ![s] = l]
Return(s)    == Goto(s, "over") /\ returned' = returned \cup {s}

-----------------------------------------------------------------------------
(* Mailboxes *)

\* An identifier that has a mailbox keeps it.
Register(a) ==
  /\ LockIsFree
  /\ ~closed
  /\ boxOf[a] = None
  /\ made < MaxBoxes
  /\ made' = made + 1
  /\ boxOf' = [boxOf EXCEPT ![a] = made']
  /\ UNCHANGED <<closed, closing, shut, contents, counters, send, history>>

\* The mailbox is closed while the lock is held.
Unregister(a) ==
  /\ LockIsFree
  /\ boxOf[a] # None
  /\ boxOf' = [boxOf EXCEPT ![a] = None]
  /\ shut' = shut \cup {boxOf[a]}
  /\ UNCHANGED <<made, closed, closing, contents, counters, send, history>>

\* mutant: the map keeps the mailboxes that are about to be closed.
CloseKeepsRoutes ==
  /\ LockIsFree
  /\ ~closed
  /\ closed' = TRUE
  /\ closing' = Live
  /\ UNCHANGED <<boxOf, made, shut, contents, counters, send, history>>

Close ==
  /\ LockIsFree
  /\ ~closed
  /\ closed' = TRUE
  /\ closing' = Live
  /\ boxOf' = [a \in Agents |-> None]
  /\ UNCHANGED <<made, shut, contents, counters, send, history>>

\* Close closes the mailboxes one after another when the lock is free again.
CloseMailbox(b) ==
  /\ b \in closing
  /\ closing' = closing \ {b}
  /\ shut' = shut \cup {b}
  /\ UNCHANGED <<boxOf, made, closed, contents, counters, send, history>>

\* Whoever holds a mailbox reads it, in the order of its channel; what was in it
\* when it was closed can still be read.
Receive(b) ==
  /\ queue[b] # <<>>
  /\ received' = [received EXCEPT ![b] = Append(@, Head(queue[b]))]
  /\ queue' = [queue EXCEPT ![b] = Tail(@)]
  /\ UNCHANGED <<boxes, dropped, counters, send, history>>

-----------------------------------------------------------------------------
(* Send, up to the release of the lock *)

\* mutant: the message goes on although the journal refused it.
SendUnjournalled(s, a) ==
  /\ pc[s] = "idle"
  /\ LockIsFree
  /\ ~closed
  /\ to' = [to EXCEPT ![s] = a]
  /\ Goto(s, "journalled")
  /\ journal' \in {journal, Append(journal, s)}
  /\ sent' = sent + 1
  /\ before' = [before EXCEPT ![s] = returned]
  /\ UNCHANGED <<boxes, contents, delivered, left, target, accepted, addressed, returned>>

\* mutant: the mailboxes are filled by a goroutine Send does not wait for.
SendDetached(s, a) ==
  /\ pc[s] = "idle"
  /\ LockIsFree
  /\ ~closed
  /\ to' = [to EXCEPT ![s] = a]
  /\ Goto(s, "journalled")
  /\ journal' = Append(journal, s)
  /\ sent' = sent + 1
  /\ before' = [before EXCEPT ![s] = returned]
  /\ returned' = returned \cup {s}
  /\ UNCHANGED <<boxes, contents, delivered, left, target, accepted, addressed>>

Send(s, a) ==
  /\ pc[s] = "idle"
  /\ LockIsFree
  /\ ~closed
  /\ to' = [to EXCEPT ![s] = a]
  /\ Goto(s, "journalled")
  /\ journal' = Append(journal, s)
  /\ sent' = sent + 1
  /\ before' = [before EXCEPT ![s] = returned]
  /\ UNCHANGED <<boxes, contents, delivered, left, target, accepted, addressed, returned>>

\* The message is not valid, the broker is closed, or the journal refuses it.
Refuse(s) ==
  /\ pc[s] = "idle"
  /\ Return(s)
  /\ UNCHANGED <<boxes, contents, counters, to, left, target, accepted, addressed, before>>

-----------------------------------------------------------------------------
(* route and deliver *)

AddressedTo(a) == IF a = Broadcast THEN Live ELSE {boxOf[a]} \ {None}

Route(s) ==
  /\ pc[s] = "journalled"
  /\ left' = [left EXCEPT ![s] = AddressedTo(to[s])]
  /\ addressed' = [addressed EXCEPT ![s] = AddressedTo(to[s])]
  /\ accepted' = [accepted EXCEPT ![s] = to[s] = Broadcast \/ AddressedTo(to[s]) # {}]
  /\ Goto(s, "routing")
  /\ UNCHANGED <<boxes, contents, counters, to, target, returned, before>>

\* deliver looks whether the mailbox is closed.
Look(s, b) ==
  /\ pc[s] = "routing"
  /\ b \in left[s]
  /\ left' = [left EXCEPT ![s] = @ \ {b}]
  /\ IF b \in shut
     THEN /\ accepted' = [accepted EXCEPT ![s] = FALSE]
          /\ UNCHANGED <<pc, target>>
     ELSE /\ target' = [target EXCEPT ![s] = b]
          /\ Goto(s, "put")
          /\ UNCHANGED accepted
  /\ UNCHANGED <<boxes, contents, counters, to, history>>

\* mutant: a full mailbox takes the message all the same.
PutUnbounded(s) ==
  LET b == target[s] IN
  /\ pc[s] = "put"
  /\ b \notin shut
  /\ queue' = [queue EXCEPT ![b] = Append(@, s)]
  /\ target' = [target EXCEPT ![s] = None]
  /\ Goto(s, "routing")
  /\ UNCHANGED <<boxes, received, dropped, counters, to, left, accepted, history>>

\* mutant: a full mailbox is waited for.
PutWaits(s) ==
  LET b == target[s] IN
  /\ pc[s] = "put"
  /\ b \notin shut
  /\ Len(queue[b]) < Capacity
  /\ queue' = [queue EXCEPT ![b] = Append(@, s)]
  /\ target' = [target EXCEPT ![s] = None]
  /\ Goto(s, "routing")
  /\ UNCHANGED <<boxes, received, dropped, counters, to, left, accepted, history>>

\* The send on the channel, and the mailbox's counters.  On a closed channel it
\* panics: nothing follows.
Put(s) ==
  LET b == target[s] IN
  /\ pc[s] = "put"
  /\ b \notin shut
  /\ IF Len(queue[b]) < Capacity
     THEN queue' = [queue EXCEPT ![b] = Append(@, s)] /\ UNCHANGED <<dropped, accepted>>
     ELSE /\ dropped' = [dropped EXCEPT ![b] = @ \cup {s}]
          /\ accepted' = [accepted EXCEPT ![s] = FALSE]
          /\ UNCHANGED queue
  /\ target' = [target EXCEPT ![s] = None]
  /\ Goto(s, "routing")
  /\ UNCHANGED <<boxes, received, counters, to, left, history>>

\* mutant: a broadcast ends at the first mailbox that is full.
RoutedEnough(s) == left[s] = {} \/ ~accepted[s]

Routed(s) == left[s] = {}

RouteEnds(s) ==
  /\ pc[s] = "routing"
  /\ Routed(s)
  /\ left' = [left EXCEPT ![s] = {}]
  /\ IF accepted[s] THEN Goto(s, "count") /\ UNCHANGED returned ELSE Return(s)
  /\ UNCHANGED <<boxes, contents, counters, to, target, accepted, addressed, before>>

Count(s) ==
  /\ pc[s] = "count"
  /\ LockIsFree
  /\ delivered' = delivered + 1
  /\ Return(s)
  /\ UNCHANGED <<boxes, contents, journal, sent, to, left, target, accepted, addressed,
                 before>>

-----------------------------------------------------------------------------
\* NewBroker: the main core has its mailbox from the start.
Init ==
  /\ boxOf = [a \in Agents |-> IF a = Main THEN 1 ELSE None]
  /\ made = 1 /\ closed = FALSE /\ closing = {} /\ shut = {}
  /\ queue = [b \in Boxes |-> <<>>]
  /\ received = [b \in Boxes |-> <<>>]
  /\ dropped = [b \in Boxes |-> {}]
  /\ journal = <<>> /\ sent = 0 /\ delivered = 0
  /\ pc = [s \in Sends |-> "idle"]
  /\ to = [s \in Sends |-> None]
  /\ left = [s \in Sends |-> {}]
  /\ target = [s \in Sends |-> None]
  /\ accepted = [s \in Sends |-> FALSE]
  /\ addressed = [s \in Sends |-> {}]
  /\ returned = {}
  /\ before = [s \in Sends |-> {}]

\* What a Send does once it has been journalled.
Step(s) == Route(s) \/ (\E b \in Boxes : Look(s, b)) \/ Put(s) \/ RouteEnds(s) \/ Count(s)

Next ==
  \/ \E a \in Agents : Register(a) \/ Unregister(a)
  \/ Close
  \/ \E b \in Boxes : CloseMailbox(b) \/ Receive(b)
  \/ \E s \in Sends :
       (\E a \in Agents \cup {Broadcast} : Send(s, a)) \/ Refuse(s) \/ Step(s)

Spec == Init /\ [][Next]_vars

\* Goroutines run, and the lock is handed to one that waits for it: new readers
\* wait behind a writer (sync.RWMutex), so a route that ended gets to count.
Fairness == \A s \in Sends : WF_vars(Step(s)) /\ SF_vars(Count(s))

FairSpec == Spec /\ Fairness

-----------------------------------------------------------------------------
(* Properties *)

Log(b) == received[b] \o queue[b]

\* The state is what the declarations of Broker and Mailbox allow; a channel
\* holds no more than its capacity, and a route has a destination.
TypeOK ==
  /\ boxOf \in [Agents -> Boxes \cup {None}] /\ made \in Boxes /\ closed \in BOOLEAN
  /\ closing \subseteq Boxes /\ shut \subseteq Boxes
  /\ queue \in [Boxes -> Seq(Sends)] /\ \A b \in Boxes : Len(queue[b]) <= Capacity
  /\ received \in [Boxes -> Seq(Sends)] /\ dropped \in [Boxes -> SUBSET Sends]
  /\ journal \in Seq(Sends) /\ sent \in Nat /\ delivered \in Nat
  /\ pc \in [Sends -> Pcs] /\ to \in [Sends -> Agents \cup {Broadcast, None}]
  /\ left \in [Sends -> SUBSET Boxes] /\ target \in [Sends -> Boxes \cup {None}]
  /\ accepted \in [Sends -> BOOLEAN]
  /\ \A s \in Sends : /\ pc[s] = "journalled" => to[s] # None
                      /\ pc[s] = "put" => target[s] # None
  /\ addressed \in [Sends -> SUBSET Boxes]
  /\ returned \subseteq Sends /\ before \in [Sends -> SUBSET Sends]

\* deliver looks at the closed flag and sends afterwards, without the mailbox's
\* lock in between: no Close and no Unregister closes the channel meanwhile, which
\* would end the process.
NoSendOnClosed == \A s \in Sends : pc[s] = "put" => target[s] \notin shut

\* A send that was journalled and has returned was answered for by each mailbox
\* its route found, which took it once or counted it as dropped, and by no other;
\* and the sends that count as delivered are those every destination took.
EveryMailboxAnswers ==
  /\ \A s \in returned : \A b \in Boxes :
       /\ (s \in dropped[b]) # (s \in ToSet(Log(b))) <=> b \in addressed[s]
       /\ Cardinality({i \in DOMAIN Log(b) : Log(b)[i] = s}) <= 1
  /\ delivered = Cardinality({s \in returned : accepted[s]})

\* A message that was sent after another Send had returned stands behind its
\* message in every mailbox that took both.
InTurn ==
  \A b \in Boxes : \A i, j \in DOMAIN Log(b) : Log(b)[j] \in before[Log(b)[i]] => j < i

\* A Send returns, although nobody reads the mailboxes: "a full mailbox is reported
\* rather than blocking" (message.go:202).
SendReturns == \A s \in Sends : pc[s] = "journalled" ~> s \in returned

\* The broker keeps its promise, seen as the order in which a mailbox is read.
Abstract == INSTANCE Delivery WITH
  Messages <- Sends, promised <- ToSet(journal), log <- [b \in Boxes |-> Log(b)]
KeepsPromise == Abstract!Spec
=============================================================================
