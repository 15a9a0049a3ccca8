----------------------------- MODULE BrokerProofs -----------------------------
(***************************************************************************)
(* Proofs about Broker, for every set of agents and sends and every bound: *)
(* types, no send on a closed channel, the order of messages, that the     *)
(* broker keeps the promise of Delivery, and that every mailbox a message  *)
(* was meant for has it or counted it as dropped.                          *)
(***************************************************************************)
EXTENDS Broker, SequenceTheorems, FiniteSetTheorems, TLAPS

\* Only a mailbox of the map, or none, is a destination.
LEMMA AddressedType ==
  ASSUME TypeOK, NEW a \in Agents \cup {Broadcast}
  PROVE  AddressedTo(a) \subseteq Live /\ Live \subseteq Boxes
<1>1. Live \subseteq Boxes
  BY DEF Live, TypeOK
<1>2. CASE a = Broadcast
  BY <1>1, <1>2 DEF AddressedTo
<1>3. CASE a \in Agents /\ a # Broadcast
  BY <1>1, <1>3 DEF AddressedTo, Live
<1> QED BY <1>2, <1>3, <1>1

\* Appending keeps the type and adds one to the length.
LEMMA AppendType ==
  ASSUME NEW S, NEW q \in Seq(S), NEW e \in S
  PROVE  Append(q, e) \in Seq(S) /\ Len(Append(q, e)) = Len(q) + 1 /\ Len(q) \in Nat
  OBVIOUS

\* Taking the first element keeps the type and takes one off the length.
LEMMA TailType ==
  ASSUME NEW S, NEW q \in Seq(S), q # <<>>
  PROVE  /\ Tail(q) \in Seq(S) /\ Len(Tail(q)) = Len(q) - 1 /\ Len(q) \in Nat
         /\ Head(q) \in S
  OBVIOUS

\* Every step keeps the types.
LEMMA TypeStep == TypeOK /\ [Next]_vars => TypeOK'
<1> SUFFICES ASSUME TypeOK, [Next]_vars PROVE TypeOK'
  OBVIOUS
<1>1. CASE UNCHANGED vars
  BY <1>1 DEF TypeOK, vars, boxes, contents, counters, send, history
<1>2. ASSUME NEW a \in Agents, Register(a) PROVE TypeOK'
  <2>1. made + 1 \in Boxes
    BY <1>2, Parameters DEF Parameters, Register, TypeOK, Boxes
  <2> QED BY <1>2, <2>1 DEF Register, TypeOK, contents, counters, send, history
<1>3. ASSUME NEW a \in Agents, Unregister(a) PROVE TypeOK'
  BY <1>3 DEF Unregister, TypeOK, contents, counters, send, history
<1>4. CASE Close
  BY <1>4 DEF Close, Live, TypeOK, contents, counters, send, history
<1>5. ASSUME NEW b \in Boxes, CloseMailbox(b) PROVE TypeOK'
  BY <1>5 DEF CloseMailbox, TypeOK, contents, counters, send, history
<1>6. ASSUME NEW b \in Boxes, Receive(b) PROVE TypeOK'
  <2>1. /\ Head(queue[b]) \in Sends /\ Tail(queue[b]) \in Seq(Sends)
        /\ Len(Tail(queue[b])) <= Capacity
    BY <1>6, TailType, Parameters DEF Parameters, Receive, TypeOK
  <2>2. Append(received[b], Head(queue[b])) \in Seq(Sends)
    BY <2>1, AppendType DEF TypeOK
  <2> QED BY <1>6, <2>1, <2>2 DEF Receive, TypeOK, boxes, counters, send, history
<1>7. ASSUME NEW s \in Sends, NEW a \in Agents \cup {Broadcast}, Send(s, a) PROVE TypeOK'
  <2>1. Append(journal, s) \in Seq(Sends) /\ a # None
    BY AppendType, Parameters DEF Parameters, TypeOK
  <2> QED BY <1>7, <2>1 DEF Send, Goto, TypeOK, Pcs, boxes, contents
<1>8. ASSUME NEW s \in Sends, Refuse(s) PROVE TypeOK'
  BY <1>8 DEF Refuse, Return, Goto, TypeOK, Pcs, boxes, contents, counters
<1>9. ASSUME NEW s \in Sends, Route(s) PROVE TypeOK'
  <2>1. AddressedTo(to[s]) \subseteq Boxes
    BY <1>9, AddressedType DEF Route, TypeOK
  <2> QED BY <1>9, <2>1 DEF Route, Goto, TypeOK, Pcs, boxes, contents, counters
<1>10. ASSUME NEW s \in Sends, NEW b \in Boxes, Look(s, b) PROVE TypeOK'
  <2>1. b # None /\ left' \in [Sends -> SUBSET Boxes]
    BY <1>10, Parameters DEF Parameters, Look, TypeOK, Boxes
  <2>2. CASE b \in shut
    BY <1>10, <2>1, <2>2 DEF Look, TypeOK, boxes, contents, counters, history
  <2>3. CASE b \notin shut
    <3>1. /\ target' = [target EXCEPT ![s] = b] /\ UNCHANGED accepted
          /\ pc' = [pc EXCEPT ![s] = "put"]
      BY <1>10, <2>3 DEF Look, Goto
    <3>2. /\ target' \in [Sends -> Boxes \cup {None}] /\ pc' \in [Sends -> Pcs]
          /\ \A r \in Sends : /\ pc'[r] = "journalled" => to[r] # None
                              /\ pc'[r] = "put" => target'[r] # None
      BY <2>1, <3>1 DEF TypeOK, Pcs
    <3> QED BY <1>10, <2>1, <3>1, <3>2 DEF Look, TypeOK, boxes, contents, counters, history
  <2> QED BY <2>2, <2>3
<1>11. ASSUME NEW s \in Sends, Put(s) PROVE TypeOK'
  <2>1. target[s] \in Boxes
    BY <1>11 DEF Put, TypeOK
  <2>2. CASE Len(queue[target[s]]) < Capacity
    <3>1. /\ Append(queue[target[s]], s) \in Seq(Sends)
          /\ Len(Append(queue[target[s]], s)) <= Capacity
      BY <2>1, <2>2, AppendType, Parameters DEF Parameters, TypeOK
    <3> QED BY <1>11, <2>1, <2>2, <3>1
            DEF Put, Goto, TypeOK, Pcs, boxes, counters, history
  <2>3. CASE ~(Len(queue[target[s]]) < Capacity)
    <3>1. /\ dropped' = [dropped EXCEPT ![target[s]] = @ \cup {s}]
          /\ accepted' = [accepted EXCEPT ![s] = FALSE]
          /\ UNCHANGED queue
      BY <1>11, <2>3 DEF Put
    <3>2. dropped' \in [Boxes -> SUBSET Sends]
      BY <2>1, <3>1 DEF TypeOK
    <3>3. accepted' \in [Sends -> BOOLEAN]
      BY <3>1 DEF TypeOK
    <3> QED BY <1>11, <3>1, <3>2, <3>3 DEF Put, Goto, TypeOK, Pcs, boxes, counters, history
  <2> QED BY <2>2, <2>3
<1>12. ASSUME NEW s \in Sends, RouteEnds(s) PROVE TypeOK'
  BY <1>12 DEF RouteEnds, Return, Goto, TypeOK, Pcs, boxes, contents, counters
<1>13. ASSUME NEW s \in Sends, Count(s) PROVE TypeOK'
  BY <1>13 DEF Count, Return, Goto, TypeOK, Pcs, boxes, contents
<1> QED BY <1>1, <1>2, <1>3, <1>4, <1>5, <1>6, <1>7, <1>8, <1>9, <1>10, <1>11, <1>12,
     <1>13 DEF Next, Step

\* The broker's fields, its mailboxes and the locals of every Send keep their types,
\* whatever is registered, closed, sent and read.
THEOREM TypeCorrect == Spec => []TypeOK
<1>1. Init => TypeOK
  <2> SUFFICES ASSUME Init PROVE TypeOK
    OBVIOUS
  <2>1. 1 \in Boxes /\ <<>> \in Seq(Sends) /\ Len(<<>>) = 0 /\ 0 <= Capacity
    BY Parameters DEF Parameters, Boxes
  <2> QED BY <2>1 DEF Init, TypeOK, Pcs
<1> QED BY <1>1, TypeStep, PTL DEF Spec

-----------------------------------------------------------------------------
(* NoSendOnClosed *)

\* What excludes the send on a closed channel: a mailbox of the map is registered
\* under one identifier and is not closed, one that is being closed is not in the
\* map, and a route, which no change of the map overlaps, only visits mailboxes of
\* the map.
Visits(s) ==
  s \in Routing => left[s] \subseteq Live /\ (pc[s] = "put" => target[s] \in Live)
MapInv ==
  /\ \A b \in Live \cup closing \cup shut : b <= made
  /\ Live \cap (closing \cup shut) = {}
  /\ \A a, c \in Agents : boxOf[a] = boxOf[c] /\ boxOf[a] # None => a = c
OpenInv == MapInv /\ \A s \in Sends : Visits(s)

\* No step closes a mailbox that a route may still send to.
LEMMA OpenStep == TypeOK /\ OpenInv /\ [Next]_vars => OpenInv'
<1> SUFFICES ASSUME TypeOK, OpenInv, [Next]_vars PROVE OpenInv'
  OBVIOUS
<1>0. MapInv /\ \A s \in Sends : Visits(s)
  BY DEF OpenInv
<1>a. ASSUME UNCHANGED <<boxOf, made, closing, shut>> PROVE MapInv' /\ Live' = Live
  BY <1>0, <1>a DEF MapInv, Live
<1>b. ASSUME LockIsFree, UNCHANGED <<pc, left, target>> PROVE \A s \in Sends : Visits(s)'
  BY <1>b DEF LockIsFree, Visits, Routing
<1>1. ASSUME UNCHANGED <<boxOf, made, closing, shut, pc, left, target>> PROVE OpenInv'
  BY <1>0, <1>1, <1>a DEF OpenInv, Visits, Routing
<1>2. ASSUME NEW a \in Agents, Register(a) PROVE OpenInv'
  <2>1. boxOf' = [boxOf EXCEPT ![a] = made + 1] /\ made' = made + 1 /\ made \in Nat
    BY <1>2 DEF Register, TypeOK, Boxes
  <2>2. Live' = Live \cup {made + 1}
    BY <1>2, <2>1, Parameters DEF Parameters, Register, Live, TypeOK, Boxes
  <2>3. /\ closing' = closing /\ shut' = shut
        /\ closing \subseteq Boxes /\ shut \subseteq Boxes /\ Live \subseteq Boxes
    BY <1>2 DEF Register, TypeOK, Live
  <2>4. MapInv'
    <3>1. \A b \in Live' \cup closing' \cup shut' : b <= made'
      BY <1>0, <2>1, <2>2, <2>3 DEF MapInv, Boxes
    <3>2. Live' \cap (closing' \cup shut') = {}
      BY <1>0, <2>1, <2>2, <2>3 DEF MapInv, Boxes
    <3>3. \A c \in Agents : boxOf[c] # made + 1
      <4>1. made + 1 # None
        BY <1>2, Parameters DEF Parameters, Register, TypeOK, Boxes
      <4>2. \A c \in Agents : boxOf[c] # None => boxOf[c] \in Boxes /\ boxOf[c] <= made
        BY <1>0 DEF MapInv, Live, TypeOK
      <4> QED BY <2>1, <4>1, <4>2 DEF Boxes
    <3>4. \A c, d \in Agents : boxOf'[c] = boxOf'[d] /\ boxOf'[c] # None => c = d
      BY <1>0, <2>1, <3>3 DEF MapInv, TypeOK
    <3> QED BY <3>1, <3>2, <3>4 DEF MapInv
  <2> QED BY <1>2, <1>b, <2>4 DEF Register, OpenInv, send
<1>3. ASSUME NEW a \in Agents, Unregister(a) PROVE OpenInv'
  <2>1. /\ boxOf' = [boxOf EXCEPT ![a] = None] /\ shut' = shut \cup {boxOf[a]}
        /\ boxOf[a] # None /\ UNCHANGED <<made, closing>>
    BY <1>3 DEF Unregister
  <2>2. Live' = Live \ {boxOf[a]}
    BY <1>0, <2>1 DEF MapInv, Live, TypeOK
  <2>3. MapInv'
    <3>1. boxOf[a] \in Live
      BY <2>1 DEF Live
    <3>2. \A b \in Live' \cup closing' \cup shut' : b <= made'
      BY <1>0, <2>1, <2>2, <3>1 DEF MapInv
    <3>3. Live' \cap (closing' \cup shut') = {}
      BY <1>0, <2>1, <2>2 DEF MapInv
    <3>4. \A c, d \in Agents : boxOf'[c] = boxOf'[d] /\ boxOf'[c] # None => c = d
      BY <1>0, <2>1 DEF MapInv, TypeOK
    <3> QED BY <3>2, <3>3, <3>4 DEF MapInv
  <2> QED BY <1>3, <1>b, <2>3 DEF Unregister, OpenInv, send
<1>4. CASE Close
  <2>1. Live' = {} /\ closing' = Live /\ UNCHANGED <<made, shut>>
    BY <1>4 DEF Close, Live
  <2>2. \A c \in Agents : boxOf'[c] = None
    BY <1>4 DEF Close
  <2>3. MapInv'
    BY <1>0, <2>1, <2>2 DEF MapInv
  <2> QED BY <1>4, <1>b, <2>3 DEF Close, OpenInv, send
<1>5. ASSUME NEW b \in Boxes, CloseMailbox(b) PROVE OpenInv'
  <2>1. Live' = Live /\ closing' \cup shut' = closing \cup shut /\ UNCHANGED <<made, boxOf>>
    BY <1>5 DEF CloseMailbox, Live
  <2>2. MapInv'
    BY <1>0, <2>1 DEF MapInv
  <2>3. \A s \in Sends : Visits(s)'
    BY <1>0, <1>5, <2>1 DEF CloseMailbox, send, Visits, Routing
  <2> QED BY <2>2, <2>3 DEF OpenInv
<1>6. ASSUME NEW b \in Boxes, Receive(b) PROVE OpenInv'
  BY <1>6, <1>1 DEF Receive, boxes, send
<1>7. ASSUME NEW s \in Sends, NEW a \in Agents \cup {Broadcast}, Send(s, a) PROVE OpenInv'
  BY <1>0, <1>7, <1>a DEF Send, Goto, boxes, OpenInv, Visits, Routing, TypeOK
<1>8. ASSUME NEW s \in Sends, Refuse(s) PROVE OpenInv'
  BY <1>0, <1>8, <1>a DEF Refuse, Return, Goto, boxes, OpenInv, Visits, Routing, TypeOK
<1>9. ASSUME NEW s \in Sends, Route(s) PROVE OpenInv'
  <2>1. AddressedTo(to[s]) \subseteq Live
    BY <1>9, AddressedType DEF Route, TypeOK
  <2> QED BY <1>0, <1>9, <1>a, <2>1
          DEF Route, Goto, boxes, OpenInv, Visits, Routing, TypeOK
<1>10. ASSUME NEW s \in Sends, NEW b \in Boxes, Look(s, b) PROVE OpenInv'
  <2>1. b \in Live /\ left' = [left EXCEPT ![s] = @ \ {b}] /\ left[s] \subseteq Live
    BY <1>0, <1>10 DEF Look, Visits, Routing
  <2>2. CASE b \in shut
    BY <1>0, <2>1, <2>2 DEF MapInv
  <2>3. CASE b \notin shut
    BY <1>0, <1>10, <1>a, <2>1, <2>3
    DEF Look, Goto, boxes, OpenInv, Visits, Routing, TypeOK
  <2> QED BY <2>2, <2>3
<1>11. ASSUME NEW s \in Sends, Put(s) PROVE OpenInv'
  <2>1. UNCHANGED <<boxOf, made, closing, shut, left>> /\ pc' = [pc EXCEPT ![s] = "routing"]
        /\ target' = [target EXCEPT ![s] = None] /\ s \in Routing
    BY <1>11 DEF Put, Goto, boxes, Routing
  <2> QED BY <1>0, <1>a, <2>1 DEF OpenInv, Visits, Routing, TypeOK
<1>12. ASSUME NEW s \in Sends, RouteEnds(s) PROVE OpenInv'
  <2>1. /\ UNCHANGED <<boxOf, made, closing, shut, target>>
        /\ left' = [left EXCEPT ![s] = {}]
        /\ pc' \in {[pc EXCEPT ![s] = "count"], [pc EXCEPT ![s] = "over"]}
    BY <1>12 DEF RouteEnds, Return, Goto, boxes
  <2> QED BY <1>0, <1>a, <2>1 DEF OpenInv, Visits, Routing, TypeOK
<1>13. ASSUME NEW s \in Sends, Count(s) PROVE OpenInv'
  BY <1>0, <1>13, <1>a DEF Count, Return, Goto, boxes, OpenInv, Visits, Routing, TypeOK
<1>14. CASE UNCHANGED vars
  BY <1>1, <1>14 DEF vars, boxes, send
<1> QED BY <1>2, <1>3, <1>4, <1>5, <1>6, <1>7, <1>8, <1>9, <1>10, <1>11, <1>12, <1>13,
     <1>14 DEF Next, Step

\* The invariant holds from the start, so it always does.
LEMMA OpenKept == Spec => []OpenInv
<1>1. Init => OpenInv
  <2> SUFFICES ASSUME Init PROVE OpenInv
    OBVIOUS
  <2>1. Live \subseteq {1} /\ closing = {} /\ shut = {} /\ made = 1
    BY DEF Init, Live
  <2>2. \A s \in Sends : s \notin Routing
    BY DEF Init, Routing
  <2> QED BY <2>1, <2>2, Parameters DEF Parameters, Init, OpenInv, MapInv, Visits
<1> QED BY <1>1, TypeCorrect, OpenStep, PTL DEF Spec

\* deliver never sends on a channel that Close or Unregister has closed, although it
\* gives the mailbox's lock up between its look at the flag and the send.
THEOREM OpenWhenSent == Spec => []NoSendOnClosed
<1>1. OpenInv => NoSendOnClosed
  BY DEF OpenInv, MapInv, Visits, NoSendOnClosed, Routing
<1> QED BY <1>1, OpenKept, PTL

-----------------------------------------------------------------------------
(* Where a message is *)

\* Appending adds one element to what a sequence holds.
LEMMA AppendSet ==
  ASSUME NEW S, NEW q \in Seq(S), NEW e \in S
  PROVE  ToSet(Append(q, e)) = ToSet(q) \cup {e}
<1>1. DOMAIN Append(q, e) = DOMAIN q \cup {Len(q) + 1}
  OBVIOUS
<1>2. \A i \in DOMAIN q : Append(q, e)[i] = q[i]
  OBVIOUS
<1>3. Append(q, e)[Len(q) + 1] = e
  OBVIOUS
<1> QED BY <1>1, <1>2, <1>3 DEF ToSet

\* Taking the head of a channel to the end of what was read moves no message.
LEMMA HeadMoves ==
  ASSUME NEW S, NEW p \in Seq(S), NEW q \in Seq(S), q # <<>>
  PROVE  Append(p, Head(q)) \o Tail(q) = p \o q
<1>1. Head(q) \in S /\ Tail(q) \in Seq(S) /\ <<Head(q)>> \in Seq(S)
  BY HeadTailProperties
<1>2. <<Head(q)>> \o Tail(q) = q
  <2>1. Len(<<Head(q)>> \o Tail(q)) = Len(q) /\ <<Head(q)>> \o Tail(q) \in Seq(S)
    BY <1>1, ConcatProperties, HeadTailProperties
  <2>2. ASSUME NEW i \in 1 .. Len(q) PROVE (<<Head(q)>> \o Tail(q))[i] = q[i]
    BY <1>1, <2>2, ConcatProperties, HeadTailProperties
  <2> QED BY <2>1, <2>2, SeqEqual
<1>3. Append(p, Head(q)) = p \o <<Head(q)>>
  BY <1>1, AppendIsConcat
<1> QED BY <1>1, <1>2, <1>3, ConcatAssociative

\* Appending to the channel appends to the log.
LEMMA TailGrows ==
  ASSUME NEW S, NEW p \in Seq(S), NEW q \in Seq(S), NEW e \in S
  PROVE  p \o Append(q, e) = Append(p \o q, e)
<1>1. <<e>> \in Seq(S) /\ p \o q \in Seq(S)
  BY ConcatProperties
<1>2. Append(q, e) = q \o <<e>>
  BY AppendIsConcat
<1>3. Append(p \o q, e) = (p \o q) \o <<e>>
  BY <1>1, AppendIsConcat
<1> QED BY <1>1, <1>2, <1>3, ConcatAssociative

\* The log of a mailbox is a sequence of sends.
LEMMA LogType == ASSUME TypeOK, NEW b \in Boxes PROVE Log(b) \in Seq(Sends)
  BY DEF TypeOK, Log

\* Reading moves a message from the channel to what was read: the log stays.
LEMMA LogReceive ==
  ASSUME TypeOK, NEW b \in Boxes, Receive(b), NEW c \in Boxes
  PROVE  Log(c)' = Log(c)
<1>1. queue[b] \in Seq(Sends) /\ queue[b] # <<>> /\ received[b] \in Seq(Sends)
  BY DEF TypeOK, Receive
<1>2. Append(received[b], Head(queue[b])) \o Tail(queue[b]) = received[b] \o queue[b]
  BY <1>1, HeadMoves
<1>3. CASE c = b
  BY <1>2, <1>3 DEF Receive, TypeOK, Log
<1>4. CASE c # b
  BY <1>4 DEF Receive, TypeOK, Log
<1> QED BY <1>3, <1>4

\* A mailbox with room takes the message at the end of its log.
LEMMA LogPut ==
  ASSUME TypeOK, NEW s \in Sends, Put(s), NEW b \in Boxes, target[s] = b,
         Len(queue[b]) < Capacity
  PROVE  /\ Log(b)' = Append(Log(b), s)
         /\ \A c \in Boxes \ {b} : Log(c)' = Log(c)
<1>2. queue' = [queue EXCEPT ![b] = Append(@, s)] /\ received' = received
  BY DEF Put
<1>3. queue[b] \in Seq(Sends) /\ received[b] \in Seq(Sends) /\ s \in Sends
  BY DEF TypeOK
<1>4. received[b] \o Append(queue[b], s) = Append(received[b] \o queue[b], s)
  <2>1. \A p, q \in Seq(Sends) : p \o Append(q, s) = Append(p \o q, s)
    BY TailGrows
  <2> QED BY <1>3, <2>1
<1>5. queue'[b] = Append(queue[b], s) /\ \A c \in Boxes \ {b} : queue'[c] = queue[c]
  BY <1>2 DEF TypeOK
<1>6. Log(b)' = Append(Log(b), s)
  BY <1>2, <1>4, <1>5 DEF Log
<1>7. \A c \in Boxes \ {b} : Log(c)' = Log(c)
  BY <1>2, <1>5 DEF Log
<1> QED BY <1>6, <1>7

\* A mailbox without room keeps its log.
LEMMA LogFull ==
  ASSUME NEW s \in Sends, Put(s), ~(Len(queue[target[s]]) < Capacity), NEW c \in Boxes
  PROVE  Log(c)' = Log(c)
  BY DEF Put, Log

\* A message is in the journal from its Send's first step on, and in a mailbox only
\* if its route was there and is not going there again.
Placed(s) ==
  /\ pc[s] = "idle" => s \notin ToSet(journal)
  /\ pc[s] \notin {"idle", "over"} => s \in ToSet(journal)
  /\ pc[s] = "over" <=> s \in returned
  /\ pc[s] = "put" => target[s] \notin left[s]
  /\ before[s] \subseteq returned
Once(s, b) ==
  s \in ToSet(Log(b)) =>
    /\ pc[s] \notin {"idle", "journalled"}
    /\ pc[s] \in {"routing", "put"} => b \notin left[s]
    /\ pc[s] = "put" => target[s] # b
PlaceInv == \A s \in Sends, b \in Boxes : Placed(s) /\ Once(s, b)

\* A send that does not move keeps its place while the logs stay.
LEMMA PlaceFrame ==
  ASSUME NEW r \in Sends, NEW b \in Boxes, Placed(r), Once(r, b),
         pc'[r] = pc[r], left'[r] = left[r], target'[r] = target[r],
         before'[r] = before[r], returned \subseteq returned',
         r \in returned' => r \in returned,
         r \in ToSet(journal)' <=> r \in ToSet(journal),
         r \in ToSet(Log(b))' => r \in ToSet(Log(b))
  PROVE  Placed(r)' /\ Once(r, b)'
  BY DEF Placed, Once

\* Every step keeps track of where each message is.
LEMMA PlaceStep == TypeOK /\ PlaceInv /\ [Next]_vars => PlaceInv'
<1> SUFFICES ASSUME TypeOK, PlaceInv, [Next]_vars, NEW r \in Sends, NEW b \in Boxes
             PROVE  Placed(r)' /\ Once(r, b)'
  BY DEF PlaceInv
<1>0. Placed(r) /\ Once(r, b)
  BY DEF PlaceInv
<1>a. ASSUME UNCHANGED <<queue, received>> PROVE Log(b)' = Log(b)
  BY <1>a DEF Log
<1>1. ASSUME UNCHANGED <<queue, received, journal, send, history>>
      PROVE  Placed(r)' /\ Once(r, b)'
  BY <1>0, <1>1, <1>a, PlaceFrame DEF send, history
<1>2. ASSUME NEW a \in Agents, Register(a) \/ Unregister(a) PROVE Placed(r)' /\ Once(r, b)'
  BY <1>1, <1>2 DEF Register, Unregister, contents, counters
<1>3. CASE Close
  BY <1>1, <1>3 DEF Close, contents, counters
<1>4. ASSUME NEW c \in Boxes, CloseMailbox(c) PROVE Placed(r)' /\ Once(r, b)'
  BY <1>1, <1>4 DEF CloseMailbox, contents, counters
<1>5. ASSUME NEW c \in Boxes, Receive(c) PROVE Placed(r)' /\ Once(r, b)'
  <2>1. Log(b)' = Log(b)
    BY <1>5, LogReceive
  <2> QED BY <1>0, <1>5, <2>1, PlaceFrame DEF Receive, counters, send, history
<1>6. ASSUME NEW s \in Sends, NEW a \in Agents \cup {Broadcast}, Send(s, a)
      PROVE  Placed(r)' /\ Once(r, b)'
  <2>1. Log(b)' = Log(b) /\ ToSet(journal') = ToSet(journal) \cup {s}
    BY <1>6, <1>a, AppendSet DEF Send, contents, TypeOK
  <2>2. CASE r # s
    BY <1>0, <1>6, <2>1, <2>2, PlaceFrame DEF Send, Goto, TypeOK
  <2>3. CASE r = s
    BY <1>0, <1>6, <2>1, <2>3 DEF Send, Goto, TypeOK, Placed, Once
  <2> QED BY <2>2, <2>3
<1>7. ASSUME NEW s \in Sends, Refuse(s) PROVE Placed(r)' /\ Once(r, b)'
  <2>1. Log(b)' = Log(b) /\ UNCHANGED journal
    BY <1>7, <1>a DEF Refuse, contents, counters
  <2>2. CASE r # s
    BY <1>0, <1>7, <2>1, <2>2, PlaceFrame DEF Refuse, Return, Goto, TypeOK
  <2>3. CASE r = s
    BY <1>0, <1>7, <2>1, <2>3 DEF Refuse, Return, Goto, TypeOK, Placed, Once
  <2> QED BY <2>2, <2>3
<1>8. ASSUME NEW s \in Sends, Route(s) PROVE Placed(r)' /\ Once(r, b)'
  <2>1. Log(b)' = Log(b) /\ UNCHANGED journal
    BY <1>8, <1>a DEF Route, contents, counters
  <2>2. CASE r # s
    BY <1>0, <1>8, <2>1, <2>2, PlaceFrame DEF Route, Goto, TypeOK
  <2>3. CASE r = s
    BY <1>0, <1>8, <2>1, <2>3 DEF Route, Goto, TypeOK, Placed, Once
  <2> QED BY <2>2, <2>3
<1>9. ASSUME NEW s \in Sends, NEW c \in Boxes, Look(s, c) PROVE Placed(r)' /\ Once(r, b)'
  <2>1. Log(b)' = Log(b) /\ UNCHANGED <<journal, before, returned>>
    BY <1>9, <1>a DEF Look, contents, counters, history
  <2>2. CASE r # s
    BY <1>0, <1>9, <2>1, <2>2, PlaceFrame DEF Look, Goto, TypeOK
  <2>3. CASE r = s
    BY <1>0, <1>9, <2>1, <2>3 DEF Look, Goto, TypeOK, Placed, Once
  <2> QED BY <2>2, <2>3
<1>10. ASSUME NEW s \in Sends, Put(s) PROVE Placed(r)' /\ Once(r, b)'
  <2>1. UNCHANGED <<journal, before, returned, left>>
    BY <1>10 DEF Put, counters, history
  <2>2. ToSet(Log(b))' \subseteq ToSet(Log(b)) \cup (IF target[s] = b THEN {s} ELSE {})
    <3>0. PICK c \in Boxes : target[s] = c
      BY <1>10 DEF Put, TypeOK
    <3>1. CASE Len(queue[target[s]]) < Capacity
      <4>1. Log(c)' = Append(Log(c), s) /\ \A d \in Boxes \ {c} : Log(d)' = Log(d)
        BY <1>10, <3>0, <3>1, LogPut
      <4>2. ToSet(Append(Log(c), s)) = ToSet(Log(c)) \cup {s}
        BY LogType, AppendSet
      <4> QED BY <3>0, <4>1, <4>2
    <3>2. CASE ~(Len(queue[target[s]]) < Capacity)
      BY <1>10, <3>2, LogFull
    <3> QED BY <3>1, <3>2
  <2>3. CASE r # s
    BY <1>0, <1>10, <2>1, <2>2, <2>3, PlaceFrame DEF Put, Goto, TypeOK
  <2>4. CASE r = s
    BY <1>0, <1>10, <2>1, <2>2, <2>4 DEF Put, Goto, TypeOK, Placed, Once
  <2> QED BY <2>3, <2>4
<1>11. ASSUME NEW s \in Sends, RouteEnds(s) PROVE Placed(r)' /\ Once(r, b)'
  <2>1. Log(b)' = Log(b) /\ UNCHANGED <<journal, before, target>>
    BY <1>11, <1>a DEF RouteEnds, contents, counters
  <2>2. CASE r # s
    BY <1>0, <1>11, <2>1, <2>2, PlaceFrame DEF RouteEnds, Return, Goto, TypeOK
  <2>3. CASE r = s
    BY <1>0, <1>11, <2>1, <2>3 DEF RouteEnds, Return, Goto, TypeOK, Placed, Once
  <2> QED BY <2>2, <2>3
<1>12. ASSUME NEW s \in Sends, Count(s) PROVE Placed(r)' /\ Once(r, b)'
  <2>1. Log(b)' = Log(b) /\ UNCHANGED journal
    BY <1>12, <1>a DEF Count, contents
  <2>2. CASE r # s
    BY <1>0, <1>12, <2>1, <2>2, PlaceFrame DEF Count, Return, Goto, TypeOK
  <2>3. CASE r = s
    BY <1>0, <1>12, <2>1, <2>3 DEF Count, Return, Goto, TypeOK, Placed, Once
  <2> QED BY <2>2, <2>3
<1>13. CASE UNCHANGED vars
  BY <1>1, <1>13 DEF vars, contents, counters
<1> QED BY <1>2, <1>3, <1>4, <1>5, <1>6, <1>7, <1>8, <1>9, <1>10, <1>11, <1>12, <1>13
    DEF Next, Step

\* The invariant holds from the start, so it always does.
LEMMA PlacesKept == Spec => []PlaceInv
<1>1. Init => PlaceInv
  <2> SUFFICES ASSUME Init, NEW s \in Sends, NEW b \in Boxes PROVE Placed(s) /\ Once(s, b)
    BY DEF PlaceInv
  <2>1. ToSet(<<>>) = {} /\ <<>> \o <<>> = <<>>
    BY DEF ToSet
  <2>2. ToSet(journal) = {} /\ ToSet(Log(b)) = {}
    BY <2>1 DEF Init, Log
  <2> QED BY <2>2 DEF Init, Placed, Once
<1> QED BY <1>1, TypeCorrect, PlaceStep, PTL DEF Spec

-----------------------------------------------------------------------------
(* InTurn *)

\* Only a send that has not returned is put into a mailbox, and at the end.
LEMMA OrderStep == TypeOK /\ PlaceInv /\ InTurn /\ [Next]_vars => InTurn'
<1> SUFFICES ASSUME TypeOK, PlaceInv, InTurn, [Next]_vars PROVE InTurn'
  OBVIOUS
<1>1. ASSUME \A b \in Boxes : Log(b)' = Log(b), UNCHANGED before PROVE InTurn'
  BY <1>1 DEF InTurn
<1>2. ASSUME UNCHANGED <<queue, received, before>> PROVE InTurn'
  BY <1>1, <1>2 DEF Log
<1>3. ASSUME NEW c \in Boxes, Receive(c) PROVE InTurn'
  <2>1. \A b \in Boxes : Log(b)' = Log(b)
    BY <1>3, LogReceive
  <2> QED BY <1>1, <1>3, <2>1 DEF Receive, history
<1>4. ASSUME NEW s \in Sends, NEW a \in Agents \cup {Broadcast}, Send(s, a) PROVE InTurn'
  <2>1. \A b \in Boxes : Log(b)' = Log(b)
    BY <1>4 DEF Send, contents, Log
  <2>2. \A b \in Boxes : \A i \in DOMAIN Log(b) : Log(b)[i] # s
    <3> SUFFICES ASSUME NEW b \in Boxes, NEW i \in DOMAIN Log(b) PROVE Log(b)[i] # s
      OBVIOUS
    <3>1. s \notin ToSet(Log(b))
      BY <1>4 DEF Send, PlaceInv, Once
    <3> QED BY <3>1 DEF ToSet
  <2>3. \A r : r # s => before'[r] = before[r]
    BY <1>4 DEF Send, TypeOK
  <2> QED BY <2>1, <2>2, <2>3 DEF InTurn
<1>5. ASSUME NEW s \in Sends, Put(s) PROVE InTurn'
  <2>0. PICK c \in Boxes : target[s] = c
    BY <1>5 DEF Put, TypeOK
  <2>1. UNCHANGED before
    BY <1>5 DEF Put, history
  <2>2. CASE Len(queue[c]) < Capacity
    <3>1. Log(c)' = Append(Log(c), s) /\ \A d \in Boxes \ {c} : Log(d)' = Log(d)
      BY <1>5, <2>0, <2>2, LogPut
    <3>2. Log(c) \in Seq(Sends)
      BY LogType
    <3>3. \A r \in Sends : s \notin before[r]
      BY <1>5, <2>0 DEF Put, PlaceInv, Placed
    <3>4. ASSUME NEW i \in DOMAIN Log(c)', NEW j \in DOMAIN Log(c)',
                 Log(c)'[j] \in before'[Log(c)'[i]]
          PROVE  j < i
      <4> DEFINE n == Len(Log(c))
      <4>1. DOMAIN Log(c) = 1 .. n /\ DOMAIN Append(Log(c), s) = 1 .. n + 1 /\ n \in Nat
        BY <3>2
      <4>2. i \in 1 .. n + 1 /\ j \in 1 .. n + 1
        BY <3>1, <3>4, <4>1
      <4>3. /\ \A k \in 1 .. n : Append(Log(c), s)[k] = Log(c)[k] /\ Log(c)[k] \in Sends
            /\ Append(Log(c), s)[n + 1] = s
        BY <3>2, AppendProperties, ElementOfSeq
      <4>4. Append(Log(c), s)[i] \in Sends
        BY <4>1, <4>2, <4>3
      <4>5. Append(Log(c), s)[j] \in before[Append(Log(c), s)[i]]
        BY <2>1, <3>1, <3>4
      <4>6. j # n + 1
        BY <3>3, <4>3, <4>4, <4>5
      <4>7. CASE i = n + 1
        BY <4>1, <4>2, <4>6, <4>7
      <4>8. CASE i # n + 1
        <5>1. i \in 1 .. n /\ j \in 1 .. n
          BY <4>1, <4>2, <4>6, <4>8
        <5> QED BY <4>1, <4>3, <4>5, <5>1 DEF InTurn
      <4> QED BY <4>7, <4>8
    <3> QED BY <2>1, <3>1, <3>4 DEF InTurn
  <2>3. CASE ~(Len(queue[c]) < Capacity)
    BY <1>1, <1>5, <2>0, <2>1, <2>3, LogFull
  <2> QED BY <2>2, <2>3
<1>6. ASSUME NEW a \in Agents, Register(a) \/ Unregister(a) PROVE InTurn'
  BY <1>2, <1>6 DEF Register, Unregister, contents, history
<1>7. CASE Close
  BY <1>2, <1>7 DEF Close, contents, history
<1>8. ASSUME NEW c \in Boxes, CloseMailbox(c) PROVE InTurn'
  BY <1>2, <1>8 DEF CloseMailbox, contents, history
<1>9. ASSUME NEW s \in Sends, Refuse(s) \/ Route(s) \/ RouteEnds(s) \/ Count(s) PROVE InTurn'
  BY <1>2, <1>9 DEF Refuse, Route, RouteEnds, Count, contents
<1>10. ASSUME NEW s \in Sends, NEW c \in Boxes, Look(s, c) PROVE InTurn'
  BY <1>2, <1>10 DEF Look, contents, history
<1>11. CASE UNCHANGED vars
  BY <1>2, <1>11 DEF vars, contents, history
<1> QED BY <1>3, <1>4, <1>5, <1>6, <1>7, <1>8, <1>9, <1>10, <1>11 DEF Next, Step

\* Messages of sends that do not overlap are read in the order they were sent, from
\* every mailbox and however the routes of other sends run in between.
THEOREM OrderKept == Spec => []InTurn
<1>1. Init => InTurn
  <2> SUFFICES ASSUME Init, NEW b \in Boxes PROVE DOMAIN Log(b) = {}
    BY DEF InTurn
  <2> QED BY DEF Init, Log
<1> QED BY <1>1, TypeCorrect, PlacesKept, OrderStep, PTL DEF Spec

-----------------------------------------------------------------------------
(* KeepsPromise *)

\* Every step is a step of Delivery or leaves its variables alone.
LEMMA PromiseStep ==
  TypeOK /\ PlaceInv /\ [Next]_vars =>
    [Abstract!Next]_<<ToSet(journal), returned, [b \in Boxes |-> Log(b)]>>
<1> DEFINE Logs == [b \in Boxes |-> Log(b)]
           Same == UNCHANGED <<ToSet(journal), returned, Logs>>
<1> SUFFICES ASSUME TypeOK, PlaceInv, [Next]_vars PROVE Abstract!Next \/ Same
  OBVIOUS
<1>1. ASSUME \A b \in Boxes : Log(b)' = Log(b) PROVE UNCHANGED Logs
  BY <1>1
<1>2. ASSUME UNCHANGED <<queue, received>> PROVE UNCHANGED Logs
  BY <1>1, <1>2 DEF Log
<1>3. ASSUME UNCHANGED <<queue, received, journal, returned>> PROVE Same
  BY <1>2, <1>3
<1> HIDE DEF Logs
<1>4. ASSUME NEW c \in Boxes, Receive(c) PROVE Same
  <2>1. \A b \in Boxes : Log(b)' = Log(b)
    BY <1>4, LogReceive
  <2> QED BY <1>1, <1>4, <2>1 DEF Receive, counters, history
<1>5. ASSUME NEW s \in Sends, NEW a \in Agents \cup {Broadcast}, Send(s, a)
      PROVE  Abstract!Next
  <2>1. ToSet(journal') = ToSet(journal) \cup {s}
    BY <1>5, AppendSet DEF Send, TypeOK
  <2>2. s \notin ToSet(journal) \cup returned
    <3>1. PICK b \in Boxes : TRUE
      BY Parameters DEF Parameters, Boxes
    <3>2. Placed(s)
      BY <3>1 DEF PlaceInv
    <3> QED BY <1>5, <3>2 DEF Send, Placed
  <2>3. Abstract!Promise(s)
    BY <1>2, <1>5, <2>1, <2>2 DEF Send, contents, Abstract!Promise, Logs
  <2> QED BY <2>3 DEF Abstract!Next
<1>6. ASSUME NEW s \in Sends, Return(s), s \notin returned,
             UNCHANGED <<queue, received, journal>>
      PROVE  Abstract!Next
  <2>1. Abstract!Return(s)
    BY <1>2, <1>6 DEF Return, Abstract!Return, Logs
  <2> QED BY <2>1 DEF Abstract!Next
<1>7. \A s \in Sends : pc[s] # "over" => s \notin returned
  <2>1. PICK b \in Boxes : TRUE
    BY Parameters DEF Parameters, Boxes
  <2> QED BY <2>1 DEF PlaceInv, Placed
<1>8. ASSUME NEW s \in Sends, Refuse(s) PROVE Abstract!Next
  BY <1>6, <1>7, <1>8 DEF Refuse, contents, counters
<1>9. ASSUME NEW s \in Sends, RouteEnds(s) PROVE Abstract!Next \/ Same
  <2>1. UNCHANGED <<queue, received, journal>> /\ s \notin returned
    BY <1>7, <1>9 DEF RouteEnds, contents, counters
  <2>2. CASE accepted[s]
    BY <1>3, <1>9, <2>1, <2>2 DEF RouteEnds
  <2>3. CASE ~accepted[s]
    BY <1>6, <1>9, <2>1, <2>3 DEF RouteEnds
  <2> QED BY <2>2, <2>3
<1>10. ASSUME NEW s \in Sends, Count(s) PROVE Abstract!Next
  BY <1>6, <1>7, <1>10 DEF Count, contents
<1>11. ASSUME NEW s \in Sends, Put(s) PROVE Abstract!Next \/ Same
  <2>0. PICK c \in Boxes : target[s] = c
    BY <1>11 DEF Put, TypeOK
  <2>1. UNCHANGED <<journal, returned>>
    BY <1>11 DEF Put, counters, history
  <2>2. CASE Len(queue[c]) < Capacity
    <3>1. Log(c)' = Append(Log(c), s) /\ \A d \in Boxes \ {c} : Log(d)' = Log(d)
      BY <1>11, <2>0, <2>2, LogPut
    <3>2. Logs' = [Logs EXCEPT ![c] = Append(@, s)]
      BY <3>1 DEF Logs
    <3>3. s \in ToSet(journal) \ returned /\ s \notin ToSet(Log(c))
      BY <1>11, <2>0 DEF Put, PlaceInv, Placed, Once
    <3>4. \A i \in DOMAIN Logs[c] : Logs[c][i] # s
      BY <3>3 DEF ToSet, Logs
    <3>5. Abstract!Deliver(s, c)
      BY <2>1, <3>2, <3>3, <3>4 DEF Abstract!Deliver, Logs
    <3> QED BY <3>5 DEF Abstract!Next
  <2>3. CASE ~(Len(queue[c]) < Capacity)
    <3>1. \A b \in Boxes : Log(b)' = Log(b)
      BY <1>11, <2>0, <2>3, LogFull
    <3> QED BY <1>1, <2>1, <3>1
  <2> QED BY <2>2, <2>3
<1>12. ASSUME NEW a \in Agents, Register(a) \/ Unregister(a) PROVE Same
  BY <1>3, <1>12 DEF Register, Unregister, contents, counters, history
<1>13. CASE Close
  BY <1>3, <1>13 DEF Close, contents, counters, history
<1>14. ASSUME NEW c \in Boxes, CloseMailbox(c) PROVE Same
  BY <1>3, <1>14 DEF CloseMailbox, contents, counters, history
<1>15. ASSUME NEW s \in Sends, Route(s) PROVE Same
  BY <1>3, <1>15 DEF Route, contents, counters
<1>16. ASSUME NEW s \in Sends, NEW c \in Boxes, Look(s, c) PROVE Same
  BY <1>3, <1>16 DEF Look, contents, counters, history
<1>17. CASE UNCHANGED vars
  BY <1>3, <1>17 DEF vars, contents, counters, history
<1> HIDE DEF Same
<1> QED BY <1>4, <1>5, <1>8, <1>9, <1>10, <1>11, <1>12, <1>13, <1>14, <1>15, <1>16, <1>17
    DEF Next, Step

\* Whatever the mailboxes, the readers and the other sends do, a message is in the
\* journal before it is in a mailbox, is in each mailbox once and stays where it is.
THEOREM Promised == Spec => KeepsPromise
<1>1. Init => Abstract!Init
  <2> SUFFICES ASSUME Init PROVE Abstract!Init
    OBVIOUS
  <2>1. ToSet(journal) = {} /\ returned = {}
    BY DEF Init, ToSet
  <2>2. \A b \in Boxes : Log(b) = <<>>
    BY DEF Init, Log
  <2> QED BY <2>1, <2>2 DEF Abstract!Init
<1> QED BY <1>1, TypeCorrect, PlacesKept, PromiseStep, PTL
    DEF Spec, KeepsPromise, Abstract!Spec

-----------------------------------------------------------------------------
(* EveryMailboxAnswers *)

\* A mailbox the route found is still to be visited, has dropped the message or has
\* it in its log, one of the three; a mailbox it did not find is none of them.
Took(s, b) == s \in ToSet(Log(b))
Pending(s, b) ==
  \/ pc[s] \in {"routing", "put"} /\ b \in left[s]
  \/ pc[s] = "put" /\ b = target[s]
Fate(s, b) ==
  /\ b \in addressed[s] <=> Pending(s, b) \/ s \in dropped[b] \/ Took(s, b)
  /\ s \in dropped[b] => ~Pending(s, b) /\ ~Took(s, b)
  /\ pc[s] \in {"idle", "journalled"} => b \notin addressed[s]
FateInv == \A s \in Sends, b \in Boxes : Fate(s, b)

\* A log holds a message once.
Apart(q) == \A i, j \in DOMAIN q : q[i] = q[j] => i = j
SingleInv == \A b \in Boxes : Apart(Log(b))

\* What was counted are the sends that returned with every destination content.
Taken == {s \in returned : accepted[s]}
CountInv ==
  /\ \A s \in Sends : /\ pc[s] = "idle" => ~accepted[s]
                      /\ pc[s] = "count" => accepted[s]
  /\ IsFiniteSet(Taken) /\ delivered = Cardinality(Taken)

\* A send that does not move keeps its fate while the mailbox treats it as before.
LEMMA FateFrame ==
  ASSUME NEW r \in Sends, NEW b \in Boxes, Fate(r, b),
         pc'[r] = pc[r], left'[r] = left[r], target'[r] = target[r],
         addressed'[r] = addressed[r],
         r \in dropped'[b] <=> r \in dropped[b],
         r \in ToSet(Log(b))' <=> r \in ToSet(Log(b))
  PROVE  Fate(r, b)'
  BY DEF Fate, Pending, Took

\* Every step keeps track of what each mailbox does with each message.
LEMMA FateStep == TypeOK /\ OpenInv /\ PlaceInv /\ FateInv /\ [Next]_vars => FateInv'
<1> SUFFICES ASSUME TypeOK, OpenInv, PlaceInv, FateInv, [Next]_vars,
                    NEW r \in Sends, NEW b \in Boxes
             PROVE  Fate(r, b)'
  BY DEF FateInv
<1>0. Fate(r, b) /\ Placed(r) /\ Once(r, b)
  BY DEF FateInv, PlaceInv
<1>a. ASSUME UNCHANGED <<queue, received>> PROVE Log(b)' = Log(b)
  BY <1>a DEF Log
<1>1. ASSUME UNCHANGED <<contents, send, history>> PROVE Fate(r, b)'
  BY <1>0, <1>1, <1>a, FateFrame DEF contents, send, history
<1>2. ASSUME NEW a \in Agents, Register(a) \/ Unregister(a) PROVE Fate(r, b)'
  BY <1>1, <1>2 DEF Register, Unregister
<1>3. CASE Close
  BY <1>1, <1>3 DEF Close
<1>4. ASSUME NEW c \in Boxes, CloseMailbox(c) PROVE Fate(r, b)'
  BY <1>1, <1>4 DEF CloseMailbox
<1>5. ASSUME NEW c \in Boxes, Receive(c) PROVE Fate(r, b)'
  <2>1. Log(b)' = Log(b)
    BY <1>5, LogReceive
  <2> QED BY <1>0, <1>5, <2>1, FateFrame DEF Receive, send, history
<1>6. ASSUME NEW s \in Sends, NEW a \in Agents \cup {Broadcast}, Send(s, a)
      PROVE  Fate(r, b)'
  <2>1. Log(b)' = Log(b) /\ UNCHANGED <<dropped, left, target, addressed>>
    BY <1>6, <1>a DEF Send, contents
  <2>2. CASE r # s
    BY <1>0, <1>6, <2>1, <2>2, FateFrame DEF Send, Goto, TypeOK
  <2>3. CASE r = s
    BY <1>0, <1>6, <2>1, <2>3 DEF Send, Goto, TypeOK, Fate, Pending, Took
  <2> QED BY <2>2, <2>3
<1>7. ASSUME NEW s \in Sends, Refuse(s) PROVE Fate(r, b)'
  <2>1. Log(b)' = Log(b) /\ UNCHANGED <<dropped, left, target, addressed>>
    BY <1>7, <1>a DEF Refuse, contents
  <2>2. CASE r # s
    BY <1>0, <1>7, <2>1, <2>2, FateFrame DEF Refuse, Return, Goto, TypeOK
  <2>3. CASE r = s
    BY <1>0, <1>7, <2>1, <2>3 DEF Refuse, Return, Goto, TypeOK, Fate, Pending, Took
  <2> QED BY <2>2, <2>3
<1>8. ASSUME NEW s \in Sends, Route(s) PROVE Fate(r, b)'
  <2>1. Log(b)' = Log(b) /\ UNCHANGED <<dropped, target>>
    BY <1>8, <1>a DEF Route, contents
  <2>2. CASE r # s
    BY <1>0, <1>8, <2>1, <2>2, FateFrame DEF Route, Goto, TypeOK
  <2>3. CASE r = s
    <3>1. /\ pc[r] = "journalled" /\ pc'[r] = "routing"
          /\ left'[r] = AddressedTo(to[r]) /\ addressed'[r] = AddressedTo(to[r])
      BY <1>8, <2>3 DEF Route, Goto, TypeOK
    <3>2. r \notin dropped[b] /\ ~Took(r, b)
      BY <1>0, <3>1 DEF Fate
    <3> QED BY <2>1, <3>1, <3>2 DEF Fate, Pending, Took
  <2> QED BY <2>2, <2>3
<1>9. ASSUME NEW s \in Sends, NEW c \in Boxes, Look(s, c) PROVE Fate(r, b)'
  <2>1. Log(b)' = Log(b) /\ UNCHANGED <<dropped, addressed>>
    BY <1>9, <1>a DEF Look, contents, history
  <2>2. CASE r # s
    BY <1>0, <1>9, <2>1, <2>2, FateFrame DEF Look, Goto, TypeOK
  <2>3. CASE r = s
    <3>1. c \in left[r] /\ pc[r] = "routing" /\ left'[r] = left[r] \ {c}
      BY <1>9, <2>3 DEF Look, TypeOK
    <3>2. c \notin shut
      BY <2>3, <3>1 DEF OpenInv, MapInv, Visits, Routing
    <3>3. pc'[r] = "put" /\ target'[r] = c
      BY <1>9, <2>3, <3>2 DEF Look, Goto, TypeOK
    <3>4. Pending(r, b)' <=> Pending(r, b)
      BY <3>1, <3>3 DEF Pending
    <3> QED BY <1>0, <2>1, <3>1, <3>3, <3>4 DEF Fate, Took
  <2> QED BY <2>2, <2>3
<1>10. ASSUME NEW s \in Sends, Put(s) PROVE Fate(r, b)'
  <2>0. PICK c \in Boxes : target[s] = c
    BY <1>10 DEF Put, TypeOK
  <2>1. /\ UNCHANGED <<left, addressed>> /\ pc' = [pc EXCEPT ![s] = "routing"]
        /\ target' = [target EXCEPT ![s] = None] /\ pc[s] = "put"
    BY <1>10 DEF Put, Goto, history
  <2>2. r # s \/ b # c => (Pending(r, b)' <=> Pending(r, b))
    BY <2>0, <2>1 DEF Pending, TypeOK
  <2>3. r = s /\ b = c => ~Pending(r, b)' /\ Pending(r, b)
    BY <1>0, <2>0, <2>1 DEF Pending, Placed, TypeOK
  <2>4. pc[r] \in {"idle", "journalled"} <=> pc'[r] \in {"idle", "journalled"}
    BY <2>1 DEF TypeOK
  <2>5. CASE Len(queue[c]) < Capacity
    <3>1. UNCHANGED dropped
      BY <1>10, <2>0, <2>5 DEF Put
    <3>2. Log(c)' = Append(Log(c), s) /\ \A d \in Boxes \ {c} : Log(d)' = Log(d)
      BY <1>10, <2>0, <2>5, LogPut
    <3>3. ToSet(Append(Log(c), s)) = ToSet(Log(c)) \cup {s}
      BY LogType, AppendSet
    <3>4. r # s \/ b # c => (Took(r, b)' <=> Took(r, b))
      BY <3>2, <3>3 DEF Took
    <3>5. r = s /\ b = c => Took(r, b)'
      BY <3>2, <3>3 DEF Took
    <3> QED BY <1>0, <2>1, <2>2, <2>3, <2>4, <3>1, <3>4, <3>5 DEF Fate
  <2>6. CASE ~(Len(queue[c]) < Capacity)
    <3>1. dropped' = [dropped EXCEPT ![c] = @ \cup {s}]
      BY <1>10, <2>0, <2>6 DEF Put
    <3>2. Took(r, b)' <=> Took(r, b)
      BY <1>10, <2>0, <2>6, LogFull DEF Took
    <3>3. r # s \/ b # c => (r \in dropped'[b] <=> r \in dropped[b])
      BY <3>1 DEF TypeOK
    <3>4. r = s /\ b = c => r \in dropped'[b] /\ ~Took(r, b)
      BY <1>0, <2>0, <2>1, <3>1 DEF TypeOK, Once, Took
    <3> QED BY <1>0, <2>1, <2>2, <2>3, <2>4, <3>2, <3>3, <3>4 DEF Fate
  <2> QED BY <2>5, <2>6
<1>11. ASSUME NEW s \in Sends, RouteEnds(s) PROVE Fate(r, b)'
  <2>1. Log(b)' = Log(b) /\ UNCHANGED <<dropped, addressed, target>>
    BY <1>11, <1>a DEF RouteEnds, contents
  <2>2. CASE r # s
    BY <1>0, <1>11, <2>1, <2>2, FateFrame DEF RouteEnds, Return, Goto, TypeOK
  <2>3. CASE r = s
    BY <1>0, <1>11, <2>1, <2>3
    DEF RouteEnds, Routed, Return, Goto, TypeOK, Fate, Pending, Took
  <2> QED BY <2>2, <2>3
<1>12. ASSUME NEW s \in Sends, Count(s) PROVE Fate(r, b)'
  <2>1. Log(b)' = Log(b) /\ UNCHANGED <<dropped, addressed, target, left>>
    BY <1>12, <1>a DEF Count, contents
  <2>2. CASE r # s
    BY <1>0, <1>12, <2>1, <2>2, FateFrame DEF Count, Return, Goto, TypeOK
  <2>3. CASE r = s
    BY <1>0, <1>12, <2>1, <2>3 DEF Count, Return, Goto, TypeOK, Fate, Pending, Took
  <2> QED BY <2>2, <2>3
<1>13. CASE UNCHANGED vars
  BY <1>1, <1>13 DEF vars
<1> QED BY <1>2, <1>3, <1>4, <1>5, <1>6, <1>7, <1>8, <1>9, <1>10, <1>11, <1>12, <1>13
    DEF Next, Step

\* Appending an element that is not there yet keeps the elements apart.
LEMMA AppendApart ==
  ASSUME NEW S, NEW q \in Seq(S), NEW e \in S, e \notin ToSet(q), Apart(q)
  PROVE  Apart(Append(q, e))
<1>1. DOMAIN Append(q, e) = DOMAIN q \cup {Len(q) + 1}
  OBVIOUS
<1>2. \A i \in DOMAIN q : Append(q, e)[i] = q[i] /\ q[i] # e
  BY DEF ToSet
<1>3. Append(q, e)[Len(q) + 1] = e
  OBVIOUS
<1> QED BY <1>1, <1>2, <1>3 DEF Apart

\* Only Put changes a log, and it appends what the log does not hold.
LEMMA SingleStep == TypeOK /\ PlaceInv /\ SingleInv /\ [Next]_vars => SingleInv'
<1> SUFFICES ASSUME TypeOK, PlaceInv, SingleInv, [Next]_vars, NEW b \in Boxes
             PROVE  Apart(Log(b))'
  BY DEF SingleInv
<1>1. ASSUME Log(b)' = Log(b) PROVE Apart(Log(b))'
  BY <1>1 DEF SingleInv
<1>2. ASSUME UNCHANGED <<queue, received>> PROVE Apart(Log(b))'
  BY <1>1, <1>2 DEF Log
<1>3. ASSUME NEW c \in Boxes, Receive(c) PROVE Apart(Log(b))'
  BY <1>1, <1>3, LogReceive
<1>4. ASSUME NEW s \in Sends, Put(s) PROVE Apart(Log(b))'
  <2>0. PICK c \in Boxes : target[s] = c
    BY <1>4 DEF Put, TypeOK
  <2>1. CASE Len(queue[c]) < Capacity
    <3>1. Log(c)' = Append(Log(c), s) /\ \A d \in Boxes \ {c} : Log(d)' = Log(d)
      BY <1>4, <2>0, <2>1, LogPut
    <3>2. s \notin ToSet(Log(c)) /\ Apart(Log(c))
      BY <1>4, <2>0 DEF PlaceInv, Once, Put, SingleInv
    <3>3. Apart(Append(Log(c), s))
      BY <3>2, LogType, AppendApart
    <3>4. CASE b = c
      BY <3>1, <3>3, <3>4
    <3>5. CASE b # c
      BY <1>1, <3>1, <3>5
    <3> QED BY <3>4, <3>5
  <2>2. CASE ~(Len(queue[c]) < Capacity)
    BY <1>1, <1>4, <2>0, <2>2, LogFull
  <2> QED BY <2>1, <2>2
<1>5. CASE UNCHANGED vars
  BY <1>2, <1>5 DEF vars, contents
<1>6. ASSUME NEW a \in Agents, Register(a) \/ Unregister(a) PROVE Apart(Log(b))'
  BY <1>2, <1>6 DEF Register, Unregister, contents
<1>7. CASE Close
  BY <1>2, <1>7 DEF Close, contents
<1>8. ASSUME NEW c \in Boxes, CloseMailbox(c) PROVE Apart(Log(b))'
  BY <1>2, <1>8 DEF CloseMailbox, contents
<1>9. ASSUME NEW s \in Sends, NEW a \in Agents \cup {Broadcast}, Send(s, a)
      PROVE  Apart(Log(b))'
  BY <1>2, <1>9 DEF Send, contents
<1>10. ASSUME NEW s \in Sends, Refuse(s) \/ Route(s) \/ RouteEnds(s) \/ Count(s)
       PROVE  Apart(Log(b))'
  BY <1>2, <1>10 DEF Refuse, Route, RouteEnds, Count, contents
<1>11. ASSUME NEW s \in Sends, NEW c \in Boxes, Look(s, c) PROVE Apart(Log(b))'
  BY <1>2, <1>11 DEF Look, contents
<1> QED BY <1>3, <1>4, <1>5, <1>6, <1>7, <1>8, <1>9, <1>10, <1>11 DEF Next, Step

\* A send is counted in the step in which it returns, if every destination took it.
LEMMA CountStep == TypeOK /\ PlaceInv /\ CountInv /\ [Next]_vars => CountInv'
<1> SUFFICES ASSUME TypeOK, PlaceInv, CountInv, [Next]_vars PROVE CountInv'
  OBVIOUS
<1>0. 1 \in Boxes
  BY Parameters DEF Parameters, Boxes
<1>1. \A r \in Sends : pc[r] = "over" <=> r \in returned
  BY <1>0 DEF PlaceInv, Placed
<1>2. ASSUME Taken' = Taken, UNCHANGED delivered,
             \A r \in Sends : /\ pc'[r] = "idle" => ~accepted'[r]
                              /\ pc'[r] = "count" => accepted'[r]
      PROVE  CountInv'
  BY <1>2 DEF CountInv
<1>3. ASSUME UNCHANGED <<pc, accepted, returned, delivered>> PROVE CountInv'
  BY <1>2, <1>3 DEF CountInv, Taken
\* A send that is under way may change its mind without being counted.
<1>4. ASSUME NEW s \in Sends, NEW l \in {"journalled", "routing", "put"}, pc[s] # "over",
             pc' = [pc EXCEPT ![s] = l], UNCHANGED <<returned, delivered>>,
             \A r \in Sends \ {s} : accepted'[r] = accepted[r]
      PROVE  CountInv'
  <2>1. Taken' = Taken
    BY <1>1, <1>4 DEF Taken, TypeOK
  <2>2. \A r \in Sends : /\ pc'[r] = "idle" => ~accepted'[r]
                         /\ pc'[r] = "count" => accepted'[r]
    BY <1>4 DEF CountInv, TypeOK
  <2> QED BY <1>2, <1>4, <2>1, <2>2
<1>5. ASSUME NEW a \in Agents, Register(a) \/ Unregister(a) PROVE CountInv'
  BY <1>3, <1>5 DEF Register, Unregister, counters, send, history
<1>6. CASE Close
  BY <1>3, <1>6 DEF Close, counters, send, history
<1>7. ASSUME NEW b \in Boxes, CloseMailbox(b) \/ Receive(b) PROVE CountInv'
  BY <1>3, <1>7 DEF CloseMailbox, Receive, counters, send, history
<1>8. ASSUME NEW s \in Sends, NEW a \in Agents \cup {Broadcast}, Send(s, a) PROVE CountInv'
  BY <1>4, <1>8 DEF Send, Goto
<1>9. ASSUME NEW s \in Sends, Refuse(s) PROVE CountInv'
  <2>1. /\ ~accepted[s] /\ returned' = returned \cup {s} /\ pc' = [pc EXCEPT ![s] = "over"]
        /\ UNCHANGED <<accepted, delivered>>
    BY <1>9 DEF Refuse, Return, Goto, counters, CountInv
  <2>2. Taken' = Taken
    BY <2>1 DEF Taken
  <2> QED BY <1>2, <2>1, <2>2 DEF CountInv, TypeOK
<1>10. ASSUME NEW s \in Sends, Route(s) PROVE CountInv'
  BY <1>4, <1>10 DEF Route, Goto, counters, TypeOK
<1>11. ASSUME NEW s \in Sends, NEW b \in Boxes, Look(s, b) PROVE CountInv'
  <2>1. pc[s] = "routing" /\ UNCHANGED <<returned, delivered>>
    BY <1>11 DEF Look, counters, history
  <2>2. CASE b \in shut
    <3>1. pc' = [pc EXCEPT ![s] = "routing"]
      BY <1>11, <2>1, <2>2 DEF Look, TypeOK
    <3>2. \A r \in Sends \ {s} : accepted'[r] = accepted[r]
      BY <1>11, <2>2 DEF Look, TypeOK
    <3> QED BY <1>4, <2>1, <3>1, <3>2
  <2>3. CASE b \notin shut
    BY <1>4, <1>11, <2>1, <2>3 DEF Look, Goto
  <2> QED BY <2>2, <2>3
<1>12. ASSUME NEW s \in Sends, Put(s) PROVE CountInv'
  <2>1. /\ pc[s] = "put" /\ pc' = [pc EXCEPT ![s] = "routing"]
        /\ UNCHANGED <<returned, delivered>>
    BY <1>12 DEF Put, Goto, counters, history
  <2>2. \A r \in Sends \ {s} : accepted'[r] = accepted[r]
    <3>1. accepted' = accepted \/ accepted' = [accepted EXCEPT ![s] = FALSE]
      BY <1>12 DEF Put
    <3> QED BY <3>1 DEF TypeOK
  <2> QED BY <1>4, <2>1, <2>2
<1>13. ASSUME NEW s \in Sends, RouteEnds(s) PROVE CountInv'
  <2>1. UNCHANGED <<accepted, delivered>>
    BY <1>13 DEF RouteEnds, counters
  <2>2. CASE accepted[s]
    <3>1. pc' = [pc EXCEPT ![s] = "count"] /\ UNCHANGED returned
      BY <1>13, <2>2 DEF RouteEnds, Goto
    <3>2. Taken' = Taken
      BY <2>1, <3>1 DEF Taken
    <3> QED BY <1>2, <2>1, <2>2, <3>1, <3>2 DEF CountInv, TypeOK
  <2>3. CASE ~accepted[s]
    <3>1. pc' = [pc EXCEPT ![s] = "over"] /\ returned' = returned \cup {s}
      BY <1>13, <2>3 DEF RouteEnds, Return, Goto
    <3>2. Taken' = Taken
      BY <2>1, <2>3, <3>1 DEF Taken
    <3> QED BY <1>2, <2>1, <2>3, <3>1, <3>2 DEF CountInv, TypeOK
  <2> QED BY <2>2, <2>3
<1>14. ASSUME NEW s \in Sends, Count(s) PROVE CountInv'
  <2>1. /\ pc[s] = "count" /\ accepted[s] /\ pc' = [pc EXCEPT ![s] = "over"]
        /\ returned' = returned \cup {s} /\ delivered' = delivered + 1 /\ UNCHANGED accepted
    BY <1>14 DEF Count, Return, Goto, CountInv
  <2>2. Taken' = Taken \cup {s} /\ s \notin Taken
    BY <1>1, <2>1 DEF Taken
  <2>3. IsFiniteSet(Taken) /\ delivered = Cardinality(Taken)
    BY DEF CountInv
  <2>4. IsFiniteSet(Taken') /\ delivered' = Cardinality(Taken')
    BY <2>1, <2>2, <2>3, FS_AddElement
  <2> QED BY <2>1, <2>4 DEF CountInv, TypeOK
<1>15. CASE UNCHANGED vars
  BY <1>3, <1>15 DEF vars, counters, send, history
<1> QED BY <1>5, <1>6, <1>7, <1>8, <1>9, <1>10, <1>11, <1>12, <1>13, <1>14, <1>15
    DEF Next, Step

\* In a sequence whose elements are apart an element stands at one place at most.
LEMMA OnePlace ==
  ASSUME NEW S, NEW q \in Seq(S), Apart(q), NEW e
  PROVE  Cardinality({i \in DOMAIN q : q[i] = e}) <= 1
<1> DEFINE P == {i \in DOMAIN q : q[i] = e}
<1>1. ASSUME NEW n \in P PROVE P = {n}
  BY DEF Apart
<1> HIDE DEF P
<1>2. ASSUME P = {} PROVE Cardinality(P) <= 1
  BY <1>2, FS_EmptySet
<1>3. ASSUME P # {} PROVE Cardinality(P) <= 1
  <2>1. PICK n : n \in P
    BY <1>3
  <2>2. P = {n}
    BY <1>1, <2>1
  <2>3. Cardinality({n}) = 1
    BY FS_Singleton
  <2> QED BY <2>2, <2>3
<1>4. Cardinality(P) <= 1
  BY <1>2, <1>3
<1> QED BY <1>4 DEF P

\* Once its Send has returned, every mailbox a message's route found has taken it once
\* or counted it as dropped, no other mailbox knows of it, and the broker's count of
\* delivered messages is the number of sends every destination took: for any number of
\* sends that route at once while mailboxes are registered, closed and read.
THEOREM EveryMailboxAnswersAlways == Spec => []EveryMailboxAnswers
<1>1. Init => FateInv /\ SingleInv /\ CountInv
  <2> SUFFICES ASSUME Init PROVE FateInv /\ SingleInv /\ CountInv
    OBVIOUS
  <2>1. \A b \in Boxes : Log(b) = <<>>
    BY DEF Init, Log
  <2>2. ToSet(<<>>) = {} /\ Apart(<<>>)
    BY DEF ToSet, Apart
  <2>3. FateInv
    BY <2>1, <2>2 DEF Init, FateInv, Fate, Pending, Took
  <2>4. SingleInv
    BY <2>1, <2>2 DEF SingleInv
  <2>5. Taken = {}
    BY DEF Init, Taken
  <2> QED BY <2>3, <2>4, <2>5, FS_EmptySet DEF Init, CountInv
<1>2. TypeOK /\ PlaceInv /\ FateInv /\ SingleInv /\ CountInv => EveryMailboxAnswers
  <2> SUFFICES ASSUME TypeOK, PlaceInv, FateInv, SingleInv, CountInv
               PROVE  EveryMailboxAnswers
    OBVIOUS
  <2>1. ASSUME NEW s \in returned, NEW b \in Boxes
        PROVE  /\ (s \in dropped[b]) # (s \in ToSet(Log(b))) <=> b \in addressed[s]
               /\ Cardinality({i \in DOMAIN Log(b) : Log(b)[i] = s}) <= 1
    <3>1. s \in Sends
      BY DEF TypeOK
    <3>2. Fate(s, b) /\ ~Pending(s, b)
      BY <3>1 DEF FateInv, PlaceInv, Placed, Pending
    <3>3. (s \in dropped[b]) # (s \in ToSet(Log(b))) <=> b \in addressed[s]
      BY <3>2 DEF Fate, Took
    <3>4. Cardinality({i \in DOMAIN Log(b) : Log(b)[i] = s}) <= 1
      BY LogType, OnePlace DEF SingleInv
    <3> QED BY <3>3, <3>4
  <2>2. delivered = Cardinality({s \in returned : accepted[s]})
    BY DEF CountInv, Taken
  <2> QED BY <2>1, <2>2 DEF EveryMailboxAnswers
<1> QED BY <1>1, <1>2, TypeCorrect, OpenKept, PlacesKept, FateStep, SingleStep, CountStep,
     PTL DEF Spec
=============================================================================
