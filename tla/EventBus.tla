------------------------------- MODULE EventBus -------------------------------
(***************************************************************************)
(* The asynchronous event bus (internal/core/event.go): a queue of         *)
(* published events, a dispatcher that fans them out, and a worker for     *)
(* every subscription.                                                     *)
(*                                                                         *)
(* An event is the number of its publication; a dispatcher and a subscription    *)
(* are the numbers of their making.  The last unsubscribe cancels the      *)
(* dispatcher and the next subscribe starts another, so several may be     *)
(* around.  A wake channel of capacity one is its token.                   *)
(***************************************************************************)
EXTENDS Integers, Sequences, SequencesExt, FiniteSets

CONSTANTS
  EventTypes,            \* bound: the types of the events, in the order of publication
  MaxSubscriptions  \* bound: subscriptions made

VARIABLES
  subscribers,      \* b.subscribers
  incoming,         \* b.incoming
  current,          \* the dispatcher dispatchCancel and wake belong to, 0 for nil
  published,        \* how many events were accepted
  dispatchers,
  subs

busVars == <<subscribers, incoming, current, published, dispatchers, subs>>

All == "all"
Wants(s, n) == subs[s].type \in {All, EventTypes[n]}

NewDispatcher == [at |-> "look", rest |-> <<>>, event |-> 0, token |-> FALSE, cancelled |-> FALSE]
NewSubscription(type) ==
  [type |-> type, at |-> "look", queue |-> <<>>, got |-> <<>>, since |-> published,
   token |-> FALSE, cancelled |-> FALSE, leaving |-> FALSE]

\* What is left of a goroutine that returned.
Ended(g) == [g EXCEPT !.at = "over", !.token = FALSE]

\* Without a subscriber an event goes nowhere.
Publish ==
  /\ published < Len(EventTypes)
  /\ subscribers # <<>>
  /\ published' = published + 1
  /\ incoming' = Append(incoming, published')
  /\ dispatchers' = [dispatchers EXCEPT ![current].token = TRUE]
  /\ UNCHANGED <<subscribers, current, subs>>

\* Subscribe, which starts a dispatcher when there is none (ensureDispatcherLocked).
Subscribe ==
  /\ Len(subs) < MaxSubscriptions
  /\ \E t \in {All} \cup {"done"} : subs' = Append(subs, NewSubscription(t))
  /\ subscribers' = Append(subscribers, Len(subs'))
  /\ IF current # 0 THEN UNCHANGED <<dispatchers, current>>
     ELSE dispatchers' = Append(dispatchers, NewDispatcher) /\ current' = Len(dispatchers')
  /\ UNCHANGED <<incoming, published>>

\* mutant: a dispatcher that is between two events does not look whether it is cancelled.
LookOnly(d) ==
  /\ dispatchers[d].at = "look"
  /\ IF incoming # <<>>
     THEN /\ dispatchers' = [dispatchers EXCEPT ![d].at = "fan", ![d].event = Head(incoming),
                ![d].rest = subscribers]
          /\ incoming' = Tail(incoming)
     ELSE dispatchers' = [dispatchers EXCEPT ![d].at = "wait"] /\ UNCHANGED incoming
  /\ UNCHANGED <<subscribers, current, published, subs>>

\* runDispatcher: under the lock it ends, or takes an event and a copy of the list, or
\* goes to wait.
Look(d) ==
  /\ dispatchers[d].at = "look"
  /\ IF dispatchers[d].cancelled
     THEN dispatchers' = [dispatchers EXCEPT ![d] = Ended(@)] /\ UNCHANGED incoming
     ELSE IF incoming # <<>>
     THEN /\ dispatchers' = [dispatchers EXCEPT ![d].at = "fan", ![d].event = Head(incoming),
                ![d].rest = subscribers]
          /\ incoming' = Tail(incoming)
     ELSE dispatchers' = [dispatchers EXCEPT ![d].at = "wait"] /\ UNCHANGED incoming
  /\ UNCHANGED <<subscribers, current, published, subs>>

\* mutant: whether the queue was empty is looked at when the event is in it.
FanLate(d) ==
  /\ dispatchers[d].at = "fan"
  /\ LET rest == dispatchers[d].rest
     IN IF rest = <<>>
        THEN dispatchers' = [dispatchers EXCEPT ![d].at = "look"] /\ UNCHANGED subs
        ELSE /\ dispatchers' = [dispatchers EXCEPT ![d].rest = Tail(rest)]
             /\ IF subs[Head(rest)].cancelled \/ ~Wants(Head(rest), dispatchers[d].event)
                THEN UNCHANGED subs
                ELSE subs' = [subs EXCEPT ![Head(rest)].queue = Append(@, dispatchers[d].event),
                                          ![Head(rest)].token = @]
  /\ UNCHANGED <<subscribers, incoming, current, published>>

\* One subscription of the copy after the other, without the bus's lock: the ones of
\* other types are skipped, enqueue wakes the worker when its queue was empty.
Fan(d) ==
  /\ dispatchers[d].at = "fan"
  /\ LET rest == dispatchers[d].rest
     IN IF rest = <<>>
        THEN dispatchers' = [dispatchers EXCEPT ![d].at = "look"] /\ UNCHANGED subs
        ELSE /\ dispatchers' = [dispatchers EXCEPT ![d].rest = Tail(rest)]
             /\ IF subs[Head(rest)].cancelled \/ ~Wants(Head(rest), dispatchers[d].event)
                THEN UNCHANGED subs
                ELSE subs' = [subs EXCEPT ![Head(rest)].queue = Append(@, dispatchers[d].event),
                                          ![Head(rest)].token = @ \/ subs[Head(rest)].queue = <<>>]
  /\ UNCHANGED <<subscribers, incoming, current, published>>

WakeDispatcher(d) ==
  /\ dispatchers[d].at = "wait"
  /\ \/ /\ dispatchers[d].cancelled
        /\ dispatchers' = [dispatchers EXCEPT ![d] = Ended(@)]
     \/ /\ dispatchers[d].token
        /\ dispatchers' = [dispatchers EXCEPT ![d].at = "look", ![d].token = FALSE]
  /\ UNCHANGED <<subscribers, incoming, current, published, subs>>

\* next and deliver, of a worker: it ends, or takes the oldest event to its handler,
\* which returns or panics and is slow by the worker's not going on, or waits.
Serve(s) ==
  /\ subs[s].at = "look"
  /\ subs' = IF subs[s].cancelled THEN [subs EXCEPT ![s] = [Ended(@) EXCEPT !.queue = <<>>, !.got = <<>>]]
             ELSE IF subs[s].queue # <<>>
             THEN [subs EXCEPT ![s].queue = Tail(@), ![s].got = Append(@, Head(subs[s].queue))]
             ELSE [subs EXCEPT ![s].at = "wait"]
  /\ UNCHANGED <<subscribers, incoming, current, published, dispatchers>>

WakeWorker(s) ==
  /\ subs[s].at = "wait"
  /\ \/ subs[s].cancelled /\ subs' = [subs EXCEPT ![s] = [Ended(@) EXCEPT !.queue = <<>>, !.got = <<>>]]
     \/ subs[s].token /\ subs' = [subs EXCEPT ![s].at = "look", ![s].token = FALSE]
  /\ UNCHANGED <<subscribers, incoming, current, published, dispatchers>>

\* unsubscribe: out of the list under the bus's lock, where the last one takes the
\* dispatcher and the queue along, and cancelled after it.
Unsubscribe(s) ==
  /\ \E i \in DOMAIN subscribers :
       subscribers[i] = s /\ subscribers' = RemoveAt(subscribers, i)
  /\ subs' = [subs EXCEPT ![s].leaving = TRUE]
  /\ IF subscribers' # <<>> THEN UNCHANGED <<current, dispatchers, incoming>>
     ELSE /\ dispatchers' = [dispatchers EXCEPT ![current].cancelled = TRUE]
          /\ current' = 0 /\ incoming' = <<>>
  /\ UNCHANGED published

CancelSubscription(s) ==
  /\ subs[s].leaving /\ ~subs[s].cancelled
  /\ subs' = [subs EXCEPT ![s].cancelled = TRUE]
  /\ UNCHANGED <<subscribers, incoming, current, published, dispatchers>>

-----------------------------------------------------------------------------
BusInit ==
  /\ subscribers = <<>> /\ incoming = <<>> /\ current = 0
  /\ published = 0 /\ dispatchers = <<>> /\ subs = <<>>

BusNext ==
  \/ Publish \/ Subscribe
  \/ \E d \in DOMAIN dispatchers : Look(d) \/ Fan(d) \/ WakeDispatcher(d)
  \/ \E s \in DOMAIN subs :
       \/ Serve(s) \/ WakeWorker(s) \/ Unsubscribe(s) \/ CancelSubscription(s)

BusSpec == BusInit /\ [][BusNext]_busVars

-----------------------------------------------------------------------------
(* Properties *)

\* The state is what the declarations allow; at most one dispatcher is not cancelled.
BusTypeOK ==
  /\ ToSet(subscribers) \subseteq DOMAIN subs /\ current \in 0 .. Len(dispatchers)
  /\ \A d \in DOMAIN dispatchers : dispatchers[d].cancelled \/ d = current
  /\ \A s \in DOMAIN subs : subs[s].cancelled => subs[s].leaving

Held(s) == subs[s].got \o subs[s].queue
OnItsWay(s, n) ==
  \/ Contains(incoming, n)
  \/ \E d \in DOMAIN dispatchers : dispatchers[d].event = n /\ Contains(dispatchers[d].rest, s)

\* A subscriber's events come in the order of their publication and none twice, and
\* none published while it is subscribed is lost, whoever leaves and joins meanwhile
\* and whichever dispatcher carries them.
EventsInOrder ==
  \A s \in DOMAIN subs :
    /\ \A i, j \in DOMAIN Held(s) : i < j => Held(s)[i] < Held(s)[j]
    /\ Contains(subscribers, s) =>
         \A n \in subs[s].since + 1 .. published :
           Wants(s, n) => Contains(Held(s), n) \/ OnItsWay(s, n)

\* Nobody sleeps through work: a dispatcher that waits without a token has nothing to
\* dispatch, there is one whenever there is something, and a worker that waits without
\* a token has an empty queue.
NoLostWakeup ==
  /\ incoming # <<>> => current # 0 /\ (dispatchers[current].at = "wait" => dispatchers[current].token)
  /\ \A s \in DOMAIN subs : subs[s].at = "wait" /\ subs[s].queue # <<>> => subs[s].token

\* Every subscriber gets its events in order and whole and no goroutine of the bus
\* sleeps through one (core/event.go).
InOrderAndWhole == EventsInOrder /\ NoLostWakeup
=============================================================================
