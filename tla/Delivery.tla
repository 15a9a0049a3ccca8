------------------------------ MODULE Delivery ------------------------------
(***************************************************************************)
(* What the broker promises (the comments of internal/engine/subagent:     *)
(* broker.go and message.go): a message is recorded before it arrives      *)
(* anywhere, arrives in a mailbox at most once, only while its Send is     *)
(* under way, and stays where it is behind what arrived before it.         *)
(***************************************************************************)
EXTENDS Sequences

CONSTANTS
  Messages,  \* one for each call of Send
  Boxes      \* the mailboxes there ever are

VARIABLES
  promised,  \* the messages the journal holds
  returned,  \* the messages whose Send has returned
  log        \* what each mailbox was given, in the order in which it is read

Init ==
  /\ promised = {} /\ returned = {}
  /\ log = [b \in Boxes |-> <<>>]

Promise(m) ==
  /\ m \notin promised \cup returned
  /\ promised' = promised \cup {m}
  /\ UNCHANGED <<returned, log>>

Deliver(m, b) ==
  /\ m \in promised \ returned
  /\ \A i \in DOMAIN log[b] : log[b][i] # m
  /\ log' = [log EXCEPT ![b] = Append(@, m)]
  /\ UNCHANGED <<promised, returned>>

Return(m) ==
  /\ m \notin returned
  /\ returned' = returned \cup {m}
  /\ UNCHANGED <<promised, log>>

Next == \E m \in Messages : Promise(m) \/ Return(m) \/ \E b \in Boxes : Deliver(m, b)

Spec == Init /\ [][Next]_<<promised, returned, log>>
=============================================================================
