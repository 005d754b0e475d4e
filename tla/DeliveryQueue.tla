----------------------------- MODULE DeliveryQueue -----------------------------
(***************************************************************************)
(* What a list used as a queue promises its users: elements leave in the   *)
(* order they entered, and each one reaches at most one consumer, once.    *)
(* An element that has left may never arrive.                              *)
(***************************************************************************)
EXTENDS Sequences

CONSTANTS Consumer, Value

VARIABLES
  waiting,     \* the queue, oldest element first
  transit,     \* elements that have left the queue and reached nobody yet
  delivered    \* what each consumer has been given, in order

vars == <<waiting, transit, delivered>>

Init ==
  /\ waiting = <<>> /\ transit = {}
  /\ delivered = [c \in Consumer |-> <<>>]

\* v enters the queue for the first time.
Accept(v) ==
  /\ v \notin transit
  /\ \A i \in DOMAIN waiting : waiting[i] # v
  /\ \A c \in Consumer : \A i \in DOMAIN delivered[c] : delivered[c][i] # v
  /\ waiting' = Append(waiting, v)
  /\ UNCHANGED <<transit, delivered>>

Withdraw ==
  /\ waiting # <<>>
  /\ transit' = transit \cup {Head(waiting)}
  /\ waiting' = Tail(waiting)
  /\ UNCHANGED delivered

Deliver(c, v) ==
  /\ v \in transit
  /\ transit' = transit \ {v}
  /\ delivered' = [delivered EXCEPT ![c] = Append(@, v)]
  /\ UNCHANGED waiting

Next ==
  \/ \E v \in Value : Accept(v)
  \/ Withdraw
  \/ \E c \in Consumer, v \in Value : Deliver(c, v)

Spec == Init /\ [][Next]_vars
=============================================================================
