-------------------------- MODULE OrderedDelivery --------------------------
(***************************************************************************)
(* What the webhook pipeline promises for one (rule, account, target):      *)
(* deliveries are sent in the order they were prepared, each at least once   *)
(* until it ends, only the oldest one that has not ended may be sent, and     *)
(* one counts as delivered only when the peer took its newest request.        *)
(***************************************************************************)
EXTENDS Integers

CONSTANT Delivery

VARIABLES
  place,    \* the place of a delivery in the order, 0 before it is prepared
  ended,    \* deliveries that ended, delivered or not
  done,     \* the delivered ones among them
  newest,   \* the number of the newest request of a delivery that left
  taken     \* the requests the peer answered with success

vars == <<place, ended, done, newest, taken>>

Init ==
  /\ place = [d \in Delivery |-> 0]
  /\ ended = {}
  /\ done = {}
  /\ newest = [d \in Delivery |-> 0]
  /\ taken = [d \in Delivery |-> {}]

Waiting == {d \in Delivery : place[d] # 0 /\ d \notin ended}

\* A delivery joins at the end of the order.
Join(d) ==
  /\ place[d] = 0
  /\ \A e \in Delivery : place[e] < place'[d]
  /\ place' = [place EXCEPT ![d] = place'[d]]
  /\ UNCHANGED <<ended, done, newest, taken>>

\* A request leaves, for the head of the order only, under a number of its own.
Request(d) ==
  /\ d \in Waiting
  /\ \A e \in Waiting : place[d] <= place[e]
  /\ newest'[d] > newest[d]
  /\ newest' = [newest EXCEPT ![d] = newest'[d]]
  /\ UNCHANGED <<place, ended, done, taken>>

\* The peer takes a request, however late.
Take(d) ==
  /\ \E n \in 1..newest[d] : taken' = [taken EXCEPT ![d] = @ \cup {n}]
  /\ UNCHANGED <<place, ended, done, newest>>

\* The newest request was taken: the delivery is done.
Complete(d) ==
  /\ d \in Waiting
  /\ newest[d] \in taken[d]
  /\ ended' = ended \cup {d}
  /\ done' = done \cup {d}
  /\ UNCHANGED <<place, newest, taken>>

\* Deliveries end without being delivered: expired, given up or withdrawn.
GiveUp ==
  /\ \E S \in SUBSET Waiting : S # {} /\ ended' = ended \cup S
  /\ UNCHANGED <<place, done, newest, taken>>

Next == GiveUp \/ \E d \in Delivery : Join(d) \/ Request(d) \/ Take(d) \/ Complete(d)

Spec == Init /\ [][Next]_vars
=============================================================================
