------------------------------ MODULE MCTakes ------------------------------
(* Model checking Takes: two agent windows, one without session ids, one with a shell. *)
EXTENDS Takes, TLC

ServerX == [win |-> "x", process |-> 1, key |-> "kx", grouped |-> TRUE, sid |-> "no id", parent |-> TRUE]
ServerY == [win |-> "y", process |-> 2, key |-> "ky", grouped |-> TRUE, sid |-> "sy", parent |-> TRUE]
ShellY  == [win |-> "y", process |-> 3, key |-> "kz", grouped |-> FALSE, sid |-> "sy", parent |-> FALSE]

Callers == {ServerX, ServerY, ShellY}
Symmetry == Permutations(Approval) \cup Permutations(Delivery)
=============================================================================
