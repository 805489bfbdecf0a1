-------------------------- MODULE MCDeliveryClaim --------------------------
(* Model checking DeliveryClaim: the calls of the dispatcher are alike. *)
EXTENDS DeliveryClaim, TLC

Symmetry == Permutations(Worker)
=============================================================================
