---------------------------- MODULE MCRetention ----------------------------
(* Model checking Retention: two records, a send and a change, and two processes. *)
EXTENDS Retention, TLC

Symmetry == Permutations(Worker)
=============================================================================
