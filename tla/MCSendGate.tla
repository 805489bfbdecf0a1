----------------------------- MODULE MCSendGate -----------------------------
(* SendGate on small instances. *)
EXTENDS SendGate, TLC

\* Workers are alike and so are approvals.
Symmetry == Permutations(Worker) \cup Permutations(Approval)
=============================================================================
