----------------------------- MODULE MCFileLock -----------------------------
(* FileLock on small instances. *)
EXTENDS FileLock, TLC

\* Slots are alike.
Symmetry == Permutations(Process)
=============================================================================
