------------------------------ MODULE MCTaskCell -----------------------------
(* Instances of TaskCell for TLC. *)
EXTENDS TaskCell, TLC

Symmetry == Permutations(Task)
==============================================================================
