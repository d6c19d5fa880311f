----------------------------- MODULE MCSupervisor ----------------------------
(* Instances of Supervisor for TLC. *)
EXTENDS Supervisor, TLC

Symmetry == Permutations(Attempt)
==============================================================================
