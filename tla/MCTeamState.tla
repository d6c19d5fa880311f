------------------------------ MODULE MCTeamState ----------------------------
(* Instances of TeamState for TLC. *)
EXTENDS TeamState, TLC

Symmetry == Permutations(Handler)
==============================================================================
