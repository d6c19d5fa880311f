------------------------------ MODULE MCDirectory ----------------------------
(* Instances of Directory for TLC. *)
EXTENDS Directory, TLC

Symmetry == Permutations(Request) \cup Permutations(Chat \ {Default})
==============================================================================
