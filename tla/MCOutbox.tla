------------------------------- MODULE MCOutbox ------------------------------
(* Instances of Outbox for TLC. *)
EXTENDS Outbox, TLC

Symmetry == Permutations(Flusher) \cup Permutations(Body)
==============================================================================
