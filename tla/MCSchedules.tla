------------------------------ MODULE MCSchedules ----------------------------
(* Instances of Schedules for TLC. *)
EXTENDS Schedules, TLC

Symmetry == Permutations(Schedule) \cup Permutations(Event)
==============================================================================
