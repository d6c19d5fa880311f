---------------------------- MODULE MCMachinePool ----------------------------
(* Instances of MachinePool for TLC. *)
EXTENDS MachinePool, TLC

Symmetry == Permutations(Machine)
==============================================================================
