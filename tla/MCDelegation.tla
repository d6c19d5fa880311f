------------------------------ MODULE MCDelegation ---------------------------
(* Instances of Delegation for TLC. *)
EXTENDS Delegation
==============================================================================
