------------------------------- MODULE MCCodeMode ----------------------------
(* Instances of CodeMode for TLC. *)
EXTENDS CodeMode, TLC

\* Memory is granted, revoked and granted again; the rest stays granted.
WithMemory == {Cap, Cap \ {MemoryCap}}
==============================================================================
