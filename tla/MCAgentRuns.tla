----------------------------- MODULE MCAgentRuns -----------------------------
(* Instances of AgentRuns for TLC. *)
EXTENDS AgentRunsSlot, TLC

Symmetry == Permutations(Message)
==============================================================================
