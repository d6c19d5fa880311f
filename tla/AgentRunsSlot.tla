---------------------------- MODULE AgentRunsSlot ----------------------------
(***************************************************************************)
(* AgentRuns implements RunSlot.  The slot is the message of the active    *)
(* run, a place in the queue is a row of run_queue, and a message whose    *)
(* send was accepted and that does not wait is settled.                    *)
(***************************************************************************)
EXTENDS AgentRuns

slot == IF ActiveRun = 0 THEN NoMessage ELSE userText[ActiveRun]
settled == {m \in Message : command[m] = "accepted" /\ ticket[m] = 0}

Slot == INSTANCE RunSlot WITH place <- ticket

(***************************************************************************)
(* Over all interleavings of commands, processes, recoveries and losses of *)
(* the isolate the admission code behaves as the one slot with a queue in  *)
(* front that RunSlot describes.                                           *)
(***************************************************************************)
ImplementsRunSlot == Slot!Spec
==============================================================================
