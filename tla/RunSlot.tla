------------------------------- MODULE RunSlot -------------------------------
(***************************************************************************)
(* What the admission of an AgentCell promises to the users of a chat: one *)
(* slot for the message that is being served, a queue of at most QueueLimit *)
(* in front of it, and every message settled at most once, when it gets    *)
(* the slot or is removed from the queue.  Commands, generations,          *)
(* processes, crashes and recovery are not visible here; AgentRuns         *)
(* implements this.                                                        *)
(***************************************************************************)
EXTENDS Integers, FiniteSets

CONSTANTS
    Message, NoMessage,
    QueueLimit   \* messages that may wait

VARIABLES
    slot,     \* the message being served, or NoMessage
    place,    \* the place of a message in the queue, 0 when it does not wait
    settled   \* messages that had the slot or were removed from the queue

slotVars == <<slot, place, settled>>

Waiting == {m \in Message : place[m] # 0}
Fresh(m) == m \notin Waiting /\ m \notin settled

Init ==
    /\ slot = NoMessage
    /\ place = [m \in Message |-> 0]
    /\ settled = {}

\* A new message takes the slot when it is free.
Direct(m) ==
    /\ slot = NoMessage
    /\ Fresh(m)
    /\ slot' = m
    /\ settled' = settled \cup {m}
    /\ UNCHANGED place

\* A new message waits behind all the others while the slot is taken, if there
\* is a place.
Wait(m) ==
    /\ slot # NoMessage
    /\ Cardinality(Waiting) < QueueLimit
    /\ Fresh(m)
    /\ place' = [place EXCEPT ![m] = place'[m]]
    /\ place'[m] \in Nat \ {0}
    /\ \A n \in Waiting : place[n] < place'[m]
    /\ UNCHANGED <<slot, settled>>

\* The slot goes to the head of the queue; whoever had it has lost it.
FromQueue(m) ==
    /\ m \in Waiting
    /\ \A n \in Waiting : place[m] <= place[n]
    /\ slot' = m
    /\ place' = [place EXCEPT ![m] = 0]
    /\ settled' = settled \cup {m}

Remove(m) ==
    /\ m \in Waiting
    /\ place' = [place EXCEPT ![m] = 0]
    /\ settled' = settled \cup {m}
    /\ UNCHANGED slot

Release ==
    /\ slot' = NoMessage
    /\ UNCHANGED <<place, settled>>

Next ==
    \/ \E m \in Message : Direct(m) \/ Wait(m) \/ FromQueue(m) \/ Remove(m)
    \/ Release

Spec == Init /\ [][Next]_slotVars
==============================================================================
