------------------------------ MODULE AgentRuns ------------------------------
(***************************************************************************)
(* Run admission of one AgentCell (worker/agent-cell.ts, worker/store.ts,  *)
(* worker/runtime.ts): the commands send, stop, resume_queue,              *)
(* remove_queued, approve and deny, the conversation process that          *)
(* ctx.waitUntil keeps alive after the response, the recovery of runs      *)
(* whose process was lost, and the loss of the isolate itself.             *)
(*                                                                         *)
(* A cell is single-threaded: what happens between two awaits is one       *)
(* action.  SQLite survives a crash, the fields of the object and its      *)
(* suspended handlers do not.  A run is named by its generation, a command *)
(* by the message it sends, an operation by the run that proposed it.      *)
(*                                                                         *)
(* runs.status is never "waiting_approval" here: the only assignment is in *)
(* the catch block of runConversation, and worker/isolate.ts turns every   *)
(* error of a host binding into a string before that block could see it.   *)
(***************************************************************************)
EXTENDS Integers, FiniteSets

CONSTANTS
    Message,      \* the user messages, one send command each
    MaxGen,       \* bound: generations a cell may admit
    QueueLimit,   \* LIMITS.queuedMessages
    Notifying,    \* generations whose program calls integrations_notify
    RouteDeny,    \* TRUE when the clients deny through POST /approvals too
    MaxCrashes,   \* bound: losses of the isolate
    NoMessage     \* the user_text of a generation that was not admitted

Gen == 1 .. MaxGen

ASSUME MaxGenAssumption == MaxGen \in Nat
ASSUME QueueLimitAssumption == QueueLimit \in Nat
ASSUME NotifyingAssumption == Notifying \subseteq Gen
ASSUME RouteDenyAssumption == RouteDeny \in BOOLEAN
ASSUME MaxCrashesAssumption == MaxCrashes \in Nat
ASSUME NoMessageAssumption == NoMessage \notin Message

VARIABLES
    \* SQLite
    gen,          \* the largest runs.generation
    status,       \* runs.status
    cancelled,    \* runs.cancel_requested
    userText,     \* runs.user_text
    ticket,       \* run_queue.created_at, 0 for a message that is not queued
    clock,        \* the last ticket given out
    queuePaused,  \* meta.queue_paused
    command,      \* commands: the row of the send command of a message
    op,           \* operations.status of the notification of a run
    notified,     \* how many rows of notifications the operation has
    \* the object in memory, and its suspended handlers
    awake,        \* a command was received since the isolate was loaded
    abort,        \* the generation whose AbortController this.abort is, or 0
    currentGen,   \* this.currentGeneration
    pc,           \* where the process of a run is suspended
    echoing,      \* messages whose admitSend awaits the echo
    deciding,     \* runs whose approval awaits the end of runHost
    crashes       \* losses of the isolate so far

durable == <<gen, status, cancelled, userText, ticket, clock, queuePaused,
             command, op, notified>>
volatile == <<awake, abort, currentGen, pc, echoing, deciding>>
vars == <<durable, volatile, crashes>>

ActiveStatus == {"running", "cancel_requested"}
TerminalStatus == {"completed", "failed", "terminated"}
RunStatus == {"none"} \cup ActiveStatus \cup TerminalStatus
OpStatus == {"none", "proposed", "succeeded", "denied"}
CommandRow == {"none", "in_flight", "accepted", "busy"}

\* A conversation is in progress in these; "ended" and "flushing" only clean up.
Conversing == {"streaming", "proposing", "closing", "failing", "cancelling"}
ProcessPc == {"off", "ended", "flushing"} \cup Conversing

\* Mutant: a run that was asked to cancel is not active any more.
ActiveInRunning(st) == {g \in Gen : st[g] = "running"}

\* The rows activeRun selects from; ActiveRun is the newest of them, or 0.
ActiveIn(st) == {g \in Gen : st[g] \in ActiveStatus}
ActiveRun == IF ActiveIn(status) = {} THEN 0
             ELSE CHOOSE g \in ActiveIn(status) :
                    \A h \in ActiveIn(status) : h <= g

Queued == {m \in Message : ticket[m] # 0}

\* Items of the same millisecond come out in the order of their insertion.
NextQueued == CHOOSE m \in Queued : \A n \in Queued : ticket[m] <= ticket[n]

\* Mutant: deleteQueued is forgotten.
DequeuedNothing(m) == ticket

Dequeued(m) == [ticket EXCEPT ![m] = 0]

------------------------------------------------------------------------------
Init ==
    /\ gen = 0
    /\ status = [g \in Gen |-> "none"]
    /\ cancelled = [g \in Gen |-> FALSE]
    /\ userText = [g \in Gen |-> NoMessage]
    /\ ticket = [m \in Message |-> 0]
    /\ clock = 0
    /\ queuePaused = FALSE
    /\ command = [m \in Message |-> "none"]
    /\ op = [g \in Gen |-> "none"]
    /\ notified = [g \in Gen |-> 0]
    /\ awake = FALSE
    /\ abort = 0
    /\ currentGen = 0
    /\ pc = [g \in Gen |-> "off"]
    /\ echoing = {}
    /\ deciding = {}
    /\ crashes = 0

(***************************************************************************)
(* Admission.  st and pcs are the statuses and processes as the handler    *)
(* has left them when it gets here.                                        *)
(***************************************************************************)
AdmitRun(m, st, pcs) ==
    /\ gen < MaxGen
    /\ gen' = gen + 1
    /\ status' = [st EXCEPT ![gen + 1] = "running"]
    /\ userText' = [userText EXCEPT ![gen + 1] = m]
    /\ currentGen' = gen + 1
    /\ abort' = gen + 1
    /\ pc' = [pcs EXCEPT ![gen + 1] = "streaming"]

ShouldAdvance(st, paused) ==
    /\ ~paused
    /\ ActiveIn(st) = {}
    /\ Queued # {}

AdvanceQueueIfReady(st, pcs, paused) ==
    \/ /\ ShouldAdvance(st, paused)
       /\ AdmitRun(NextQueued, st, pcs)
       /\ ticket' = Dequeued(NextQueued)
    \/ /\ ~ShouldAdvance(st, paused)
       /\ status' = st
       /\ pc' = pcs
       /\ UNCHANGED <<gen, userText, currentGen, abort, ticket>>

\* Mutant: the generation of this object decides, which a new object lacks.
LostOfThisObject(g) == abort = 0 /\ g = currentGen /\ status[g] = "running"

\* A running row without this.abort was left behind by a lost isolate.
Lost(g) == abort = 0 /\ g = ActiveRun /\ status[g] = "running"
Recovered == [g \in Gen |-> IF Lost(g) THEN "failed" ELSE status[g]]

\* recoverOrContinue, which every command runs before its first await.
ReceiveCommand ==
    /\ awake' = TRUE
    /\ AdvanceQueueIfReady(Recovered, pc, queuePaused)
    /\ UNCHANGED <<cancelled, clock, queuePaused, command, op, notified,
                   echoing, deciding, crashes>>

(***************************************************************************)
(* Commands, from the insertion of the command row on.  A repeated command *)
(* finds its row and changes nothing more.                                 *)
(***************************************************************************)
SendRecord(m) ==
    /\ awake
    /\ command[m] = "none"
    /\ command' = [command EXCEPT ![m] = "in_flight"]
    /\ echoing' = echoing \cup {m}
    /\ UNCHANGED <<gen, status, cancelled, userText, ticket, clock,
                   queuePaused, op, notified, awake, abort, currentGen, pc,
                   deciding, crashes>>

Refuse(m) ==
    /\ ActiveRun # 0
    /\ Cardinality(Queued) >= QueueLimit
    /\ command' = [command EXCEPT ![m] = "busy"]
    /\ UNCHANGED <<gen, status, userText, currentGen, abort, pc, ticket, clock>>

Enqueue(m) ==
    /\ ActiveRun # 0
    /\ Cardinality(Queued) < QueueLimit
    /\ command' = [command EXCEPT ![m] = "accepted"]
    /\ clock' = clock + 1
    /\ ticket' = [ticket EXCEPT ![m] = clock + 1]
    /\ UNCHANGED <<gen, status, userText, currentGen, abort, pc>>

StartSent(m) ==
    /\ ActiveRun = 0
    /\ AdmitRun(m, status, pc)
    /\ command' = [command EXCEPT ![m] = "accepted"]
    /\ UNCHANGED <<ticket, clock>>

\* admitSend after the echo; the queue is only looked at now.
SendAdmit(m) ==
    /\ m \in echoing
    /\ echoing' = echoing \ {m}
    /\ Refuse(m) \/ Enqueue(m) \/ StartSent(m)
    /\ UNCHANGED <<cancelled, queuePaused, op, notified, awake, deciding,
                   crashes>>

\* expected is the generation the client fences its stop with, 0 for none.
Stop(expected) ==
    /\ awake
    /\ ActiveRun # 0
    /\ expected \in {0, ActiveRun}
    /\ queuePaused' = TRUE
    /\ status' = [status EXCEPT ![ActiveRun] = "cancel_requested"]
    /\ cancelled' = [cancelled EXCEPT ![ActiveRun] = TRUE]
    /\ UNCHANGED <<gen, userText, ticket, clock, command, op, notified,
                   volatile, crashes>>

ResumeQueue ==
    /\ awake
    /\ queuePaused' = FALSE
    /\ AdvanceQueueIfReady(status, pc, FALSE)
    /\ UNCHANGED <<cancelled, clock, command, op, notified, awake, echoing,
                   deciding, crashes>>

RemoveQueued(m) ==
    /\ awake
    /\ m \in Queued
    /\ ticket' = Dequeued(m)
    /\ UNCHANGED <<gen, status, cancelled, userText, clock, queuePaused,
                   command, op, notified, volatile, crashes>>

(***************************************************************************)
(* Decisions on a proposed operation.  executeApprovedNotification has no  *)
(* await of its own, so it is one step; the handler updates the run when   *)
(* the promise of runHost has resolved.  A decision on an operation that   *)
(* has expired marks it as denied too, whatever it says.                   *)
(***************************************************************************)

Approvable(g) == op[g] \in {"proposed", "succeeded"}

Approve(g) ==
    /\ Approvable(g)
    /\ op' = [op EXCEPT ![g] = "succeeded"]
    /\ notified' = IF op[g] = "succeeded" THEN notified
                   ELSE [notified EXCEPT ![g] = @ + 1]
    /\ deciding' = deciding \cup {g}
    /\ UNCHANGED <<gen, status, cancelled, userText, ticket, clock,
                   queuePaused, command, awake, abort, currentGen, pc,
                   echoing, crashes>>

CommitApproval(g) ==
    /\ g \in deciding
    /\ deciding' = deciding \ {g}
    /\ status' = IF ActiveRun = g THEN [status EXCEPT ![g] = "completed"]
                 ELSE status
    /\ UNCHANGED <<gen, cancelled, userText, ticket, clock, queuePaused,
                   command, op, notified, awake, abort, currentGen, pc,
                   echoing, crashes>>

MarkDenied(g) ==
    /\ op' = [op EXCEPT ![g] = "denied"]
    /\ UNCHANGED <<gen, status, cancelled, userText, ticket, clock,
                   queuePaused, command, notified, volatile, crashes>>

\* assertApprovalCas
Deniable(g) == op[g] = "proposed"

DenyCommand(g) ==
    /\ awake
    /\ Deniable(g)
    /\ MarkDenied(g)

\* POST /approvals goes to executeApprovedNotification directly.
DenyRoute(g) ==
    /\ RouteDeny
    /\ op[g] # "none"
    /\ MarkDenied(g)

------------------------------------------------------------------------------
(***************************************************************************)
(* The conversation process of generation g, one action per stretch        *)
(* between awaits.  Whether the provider's stream yields, ends or throws   *)
(* is up to the provider, after an abort as well.                          *)
(***************************************************************************)
Move(g, from, to) ==
    /\ pc[g] = from
    /\ pc' = [pc EXCEPT ![g] = to]

Fenced(g) == cancelled[g] \/ currentGen # g

\* The fence in front of every chunk throws CancelledError.
ChunkFenced(g) ==
    /\ Fenced(g)
    /\ Move(g, "streaming", "cancelling")
    /\ UNCHANGED <<durable, awake, abort, currentGen, echoing, deciding,
                   crashes>>

StreamEnds(g) ==
    /\ Move(g, "streaming", "closing")
    /\ UNCHANGED <<durable, awake, abort, currentGen, echoing, deciding,
                   crashes>>

StreamFails(g) ==
    /\ Move(g, "streaming", "failing")
    /\ UNCHANGED <<durable, awake, abort, currentGen, echoing, deciding,
                   crashes>>

\* The policy is checked, then the arguments are hashed, then the row goes in.
RequestNotify(g) ==
    /\ g \in Notifying
    /\ op[g] = "none"
    /\ ~Fenced(g)
    /\ Move(g, "streaming", "proposing")
    /\ UNCHANGED <<durable, awake, abort, currentGen, echoing, deciding,
                   crashes>>

ProposeNotification(g) ==
    /\ Move(g, "proposing", "streaming")
    /\ op' = [op EXCEPT ![g] = "proposed"]
    /\ UNCHANGED <<gen, status, cancelled, userText, ticket, clock,
                   queuePaused, command, notified, awake, abort, currentGen,
                   echoing, deciding, crashes>>

FinishRun(g, from, final) ==
    /\ Move(g, from, "ended")
    /\ status' = [status EXCEPT ![g] = final]
    /\ UNCHANGED <<gen, cancelled, userText, ticket, clock, queuePaused,
                   command, op, notified, awake, abort, currentGen, echoing,
                   deciding, crashes>>

Complete(g) == FinishRun(g, "closing", "completed")
Fail(g) == FinishRun(g, "failing", "failed")

\* Mutant: the cancellation is not confirmed.
TerminateUnconfirmed(g) == FinishRun(g, "cancelling", status[g])

Terminate(g) == FinishRun(g, "cancelling", "terminated")

\* The finally block of process: the field is cleared, then the flush awaited.
ProcessFinally(g) ==
    /\ Move(g, "ended", "flushing")
    /\ abort' = 0
    /\ UNCHANGED <<durable, awake, currentGen, echoing, deciding, crashes>>

\* Mutant: the end of a run does not look at the queue.
ProcessFlushedOnly(g) ==
    /\ Move(g, "flushing", "off")
    /\ UNCHANGED <<durable, awake, abort, currentGen, echoing, deciding, crashes>>

ProcessFlushed(g) ==
    /\ pc[g] = "flushing"
    /\ AdvanceQueueIfReady(status, [pc EXCEPT ![g] = "off"], queuePaused)
    /\ UNCHANGED <<cancelled, clock, queuePaused, command, op, notified,
                   awake, echoing, deciding, crashes>>

Crash ==
    /\ crashes < MaxCrashes
    /\ crashes' = crashes + 1
    /\ awake' = FALSE
    /\ abort' = 0
    /\ currentGen' = 0
    /\ pc' = [g \in Gen |-> "off"]
    /\ echoing' = {}
    /\ deciding' = {}
    /\ UNCHANGED durable

------------------------------------------------------------------------------
StreamStep(g) ==
    \/ ChunkFenced(g)
    \/ StreamEnds(g)
    \/ StreamFails(g)
    \/ RequestNotify(g)

ProcessStep(g) ==
    \/ StreamStep(g)
    \/ ProposeNotification(g)
    \/ Complete(g)
    \/ Fail(g)
    \/ Terminate(g)
    \/ ProcessFinally(g)
    \/ ProcessFlushed(g)

Decide(g) ==
    \/ Approve(g)
    \/ CommitApproval(g)
    \/ DenyCommand(g)
    \/ DenyRoute(g)

Next ==
    \/ ReceiveCommand
    \/ \E m \in Message : SendRecord(m) \/ SendAdmit(m) \/ RemoveQueued(m)
    \/ \E expected \in 0 .. MaxGen : Stop(expected)
    \/ ResumeQueue
    \/ \E g \in Gen : ProcessStep(g) \/ Decide(g)
    \/ Crash

Spec == Init /\ [][Next]_vars

(***************************************************************************)
(* A process that is scheduled goes on: its awaits are local, or bounded   *)
(* by timeouts and by maxIterations(6).  No fairness for clients.          *)
(***************************************************************************)
Fairness ==
    /\ \A g \in Gen : WF_vars(ProcessStep(g)) /\ WF_vars(CommitApproval(g))
    /\ \A m \in Message : WF_vars(SendAdmit(m))

FairSpec == Spec /\ Fairness

------------------------------------------------------------------------------
(* The type of every table, field and suspended handler of the cell. *)
TypeOK ==
    /\ gen \in 0 .. MaxGen
    /\ status \in [Gen -> RunStatus]
    /\ cancelled \in [Gen -> BOOLEAN]
    /\ userText \in [Gen -> Message \cup {NoMessage}]
    /\ ticket \in [Message -> Nat]
    /\ clock \in Nat
    /\ queuePaused \in BOOLEAN
    /\ command \in [Message -> CommandRow]
    /\ op \in [Gen -> OpStatus]
    /\ notified \in [Gen -> Nat]
    /\ awake \in BOOLEAN
    /\ abort \in 0 .. MaxGen
    /\ currentGen \in 0 .. MaxGen
    /\ pc \in [Gen -> ProcessPc]
    /\ echoing \subseteq Message
    /\ deciding \subseteq Gen
    /\ crashes \in 0 .. MaxCrashes

(***************************************************************************)
(* The run slot is exclusive in the database: only the newest generation   *)
(* may be active, whichever of the four places (send, resume_queue, the    *)
(* recovery, the end of a process) admitted it.  activeRun's LIMIT 1 never *)
(* hides a second row.                                                     *)
(***************************************************************************)
OnlyNewestActive == \A g \in Gen : status[g] \in ActiveStatus => g = gen

(***************************************************************************)
(* A message is served at most once: no two generations run the same       *)
(* message, a message that ran is out of the queue, and one whose echo is  *)
(* still being written is in neither.                                      *)
(***************************************************************************)
ServedOnce ==
    /\ \A g, h \in Gen :
         userText[g] = userText[h] /\ userText[g] # NoMessage => g = h
    /\ \A g \in Gen, m \in Message :
         userText[g] = m => ticket[m] = 0 /\ m \notin echoing
    /\ \A m \in Message : ticket[m] # 0 => m \notin echoing

(***************************************************************************)
(* Once a command has been received, every row that says "running" has a   *)
(* process that will finish it: recoverOrContinue leaves no orphan behind  *)
(* and no handler admits a run without starting its process.               *)
(***************************************************************************)
NoOrphanRunning ==
    awake => \A g \in Gen : status[g] = "running" => pc[g] \in Conversing

(***************************************************************************)
(* A notification that was denied is not delivered any more, however the   *)
(* decisions on it are repeated or raced.                                  *)
(***************************************************************************)
DeniedNeverDelivers ==
    [][\A g \in Gen : op[g] = "denied" => notified'[g] = notified[g]]_vars

(***************************************************************************)
(* The journal agrees with the effect: an operation whose notification was *)
(* delivered, once, stays "succeeded".                                     *)
(***************************************************************************)
DeliveredIsSucceeded ==
    \A g \in Gen : notified[g] = IF op[g] = "succeeded" THEN 1 ELSE 0

(***************************************************************************)
(* Queued messages are served in the order they were accepted: a message   *)
(* leaves the queue for a run only when no older one is waiting.           *)
(***************************************************************************)
QueueIsFifo ==
    [][\A m, n \in Message :
         /\ ticket[n] # 0
         /\ ticket[n] < ticket[m]
         /\ ticket'[m] = 0
         /\ ticket'[n] # 0
         => gen' = gen]_vars

(***************************************************************************)
(* In an isolate that is not lost, a stop takes effect: the run it asked   *)
(* to cancel reaches a terminal status.                                    *)
(***************************************************************************)
StopTakesEffect ==
    \A g \in Gen :
      status[g] = "cancel_requested" ~> status[g] \in TerminalStatus

(***************************************************************************)
(* In an isolate that is not lost, the queue is not forgotten: a message   *)
(* that waits leaves the queue unless the queue is paused.                 *)
(***************************************************************************)
QueueDrains == \A m \in Message : m \in Queued ~> m \notin Queued \/ queuePaused

------------------------------------------------------------------------------
(* What the documentation says of the cell. *)
==============================================================================
