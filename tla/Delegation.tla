------------------------------ MODULE Delegation -----------------------------
(***************************************************************************)
(* The tasks an AgentCell delegates (delegation/client.ts; agent-cell.ts:  *)
(* cancelTaskCommand, stopAllCommand), as one conversation's TaskCell, the *)
(* TeamCell that queues the assignment and the machine that runs it see    *)
(* them.                                                                   *)
(*                                                                         *)
(* submitDelegation and cancelDelegation are calls to two cells, one after *)
(* the other, and a call that fails ends them half-way.  Each call is one  *)
(* step: what interleaves inside a cell is TaskCell's and MachinePool's.    *)
(* One machine takes the tasks; its supervisor may die, and is not started *)
(* again (MachinePool has that, and machines that go stale).  A task has   *)
(* the one attempt its submission asks for: a lost attempt is not tried    *)
(* again.                                                                  *)
(***************************************************************************)
EXTENDS Integers, FiniteSets, FiniteSetsExt

CONSTANTS
    Task,
    FanOut,       \* LIMITS.delegationFanOutMax
    Capacity,     \* capacities.workspaces of the machine
    MaxFaults,    \* bound: calls that fail, deaths of the supervisor
    NoTask        \* the command has no task in hand

ASSUME FanOutAssumption == FanOut \in Nat \ {0}
ASSUME CapacityAssumption == Capacity \in Nat \ {0}
ASSUME FaultsAssumption == MaxFaults \in Nat
ASSUME NoTaskAssumption == NoTask \notin Task

\* What cancels: cancel_task or delegation_cancel, and stop_all.
Command == {"cancel_task", "stop_all"}

VARIABLES
    submit,       \* AgentCell: the call submitDelegation is at
    command,      \* AgentCell: the task a command cancels, between its calls
    todo,         \* AgentCell: the tasks stop_all has yet to cancel
    task,         \* TaskCell: tasks.status
    cancellation, \* TaskCell: tasks.cancellation_state
    attempt,      \* TaskCell: attempts.status
    assignment,   \* TeamCell: task_assignments.status
    asked,        \* TeamCell: task_assignments.cancel_requested
    machine,      \* it is approved, drains, or has lost its supervisor
    runner,       \* the container of the attempt
    reports,      \* supervisor: it awaits the answer to attempt.cancelled
    settled,      \* both calls of a cancellation came after the submission
    faults

agent == <<submit, command, todo>>
taskCell == <<task, cancellation, attempt>>
teamCell == <<assignment, asked>>
supervisor == <<machine, runner, reports>>
delVars == <<agent, taskCell, teamCell, supervisor, settled, faults>>

\* "completed" stands for succeeded and for failed.
LiveTask == {"pending", "assigned", "running"}
Ended == {"completed", "cancelled"}
LiveAttempt == {"pending", "running"}
IsLive(t) == attempt[t] \in LiveAttempt

AssignedHere == {t \in Task : assignment[t] = "assigned"}

\* activeByAttempt
Held(t) == machine # "lost" /\ runner[t] \in {"running", "stopping"}

\* The supervisor obeys what its last poll brought before it goes on: it starts
\* what it was given and stops what was cancelled.
Obeying ==
    \/ reports # {}
    \/ \E t \in Task : runner[t] = "stopping"
    \/ \E t \in AssignedHere : runner[t] = "none"

\* A loop that goes on renews what is in activeByAttempt, a program that has
\* exited too: attempt.finished ends nothing.
Renewed(t) == Held(t) /\ ~Obeying

DelInit ==
    /\ submit = [t \in Task |-> "task"]
    /\ command = [k \in Command |-> NoTask]
    /\ todo = {}
    /\ task = [t \in Task |-> "absent"]
    /\ cancellation = [t \in Task |-> "none"]
    /\ attempt = [t \in Task |-> "none"]
    /\ assignment = [t \in Task |-> "none"]
    /\ asked = [t \in Task |-> FALSE]
    /\ machine = "approved" /\ reports = {}
    /\ runner = [t \in Task |-> "none"]
    /\ settled = {}
    /\ faults = 0

------------------------------------------------------------------------------
(* submitDelegation: POST /tasks, POST /tasks/:id/attempts and POST          *)
(* /task-assignments.  A call whose answer is lost had its effect.           *)

\* The caller goes on, or has lost the answer.
GoesOn(t, next) ==
    \/ submit' = [submit EXCEPT ![t] = next] /\ faults' = faults
    \/ /\ faults < MaxFaults
       /\ submit' = [submit EXCEPT ![t] = "failed"] /\ faults' = faults + 1

CreateTask(t) ==
    /\ submit[t] = "task"
    /\ task' = [task EXCEPT ![t] = "pending"]
    /\ GoesOn(t, "attempt")
    /\ UNCHANGED <<command, todo, cancellation, attempt, teamCell, supervisor,
                   settled>>

\* createAttempt does not look at the status of its task; a conversation with
\* an active attempt answers 409.
CreateAttempt(t) ==
    /\ submit[t] = "attempt"
    /\ IF \E u \in Task : IsLive(u)
       THEN /\ submit' = [submit EXCEPT ![t] = "failed"]
            /\ UNCHANGED <<task, attempt, faults>>
       ELSE /\ attempt' = [attempt EXCEPT ![t] = "pending"]
            /\ task' = [task EXCEPT ![t] = "assigned"]
            /\ GoesOn(t, "assignment")
    /\ UNCHANGED <<command, todo, cancellation, teamCell, supervisor, settled>>

QueueTaskAssignment(t) ==
    /\ submit[t] = "assignment"
    /\ assignment' = [assignment EXCEPT ![t] = "pending"]
    /\ GoesOn(t, "done")
    /\ UNCHANGED <<command, todo, taskCell, asked, supervisor, settled>>

SubmitFails(t) ==
    /\ faults < MaxFaults
    /\ submit[t] \in {"attempt", "assignment"}
    /\ submit' = [submit EXCEPT ![t] = "failed"]
    /\ faults' = faults + 1
    /\ UNCHANGED <<command, todo, taskCell, teamCell, supervisor, settled>>

------------------------------------------------------------------------------
(* cancelDelegation *)

\* stopAllCommand lists the tasks whatever stopCommand answered, and takes as
\* many as the limit.
StopAll ==
    /\ command["stop_all"] = NoTask /\ todo = {}
    /\ LET live == {t \in Task : task[t] \in LiveTask} IN
       \E ts \in kSubset(Min({FanOut, Cardinality(live)}), live) : todo' = ts
    /\ UNCHANGED <<submit, command, taskCell, teamCell, supervisor, settled, faults>>

\* cancel_task may name any task there is; stop_all takes those it listed.
Takes(k, t) ==
    /\ k = "stop_all" => t \in todo
    /\ todo' = IF k = "stop_all" THEN todo \ {t} ELSE todo

\* cancelTask.  409 of a terminal task ends the command, as does a call that
\* fails.
CancelTask(k, t) ==
    /\ command[k] = NoTask /\ task[t] # "absent"
    /\ Takes(k, t)
    /\ IF task[t] \in Ended
       THEN UNCHANGED <<command, task, cancellation>>
       ELSE /\ cancellation' = [cancellation EXCEPT
                                  ![t] = IF @ = "none" THEN "requested" ELSE @]
            /\ task' = [task EXCEPT
                          ![t] = IF @ = "running" THEN @ ELSE "cancelled"]
            /\ command' = [command EXCEPT ![k] = t]
    /\ UNCHANGED <<submit, attempt, teamCell, supervisor, settled, faults>>

\* Mutant: an assignment no machine has is left alone.
MarkedAssigned(t) == assignment[t] = "assigned"

Marked(t) == assignment[t] \in {"pending", "assigned"}

\* requestAssignmentCancel, of the assignments there are.
CancelAssignment(k) ==
    /\ command[k] # NoTask
    /\ LET t == command[k] IN
       /\ asked' = [asked EXCEPT ![t] = @ \/ Marked(t)]
       /\ settled' = IF submit[t] = "done" THEN settled \cup {t} ELSE settled
    /\ command' = [command EXCEPT ![k] = NoTask]
    /\ UNCHANGED <<submit, todo, taskCell, assignment, supervisor, faults>>

\* The second call fails; nobody tries it again.
CancelFails(k) ==
    /\ faults < MaxFaults
    /\ command[k] # NoTask
    /\ command' = [command EXCEPT ![k] = NoTask]
    /\ faults' = faults + 1
    /\ UNCHANGED <<submit, todo, taskCell, teamCell, supervisor, settled>>

\* POST /task-assignments/:id/cancel, which the TaskCell does not hear of.
CancelAssignmentOnly(t) ==
    /\ assignment[t] # "none" /\ ~asked[t]
    /\ asked' = [asked EXCEPT ![t] = TRUE]
    /\ UNCHANGED <<agent, taskCell, assignment, supervisor, settled, faults>>

------------------------------------------------------------------------------
(* The machine, and what reaches the TaskCell from it *)

\* Nothing ever ends an assignment, so what was assigned counts.
HasRoom == Cardinality(AssignedHere) < Capacity

\* What is pending, if anything, and the cancels, in the answer to one poll; a
\* cancel of what is not in activeByAttempt is passed over.  A machine that
\* drains or is full is answered with nothing, no cancels either.
Poll ==
    /\ machine = "approved" /\ ~Obeying /\ HasRoom
    /\ \/ \E t \in Task : /\ assignment[t] = "pending"
                         /\ assignment' = [assignment EXCEPT ![t] = "assigned"]
       \/ (\A t \in Task : assignment[t] # "pending") /\ assignment' = assignment
    /\ runner' = [t \in Task |-> IF runner[t] = "running" /\ asked[t]
                                 THEN "stopping" ELSE runner[t]]
    /\ UNCHANGED <<agent, taskCell, asked, machine, reports, settled, faults>>

Drain ==
    /\ machine = "approved"
    /\ machine' = "draining"
    /\ UNCHANGED <<agent, taskCell, teamCell, runner, reports, settled, faults>>

\* A poll that throws or a container that does not start ends the process.
SupervisorDies ==
    /\ machine # "lost" /\ faults < MaxFaults
    /\ machine' = "lost" /\ reports' = {}
    /\ faults' = faults + 1
    /\ UNCHANGED <<agent, taskCell, teamCell, runner, settled>>

\* Once the tail has ended, which takes a line of the runner.  Docker is told to
\* stop the container, and stopContainer swallows it when docker does not: the
\* container is gone or runs on, and the supervisor lets go of it either way.
StopRunner(t) ==
    /\ machine # "lost" /\ runner[t] = "stopping" /\ reports = {}
    /\ runner' = [runner EXCEPT ![t] = "released"]
    /\ reports' = {t}
    /\ UNCHANGED <<agent, taskCell, teamCell, machine, settled, faults>>

\* The cancels come before the assignments.
StartRunner(t) ==
    /\ machine # "lost" /\ t \in AssignedHere /\ runner[t] = "none"
    /\ reports = {} /\ \A u \in Task : runner[u] # "stopping"
    /\ runner' = [runner EXCEPT ![t] = "running"]
    /\ UNCHANGED <<agent, taskCell, teamCell, machine, reports, settled, faults>>

\* submitAttemptEvents: the first batch starts a pending attempt.
RunnerEvents(t) ==
    /\ Held(t) /\ attempt[t] = "pending"
    /\ attempt' = [attempt EXCEPT ![t] = "running"]
    /\ task' = [task EXCEPT ![t] = IF @ = "cancelled" THEN @ ELSE "running"]
    /\ UNCHANGED <<agent, cancellation, teamCell, supervisor, settled, faults>>

\* Mutant: the attempt is left to the lease.
ConfirmedTaskOnly(t) == attempt' = attempt

Confirmed(t) == attempt' = [attempt EXCEPT ![t] = "cancelled"]

\* attempt.cancelled
ReportCancelled(t) ==
    /\ t \in reports /\ IsLive(t) /\ cancellation[t] = "requested"
    /\ cancellation' = [cancellation EXCEPT ![t] = "confirmed"]
    /\ task' = [task EXCEPT ![t] = "cancelled"]
    /\ Confirmed(t)
    /\ reports' = {}
    /\ UNCHANGED <<agent, teamCell, machine, runner, settled, faults>>

\* 409 of an attempt that has ended, and of a task nobody asked the TaskCell
\* to cancel; or the call fails.  The supervisor goes on.
ReportEnds(t) ==
    /\ t \in reports
    /\ \/ ~(IsLive(t) /\ cancellation[t] = "requested") /\ faults' = faults
       \/ faults < MaxFaults /\ faults' = faults + 1
    /\ reports' = {}
    /\ UNCHANGED <<agent, taskCell, teamCell, machine, runner, settled>>

\* POST /tasks/:id/complete
CompleteTask(t) ==
    /\ task[t] \in LiveTask
    /\ task' = [task EXCEPT ![t] = "completed"]
    /\ attempt' = [attempt EXCEPT ![t] = IF IsLive(t) THEN "completed" ELSE @]
    /\ UNCHANGED <<agent, cancellation, teamCell, supervisor, settled, faults>>

\* Mutant: only an attempt that has started is collected.
ExpiringRunning(t) == attempt[t] = "running"

Expiring(t) == IsLive(t)

\* Mutant: the status TASK-LIFECYCLE.md names, which no query knows.
TriedAgainQueued(t) == task' = [task EXCEPT ![t] = "queued"]

\* Whatever the task is: a first attempt may be tried again.
TriedAgain(t) == task' = [task EXCEPT ![t] = "pending"]

\* applyLeaseExpiry
Expire(t) ==
    /\ Expiring(t)
    /\ attempt' = [attempt EXCEPT ![t] = "lost"]
    /\ TriedAgain(t)
    /\ UNCHANGED <<agent, cancellation, teamCell, supervisor, settled, faults>>

------------------------------------------------------------------------------

Submitting ==
    \E t \in Task : \/ CreateTask(t) \/ CreateAttempt(t)
                    \/ QueueTaskAssignment(t) \/ SubmitFails(t)

Cancelling ==
    \/ StopAll
    \/ \E k \in Command : CancelAssignment(k) \/ CancelFails(k)
    \/ \E k \in Command, t \in Task : CancelTask(k, t)
    \/ \E t \in Task : CancelAssignmentOnly(t)

Running ==
    \/ Poll \/ Drain \/ SupervisorDies
    \/ \E t \in Task :
         \/ StopRunner(t) \/ StartRunner(t)
         \/ RunnerEvents(t) \/ ReportCancelled(t) \/ ReportEnds(t)
         \/ CompleteTask(t) \/ Expire(t)

DelNext == Submitting \/ Cancelling \/ Running

DelSpec == DelInit /\ [][DelNext]_delVars

\* A loop that renews leases polls as well, in turn.  A lease nobody renews,
\* because the loop stands still or has let go, runs out, and the alarm
\* collects it.  Nothing makes docker stop, a tail end or a call arrive.
Fairness ==
    /\ WF_delVars(Poll)
    /\ \A t \in Task : WF_delVars(~Renewed(t) /\ Expire(t))

FairSpec == DelSpec /\ Fairness

------------------------------------------------------------------------------

\* Every variable has its type.
DelTypeOK ==
    /\ submit \in [Task -> {"task", "attempt", "assignment", "done", "failed"}]
    /\ command \in [Command -> Task \cup {NoTask}]
    /\ todo \subseteq Task
    /\ task \in [Task -> {"absent"} \cup LiveTask \cup Ended]
    /\ cancellation \in [Task -> {"none", "requested", "confirmed"}]
    /\ attempt \in [Task -> {"none", "lost"} \cup LiveAttempt \cup Ended]
    /\ assignment \in [Task -> {"none", "pending", "assigned"}]
    /\ asked \in [Task -> BOOLEAN]
    /\ machine \in {"approved", "draining", "lost"} /\ reports \subseteq Task
    /\ runner \in [Task -> {"none", "running", "stopping", "released"}]
    /\ settled \subseteq Task /\ faults \in 0 .. MaxFaults

\* A cancelDelegation whose two calls arrive after the submission was done
\* frees the conversation for the next attempt: wherever the assignment is, the
\* supervisor reports that it has let go, or nobody renews the lease any more
\* (delegation/client.ts:139, requestAssignmentCancel, applyLeaseExpiry).  But
\* a machine that drains or is full is told of no cancel (pollMachine).
CancelFreesConversation ==
    \A t \in Task : (t \in settled) ~> (~IsLive(t) \/ machine = "draining" \/ ~HasRoom)

\* A submission that fails between createAttempt and the assignment does not
\* block the conversation for ever: no machine will have the attempt, and its
\* lease runs out (delegation/client.ts:84-118).
HalfSubmittedIsFreed ==
    \A t \in Task :
      (submit[t] = "failed" /\ assignment[t] = "none" /\ IsLive(t)) ~> ~IsLive(t)

\* A report of a cancel is only taken for a task the TaskCell was asked to
\* cancel, so the states of the two cells agree: what is confirmed was asked of
\* the TeamCell, its attempt has ended, and the supervisor has told docker to
\* stop its container and let go of it.  The container may run on: nobody looks
\* at what docker answered (submitAttemptEvents, run.ts:109-143,
\* docker.ts:104-111).
ConfirmedIsStopped ==
    \A t \in Task : cancellation[t] = "confirmed"
                      => asked[t] /\ ~IsLive(t) /\ runner[t] = "released"
==============================================================================
