------------------------------ MODULE MachinePool ----------------------------
(***************************************************************************)
(* The machines and task assignments of a team, kept by the TeamCell       *)
(* (worker/team-cell.ts, worker/team/sweep.ts, worker/team/machines.ts),   *)
(* and as much of the supervisors that poll it (supervisor/src/run.ts) as  *)
(* the pool can notice.                                                    *)
(*                                                                         *)
(* Polls and heartbeats hash the credential of the machine: they read the  *)
(* row of the machine, wait, and go on with that copy.  A poll that        *)
(* assigned something waits again, for the publication, before it reads    *)
(* what is cancelled; a heartbeat waits again for the renewals before it   *)
(* arms the sweep, and so does the sweep for its publications.  A request  *)
(* at an await is a member of "suspended".                                 *)
(* Time is relative: idle[m] is the time since last_seen_at, alarm the     *)
(* time until the sweep is due, -1 when no alarm is set.                   *)
(*                                                                         *)
(* A supervisor sends one request at a time, a heartbeat and a poll in     *)
(* turn, and obeys the answer to a poll before it goes on.                 *)
(*                                                                         *)
(* Assignments are numbered in the order of created_at.  Nothing in the    *)
(* repository ever sets the status of one to anything but "pending" and    *)
(* "assigned".  The renewals a heartbeat passes on are in TaskCell.        *)
(***************************************************************************)
EXTENDS Integers, FiniteSets, FiniteSetsExt

CONSTANTS
    Machine,         \* machines that may enroll
    MaxAssignments,  \* bound: assignments of the team
    Capacity,        \* capacities.workspaces
    StaleAfter,      \* MACHINE_STALE_AFTER_MS, in ticks
    SweepDelay,      \* TEAM_SWEEP_ALARM_MS, in ticks
    MaxSuspended,    \* bound: requests under way at the same time
    MaxRestarts,     \* bound: losses of the isolate and starts of supervisors
    NoMachine        \* task_assignments.machine_id is NULL

ASSUME MaxAssignmentsAssumption == MaxAssignments \in Nat
ASSUME CapacityAssumption == Capacity \in Nat \ {0}
ASSUME StaleAfterAssumption == StaleAfter \in Nat
ASSUME SweepDelayAssumption == SweepDelay \in Nat
ASSUME BoundsAssumption == MaxSuspended \in Nat /\ MaxRestarts \in Nat
ASSUME NoMachineAssumption == NoMachine \notin Machine

Assignment == 1 .. MaxAssignments

VARIABLES
    machine,     \* machines.status, "absent" before the enrollment
    credential,  \* machines.credential_hash is not NULL
    idle,        \* time since machines.last_seen_at, at most StaleAfter
    assignment,  \* task_assignments.status
    holder,      \* task_assignments.machine_id
    cancel,      \* task_assignments.cancel_requested
    alarm,       \* the sweep alarm, as time until it is due
    sweeping,    \* the alarm handler is at its awaits
    suspended,   \* requests at an await
    restarts,    \* losses of the isolate and starts of supervisors so far
    up,          \* the supervisor of a machine is running
    awaits,      \* the request its loop awaits, 0 for none
    beats,       \* the next request of its loop is a heartbeat
    orders,      \* what is left to obey of the answer to its last poll
    running,     \* <<m, a>>: activeByAttempt of m has the attempt of a
    recorded     \* <<m, a>>: its journal has an active environment for it

machines == <<machine, credential, idle>>
assignments == <<assignment, holder, cancel>>
sweep == <<alarm, sweeping>>
containers == <<running, recorded>>
supervisors == <<up, awaits, beats, orders>>
vars == <<machines, assignments, sweep, suspended, restarts, supervisors,
          containers>>

LiveMachine == {"approved", "stale", "draining"}
MachineStatus == LiveMachine \cup {"absent", "revoked"}
RequestId == 1 .. MaxSuspended

\* status: the copy of the row; given, age: what a poll assigned, and how long ago.
Handler == [id : RequestId, kind : {"poll", "heartbeat"},
            stage : {"hash", "wait"}, machine : Machine, status : LiveMachine,
            given : SUBSET Assignment, age : 0 .. StaleAfter]

Orders == [cancels : SUBSET Assignment, given : SUBSET Assignment]
NoOrders == [cancels |-> {}, given |-> {}]

SomeLive(ms) == \E m \in Machine : ms[m] \in LiveMachine

\* armMachineSweepAlarm; setAlarm replaces an earlier alarm.
Armed(ms, was) == IF SomeLive(ms) THEN SweepDelay ELSE was

HeldBy(m) == {a \in Assignment : assignment[a] = "assigned" /\ holder[a] = m}
Pending ==
    {a \in Assignment : assignment[a] = "pending" /\ holder[a] = NoMachine}

HasRoom(m) == Cardinality(HeldBy(m)) < Capacity

Init ==
    /\ machine = [m \in Machine |-> "absent"]
    /\ credential = [m \in Machine |-> FALSE]
    /\ idle = [m \in Machine |-> 0]
    /\ assignment = [a \in Assignment |-> "absent"]
    /\ holder = [a \in Assignment |-> NoMachine]
    /\ cancel = [a \in Assignment |-> FALSE]
    /\ alarm = -1
    /\ sweeping = FALSE
    /\ suspended = {}
    /\ restarts = 0
    /\ up = [m \in Machine |-> FALSE]
    /\ awaits = [m \in Machine |-> 0]
    /\ beats = [m \in Machine |-> TRUE]
    /\ orders = [m \in Machine |-> NoOrders]
    /\ running = {}
    /\ recorded = {}

------------------------------------------------------------------------------
(* Users and admins. *)

\* enrollMachine does not arm the sweep.
Enroll(m) ==
    /\ machine[m] = "absent"
    /\ machine' = [machine EXCEPT ![m] = "approved"]
    /\ credential' = [credential EXCEPT ![m] = TRUE]
    /\ idle' = [idle EXCEPT ![m] = 0]
    /\ UNCHANGED <<assignments, sweep, suspended, restarts, supervisors,
                   containers>>

Drain(m) ==
    /\ machine[m] # "absent"
    /\ machine' = [machine EXCEPT ![m] = "draining"]
    /\ UNCHANGED <<credential, idle, assignments, sweep, suspended, restarts,
                   supervisors, containers>>

Revoke(m) ==
    /\ machine[m] # "absent"
    /\ machine' = [machine EXCEPT ![m] = "revoked"]
    /\ credential' = [credential EXCEPT ![m] = FALSE]
    /\ UNCHANGED <<idle, assignments, sweep, suspended, restarts, supervisors,
                   containers>>

QueueTaskAssignment(a) ==
    /\ assignment[a] = "absent"
    /\ \A b \in Assignment : b < a => assignment[b] # "absent"
    /\ assignment' = [assignment EXCEPT ![a] = "pending"]
    /\ alarm' = Armed(machine, alarm)
    /\ UNCHANGED <<machines, holder, cancel, sweeping, suspended, restarts,
                   supervisors, containers>>

RequestCancel(a) ==
    /\ assignment[a] # "absent"
    /\ cancel' = [cancel EXCEPT ![a] = TRUE]
    /\ UNCHANGED <<machines, assignment, holder, sweep, suspended, restarts,
                   supervisors, containers>>

------------------------------------------------------------------------------
(***************************************************************************)
(* The loop of a supervisor.                                               *)
(***************************************************************************)

\* It sends its next request; requireMachineAuth up to its await.
BeginRequest(m, id) ==
    /\ up[m]
    /\ awaits[m] = 0
    /\ orders[m] = NoOrders
    /\ credential[m]
    /\ \A i \in RequestId : i < id <=> \E h \in suspended : h.id = i
    /\ suspended' = suspended \cup
         {[id |-> id, kind |-> IF beats[m] THEN "heartbeat" ELSE "poll",
           stage |-> "hash", machine |-> m, status |-> machine[m],
           given |-> {}, age |-> 0]}
    /\ awaits' = [awaits EXCEPT ![m] = id]
    /\ UNCHANGED <<machines, assignments, sweep, restarts, up, beats, orders,
                   containers>>

\* A heartbeat that is refused or does not arrive is caught; a poll ends the process.
HeartbeatFails(m) ==
    /\ up[m]
    /\ awaits[m] = 0
    /\ orders[m] = NoOrders
    /\ beats[m]
    /\ beats' = [beats EXCEPT ![m] = FALSE]
    /\ UNCHANGED <<machines, assignments, sweep, suspended, restarts, up,
                   awaits, orders, containers>>

\* A cancel for an attempt that is not active does nothing more.
SkipCancel(m, a) ==
    /\ up[m]
    /\ a \in orders[m].cancels
    /\ <<m, a>> \notin running
    /\ orders' = [orders EXCEPT ![m] = [cancels |-> @.cancels \ {a},
                                       given |-> @.given]]
    /\ UNCHANGED <<machines, assignments, sweep, suspended, restarts, up,
                   awaits, beats, containers>>

\* The journal tail has ended, which takes a line of the runner, and docker was told.
StopRunner(m, a) ==
    /\ up[m]
    /\ a \in orders[m].cancels
    /\ <<m, a>> \in running
    /\ running' = running \ {<<m, a>>}
    /\ orders' = [orders EXCEPT ![m] = [cancels |-> @.cancels \ {a},
                                       given |-> @.given]]
    /\ UNCHANGED <<machines, assignments, sweep, suspended, restarts, up,
                   awaits, beats, recorded>>

StartRunner(m, a) ==
    /\ up[m]
    /\ orders[m].cancels = {}
    /\ a \in orders[m].given
    /\ running' = running \cup {<<m, a>>}
    /\ recorded' = recorded \cup {<<m, a>>}
    /\ orders' = [orders EXCEPT ![m] = [cancels |-> @.cancels,
                                       given |-> @.given \ {a}]]
    /\ UNCHANGED <<machines, assignments, sweep, suspended, restarts, up,
                   awaits, beats>>

\* The process ends: killed, by a poll or a container that failed, or after a drain.
SupervisorStops(m) ==
    /\ up[m]
    /\ up' = [up EXCEPT ![m] = FALSE]
    /\ awaits' = [awaits EXCEPT ![m] = 0]
    /\ beats' = [beats EXCEPT ![m] = TRUE]
    /\ orders' = [orders EXCEPT ![m] = NoOrders]
    /\ running' = running \ ({m} \X Assignment)
    /\ UNCHANGED <<machines, assignments, sweep, suspended, restarts, recorded>>

\* It takes up every environment that its journal has as active.
SupervisorStarts(m) ==
    /\ machine[m] # "absent"
    /\ ~up[m]
    /\ restarts < MaxRestarts
    /\ restarts' = restarts + 1
    /\ up' = [up EXCEPT ![m] = TRUE]
    /\ running' = running \cup {r \in recorded : r[1] = m}
    /\ UNCHANGED <<machines, assignments, sweep, suspended, awaits, beats,
                   orders, recorded>>

------------------------------------------------------------------------------
(***************************************************************************)
(* The requests of a supervisor, at the TeamCell.                          *)
(***************************************************************************)

Resumes(h, kind, stage) ==
    /\ h \in suspended
    /\ h.kind = kind
    /\ h.stage = stage

\* The answer reaches the loop of h.machine if that still awaits it.
Answer(h, given, cancels) ==
    LET m == h.machine
    IN  /\ suspended' = suspended \ {h}
        /\ IF awaits[m] = h.id
           THEN /\ awaits' = [awaits EXCEPT ![m] = 0]
                /\ beats' = [beats EXCEPT ![m] = h.kind = "poll"]
                /\ orders' = [orders EXCEPT ![m] = [cancels |-> cancels,
                                                    given |-> given]]
           ELSE UNCHANGED <<awaits, beats, orders>>

\* The row is written; the renewals of its attempts follow.
Heartbeat(h) ==
    /\ Resumes(h, "heartbeat", "hash")
    /\ machine' = IF h.status = "stale"
                  THEN [machine EXCEPT ![h.machine] = "approved"]
                  ELSE machine
    /\ idle' = [idle EXCEPT ![h.machine] = 0]
    /\ suspended' = (suspended \ {h}) \cup {[h EXCEPT !.stage = "wait"]}
    /\ UNCHANGED <<credential, assignments, sweep, restarts, supervisors,
                   containers>>

HeartbeatEnds(h) ==
    /\ Resumes(h, "heartbeat", "wait")
    /\ alarm' = Armed(machine, alarm)
    /\ Answer(h, {}, {})
    /\ UNCHANGED <<machines, assignments, sweeping, restarts, up, containers>>

\* A poll of a machine that may not work, or is full, is answered with nothing.
PollIdle(h) ==
    /\ Resumes(h, "poll", "hash")
    /\ h.status # "approved" \/ ~HasRoom(h.machine)
    /\ Answer(h, {}, {})
    /\ UNCHANGED <<machines, assignments, sweep, restarts, up, containers>>

\* Mutant: the machine is written, the status is not.
AssignHolderOnly(given) == assignment' = assignment

Assign(given) ==
    assignment' = [a \in Assignment |-> IF a \in given THEN "assigned"
                                        ELSE assignment[a]]

\* What it assigns is published before the poll goes on.
PollAssigns(h) ==
    LET given == {Min(Pending)}
    IN  /\ Resumes(h, "poll", "hash")
        /\ h.status = "approved"
        /\ HasRoom(h.machine)
        /\ Pending # {}
        /\ Assign(given)
        /\ holder' = [a \in Assignment |-> IF a \in given THEN h.machine
                                           ELSE holder[a]]
        /\ suspended' = (suspended \ {h}) \cup
                          {[h EXCEPT !.stage = "wait", !.given = given]}
        /\ UNCHANGED <<machines, cancel, sweep, restarts, supervisors,
                       containers>>

\* Mutant: only runners that have reported are looked at, and none ever has.
ToCancelRunning(m) == {a \in HeldBy(m) : cancel[a] /\ assignment[a] = "running"}

\* What a poll of m reports as cancelled.
ToCancel(m) == {a \in HeldBy(m) : cancel[a]}

\* last_seen_at is the time at which the poll resumed from its first await.
PollEnds(h) ==
    /\ \/ Resumes(h, "poll", "wait")
       \/ /\ Resumes(h, "poll", "hash")
          /\ h.status = "approved"
          /\ HasRoom(h.machine)
          /\ Pending = {}
    /\ idle' = [idle EXCEPT ![h.machine] = h.age]
    /\ Answer(h, h.given, ToCancel(h.machine))
    /\ UNCHANGED <<machine, credential, assignments, sweep, restarts, up,
                   containers>>

AnswerRequest(h) ==
    Heartbeat(h) \/ HeartbeatEnds(h) \/ PollIdle(h) \/ PollAssigns(h) \/ PollEnds(h)

------------------------------------------------------------------------------
\* Mutant: only machines with work are looked at.
OverdueHolding == {m \in Machine : /\ machine[m] = "approved"
                                   /\ idle[m] >= StaleAfter
                                   /\ HeldBy(m) # {}}

\* decideStaleMachines
Overdue == {m \in Machine : machine[m] = "approved" /\ idle[m] >= StaleAfter}

\* decideRequeueAssignments
Requeued == UNION {HeldBy(m) : m \in Overdue}

\* The alarm handler up to its awaits: applyMachineSweep.
Sweep ==
    /\ alarm = 0
    /\ ~sweeping
    /\ machine' = [m \in Machine |-> IF m \in Overdue THEN "stale" ELSE machine[m]]
    /\ assignment' = [a \in Assignment |-> IF a \in Requeued THEN "pending"
                                           ELSE assignment[a]]
    /\ holder' = [a \in Assignment |-> IF a \in Requeued THEN NoMachine
                                       ELSE holder[a]]
    /\ alarm' = -1
    /\ sweeping' = TRUE
    /\ UNCHANGED <<credential, idle, cancel, suspended, restarts, supervisors,
                   containers>>

\* It has published and flushed, and arms the next sweep.
SweepEnds ==
    /\ sweeping
    /\ sweeping' = FALSE
    /\ alarm' = Armed(machine, alarm)
    /\ UNCHANGED <<machines, assignments, suspended, restarts, supervisors,
                   containers>>

Older(time) == IF time < StaleAfter THEN time + 1 ELSE time

Tick ==
    /\ idle' = [m \in Machine |-> Older(idle[m])]
    /\ suspended' = {IF h.kind = "poll" /\ h.stage = "wait"
                     THEN [h EXCEPT !.age = Older(@)] ELSE h : h \in suspended}
    /\ alarm' = IF alarm > 0 THEN alarm - 1 ELSE alarm
    /\ UNCHANGED <<machine, credential, assignments, sweeping, restarts,
                   supervisors, containers>>

\* The isolate is lost with its requests, which fail; the next constructor arms the sweep.
Restart ==
    LET waiting == {m \in Machine : awaits[m] # 0}
    IN  /\ restarts < MaxRestarts
        /\ restarts' = restarts + 1
        /\ suspended' = {}
        /\ sweeping' = FALSE
        /\ alarm' = Armed(machine, alarm)
        /\ awaits' = [m \in Machine |-> 0]
        /\ beats' = [m \in Machine |-> beats[m] /\ m \notin waiting]
        /\ up' = [m \in Machine |-> up[m] /\ (m \in waiting => beats[m])]
        /\ running' = {r \in running : r[1] \in waiting => beats[r[1]]}
        /\ UNCHANGED <<machines, assignments, orders, recorded>>

Next ==
    \/ \E m \in Machine :
         \/ Enroll(m)
         \/ Drain(m)
         \/ Revoke(m)
         \/ SupervisorStops(m)
         \/ SupervisorStarts(m)
         \/ HeartbeatFails(m)
         \/ \E id \in RequestId : BeginRequest(m, id)
         \/ \E a \in Assignment :
              SkipCancel(m, a) \/ StopRunner(m, a) \/ StartRunner(m, a)
    \/ \E a \in Assignment : QueueTaskAssignment(a) \/ RequestCancel(a)
    \/ \E h \in suspended : AnswerRequest(h)
    \/ Sweep
    \/ SweepEnds
    \/ Tick
    \/ Restart

Spec == Init /\ [][Next]_vars

(***************************************************************************)
(* Time goes on, a due alarm is delivered and its handler ends.  Nothing   *)
(* makes users act, a supervisor start again, send a request or obey, or a *)
(* request come to an end.                                                 *)
(***************************************************************************)
Fairness == WF_vars(Tick) /\ WF_vars(Sweep) /\ WF_vars(SweepEnds)

FairSpec == Spec /\ Fairness

------------------------------------------------------------------------------
(* The type of the tables, the requests under way and the supervisors. *)
TypeOK ==
    /\ machine \in [Machine -> MachineStatus]
    /\ credential \in [Machine -> BOOLEAN]
    /\ idle \in [Machine -> 0 .. StaleAfter]
    /\ assignment \in [Assignment -> {"absent", "pending", "assigned"}]
    /\ holder \in [Assignment -> Machine \cup {NoMachine}]
    /\ cancel \in [Assignment -> BOOLEAN]
    /\ alarm \in -1 .. SweepDelay
    /\ sweeping \in BOOLEAN
    /\ suspended \subseteq Handler
    /\ restarts \in 0 .. MaxRestarts
    /\ up \in [Machine -> BOOLEAN]
    /\ awaits \in [Machine -> 0 .. MaxSuspended]
    /\ beats \in [Machine -> BOOLEAN]
    /\ orders \in [Machine -> Orders]
    /\ running \subseteq Machine \X Assignment
    /\ recorded \subseteq Machine \X Assignment

(***************************************************************************)
(* The two columns that say who works on an assignment agree: status is    *)
(* "assigned" exactly when there is a machine_id.  The poll writes both    *)
(* from a copy of the machine, the sweep takes both back.                  *)
(***************************************************************************)
HolderAgrees ==
    \A a \in Assignment : assignment[a] = "assigned" <=> holder[a] # NoMachine

(***************************************************************************)
(* No machine holds more assignments than its capacity, with several polls *)
(* of it suspended at once and with sweeps in between.                     *)
(***************************************************************************)
WithinCapacity ==
    \A m \in Machine : Cardinality(HeldBy(m)) <= Capacity

(***************************************************************************)
(* The sweep does not die: once it is armed, it is armed or its handler is *)
(* under way as long as some machine is approved, stale or draining.       *)
(***************************************************************************)
SweepKeepsGoing ==
    [][(alarm >= 0 \/ sweeping) /\ SomeLive(machine')
         => alarm' >= 0 \/ sweeping']_vars

(***************************************************************************)
(* docs/TASK-LIFECYCLE.md:30, "last_seen_at older than three heartbeat     *)
(* intervals -> machine stale": with the sweep armed, a machine whose      *)
(* supervisor stopped does not stay approved.                              *)
(***************************************************************************)
SilentBecomesStale ==
    \A m \in Machine :
      ~up[m] /\ (alarm >= 0 \/ sweeping) ~> up[m] \/ machine[m] # "approved"

(***************************************************************************)
(* docs/TASK-LIFECYCLE.md:37, "Supervisor poll receives cancels": with the *)
(* sweep armed, a supervisor lets go of a container whose assignment was   *)
(* cancelled, or its machine does not stay approved (a supervisor that     *)
(* waits for the tail of a silent runner sends nothing, and the sweep      *)
(* finds it).  A machine without room is excepted: its polls are answered  *)
(* before the cancels are read.                                            *)
(***************************************************************************)
CancelStopsRunner ==
    \A m \in Machine, a \in Assignment :
      /\ <<m, a>> \in running /\ cancel[a] /\ holder[a] = m
      /\ alarm >= 0 \/ sweeping
      ~>
        \/ <<m, a>> \notin running
        \/ ~HasRoom(m)
        \/ machine[m] # "approved"
        \/ holder[a] # m
==============================================================================
