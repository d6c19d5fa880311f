------------------------------- MODULE TaskCell ------------------------------
(***************************************************************************)
(* One TaskCell (worker/task-cell.ts, worker/task/lease.ts,                *)
(* worker/task/cancellation.ts): the delegated tasks of a workspace, their *)
(* attempts, the lease that fences each attempt, the cancellation of a     *)
(* task and the alarm that collects expired leases.                        *)
(*                                                                         *)
(* A handler that hashes a lease token is suspended in between: it has     *)
(* read the attempt row before, decides on that copy, and writes after.    *)
(* Such a handler is a member of "suspended"; everything else is one       *)
(* synchronous block.  Time is relative: lease[t][g] is the time an        *)
(* attempt has left, 0 when lease_expires_at = now, -1 when it is past;    *)
(* alarm is the time until the lease alarm is due, -1 when none is set.    *)
(*                                                                         *)
(* A request that names a wrong generation or a wrong lease token is       *)
(* refused without a change and is left out, as are the reads (tool-exec   *)
(* among them), the events themselves and the artifacts of an attempt.     *)
(* confirmCancellation has no caller.                                      *)
(***************************************************************************)
EXTENDS Integers, FiniteSets

CONSTANTS
    Task,             \* the tasks of the workspace
    MaxAttempts,      \* bound: attempts of one task
    RetryGeneration,  \* MAX_LEASE_RETRY_GENERATION
    Ttl,              \* the lease, in ticks of the clock
    AlarmDelay,       \* the 30 seconds of armLeaseAlarm, in ticks
    MaxSuspended,     \* bound: handlers that await a hash at the same time
    MaxRestarts       \* bound: losses of the isolate

ASSUME MaxAttemptsAssumption == MaxAttempts \in Nat \ {0}
ASSUME RetryGenerationAssumption == RetryGeneration \in Nat
ASSUME TtlAssumption == Ttl \in Nat \ {0}
ASSUME AlarmDelayAssumption == AlarmDelay \in Nat
ASSUME MaxSuspendedAssumption == MaxSuspended \in Nat
ASSUME MaxRestartsAssumption == MaxRestarts \in Nat

VARIABLES
    task,         \* tasks.status, "absent" before the row is inserted
    cancellation, \* tasks.cancellation_state
    attempt,      \* attempts.status of each task and generation
    lease,        \* attempts.lease_expires_at, as time left
    revoked,      \* leases.revoked_at is set
    alarm,        \* the lease alarm, as time until it is due
    suspended,    \* handlers that await sha256Hex
    restarts      \* losses of the isolate so far

tables == <<task, cancellation, attempt, lease, revoked>>
vars == <<tables, alarm, suspended, restarts>>

Generation == 1 .. MaxAttempts

LiveTask == {"pending", "assigned", "running"}
TerminalTask == {"succeeded", "failed", "cancelled"}
TaskStatus == {"absent"} \cup LiveTask \cup TerminalTask
LiveAttempt == {"pending", "running"}
TerminalAttempt == {"succeeded", "failed", "cancelled", "lost"}
AttemptStatus == {"none"} \cup LiveAttempt \cup TerminalAttempt
CancellationState == {"none", "requested", "signalled", "confirmed"}
TimeLeft == -1 .. Ttl
AlarmTime == -1 .. AlarmDelay

\* "request" tells apart requests that computed the same generation.
Create == [kind : {"create"}, task : Task, generation : Generation,
           request : 1 .. MaxSuspended]
\* "events" is a batch of ordinary events, "cancelled" holds attempt.cancelled
Fenced == [kind : {"renew", "events", "cancelled"}, task : Task,
           generation : Generation, status : LiveAttempt \cup TerminalAttempt,
           lease : TimeLeft]

IsLive(t, g) == attempt[t][g] \in LiveAttempt

\* Mutant: only started attempts count as active.
WorkspaceIdleRunning ==
    \A t \in Task, g \in Generation : attempt[t][g] # "running"

WorkspaceIdle == \A t \in Task, g \in Generation : ~IsLive(t, g)

\* Mutant: the alarm is set for started attempts only.
ArmedRunning(at, was) ==
    IF \E t \in Task, g \in Generation : at[t][g] = "running"
    THEN AlarmDelay ELSE was

\* armLeaseAlarm when the attempts are at; setAlarm replaces an earlier alarm.
Armed(at, was) ==
    IF \E t \in Task, g \in Generation : at[t][g] \in LiveAttempt
    THEN AlarmDelay ELSE was

Init ==
    /\ task = [t \in Task |-> "absent"]
    /\ cancellation = [t \in Task |-> "none"]
    /\ attempt = [t \in Task |-> [g \in Generation |-> "none"]]
    /\ lease = [t \in Task |-> [g \in Generation |-> -1]]
    /\ revoked = [t \in Task |-> [g \in Generation |-> FALSE]]
    /\ alarm = -1
    /\ suspended = {}
    /\ restarts = 0

------------------------------------------------------------------------------
(* worker/task/cancellation.ts *)

Rank(c) == CASE c = "none" -> 0
             [] c = "requested" -> 1
             [] c = "signalled" -> 2
             [] c = "confirmed" -> 4

CanTransition(from, to) ==
    \/ from = to
    \/ to = "confirmed" /\ from \in {"requested", "signalled"}
    \/ to # "confirmed" /\ Rank(to) = Rank(from) + 1

------------------------------------------------------------------------------
CreateTask(t) ==
    /\ task[t] = "absent"
    /\ task' = [task EXCEPT ![t] = "pending"]
    /\ UNCHANGED <<cancellation, attempt, lease, revoked, alarm, suspended,
                   restarts>>

Suspend(h) ==
    /\ Cardinality(suspended) < MaxSuspended
    /\ h \notin suspended
    /\ suspended' = suspended \cup {h}

\* createAttempt up to its await: the checks, and the generation it will use.
BeginAttempt(t) ==
    /\ task[t] # "absent"
    /\ WorkspaceIdle
    /\ \E g \in Generation, r \in 1 .. MaxSuspended :
         /\ attempt[t][g] = "none"
         /\ \A h \in Generation : h < g => attempt[t][h] # "none"
         /\ Suspend([kind |-> "create", task |-> t, generation |-> g,
                     request |-> r])
    /\ UNCHANGED <<tables, alarm, restarts>>

\* After the await nothing is checked again but UNIQUE(task_id, generation).
CommitAttempt(h) ==
    /\ h \in suspended
    /\ h.kind = "create"
    /\ suspended' = suspended \ {h}
    /\ \/ /\ attempt[h.task][h.generation] = "none"
          /\ attempt' = [attempt EXCEPT ![h.task][h.generation] = "pending"]
          /\ lease' = [lease EXCEPT ![h.task][h.generation] = Ttl]
          /\ task' = [task EXCEPT ![h.task] = "assigned"]
          /\ alarm' = Armed(attempt', alarm)
       \/ /\ attempt[h.task][h.generation] # "none"
          /\ UNCHANGED <<attempt, lease, task, alarm>>
    /\ UNCHANGED <<cancellation, revoked, restarts>>

CancelTask(t) ==
    /\ task[t] \in LiveTask
    /\ CanTransition(cancellation[t], "requested")
    /\ cancellation' = [cancellation EXCEPT ![t] = "requested"]
    /\ task' = [task EXCEPT ![t] = IF @ = "running" THEN @ ELSE "cancelled"]
    /\ UNCHANGED <<attempt, lease, revoked, alarm, suspended, restarts>>

SignalCancellation(t) ==
    /\ task[t] # "absent"
    /\ cancellation[t] # "confirmed"
    /\ CanTransition(cancellation[t], "signalled")
    /\ cancellation' = [cancellation EXCEPT ![t] = "signalled"]
    /\ UNCHANGED <<task, attempt, lease, revoked, alarm, suspended, restarts>>

\* Mutant: every attempt of the task is given the outcome.
EndedAttemptsAll(t, outcome) ==
    [g \in Generation |-> IF attempt[t][g] # "none" THEN outcome ELSE "none"]

EndedAttempts(t, outcome) ==
    [g \in Generation |-> IF IsLive(t, g) THEN outcome ELSE attempt[t][g]]

CompleteTask(t, outcome) ==
    /\ task[t] \in LiveTask
    /\ task' = [task EXCEPT ![t] = outcome]
    /\ attempt' = [attempt EXCEPT ![t] = EndedAttempts(t, outcome)]
    /\ UNCHANGED <<cancellation, lease, revoked, alarm, suspended, restarts>>

------------------------------------------------------------------------------
(***************************************************************************)
(* Requests of the machine that holds the lease of generation g of t.      *)
(***************************************************************************)

\* requireActiveAttempt up to its await: the copy of the row.
BeginFenced(kind, t, g) ==
    /\ attempt[t][g] # "none"
    /\ Suspend([kind |-> kind, task |-> t, generation |-> g,
                status |-> attempt[t][g], lease |-> lease[t][g]])
    /\ UNCHANGED <<tables, alarm, restarts>>

\* assertLeaseFence, on the copy.
PassesFence(h) == h.status \in LiveAttempt /\ h.lease > 0

Answer(h) ==
    /\ h \in suspended
    /\ suspended' = suspended \ {h}

\* renewAttemptLease reads the lease row again after the await.
RenewableNow(h) == ~revoked[h.task][h.generation] /\ lease[h.task][h.generation] > 0

RejectFenced(h) ==
    /\ Answer(h)
    /\ h.kind # "create"
    /\ ~PassesFence(h) \/ (h.kind = "renew" /\ ~RenewableNow(h))
    /\ UNCHANGED <<tables, alarm, restarts>>

RenewLease(h) ==
    /\ Answer(h)
    /\ h.kind = "renew"
    /\ PassesFence(h)
    /\ RenewableNow(h)
    /\ lease' = [lease EXCEPT ![h.task][h.generation] = Ttl]
    /\ alarm' = Armed(attempt, alarm)
    /\ UNCHANGED <<task, cancellation, attempt, revoked, restarts>>

\* Mutant: the attempt is not read again, the copy alone decides.
StartIfPendingStale(h, ts, at) ==
    IF h.status = "pending"
    THEN /\ attempt' = [at EXCEPT ![h.task][h.generation] =
                          IF @ = "pending" THEN "running" ELSE @]
         /\ task' = [ts EXCEPT ![h.task] = IF @ = "cancelled" THEN @
                                           ELSE "running"]
    ELSE attempt' = at /\ task' = ts

\* The tail of submitAttemptEvents: the first batch of an attempt starts it.
StartIfPending(h, ts, at) ==
    IF h.status = "pending" /\ at[h.task][h.generation] \in LiveAttempt
    THEN /\ attempt' = [at EXCEPT ![h.task][h.generation] = "running"]
         /\ task' = [ts EXCEPT ![h.task] = IF @ = "cancelled" THEN @
                                           ELSE "running"]
    ELSE /\ attempt' = at
         /\ task' = ts

SubmitEvents(h) ==
    /\ Answer(h)
    /\ h.kind = "events"
    /\ PassesFence(h)
    /\ StartIfPending(h, task, attempt)
    /\ UNCHANGED <<cancellation, lease, revoked, alarm, restarts>>

\* attempt.cancelled; the batch is rolled back when the transition is refused.
SubmitCancelled(h) ==
    /\ Answer(h)
    /\ h.kind = "cancelled"
    /\ PassesFence(h)
    /\ \/ /\ cancellation[h.task] = "confirmed"
          /\ StartIfPending(h, task, attempt)
          /\ UNCHANGED cancellation
       \/ /\ cancellation[h.task] # "confirmed"
          /\ CanTransition(cancellation[h.task], "signalled")
          /\ cancellation' = [cancellation EXCEPT ![h.task] = "confirmed"]
          /\ task' = [task EXCEPT ![h.task] = "cancelled"]
          /\ attempt' = [attempt EXCEPT ![h.task][h.generation] =
                           IF @ \in LiveAttempt THEN "cancelled" ELSE @]
       \/ /\ ~CanTransition(cancellation[h.task], "signalled")
          /\ cancellation[h.task] # "confirmed"
          /\ UNCHANGED <<task, attempt, cancellation>>
    /\ UNCHANGED <<lease, revoked, alarm, restarts>>

------------------------------------------------------------------------------
Expired(t, g) == IsLive(t, g) /\ lease[t][g] < 0

\* The status of the task whose attempt g lost its lease (decideExpiredLeases).
AfterExpiry(g) == IF g < RetryGeneration THEN "pending" ELSE "failed"

\* applyLeaseExpiry, then armLeaseAlarm on what is left.
Alarm ==
    /\ alarm = 0
    /\ attempt' = [t \in Task |-> [g \in Generation |->
                     IF Expired(t, g) THEN "lost" ELSE attempt[t][g]]]
    /\ task' = [t \in Task |->
                 IF \E g \in Generation : Expired(t, g)
                 THEN AfterExpiry(CHOOSE g \in Generation : Expired(t, g))
                 ELSE task[t]]
    /\ revoked' = [t \in Task |-> [g \in Generation |->
                     revoked[t][g] \/ Expired(t, g)]]
    /\ alarm' = Armed(attempt', -1)
    /\ UNCHANGED <<cancellation, lease, suspended, restarts>>

Later(n) == IF n > -1 THEN n - 1 ELSE n

Tick ==
    /\ lease' = [t \in Task |-> [g \in Generation |-> Later(lease[t][g])]]
    /\ suspended' = {IF h.kind = "create" THEN h
                     ELSE [h EXCEPT !.lease = Later(@)] : h \in suspended}
    /\ alarm' = IF alarm > 0 THEN alarm - 1 ELSE alarm
    /\ UNCHANGED <<task, cancellation, attempt, revoked, restarts>>

\* The isolate is lost with its suspended handlers; the constructor of the
\* next one arms the alarm.
Restart ==
    /\ restarts < MaxRestarts
    /\ restarts' = restarts + 1
    /\ suspended' = {}
    /\ alarm' = Armed(attempt, alarm)
    /\ UNCHANGED tables

Handle(h) ==
    \/ CommitAttempt(h)
    \/ RejectFenced(h)
    \/ RenewLease(h)
    \/ SubmitEvents(h)
    \/ SubmitCancelled(h)

Next ==
    \/ \E t \in Task :
         \/ CreateTask(t)
         \/ BeginAttempt(t)
         \/ CancelTask(t)
         \/ SignalCancellation(t)
         \/ \E outcome \in {"succeeded", "failed"} : CompleteTask(t, outcome)
         \/ \E kind \in {"renew", "events", "cancelled"}, g \in Generation :
              BeginFenced(kind, t, g)
    \/ \E h \in suspended : Handle(h)
    \/ Alarm
    \/ Tick
    \/ Restart

Spec == Init /\ [][Next]_vars

(***************************************************************************)
(* The runtime delivers a due alarm and retries it until it succeeds, and  *)
(* time goes on.  Nothing is assumed of clients and machines.              *)
(***************************************************************************)
FairSpec == Spec /\ WF_vars(Alarm) /\ WF_vars(Tick)

------------------------------------------------------------------------------
(* The type of every table of the cell and of its suspended handlers. *)
TypeOK ==
    /\ task \in [Task -> TaskStatus]
    /\ cancellation \in [Task -> CancellationState]
    /\ attempt \in [Task -> [Generation -> AttemptStatus]]
    /\ lease \in [Task -> [Generation -> TimeLeft]]
    /\ revoked \in [Task -> [Generation -> BOOLEAN]]
    /\ alarm \in AlarmTime
    /\ suspended \subseteq Create \cup Fenced
    /\ restarts \in 0 .. MaxRestarts

(***************************************************************************)
(* Of the attempts of one task only the newest can be live: a generation   *)
(* computed before the await of createAttempt never becomes a second live  *)
(* attempt next to an older or a newer one of that task.                   *)
(***************************************************************************)
OnlyNewestLive ==
    \A t \in Task, g \in Generation :
      IsLive(t, g) =>
        \A h \in Generation :
          /\ h < g => attempt[t][h] \in TerminalAttempt
          /\ h > g => attempt[t][h] = "none"

(***************************************************************************)
(* tasks.status and attempts.status, which different handlers write, agree *)
(* on what is in progress: an assigned task has a live attempt and a       *)
(* running task a running one.                                             *)
(***************************************************************************)
StatusAgrees ==
    \A t \in Task :
      /\ task[t] = "assigned" => \E g \in Generation : IsLive(t, g)
      /\ task[t] = "running" => \E g \in Generation : attempt[t][g] = "running"

(***************************************************************************)
(* A live attempt is always watched: as long as there is one, the alarm    *)
(* that would collect its lease is set, after a restart as well.           *)
(***************************************************************************)
LiveIsWatched ==
    (\E t \in Task, g \in Generation : IsLive(t, g)) => alarm >= 0

(***************************************************************************)
(* An attempt is cancelled only when the cancellation of its task went the *)
(* whole way to confirmed, and that never moves back: neither the delayed  *)
(* signal-cancel of a poll nor a second cancel reopens it.                 *)
(***************************************************************************)
CancelledIsConfirmed ==
    \A t \in Task, g \in Generation :
      attempt[t][g] = "cancelled" => cancellation[t] = "confirmed"

(***************************************************************************)
(* An attempt that ended never comes back, whatever handlers still hold a  *)
(* copy of its row from when it was live.                                  *)
(***************************************************************************)
EndedAttemptIsFinal ==
    [][\A t \in Task, g \in Generation :
         attempt[t][g] \in TerminalAttempt => attempt'[t][g] = attempt[t][g]]_vars

(***************************************************************************)
(* docs/TASK-LIFECYCLE.md:23: an attempt whose lease ran out is declared   *)
(* lost by the alarm; it does not stay live and block its workspace, as    *)
(* long as it is the only attempt that moves the alarm.                    *)
(***************************************************************************)
ExpiredIsCollected ==
    \A t \in Task, g \in Generation : Expired(t, g) ~> ~IsLive(t, g)

------------------------------------------------------------------------------
(* What the errors the code raises say of the cell. *)
==============================================================================
