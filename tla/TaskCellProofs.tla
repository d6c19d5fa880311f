---------------------------- MODULE TaskCellProofs ----------------------------
(***************************************************************************)
(* Proofs about TaskCell, for every set of tasks, every number of          *)
(* attempts, suspended handlers and restarts, and every length of the      *)
(* lease and of the alarm.                                                 *)
(*                                                                         *)
(* What createAttempt has computed before its await may be stale after it. *)
(* OnlyNewestLive holds all the same because of two facts that stay true   *)
(* across the await: generations are given without gaps (Contiguous), and  *)
(* what was found ended stays ended (CreatedOnEnded).                      *)
(*                                                                         *)
(* The last sections are about TeamState, the conversations such tasks     *)
(* belong to, for any conversations, titles, handlers and bounds; the two  *)
(* components share no variable.  Copies are at or behind their rows       *)
(* (CopiesFollow); until the stream has caught up, what it will show       *)
(* of a row is in the outbox or in the hands of a handler (SettleInv), and *)
(* it shows the last event that it has, unless it had that before          *)
(* (LastIsShown).                                                          *)
(***************************************************************************)
EXTENDS TaskCell, TeamState, TLAPS, FiniteSetTheorems, WellFoundedInduction

Contiguous ==
    \A t \in Task, g, h \in Generation :
      h < g /\ attempt[t][g] # "none" => attempt[t][h] # "none"

\* An attempt about to be created comes after attempts that have all ended.
CreatedOnEnded ==
    \A c \in suspended :
      c.kind = "create" =>
        \A g \in Generation :
          g < c.generation => attempt[c.task][g] \in TerminalAttempt

NewestInv == TypeOK /\ Contiguous /\ CreatedOnEnded /\ OnlyNewestLive

USE MaxAttemptsAssumption, RetryGenerationAssumption, TtlAssumption,
    AlarmDelayAssumption, MaxSuspendedAssumption, MaxRestartsAssumption
    DEF Generation

------------------------------------------------------------------------------
(* The rows a handler writes after its await. *)

(***************************************************************************)
(* A suspended createAttempt names a task and a generation.                *)
(***************************************************************************)
LEMMA CreateTyped ==
  ASSUME TypeOK, NEW h \in suspended, h.kind = "create"
  PROVE  h.task \in Task /\ h.generation \in Generation
<1>1. h \in Create
  BY DEF TypeOK, Fenced
<1> QED BY <1>1 DEF Create

(***************************************************************************)
(* Any other suspended handler carries a copy of the row of an attempt.    *)
(***************************************************************************)
LEMMA FencedTyped ==
  ASSUME TypeOK, NEW h \in suspended, h.kind # "create"
  PROVE  /\ h \in Fenced
         /\ h.task \in Task /\ h.generation \in Generation
<1>1. h \in Fenced
  BY DEF TypeOK, Create
<1> QED BY <1>1 DEF Fenced

(***************************************************************************)
(* armLeaseAlarm keeps the type of the alarm.                              *)
(***************************************************************************)
LEMMA ArmedTyped ==
  ASSUME NEW at, NEW was \in AlarmTime
  PROVE  Armed(at, was) \in AlarmTime
BY DEF Armed, AlarmTime

(***************************************************************************)
(* The end of a batch leaves the rows alone or starts a live attempt and   *)
(* its task, unless that is cancelled.                                     *)
(***************************************************************************)
LEMMA StartCases ==
  ASSUME TypeOK, NEW h \in suspended, h.kind # "create",
         StartIfPending(h, task, attempt)
  PROVE  \/ attempt' = attempt /\ task' = task
         \/ /\ IsLive(h.task, h.generation)
            /\ attempt' = [attempt EXCEPT ![h.task][h.generation] = "running"]
            /\ \/ task' = task /\ task[h.task] = "cancelled"
               \/ task' = [task EXCEPT ![h.task] = "running"]
<1>1. h.task \in Task
  BY FencedTyped
<1>2. CASE task[h.task] = "cancelled"
  BY <1>1, <1>2 DEF StartIfPending, IsLive, TypeOK
<1>3. CASE task[h.task] # "cancelled"
  BY <1>1, <1>3 DEF StartIfPending, IsLive, TypeOK
<1> QED BY <1>2, <1>3

(***************************************************************************)
(* attempt.cancelled is an ordinary event of a confirmed task, or confirms *)
(* the cancellation and ends a live attempt, or is refused.                *)
(***************************************************************************)
LEMMA CancelledCases ==
  ASSUME TypeOK, NEW h \in suspended, SubmitCancelled(h)
  PROVE  \/ StartIfPending(h, task, attempt) /\ cancellation' = cancellation
         \/ /\ cancellation' = [cancellation EXCEPT ![h.task] = "confirmed"]
            /\ task' = [task EXCEPT ![h.task] = "cancelled"]
            /\ \/ attempt' = attempt
               \/ /\ IsLive(h.task, h.generation)
                  /\ attempt' = [attempt EXCEPT ![h.task][h.generation] = "cancelled"]
         \/ UNCHANGED <<task, attempt, cancellation>>
<1>1. h.task \in Task /\ h.generation \in Generation
  BY FencedTyped DEF SubmitCancelled
<1>2. CASE IsLive(h.task, h.generation)
  BY <1>2 DEF SubmitCancelled, IsLive
<1>3. CASE ~IsLive(h.task, h.generation)
  <2>1. [attempt EXCEPT ![h.task][h.generation] = attempt[h.task][h.generation]]
          = attempt
    BY <1>1 DEF TypeOK
  <2> QED BY <1>3, <2>1 DEF SubmitCancelled, IsLive
<1> QED BY <1>2, <1>3

------------------------------------------------------------------------------
(* Type correctness. *)

(***************************************************************************)
(* Writing one status of a task or of an attempt keeps the types.          *)
(***************************************************************************)
LEMMA WriteTyped ==
  ASSUME TypeOK, NEW t \in Task, NEW g \in Generation
  PROVE  /\ \A v \in TaskStatus : [task EXCEPT ![t] = v] \in [Task -> TaskStatus]
         /\ \A v \in AttemptStatus :
              [attempt EXCEPT ![t][g] = v] \in [Task -> [Generation -> AttemptStatus]]
<1>1. \A v \in TaskStatus : [task EXCEPT ![t] = v] \in [Task -> TaskStatus]
  BY DEF TypeOK
<1>2. \A v \in AttemptStatus :
        [attempt EXCEPT ![t][g] = v] \in [Task -> [Generation -> AttemptStatus]]
  BY DEF TypeOK
<1> QED BY <1>1, <1>2


(***************************************************************************)
(* Inserting the row of an attempt keeps the types.                        *)
(***************************************************************************)
LEMMA CommitTyped ==
  ASSUME TypeOK, NEW h \in suspended, CommitAttempt(h)
  PROVE  TypeOK'
<1>1. h.task \in Task /\ h.generation \in Generation
  BY CreateTyped DEF CommitAttempt
<1>2. suspended' \subseteq Create \cup Fenced
  BY DEF CommitAttempt, TypeOK
<1>3. CASE /\ attempt' = [attempt EXCEPT ![h.task][h.generation] = "pending"]
           /\ lease' = [lease EXCEPT ![h.task][h.generation] = Ttl]
           /\ task' = [task EXCEPT ![h.task] = "assigned"]
           /\ alarm' = Armed(attempt', alarm)
  <2>1. attempt' \in [Task -> [Generation -> AttemptStatus]]
    BY <1>1, <1>3 DEF TypeOK, AttemptStatus, LiveAttempt
  <2>2. lease' \in [Task -> [Generation -> TimeLeft]]
    BY <1>1, <1>3 DEF TypeOK, TimeLeft
  <2>3. task' \in [Task -> TaskStatus]
    BY <1>1, <1>3 DEF TypeOK, TaskStatus, LiveTask
  <2>4. alarm' \in AlarmTime
    BY <1>3, ArmedTyped DEF TypeOK
  <2> QED BY <1>2, <2>1, <2>2, <2>3, <2>4 DEF CommitAttempt, TypeOK
<1>4. CASE UNCHANGED <<attempt, lease, task, alarm>>
  BY <1>2, <1>4 DEF CommitAttempt, TypeOK
<1> QED BY <1>3, <1>4 DEF CommitAttempt

(***************************************************************************)
(* So do the requests of machines.                                         *)
(***************************************************************************)
LEMMA AnswerTyped ==
  ASSUME TypeOK, NEW h \in suspended, h.kind # "create",
         RejectFenced(h) \/ RenewLease(h) \/ SubmitEvents(h) \/ SubmitCancelled(h)
  PROVE  TypeOK'
<1>1. h.task \in Task /\ h.generation \in Generation
  BY FencedTyped
<1>2. suspended' \subseteq Create \cup Fenced
  BY DEF RejectFenced, RenewLease, SubmitEvents, SubmitCancelled, Answer, TypeOK
<1>3. ASSUME StartIfPending(h, task, attempt)
      PROVE  /\ task' \in [Task -> TaskStatus]
             /\ attempt' \in [Task -> [Generation -> AttemptStatus]]
  <2>1. "running" \in AttemptStatus /\ "running" \in TaskStatus
    BY DEF AttemptStatus, LiveAttempt, TaskStatus, LiveTask
  <2>2. /\ task' = task \/ task' = [task EXCEPT ![h.task] = "running"]
        /\ \/ attempt' = attempt
           \/ attempt' = [attempt EXCEPT ![h.task][h.generation] = "running"]
    BY <1>3, StartCases
  <2>3. /\ [task EXCEPT ![h.task] = "running"] \in [Task -> TaskStatus]
        /\ [attempt EXCEPT ![h.task][h.generation] = "running"]
             \in [Task -> [Generation -> AttemptStatus]]
    BY <1>1, <2>1, WriteTyped
  <2>4. task' \in [Task -> TaskStatus]
    BY <2>2, <2>3 DEF TypeOK
  <2>5. attempt' \in [Task -> [Generation -> AttemptStatus]]
    BY <2>2, <2>3 DEF TypeOK
  <2> QED BY <2>4, <2>5
<1>4. CASE RejectFenced(h)
  BY <1>2, <1>4 DEF RejectFenced, TypeOK, tables
<1>5. CASE RenewLease(h)
  <2>1. lease' \in [Task -> [Generation -> TimeLeft]]
    BY <1>1, <1>5 DEF RenewLease, TypeOK, TimeLeft
  <2>2. alarm' \in AlarmTime
    BY <1>5, ArmedTyped DEF RenewLease, TypeOK
  <2> QED BY <1>2, <1>5, <2>1, <2>2 DEF RenewLease, TypeOK
<1>6. CASE SubmitEvents(h)
  BY <1>2, <1>3, <1>6 DEF SubmitEvents, TypeOK
<1>7. CASE SubmitCancelled(h)
  <2>1. /\ task' \in [Task -> TaskStatus]
        /\ attempt' \in [Task -> [Generation -> AttemptStatus]]
        /\ cancellation' \in [Task -> CancellationState]
    <3>1. "cancelled" \in AttemptStatus /\ "cancelled" \in TaskStatus
      BY DEF AttemptStatus, TerminalAttempt, TaskStatus, TerminalTask
    <3>2. [cancellation EXCEPT ![h.task] = "confirmed"] \in [Task -> CancellationState]
      BY <1>1 DEF TypeOK, CancellationState
    <3>3. /\ [task EXCEPT ![h.task] = "cancelled"] \in [Task -> TaskStatus]
          /\ [attempt EXCEPT ![h.task][h.generation] = "cancelled"]
               \in [Task -> [Generation -> AttemptStatus]]
      BY <1>1, <3>1, WriteTyped
    <3>4. CASE StartIfPending(h, task, attempt) /\ cancellation' = cancellation
      BY <1>3, <3>4 DEF TypeOK
    <3>5. CASE UNCHANGED <<task, attempt, cancellation>>
      BY <3>5 DEF TypeOK
    <3>6. CASE /\ cancellation' = [cancellation EXCEPT ![h.task] = "confirmed"]
               /\ task' = [task EXCEPT ![h.task] = "cancelled"]
               /\ \/ attempt' = attempt
                  \/ attempt' = [attempt EXCEPT ![h.task][h.generation] = "cancelled"]
      <4>1. attempt' \in [Task -> [Generation -> AttemptStatus]]
        BY <3>3, <3>6 DEF TypeOK
      <4> QED BY <3>2, <3>3, <3>6, <4>1
    <3> QED BY <1>7, <3>4, <3>5, <3>6, CancelledCases
  <2> QED BY <1>2, <1>7, <2>1 DEF SubmitCancelled, TypeOK
<1> QED BY <1>4, <1>5, <1>6, <1>7

(***************************************************************************)
(* Every action of the cell keeps the types.                               *)
(***************************************************************************)
LEMMA TypeNext == TypeOK /\ [Next]_vars => TypeOK'
<1> SUFFICES ASSUME TypeOK, [Next]_vars
             PROVE  TypeOK'
  OBVIOUS
<1>1. ASSUME NEW t \in Task, CreateTask(t) \/ CancelTask(t)
      PROVE  TypeOK'
  BY <1>1 DEF CreateTask, CancelTask, TypeOK, TaskStatus, LiveTask,
              TerminalTask, CancellationState
<1>2. ASSUME NEW t \in Task, SignalCancellation(t)
      PROVE  TypeOK'
  BY <1>2 DEF SignalCancellation, TypeOK, CancellationState
<1>3. ASSUME NEW t \in Task, NEW outcome \in {"succeeded", "failed"},
             CompleteTask(t, outcome)
      PROVE  TypeOK'
  <2>1. EndedAttempts(t, outcome) \in [Generation -> AttemptStatus]
    BY DEF EndedAttempts, TypeOK, AttemptStatus, TerminalAttempt
  <2>2. task' \in [Task -> TaskStatus]
    BY <1>3 DEF CompleteTask, TypeOK, TaskStatus, TerminalTask
  <2> QED BY <1>3, <2>1, <2>2 DEF CompleteTask, TypeOK
<1>4. ASSUME NEW t \in Task, BeginAttempt(t)
      PROVE  TypeOK'
  <2>1. PICK g \in Generation, r \in 1 .. MaxSuspended :
          suspended' = suspended \cup {[kind |-> "create", task |-> t,
                                        generation |-> g, request |-> r]}
    BY <1>4 DEF BeginAttempt, Suspend
  <2>2. [kind |-> "create", task |-> t, generation |-> g, request |-> r] \in Create
    BY DEF Create
  <2> QED BY <1>4, <2>1, <2>2 DEF BeginAttempt, TypeOK, tables
<1>5. ASSUME NEW t \in Task, NEW g \in Generation,
             NEW kind \in {"renew", "events", "cancelled"},
             BeginFenced(kind, t, g)
      PROVE  TypeOK'
  <2> DEFINE new == [kind |-> kind, task |-> t, generation |-> g,
                     status |-> attempt[t][g], lease |-> lease[t][g]]
  <2>1. attempt[t][g] \in LiveAttempt \cup TerminalAttempt
    BY <1>5 DEF BeginFenced, TypeOK, AttemptStatus
  <2>2. lease[t][g] \in TimeLeft
    BY DEF TypeOK
  <2>3. new \in Fenced
    BY <2>1, <2>2 DEF Fenced
  <2>4. suspended' = suspended \cup {new}
    BY <1>5 DEF BeginFenced, Suspend
  <2> QED BY <1>5, <2>3, <2>4 DEF BeginFenced, TypeOK, tables
<1>6. ASSUME NEW h \in suspended, Handle(h)
      PROVE  TypeOK'
  <2>1. h.kind = "create" <=> CommitAttempt(h)
    BY <1>6 DEF Handle, CommitAttempt, RejectFenced, RenewLease, SubmitEvents,
                SubmitCancelled
  <2> QED BY <1>6, <2>1, CommitTyped, AnswerTyped DEF Handle
<1>7. CASE Alarm
  <2>1. attempt' \in [Task -> [Generation -> AttemptStatus]]
    BY <1>7 DEF Alarm, TypeOK, AttemptStatus, TerminalAttempt
  <2>2. task' \in [Task -> TaskStatus]
    BY <1>7 DEF Alarm, AfterExpiry, TypeOK, TaskStatus, LiveTask, TerminalTask
  <2>3. revoked' \in [Task -> [Generation -> BOOLEAN]]
    BY <1>7, Zenon DEF Alarm, TypeOK
  <2>4. alarm' \in AlarmTime
    BY <1>7, ArmedTyped DEF Alarm, AlarmTime
  <2> QED BY <1>7, <2>1, <2>2, <2>3, <2>4 DEF Alarm, TypeOK
<1>8. CASE Tick
  <2>1. \A n \in TimeLeft : Later(n) \in TimeLeft
    BY DEF Later, TimeLeft
  <2>2. lease' \in [Task -> [Generation -> TimeLeft]]
    BY <1>8, <2>1 DEF Tick, TypeOK
  <2>3. ASSUME NEW h \in suspended, h.kind # "create"
        PROVE  [h EXCEPT !.lease = Later(@)] \in Fenced
    BY <2>1, <2>3, FencedTyped DEF Fenced
  <2>4. \A h \in suspended : h.kind = "create" => h \in Create
    BY DEF TypeOK, Fenced
  <2>5. suspended' \subseteq Create \cup Fenced
    BY <1>8, <2>3, <2>4 DEF Tick
  <2>6. alarm' \in AlarmTime
    BY <1>8 DEF Tick, TypeOK, AlarmTime
  <2> QED BY <1>8, <2>2, <2>5, <2>6 DEF Tick, TypeOK
<1>9. CASE Restart
  <2>1. alarm' \in AlarmTime
    BY <1>9, ArmedTyped DEF Restart, TypeOK
  <2> QED BY <1>9, <2>1 DEF Restart, TypeOK, tables
<1>10. CASE UNCHANGED vars
  BY <1>10 DEF vars, tables, TypeOK
<1> QED BY <1>1, <1>2, <1>3, <1>4, <1>5, <1>6, <1>7, <1>8, <1>9, <1>10 DEF Next

(***************************************************************************)
(* The tables of an empty cell have these types.                           *)
(***************************************************************************)
LEMMA InitTyped == Init => TypeOK
  BY DEF Init, TypeOK, TaskStatus, CancellationState, AttemptStatus, TimeLeft,
         AlarmTime

(***************************************************************************)
(* The tables of a TaskCell and its suspended handlers keep their types.   *)
(***************************************************************************)
THEOREM TypeCorrect == Spec => []TypeOK
  BY InitTyped, TypeNext, PTL DEF Spec

------------------------------------------------------------------------------
(* Attempts. *)

(***************************************************************************)
(* What a step can do to the rows of the attempts: move live ones to       *)
(* running or to a terminal status, or insert one under a suspended        *)
(* createAttempt.  No handler touches the row of an attempt that ended,    *)
(* and a createAttempt is suspended only above attempts that have ended.   *)
(***************************************************************************)
LEMMA AttemptStep ==
  ASSUME TypeOK, [Next]_vars
  PROVE  \/ /\ \A t \in Task, g \in Generation :
                 \/ attempt'[t][g] = attempt[t][g]
                 \/ IsLive(t, g) /\ attempt'[t][g] \in {"running"} \cup TerminalAttempt
            /\ \A c \in suspended' :
                 c.kind = "create" =>
                   \/ c \in suspended
                   \/ \A g \in Generation :
                        g < c.generation => attempt[c.task][g] \in TerminalAttempt
         \/ \E c \in suspended :
              /\ c.kind = "create"
              /\ attempt[c.task][c.generation] = "none"
              /\ attempt' = [attempt EXCEPT ![c.task][c.generation] = "pending"]
              /\ alarm' = Armed(attempt', alarm)
              /\ suspended' \subseteq suspended
<1> DEFINE Rows == \A t \in Task, g \in Generation :
                     \/ attempt'[t][g] = attempt[t][g]
                     \/ /\ IsLive(t, g)
                        /\ attempt'[t][g] \in {"running"} \cup TerminalAttempt
<1>1. ASSUME NEW t \in Task,
             CreateTask(t) \/ CancelTask(t) \/ SignalCancellation(t)
      PROVE  Rows /\ suspended' = suspended
  BY <1>1 DEF CreateTask, CancelTask, SignalCancellation
<1>2. ASSUME NEW t \in Task, NEW outcome \in {"succeeded", "failed"},
             CompleteTask(t, outcome)
      PROVE  Rows /\ suspended' = suspended
  BY <1>2 DEF CompleteTask, EndedAttempts, TypeOK, TerminalAttempt
<1>3. ASSUME NEW t \in Task, BeginAttempt(t)
      PROVE  /\ Rows
             /\ \E c : /\ suspended' = suspended \cup {c}
                       /\ \A g \in Generation :
                            g < c.generation => attempt[c.task][g] \in TerminalAttempt
  <2>1. PICK g \in Generation, r \in 1 .. MaxSuspended :
          /\ \A h \in Generation : h < g => attempt[t][h] # "none"
          /\ suspended' = suspended \cup {[kind |-> "create", task |-> t,
                                           generation |-> g, request |-> r]}
    BY <1>3 DEF BeginAttempt, Suspend
  <2>2. \A h \in Generation : h < g => attempt[t][h] \in TerminalAttempt
    BY <1>3, <2>1 DEF BeginAttempt, WorkspaceIdle, IsLive, TypeOK, AttemptStatus
  <2>3. attempt' = attempt
    BY <1>3 DEF BeginAttempt, tables
  <2> DEFINE c == [kind |-> "create", task |-> t, generation |-> g, request |-> r]
  <2>4. c.generation = g /\ c.task = t
    OBVIOUS
  <2>5. suspended' = suspended \cup {c}
    BY <2>1
  <2> HIDE DEF c
  <2> QED BY <2>2, <2>3, <2>4, <2>5
<1>4. ASSUME NEW t \in Task, NEW g \in Generation,
             NEW kind \in {"renew", "events", "cancelled"},
             BeginFenced(kind, t, g)
      PROVE  /\ Rows
             /\ \E c : c.kind # "create" /\ suspended' = suspended \cup {c}
  BY <1>4 DEF BeginFenced, Suspend, tables
<1>5. ASSUME NEW h \in suspended, CommitAttempt(h)
      PROVE  /\ suspended' \subseteq suspended
             /\ \/ Rows
                \/ /\ h.kind = "create"
                   /\ attempt[h.task][h.generation] = "none"
                   /\ attempt' = [attempt EXCEPT ![h.task][h.generation] = "pending"]
                   /\ alarm' = Armed(attempt', alarm)
  BY <1>5 DEF CommitAttempt
<1>6. ASSUME NEW h \in suspended, h.kind # "create",
             RejectFenced(h) \/ RenewLease(h) \/ SubmitEvents(h) \/ SubmitCancelled(h)
      PROVE  Rows /\ suspended' \subseteq suspended
  <2>1. h.task \in Task /\ h.generation \in Generation
    BY <1>6, FencedTyped
  <2>2. ASSUME StartIfPending(h, task, attempt)
        PROVE  Rows
    <3>1. \/ attempt' = attempt
          \/ /\ IsLive(h.task, h.generation)
             /\ attempt' = [attempt EXCEPT ![h.task][h.generation] = "running"]
      BY <1>6, <2>2, StartCases
    <3>2. CASE attempt' = [attempt EXCEPT ![h.task][h.generation] = "running"]
      BY <2>1, <3>1, <3>2 DEF TypeOK
    <3>3. CASE attempt' = attempt
      BY <3>3
    <3> QED BY <3>1, <3>2, <3>3
  <2>3. CASE RejectFenced(h) \/ RenewLease(h)
    BY <2>3 DEF RejectFenced, RenewLease, Answer, tables
  <2>4. CASE SubmitEvents(h)
    BY <2>2, <2>4 DEF SubmitEvents, Answer
  <2>5. CASE SubmitCancelled(h)
    <3>1. suspended' \subseteq suspended
      BY <2>5 DEF SubmitCancelled, Answer
    <3>2. Rows
      <4>1. \/ StartIfPending(h, task, attempt)
            \/ attempt' = attempt
            \/ /\ IsLive(h.task, h.generation)
               /\ attempt' = [attempt EXCEPT ![h.task][h.generation] = "cancelled"]
        BY <2>5, CancelledCases
      <4>2. CASE /\ IsLive(h.task, h.generation)
                 /\ attempt' = [attempt EXCEPT ![h.task][h.generation] = "cancelled"]
        BY <2>1, <4>2 DEF TypeOK, TerminalAttempt
      <4>3. CASE attempt' = attempt
        BY <4>3
      <4> QED BY <2>2, <4>1, <4>2, <4>3
    <3> QED BY <3>1, <3>2
  <2> QED BY <1>6, <2>3, <2>4, <2>5
<1>7. CASE Alarm
  <2>1. Rows /\ suspended' = suspended
    BY <1>7 DEF Alarm, Expired, TerminalAttempt
  <2> QED BY <2>1
<1>8. CASE Tick
  <2>1. attempt' = attempt
    BY <1>8 DEF Tick
  <2>2. ASSUME NEW h \in suspended, h.kind # "create"
        PROVE  [h EXCEPT !.lease = Later(@)].kind # "create"
    BY <2>2, FencedTyped DEF Fenced
  <2>3. \A c \in suspended' : c.kind = "create" => c \in suspended
    BY <1>8, <2>2 DEF Tick
  <2> QED BY <2>1, <2>3
<1>9. CASE Restart \/ UNCHANGED vars
  BY <1>9 DEF Restart, vars, tables
<1>10. ASSUME NEW h \in suspended, Handle(h)
       PROVE  CommitAttempt(h) \/ (h.kind # "create" /\ (RejectFenced(h)
                \/ RenewLease(h) \/ SubmitEvents(h) \/ SubmitCancelled(h)))
  BY <1>10 DEF Handle, RejectFenced, RenewLease, SubmitEvents, SubmitCancelled
<1> HIDE DEF Rows
<1>11. CASE \E t \in Task : BeginAttempt(t)
  BY <1>3, <1>11 DEF Rows
<1>12. CASE \E h \in suspended : Handle(h)
  <2>1. PICK h \in suspended : Handle(h)
    BY <1>12
  <2>2. CASE CommitAttempt(h)
    BY <1>5, <2>2 DEF Rows
  <2>3. CASE ~CommitAttempt(h)
    BY <1>6, <1>10, <2>1, <2>3 DEF Rows
  <2> QED BY <2>2, <2>3
<1>13. CASE \E t \in Task, g \in Generation,
               kind \in {"renew", "events", "cancelled"} : BeginFenced(kind, t, g)
  BY <1>4, <1>13 DEF Rows
<1>14. CASE \E t \in Task :
              \/ CreateTask(t) \/ CancelTask(t) \/ SignalCancellation(t)
              \/ \E outcome \in {"succeeded", "failed"} : CompleteTask(t, outcome)
  BY <1>1, <1>2, <1>14 DEF Rows
<1> QED BY <1>7, <1>8, <1>9, <1>11, <1>12, <1>13, <1>14 DEF Next

(***************************************************************************)
(* The rows of an empty cell have no gaps and nothing is live.             *)
(***************************************************************************)
LEMMA InitNewest == Init => NewestInv
<1> SUFFICES ASSUME Init
             PROVE  Contiguous /\ CreatedOnEnded /\ OnlyNewestLive
  BY InitTyped DEF NewestInv
<1> QED BY DEF Init, Contiguous, CreatedOnEnded, OnlyNewestLive, IsLive, LiveAttempt

(***************************************************************************)
(* A step that ends or starts live attempts, or inserts an attempt above   *)
(* ended ones, keeps every other generation ended or unused.               *)
(***************************************************************************)
LEMMA NewestNext == NewestInv /\ [Next]_vars => NewestInv'
<1> SUFFICES ASSUME NewestInv, [Next]_vars
             PROVE  Contiguous' /\ CreatedOnEnded' /\ OnlyNewestLive'
  BY TypeNext DEF NewestInv
<1> USE DEF NewestInv
<1>1. CASE /\ \A t \in Task, g \in Generation :
                \/ attempt'[t][g] = attempt[t][g]
                \/ IsLive(t, g) /\ attempt'[t][g] \in {"running"} \cup TerminalAttempt
           /\ \A c \in suspended' :
                c.kind = "create" =>
                  \/ c \in suspended
                  \/ \A g \in Generation :
                       g < c.generation => attempt[c.task][g] \in TerminalAttempt
  <2>1. \A t \in Task, g \in Generation :
          /\ attempt'[t][g] = "none" <=> attempt[t][g] = "none"
          /\ attempt[t][g] \in TerminalAttempt => attempt'[t][g] = attempt[t][g]
          /\ IsLive(t, g)' => IsLive(t, g)
    BY <1>1 DEF IsLive, LiveAttempt, TerminalAttempt
  <2>2. Contiguous'
    BY <2>1 DEF Contiguous
  <2>3. CreatedOnEnded'
    <3> SUFFICES ASSUME NEW c \in suspended', c.kind = "create"
                 PROVE  \A g \in Generation :
                          g < c.generation => attempt'[c.task][g] \in TerminalAttempt
      BY DEF CreatedOnEnded
    <3>1. c.task \in Task
      BY TypeNext DEF TypeOK, Create, Fenced
    <3>2. \A g \in Generation :
            g < c.generation => attempt[c.task][g] \in TerminalAttempt
      BY <1>1 DEF CreatedOnEnded
    <3> QED BY <2>1, <3>1, <3>2
  <2>4. OnlyNewestLive'
    BY <2>1 DEF OnlyNewestLive
  <2> QED BY <2>2, <2>3, <2>4
<1>2. ASSUME NEW c \in suspended, c.kind = "create",
             attempt[c.task][c.generation] = "none",
             attempt' = [attempt EXCEPT ![c.task][c.generation] = "pending"],
             suspended' \subseteq suspended
      PROVE  Contiguous' /\ CreatedOnEnded' /\ OnlyNewestLive'
  <2>1. c.task \in Task /\ c.generation \in Generation
    BY <1>2, CreateTyped
  <2>2. \A t \in Task, g \in Generation :
          attempt'[t][g] = IF t = c.task /\ g = c.generation THEN "pending"
                           ELSE attempt[t][g]
    BY <1>2, <2>1 DEF TypeOK
  <2>3. \A g \in Generation :
          /\ g < c.generation => attempt[c.task][g] \in TerminalAttempt
          /\ g >= c.generation => attempt[c.task][g] = "none"
    BY <1>2, <2>1 DEF CreatedOnEnded, Contiguous
  <2>4. Contiguous'
    BY <2>1, <2>2, <2>3 DEF Contiguous, TerminalAttempt
  <2>5. CreatedOnEnded'
    <3> SUFFICES ASSUME NEW d \in suspended, d.kind = "create",
                        NEW g \in Generation, g < d.generation
                 PROVE  attempt'[d.task][g] \in TerminalAttempt
      BY <1>2 DEF CreatedOnEnded
    <3>1. d.task \in Task
      BY CreateTyped
    <3>2. attempt[d.task][g] \in TerminalAttempt
      BY DEF CreatedOnEnded
    <3> QED BY <1>2, <2>2, <3>1, <3>2 DEF TerminalAttempt
  <2>6. OnlyNewestLive'
    <3> SUFFICES ASSUME NEW t \in Task, NEW g \in Generation, IsLive(t, g)',
                        NEW h \in Generation
                 PROVE  /\ h < g => attempt'[t][h] \in TerminalAttempt
                        /\ h > g => attempt'[t][h] = "none"
      BY DEF OnlyNewestLive
    <3>1. CASE t # c.task
      BY <2>2, <3>1 DEF OnlyNewestLive, IsLive
    <3>2. CASE t = c.task
      <4>1. g = c.generation
        BY <2>1, <2>2, <2>3, <3>2 DEF IsLive, LiveAttempt, TerminalAttempt
      <4> QED BY <2>1, <2>2, <2>3, <3>2, <4>1
    <3> QED BY <3>1, <3>2
  <2> QED BY <2>4, <2>5, <2>6
<1> QED BY <1>1, <1>2, AttemptStep

(***************************************************************************)
(* Of the attempts of a task only the newest is ever live, however many    *)
(* createAttempts have computed their generations at the same time.        *)
(***************************************************************************)
THEOREM NewestAttemptIsLive == Spec => []OnlyNewestLive
<1>1. NewestInv => OnlyNewestLive
  BY DEF NewestInv
<1> QED BY <1>1, InitNewest, NewestNext, PTL DEF Spec

(***************************************************************************)
(* No handler changes the status of an attempt that has ended, whatever    *)
(* copy of its row it holds.                                               *)
(***************************************************************************)
THEOREM EndedAttemptStays == Spec => EndedAttemptIsFinal
<1> DEFINE Stays == \A t \in Task, g \in Generation :
                      attempt[t][g] \in TerminalAttempt =>
                        attempt'[t][g] = attempt[t][g]
<1>1. TypeOK /\ [Next]_vars => [Stays]_vars
  <2> SUFFICES ASSUME TypeOK, [Next]_vars
               PROVE  Stays
    OBVIOUS
  <2>1. ASSUME NEW c \in suspended, c.kind = "create",
               attempt[c.task][c.generation] = "none",
               attempt' = [attempt EXCEPT ![c.task][c.generation] = "pending"]
        PROVE  Stays
    BY <2>1, CreateTyped DEF TypeOK, TerminalAttempt
  <2> QED BY <2>1, AttemptStep DEF IsLive, LiveAttempt, TerminalAttempt
<1> QED BY <1>1, TypeCorrect, PTL DEF Spec, EndedAttemptIsFinal

------------------------------------------------------------------------------
(* The alarm, the status of tasks, and their cancellation. *)

(***************************************************************************)
(* An alarm armed for the attempts that are live now is set.               *)
(***************************************************************************)
LEMMA ArmedIsSet ==
  ASSUME NEW at, NEW was,
         \E t \in Task, g \in Generation : at[t][g] \in LiveAttempt
  PROVE  Armed(at, was) >= 0
BY DEF Armed

(***************************************************************************)
(* The alarm is left alone, comes nearer, or is armed for what is live     *)
(* after the step.                                                         *)
(***************************************************************************)
LEMMA AlarmStep ==
  ASSUME [Next]_vars
  PROVE  \/ alarm' = alarm
         \/ alarm > 0 /\ alarm' = alarm - 1
         \/ alarm' = Armed(attempt', alarm)
         \/ alarm' = Armed(attempt', -1)
<1>1. ASSUME NEW t \in Task, NEW outcome \in {"succeeded", "failed"},
             \/ CreateTask(t) \/ BeginAttempt(t) \/ CancelTask(t)
             \/ SignalCancellation(t) \/ CompleteTask(t, outcome)
      PROVE  alarm' = alarm
  BY <1>1 DEF CreateTask, BeginAttempt, CancelTask, SignalCancellation, CompleteTask
<1>2. ASSUME NEW t, NEW g, NEW kind, BeginFenced(kind, t, g)
      PROVE  alarm' = alarm
  BY <1>2 DEF BeginFenced
<1>3. ASSUME NEW h \in suspended, CommitAttempt(h)
      PROVE  alarm' = alarm \/ alarm' = Armed(attempt', alarm)
  BY <1>3 DEF CommitAttempt
<1>4. ASSUME NEW h \in suspended, RenewLease(h)
      PROVE  alarm' = Armed(attempt', alarm)
  BY <1>4 DEF RenewLease
<1>5. ASSUME NEW h \in suspended,
             RejectFenced(h) \/ SubmitEvents(h) \/ SubmitCancelled(h)
      PROVE  alarm' = alarm
  BY <1>5 DEF RejectFenced, SubmitEvents, SubmitCancelled
<1>6. CASE Alarm
  BY <1>6 DEF Alarm
<1>7. CASE Tick
  BY <1>7 DEF Tick
<1>8. CASE Restart
  BY <1>8 DEF Restart, tables
<1>9. CASE UNCHANGED vars
  BY <1>9 DEF vars
<1> QED BY <1>1, <1>2, <1>3, <1>4, <1>5, <1>6, <1>7, <1>8, <1>9 DEF Next, Handle

WatchInv == TypeOK /\ LiveIsWatched

(***************************************************************************)
(* Whatever makes an attempt live arms the alarm, and the alarm and the    *)
(* next isolate arm it again for what is left.                             *)
(***************************************************************************)
LEMMA WatchNext == WatchInv /\ [Next]_vars => WatchInv'
<1> SUFFICES ASSUME TypeOK, LiveIsWatched, [Next]_vars,
                    NEW t \in Task, NEW g \in Generation, IsLive(t, g)'
             PROVE  alarm' >= 0
  BY TypeNext DEF WatchInv, LiveIsWatched
<1>1. CASE alarm' = Armed(attempt', alarm) \/ alarm' = Armed(attempt', -1)
  BY <1>1, ArmedIsSet DEF IsLive
<1>2. CASE ~(alarm' = Armed(attempt', alarm) \/ alarm' = Armed(attempt', -1))
  <2>1. IsLive(t, g)
    BY <1>2, AttemptStep DEF IsLive
  <2>2. alarm >= 0
    BY <2>1 DEF LiveIsWatched
  <2> QED BY <1>2, <2>2, AlarmStep DEF TypeOK, AlarmTime
<1> QED BY <1>1, <1>2

(***************************************************************************)
(* As long as an attempt is live the alarm that would collect its lease is *)
(* set.                                                                    *)
(***************************************************************************)
THEOREM LiveAttemptIsWatched == Spec => []LiveIsWatched
<1>1. Init => WatchInv
  BY InitTyped DEF Init, WatchInv, LiveIsWatched, IsLive, LiveAttempt
<1>2. WatchInv => LiveIsWatched
  BY DEF WatchInv
<1> QED BY <1>1, <1>2, WatchNext, PTL DEF Spec

AgreeInv == TypeOK /\ StatusAgrees

(***************************************************************************)
(* Each handler that ends attempts writes the task as well, and each that  *)
(* makes a task assigned or running has a live or running attempt for it.  *)
(***************************************************************************)
LEMMA AgreeNext == AgreeInv /\ [Next]_vars => AgreeInv'
<1> SUFFICES ASSUME TypeOK, StatusAgrees, [Next]_vars
             PROVE  StatusAgrees'
  BY TypeNext DEF AgreeInv
<1> USE DEF StatusAgrees, IsLive
<1>1. CASE UNCHANGED <<task, attempt>>
  BY <1>1
<1>2. ASSUME NEW t \in Task, CreateTask(t) \/ CancelTask(t)
      PROVE  StatusAgrees'
  BY <1>2 DEF CreateTask, CancelTask, TypeOK, LiveTask
<1>3. ASSUME NEW t \in Task, NEW outcome \in {"succeeded", "failed"},
             CompleteTask(t, outcome)
      PROVE  StatusAgrees'
  BY <1>3 DEF CompleteTask, TypeOK
<1>4. ASSUME NEW h \in suspended, CommitAttempt(h)
      PROVE  StatusAgrees'
  <2>1. h.task \in Task /\ h.generation \in Generation
    BY <1>4, CreateTyped DEF CommitAttempt
  <2>2. CASE /\ attempt[h.task][h.generation] = "none"
             /\ attempt' = [attempt EXCEPT ![h.task][h.generation] = "pending"]
             /\ task' = [task EXCEPT ![h.task] = "assigned"]
    <3>1. \A t \in Task : task'[t] = IF t = h.task THEN "assigned" ELSE task[t]
      BY <2>2 DEF TypeOK
    <3>2. \A t \in Task, g \in Generation :
            attempt'[t][g] = IF t = h.task /\ g = h.generation THEN "pending"
                             ELSE attempt[t][g]
      BY <2>2 DEF TypeOK
    <3> QED BY <2>1, <2>2, <3>1, <3>2 DEF LiveAttempt
  <2> QED BY <1>1, <1>4, <2>2 DEF CommitAttempt
<1>5. ASSUME NEW h \in suspended, h.kind # "create",
             StartIfPending(h, task, attempt)
      PROVE  StatusAgrees'
  <2>1. h.task \in Task /\ h.generation \in Generation
    BY <1>5, FencedTyped
  <2>2. CASE /\ attempt' = [attempt EXCEPT ![h.task][h.generation] = "running"]
             /\ \/ task' = task /\ task[h.task] = "cancelled"
                \/ task' = [task EXCEPT ![h.task] = "running"]
    <3>1. \A t \in Task : t # h.task => task'[t] = task[t]
      BY <2>2 DEF TypeOK
    <3>2. task'[h.task] \in {"cancelled", "running"}
      BY <2>1, <2>2 DEF TypeOK
    <3>3. \A t \in Task, g \in Generation :
            attempt'[t][g] = IF t = h.task /\ g = h.generation THEN "running"
                             ELSE attempt[t][g]
      BY <2>2 DEF TypeOK
    <3> QED BY <2>1, <3>1, <3>2, <3>3
  <2>3. \/ UNCHANGED <<task, attempt>>
        \/ /\ attempt' = [attempt EXCEPT ![h.task][h.generation] = "running"]
           /\ \/ task' = task /\ task[h.task] = "cancelled"
              \/ task' = [task EXCEPT ![h.task] = "running"]
    BY <1>5, StartCases
  <2> QED BY <1>1, <2>2, <2>3
<1>6. ASSUME NEW h \in suspended, SubmitCancelled(h)
      PROVE  StatusAgrees'
  <2>1. h.task \in Task /\ h.generation \in Generation /\ h.kind # "create"
    BY <1>6, FencedTyped DEF SubmitCancelled
  <2>2. CASE /\ task' = [task EXCEPT ![h.task] = "cancelled"]
             /\ \/ attempt' = attempt
                \/ attempt' = [attempt EXCEPT ![h.task][h.generation] = "cancelled"]
    <3>1. \A t \in Task : task'[t] = IF t = h.task THEN "cancelled" ELSE task[t]
      BY <2>2 DEF TypeOK
    <3>2. \A t \in Task : t # h.task => attempt'[t] = attempt[t]
      BY <2>2 DEF TypeOK
    <3> QED BY <3>1, <3>2
  <2> QED BY <1>1, <1>5, <1>6, <2>1, <2>2, CancelledCases
<1>7. CASE Alarm
  <2>1. ASSUME NEW t \in Task
        PROVE  \/ task'[t] \in {"pending", "failed"}
               \/ /\ task'[t] = task[t]
                  /\ \A g \in Generation : attempt'[t][g] = attempt[t][g]
    BY <1>7 DEF Alarm, AfterExpiry
  <2> QED BY <2>1
<1>8. ASSUME NEW h \in suspended, Handle(h)
      PROVE  StatusAgrees'
  <2>1. CASE RejectFenced(h) \/ RenewLease(h)
    BY <1>1, <2>1 DEF RejectFenced, RenewLease, tables
  <2>2. CASE SubmitEvents(h)
    BY <1>5, <2>2 DEF SubmitEvents
  <2> QED BY <1>4, <1>6, <1>8, <2>1, <2>2 DEF Handle
<1>9. ASSUME NEW t \in Task, NEW g \in Generation, NEW kind,
             BeginAttempt(t) \/ SignalCancellation(t) \/ BeginFenced(kind, t, g)
      PROVE  UNCHANGED <<task, attempt>>
  BY <1>9 DEF BeginAttempt, SignalCancellation, BeginFenced, tables
<1>10. CASE Tick \/ Restart \/ UNCHANGED vars
  BY <1>1, <1>10 DEF Tick, Restart, vars, tables
<1>11. 1 \in Generation
  OBVIOUS
<1> QED BY <1>1, <1>2, <1>3, <1>7, <1>8, <1>9, <1>10, <1>11 DEF Next

(***************************************************************************)
(* A task that is said to be in progress has an attempt that is.           *)
(***************************************************************************)
THEOREM StatusColumnsAgree == Spec => []StatusAgrees
<1>1. Init => AgreeInv
  BY InitTyped DEF Init, AgreeInv, StatusAgrees
<1>2. AgreeInv => StatusAgrees
  BY DEF AgreeInv
<1> QED BY <1>1, <1>2, AgreeNext, PTL DEF Spec

ConfirmInv == TypeOK /\ CancelledIsConfirmed

(***************************************************************************)
(* No transition leads out of confirmed, and only attempt.cancelled, which *)
(* confirms, makes an attempt cancelled.                                   *)
(***************************************************************************)
LEMMA ConfirmNext == ConfirmInv /\ [Next]_vars => ConfirmInv'
<1> SUFFICES ASSUME TypeOK, CancelledIsConfirmed, [Next]_vars
             PROVE  CancelledIsConfirmed'
  BY TypeNext DEF ConfirmInv
<1> USE DEF CancelledIsConfirmed
<1>1. ASSUME \A t \in Task, g \in Generation :
               attempt'[t][g] = "cancelled" => attempt[t][g] = "cancelled",
             cancellation' = cancellation
      PROVE  CancelledIsConfirmed'
  BY <1>1
<1>2. ASSUME NEW t \in Task, CancelTask(t)
      PROVE  CancelledIsConfirmed'
  <2>1. cancellation[t] # "confirmed"
    BY <1>2 DEF CancelTask, CanTransition, Rank
  <2> QED BY <1>2, <2>1 DEF CancelTask, TypeOK
<1>3. ASSUME NEW t \in Task, SignalCancellation(t)
      PROVE  CancelledIsConfirmed'
  BY <1>3 DEF SignalCancellation, TypeOK
<1>4. ASSUME NEW h \in suspended, SubmitCancelled(h)
      PROVE  CancelledIsConfirmed'
  <2>1. h.task \in Task /\ h.generation \in Generation /\ h.kind # "create"
    BY <1>4, FencedTyped DEF SubmitCancelled
  <2>2. CASE StartIfPending(h, task, attempt) /\ cancellation' = cancellation
    <3>1. CASE attempt' = attempt
      BY <1>1, <2>2, <3>1
    <3>2. CASE attempt' = [attempt EXCEPT ![h.task][h.generation] = "running"]
      BY <1>1, <2>1, <2>2, <3>2 DEF TypeOK
    <3> QED BY <2>1, <2>2, <3>1, <3>2, StartCases
  <2>3. CASE /\ cancellation' = [cancellation EXCEPT ![h.task] = "confirmed"]
             /\ \/ attempt' = attempt
                \/ attempt' = [attempt EXCEPT ![h.task][h.generation] = "cancelled"]
    <3>1. \A t \in Task : t # h.task => attempt'[t] = attempt[t]
      BY <2>3 DEF TypeOK
    <3>2. \A t \in Task : cancellation'[t] =
            IF t = h.task THEN "confirmed" ELSE cancellation[t]
      BY <2>3 DEF TypeOK
    <3> QED BY <3>1, <3>2
  <2> QED BY <1>1, <1>4, <2>2, <2>3, CancelledCases
<1>5. ASSUME NEW h \in suspended, Handle(h)
      PROVE  CancelledIsConfirmed'
  <2>1. CASE RejectFenced(h) \/ RenewLease(h)
    BY <1>1, <2>1 DEF RejectFenced, RenewLease, tables
  <2>2. CASE SubmitEvents(h)
    <3>1. /\ h.task \in Task /\ h.generation \in Generation /\ h.kind # "create"
          /\ StartIfPending(h, task, attempt) /\ cancellation' = cancellation
      BY <2>2, FencedTyped DEF SubmitEvents
    <3>2. CASE attempt' = attempt
      BY <1>1, <3>1, <3>2
    <3>3. CASE attempt' = [attempt EXCEPT ![h.task][h.generation] = "running"]
      BY <1>1, <3>1, <3>3 DEF TypeOK
    <3> QED BY <3>1, <3>2, <3>3, StartCases
  <2>3. CASE CommitAttempt(h)
    <3>1. h.task \in Task /\ h.generation \in Generation
      BY <2>3, CreateTyped DEF CommitAttempt
    <3>2. CASE attempt' = [attempt EXCEPT ![h.task][h.generation] = "pending"]
      BY <1>1, <2>3, <3>1, <3>2 DEF CommitAttempt, TypeOK
    <3> QED BY <1>1, <2>3, <3>2 DEF CommitAttempt
  <2> QED BY <1>4, <1>5, <2>1, <2>2, <2>3 DEF Handle
<1>6. ASSUME NEW t \in Task, NEW outcome \in {"succeeded", "failed"},
             CompleteTask(t, outcome)
      PROVE  CancelledIsConfirmed'
  BY <1>1, <1>6 DEF CompleteTask, EndedAttempts, TypeOK
<1>7. CASE Alarm
  BY <1>1, <1>7 DEF Alarm
<1>8. ASSUME NEW t \in Task, NEW g \in Generation, NEW kind,
             CreateTask(t) \/ BeginAttempt(t) \/ BeginFenced(kind, t, g)
      PROVE  UNCHANGED <<attempt, cancellation>>
  BY <1>8 DEF CreateTask, BeginAttempt, BeginFenced, tables
<1>9. CASE Tick \/ Restart \/ UNCHANGED vars
  BY <1>1, <1>9 DEF Tick, Restart, vars, tables
<1>10. 1 \in Generation
  OBVIOUS
<1> QED BY <1>1, <1>2, <1>3, <1>5, <1>6, <1>7, <1>8, <1>9, <1>10 DEF Next

(***************************************************************************)
(* An attempt counts as cancelled only when the cancellation of its task   *)
(* is confirmed, and stays so.                                             *)
(***************************************************************************)
THEOREM CancelledMeansConfirmed == Spec => []CancelledIsConfirmed
<1>1. Init => ConfirmInv
  BY InitTyped DEF Init, ConfirmInv, CancelledIsConfirmed
<1>2. ConfirmInv => CancelledIsConfirmed
  BY DEF ConfirmInv
<1> QED BY <1>1, <1>2, ConfirmNext, PTL DEF Spec

------------------------------------------------------------------------------
(* The conversations of a team (TeamState): types *)

USE ConvAssumption, TeamAssumption, TitleAssumption, LegacyAssumption,
    BoundsAssumption

(* Each bound is a number. *)
LEMMA BoundsAreNat ==
  /\ MaxRev \in Nat /\ MaxEvents \in Nat /\ MaxFaults \in Nat
BY BoundsAssumption

(***************************************************************************)
(* SetToSeq lists all of a finite set.                                     *)
(***************************************************************************)
LEMMA Listing ==
  ASSUME NEW S, IsFiniteSet(S)
  PROVE  /\ SetToSeq(S) \in Seq(S)
         /\ \A x \in S : \E i \in DOMAIN SetToSeq(S) : SetToSeq(S)[i] = x
<1> DEFINE n == Cardinality(S)
           f == SetToSeq(S)
<1>1. n \in Nat /\ Bijection(1 .. n, S) # {}
  BY FS_CardinalityType DEF ExistsBijection
<1>2. \E g \in [1 .. n -> S] : IsInjective(g)
  BY <1>1 DEF Bijection, Injection
<1>3. f \in [1 .. n -> S] /\ IsInjective(f)
  <2> DEFINE P(g) == g \in [1 .. n -> S] /\ IsInjective(g)
  <2>1. \E g : P(g)
    BY <1>2
  <2>2. f = CHOOSE g \in [1 .. n -> S] : IsInjective(g)
    BY DEF SetToSeq
  <2> QED BY <1>2, <2>2, Zenon
<1>4. f \in Injection(1 .. n, S)
  BY <1>3, Zenon DEF Injection
<1>5. IsFiniteSet(1 .. n) /\ Cardinality(1 .. n) = n
  BY <1>1, FS_Interval
<1> HIDE DEF f, n
<1>6. f \in Surjection(1 .. n, S)
  BY <1>4, <1>5, FS_Injection DEF n
<1>7. \A x \in S : \E i \in 1 .. n : f[i] = x
  BY <1>6, Zenon DEF Surjection
<1> QED BY <1>1, <1>3, <1>7 DEF f

(***************************************************************************)
(* A snapshot is of the rows: it has an event of each open conversation.   *)
(***************************************************************************)
LEMMA SnapshotIs ==
  ASSUME NEW rows \in [Conv -> Value]
  PROVE  /\ Snapshot(rows) \in Seq(Event)
         /\ \A i \in DOMAIN Snapshot(rows) :
              Snapshot(rows)[i].conv # Team =>
                /\ Snapshot(rows)[i].conv \in Conv
                /\ rows[Snapshot(rows)[i].conv].there
                /\ Snapshot(rows)[i].value = rows[Snapshot(rows)[i].conv]
         /\ \A c \in Conv : IsOpen(rows[c]) =>
              \E i \in DOMAIN Snapshot(rows) : Snapshot(rows)[i].conv = c
<1> DEFINE open == {d \in Conv : IsOpen(rows[d])}
           S == {EventOf(c, rows[c]) : c \in open}
           f == [c \in open |-> EventOf(c, rows[c])]
           s == SetToSeq(S)
           first == EventOf(Team, Absent)
<1>1. IsFiniteSet(S)
  <2>1. IsFiniteSet(open)
    BY FS_Subset, ConvAssumption
  <2>2. f \in Surjection(open, S)
    BY DEF Surjection
  <2> QED BY <2>1, <2>2, FS_Surjection
<1>2. s \in Seq(S) /\ \A x \in S : \E i \in DOMAIN s : s[i] = x
  BY <1>1, Listing
<1>3. S \subseteq Event
  BY DEF Event, EventOf
<1>4. first \in Event /\ first.conv = Team
  <2>1. AnyTitle \in Title
    BY TitleAssumption DEF AnyTitle
  <2> QED BY <2>1, BoundsAssumption DEF Event, EventOf, Absent, Value, Rev
<1>5. Snapshot(rows) = <<first>> \o s
  BY DEF Snapshot
<1>6. \A e \in S : /\ e.conv \in Conv /\ e.value = rows[e.conv]
                   /\ IsOpen(rows[e.conv])
  BY DEF EventOf
<1>7. ASSUME NEW c \in open
      PROVE  \E e \in S : e.conv = c
  <2>1. EventOf(c, rows[c]) \in S /\ EventOf(c, rows[c]).conv = c
    BY DEF EventOf
  <2> QED BY <2>1
<1> HIDE DEF first, s, S, open
<1>8. /\ s \in Seq(Event)
      /\ Snapshot(rows) \in Seq(Event) /\ Len(Snapshot(rows)) = 1 + Len(s)
      /\ Snapshot(rows)[1] = first
      /\ \A i \in DOMAIN s : Snapshot(rows)[i + 1] = s[i]
  BY <1>2, <1>3, <1>4, <1>5
<1>9. ASSUME NEW i \in DOMAIN Snapshot(rows), Snapshot(rows)[i].conv # Team
      PROVE  Snapshot(rows)[i] \in S
  <2>1. i # 1
    BY <1>4, <1>8, <1>9
  <2>2. i - 1 \in DOMAIN s /\ i = (i - 1) + 1
    BY <1>8, <2>1
  <2> QED BY <1>2, <1>8, <2>2
<1>10. ASSUME NEW c \in Conv, IsOpen(rows[c])
       PROVE  \E i \in DOMAIN Snapshot(rows) : Snapshot(rows)[i].conv = c
  <2>1. PICK e \in S : e.conv = c
    BY <1>7, <1>10 DEF open
  <2>2. PICK i \in DOMAIN s : s[i] = e
    BY <1>2
  <2>3. i + 1 \in DOMAIN Snapshot(rows)
    BY <1>8, <2>2
  <2> QED BY <1>8, <2>1, <2>2, <2>3
<1> QED BY <1>6, <1>8, <1>9, <1>10, Zenon DEF IsOpen

(***************************************************************************)
(* What a handler has to enqueue: events, of rows as they are now.         *)
(***************************************************************************)
LEMMA EmissionIs ==
  ASSUME NEW rows \in [Conv -> Value], NEW events \in Seq(Event)
  PROVE  /\ Emission(rows, events) \in Seq(Event)
         /\ NeedsSnapshot => Emission(rows, events) = Snapshot(rows)
         /\ ~NeedsSnapshot => Emission(rows, events) = events
BY SnapshotIs DEF Emission

(* The rows a conversation begins with are rows. *)
LEMMA AbsentTyped == Absent \in Value /\ Absent.rev = 0
<1>1. AnyTitle \in Title
  BY TitleAssumption DEF AnyTitle
<1> QED BY <1>1, BoundsAssumption DEF Absent, Value, Rev

(* A row that is there, with a title. *)
LEMMA RecordTyped ==
  ASSUME NEW value \in Value, NEW t \in Title
  PROVE  LET new == [value EXCEPT !.there = TRUE, !.title = t]
         IN  new \in Value /\ new.there
BY DEF Value

(***************************************************************************)
(* A mutation stores one conversation: a new one, at revision 0, or an old *)
(* one at a later revision.                                                *)
(***************************************************************************)
LEMMA MutateIs ==
  ASSUME TeamTypeOK, NEW h \in Handler, Mutate(h)
  PROVE  \E c \in Conv, value \in Value :
           /\ pc[h] = "idle" /\ Store(h, c, value) /\ value.there
           /\ row[c].there => row[c].rev < value.rev
<1> USE DEF TeamTypeOK
<1>1. ASSUME NEW c \in Conv, NEW t \in Title, CreateConversation(h, c, t)
      PROVE  /\ pc[h] = "idle" /\ Store(h, c, NewRow(t)) /\ ~row[c].there
             /\ NewRow(t) \in Value /\ NewRow(t).there
  <2>1. Absent \in Value /\ Absent.rev = 0
    BY AbsentTyped
  <2>2. NewRow(t) \in Value /\ NewRow(t).there
    BY <2>1, RecordTyped DEF NewRow
  <2> QED BY <1>1, <2>2 DEF CreateConversation
<1>2. ASSUME NEW c \in Conv, NEW t \in Title, NEW archived \in BOOLEAN,
             row[c].there, Patched(row[c], t, archived).rev \in Rev
      PROVE  /\ Patched(row[c], t, archived) \in Value
             /\ Patched(row[c], t, archived).there
             /\ row[c].rev < Patched(row[c], t, archived).rev
  <2> DEFINE r == row[c]
             value == Patched(r, t, archived)
  <2>1. r \in Value /\ r.rev \in Int
    BY DEF Value, Rev
  <2> HIDE DEF r
  <2>2. value = [r EXCEPT !.title = t, !.archived = archived, !.rev = r.rev + 1]
    BY DEF Patched
  <2> HIDE DEF value
  <2>3. value.rev = r.rev + 1 /\ value.there = r.there
    BY <2>1, <2>2 DEF Value
  <2>4. value \in Value
    BY <1>2, <2>1, <2>2, <2>3 DEF Value, r, value
  <2> QED BY <1>2, <2>1, <2>3, <2>4 DEF r, value
<1>3. ASSUME NEW c \in Conv, NEW archived \in BOOLEAN, PatchAnyway(h, c, archived)
      PROVE  \E value \in Value :
               /\ pc[h] = "idle" /\ Store(h, c, value) /\ value.there
               /\ row[c].rev < value.rev
  <2>1. row[c].title \in Title
    BY DEF Value
  <2> QED BY <1>2, <1>3, <2>1 DEF PatchAnyway, Store
<1>4. ASSUME NEW c \in Conv, NEW t \in Title, Rename(h, c, t)
      PROVE  \E value \in Value :
               /\ pc[h] = "idle" /\ Store(h, c, value) /\ value.there
               /\ row[c].rev < value.rev
  <2>1. row[c].archived \in BOOLEAN
    BY DEF Value
  <2> QED BY <1>2, <1>4, <2>1 DEF Rename, PatchConversation, Store
<1>5. ASSUME NEW c \in Conv, NEW status \in {"idle", "running"},
             NEW incoming \in Rev, Activity(h, c, status, incoming)
      PROVE  \E value \in Value :
               /\ pc[h] = "idle" /\ Store(h, c, value) /\ value.there
               /\ row[c].rev < value.rev
  <2> DEFINE value == [row[c] EXCEPT !.status = status,
                         !.rev = NextActivityRevision(row[c].rev, incoming)]
  <2>1. row[c] \in Value
    OBVIOUS
  <2>2. row[c].rev \in Int /\ incoming \in Int
    BY <2>1 DEF Value, Rev
  <2>3. /\ NextActivityRevision(row[c].rev, incoming) \in Int
        /\ row[c].rev < NextActivityRevision(row[c].rev, incoming)
    BY <2>2 DEF NextActivityRevision
  <2>4. pc[h] = "idle" /\ Store(h, c, value) /\ row[c].there
    BY <1>5 DEF Activity, IsOpen
  <2>5. value.rev \in Rev /\ row[c].rev < value.rev /\ value.there
    BY <2>1, <2>3, <2>4 DEF Store, Value
  <2>6. value \in Value
    BY <2>1, <2>5 DEF Value
  <2> QED BY <2>4, <2>5, <2>6
<1> QED BY <1>1, <1>3, <1>4, <1>5 DEF Mutate

(***************************************************************************)
(* publishTeamState keeps the types: it leaves the outbox alone and gives  *)
(* the handler its events.                                                 *)
(***************************************************************************)
LEMMA PublishTyped ==
  ASSUME TeamTypeOK, NEW h \in Handler, NEW rows \in [Conv -> Value],
         NEW events \in Seq(Event), Publish(h, rows, events)
  PROVE  /\ UNCHANGED <<publisher, outbox, acked, published, latest, again,
                       from, upto, late, faults>>
         /\ pc' \in [Handler -> Pcs]
         /\ todo' \in [Handler -> Seq(Event)]
         /\ pc'[h] = "enqueueing" /\ todo'[h] = Emission(rows, events)
         /\ \A g \in Handler \ {h} : pc'[g] = pc[g] /\ todo'[g] = todo[g]
BY EmissionIs DEF Publish, TeamTypeOK, Pcs, stream, flushes

(***************************************************************************)
(* A handler that stores a row changes this one, publishes it, and excuses *)
(* its conversation when an event of it is in hand.                        *)
(***************************************************************************)
LEMMA StoreTyped ==
  ASSUME TeamTypeOK, NEW h \in Handler, NEW c \in Conv, NEW value \in Value,
         Store(h, c, value)
  PROVE  /\ row' \in [Conv -> Value]
         /\ row'[c] = value /\ \A d \in Conv \ {c} : row'[d] = row[d]
         /\ <<EventOf(c, value)>> \in Seq(Event)
         /\ Publish(h, row', <<EventOf(c, value)>>)
         /\ blurred \subseteq blurred' /\ blurred' \subseteq blurred \cup {c}
         /\ (\E g \in Handler : c \in Pending(g)) => c \in blurred'
         /\ NeedsSnapshot /\ value.archived => c \in blurred'
<1>1. row' \in [Conv -> Value]
  BY DEF Store, TeamTypeOK
<1>2. EventOf(c, value) \in Event
  BY DEF EventOf, Event
<1>3. row'[c] = value /\ \A d \in Conv \ {c} : row'[d] = row[d]
  BY DEF Store, TeamTypeOK
<1> QED BY <1>1, <1>2, <1>3 DEF Store, Blur

(***************************************************************************)
(* The greatest of finitely many naturals.                                 *)
(***************************************************************************)
LEMMA MaxIsIn ==
  ASSUME NEW S \in SUBSET Nat, S # {}, IsFiniteSet(S)
  PROVE  Max(S) \in S /\ \A x \in S : x <= Max(S)
<1> DEFINE Above(x) == {y \in S : y > x}
           T == {Above(x) : x \in S}
           R == StrictSubsetOrdering(S)
<1>1. T \subseteq FiniteSubsetsOf(S)
  <2>1. \A x \in S : IsFiniteSet(Above(x)) /\ Above(x) \subseteq S
    BY FS_Subset
  <2> QED BY <2>1 DEF FiniteSubsetsOf
<1>2. PICK U \in T : \A V \in T : ~(<<V, U>> \in R)
  <2>1. IsWellFoundedOn(R, FiniteSubsetsOf(S))
    BY FS_StrictSubsetOrderingWellFounded
  <2>2. T # {}
    OBVIOUS
  <2> HIDE DEF R, T
  <2> QED BY <1>1, <2>1, <2>2, WFMin
<1>3. PICK m \in S : U = Above(m)
  OBVIOUS
<1>4. ASSUME NEW y \in S, y > m
      PROVE  FALSE
  <2>1. Above(y) \in SUBSET S /\ Above(m) \in SUBSET S /\ Above(y) \subseteq Above(m)
    <3>1. \A z \in S : z > y => z > m
      <4>1. m \in Nat /\ y \in Nat /\ \A z \in S : z \in Nat
        OBVIOUS
      <4> QED BY <4>1, <1>4
    <3> QED BY <3>1
  <2>2. y \in Above(m) /\ y \notin Above(y)
    BY <1>4
  <2>3. <<Above(y), Above(m)>> \in R
    BY <2>1, <2>2 DEF StrictSubsetOrdering
  <2> QED BY <2>3, <1>2, <1>3
<1>5. \A x \in S : m >= x
  BY <1>4
<1> QED BY <1>5 DEF Max

(***************************************************************************)
(* A batch that arrives shows its last event of each conversation that it  *)
(* has one of, and there is no later one in the stream unless this one was *)
(* there before.                                                           *)
(***************************************************************************)
LEMMA ReceiveIs ==
  ASSUME TeamTypeOK, NEW first \in 0 .. published, NEW last \in 0 .. Len(outbox),
         Receive(first, last)
  PROVE  /\ published' \in published .. Len(outbox) /\ last <= published'
         /\ latest' \in [Conv -> 0 .. published'] /\ again' \subseteq Conv
         /\ \A c \in Conv \ again' :
              \/ /\ c \notin again /\ latest'[c] = latest[c]
                 /\ \A i \in 1 .. published' : i > published => outbox[i].conv # c
              \/ /\ latest'[c] \in 1 .. published' /\ outbox[latest'[c]].conv = c
                 /\ \A i \in 1 .. published' : i > latest'[c] => outbox[i].conv # c
<1>1. PICK seen \in SUBSET {i \in first + 1 .. last : i <= published} :
        /\ latest' = [c \in Conv |->
                        IF Of(c, (first + 1 .. last) \ seen) = {} THEN latest[c]
                        ELSE Max(Of(c, (first + 1 .. last) \ seen))]
        /\ again' = {c \in Conv :
                       IF Of(c, (first + 1 .. last) \ seen) = {} THEN c \in again
                       ELSE Max(Of(c, (first + 1 .. last) \ seen)) <= published}
        /\ published' = Larger(published, last)
  BY DEF Receive
<1> DEFINE sent == (first + 1 .. last) \ seen
<1>2. /\ Len(outbox) \in Nat /\ published \in 0 .. Len(outbox)
      /\ latest \in [Conv -> 0 .. published]
  BY DEF TeamTypeOK
<1>3. /\ published' \in published .. Len(outbox) /\ last <= published'
      /\ published' = published \/ published' = last
  BY <1>1, <1>2 DEF Larger
<1>4. /\ \A i \in sent : i \in 1 .. published' /\ i \in Nat
      /\ \A i \in 1 .. published' : i > published => i \in sent
  BY <1>2, <1>3
<1>5. IsFiniteSet(sent)
  <2>1. first + 1 \in Int /\ last \in Int
    BY <1>2
  <2>2. IsFiniteSet(first + 1 .. last)
    BY <2>1, FS_Interval
  <2>3. sent \subseteq first + 1 .. last
    OBVIOUS
  <2> HIDE DEF sent
  <2> QED BY <2>2, <2>3, FS_Subset
<1>6. /\ latest' = [c \in Conv |-> IF Of(c, sent) = {} THEN latest[c]
                                   ELSE Max(Of(c, sent))]
      /\ again' = {c \in Conv : IF Of(c, sent) = {} THEN c \in again
                                 ELSE Max(Of(c, sent)) <= published}
  BY <1>1
<1> HIDE DEF sent
<1>7. ASSUME NEW c \in Conv, Of(c, sent) # {}
      PROVE  /\ Max(Of(c, sent)) \in 1 .. published'
             /\ outbox[Max(Of(c, sent))].conv = c
             /\ \A i \in Of(c, sent) : i <= Max(Of(c, sent))
  <2>1. Of(c, sent) \in SUBSET Nat /\ IsFiniteSet(Of(c, sent))
    BY <1>4, <1>5, FS_Subset DEF Of
  <2>2. Max(Of(c, sent)) \in Of(c, sent)
    BY <1>7, <2>1, MaxIsIn
  <2>3. \A i \in Of(c, sent) : i <= Max(Of(c, sent))
    BY <1>7, <2>1, MaxIsIn
  <2> QED BY <1>4, <2>2, <2>3 DEF Of
<1>8. latest' \in [Conv -> 0 .. published']
  <2>1. ASSUME NEW c \in Conv
        PROVE  latest'[c] \in 0 .. published'
    <3>1. CASE Of(c, sent) = {}
      BY <1>2, <1>3, <1>6, <3>1
    <3>2. CASE Of(c, sent) # {}
      BY <1>2, <1>3, <1>6, <1>7, <3>2
    <3> QED BY <3>1, <3>2
  <2> QED BY <1>6, <2>1
<1>9. ASSUME NEW c \in Conv \ again'
      PROVE  \/ /\ c \notin again /\ latest'[c] = latest[c]
                /\ \A i \in 1 .. published' : i > published => outbox[i].conv # c
             \/ /\ latest'[c] \in 1 .. published' /\ outbox[latest'[c]].conv = c
                /\ \A i \in 1 .. published' : i > latest'[c] => outbox[i].conv # c
  <2>1. CASE Of(c, sent) = {}
    BY <1>4, <1>6, <1>9, <2>1 DEF Of
  <2>2. CASE Of(c, sent) # {}
    <3> DEFINE m == Max(Of(c, sent))
    <3>1. latest'[c] = m /\ ~(m <= published)
      BY <1>6, <1>9, <2>2
    <3>2. m \in 1 .. published' /\ outbox[m].conv = c /\ \A i \in Of(c, sent) : i <= m
      BY <1>7, <2>2
    <3> HIDE DEF m
    <3>3. ASSUME NEW i \in 1 .. published', i > m
          PROVE  outbox[i].conv # c
      <4>1. i \in sent
        BY <1>2, <1>3, <1>4, <3>1, <3>2, <3>3
      <4> QED BY <1>2, <1>3, <3>2, <3>3, <4>1 DEF Of
    <3> QED BY <3>1, <3>2, <3>3
  <2> QED BY <2>1, <2>2
<1>10. again' \subseteq Conv
  BY <1>6
<1> QED BY <1>3, <1>8, <1>9, <1>10

(* A batch that arrives keeps the types. *)
LEMMA ReceivedTyped ==
  ASSUME TeamTypeOK, NEW first \in 0 .. published, NEW last \in 0 .. Len(outbox),
         Receive(first, last),
         UNCHANGED <<row, publisher, outbox, acked, todo, from, upto, blurred, faults>>,
         pc' \in [Handler -> Pcs], late' \subseteq late
  PROVE  TeamTypeOK'
<1>1. /\ published' \in published .. Len(outbox)
      /\ latest' \in [Conv -> 0 .. published'] /\ again' \subseteq Conv
  BY ReceiveIs
<1>2. Len(outbox) \in Nat /\ published \in 0 .. Len(outbox)
  BY DEF TeamTypeOK
<1>3. published' \in 0 .. Len(outbox) /\ 0 .. published \subseteq 0 .. published'
  BY <1>1, <1>2
<1>4. /\ acked \in 0 .. published' /\ from \in [Handler -> 0 .. published']
      /\ late' \subseteq [from : 0 .. published', upto : 0 .. Len(outbox)]
  <2> DEFINE had == 0 .. published
             has == 0 .. published'
             ids == 0 .. Len(outbox)
  <2>1. /\ acked \in had /\ from \in [Handler -> had]
        /\ late \subseteq [from : had, upto : ids] /\ had \subseteq has
    BY <1>3 DEF TeamTypeOK
  <2> HIDE DEF had, has, ids
  <2>2. /\ acked \in has /\ from \in [Handler -> has]
        /\ late' \subseteq [from : has, upto : ids]
    BY <2>1
  <2> QED BY <2>2 DEF has, ids
<1> QED BY <1>1, <1>3, <1>4 DEF TeamTypeOK

(* A flush that ends has read nothing. *)
LEMMA EndFlushTyped ==
  ASSUME TeamTypeOK, NEW h \in Handler, EndFlush(h)
  PROVE  /\ from' \in [Handler -> 0 .. published]
         /\ upto' \in [Handler -> 0 .. Len(outbox)]
<1>1. 0 \in 0 .. published /\ 0 \in 0 .. Len(outbox)
  BY DEF TeamTypeOK
<1> QED BY <1>1 DEF EndFlush, TeamTypeOK

(* A request has rows of the outbox. *)
LEMMA RequestTyped ==
  ASSUME TeamTypeOK, NEW h \in Handler
  PROVE  Request(h) \in [from : 0 .. published, upto : 0 .. Len(outbox)]
BY DEF Request, TeamTypeOK

\* A flush marks rows only when the stream has them.
AnswersArrived == \A h \in Handler : pc[h] = "answered" => upto[h] <= published

(* The steps keep the types. *)
LEMMA TeamTypeNext ==
  ASSUME TeamTypeOK, AnswersArrived, [TeamNext]_teamVars
  PROVE  TeamTypeOK'
<1>1. ASSUME NEW h \in Handler, Mutate(h)
      PROVE  TeamTypeOK'
  <2>1. PICK c \in Conv, value \in Value : Store(h, c, value)
    BY <1>1, MutateIs
  <2>2. row' \in [Conv -> Value] /\ <<EventOf(c, value)>> \in Seq(Event)
    BY <2>1, StoreTyped
  <2>3. Publish(h, row', <<EventOf(c, value)>>)
    BY <2>1, StoreTyped
  <2>5. blurred' \subseteq blurred \cup {c}
    BY <2>1, StoreTyped
  <2>6. blurred' \subseteq Conv
    BY <2>5 DEF TeamTypeOK
  <2>4. /\ UNCHANGED <<publisher, outbox, acked, published, latest, again,
                       from, upto, late, faults>>
        /\ pc' \in [Handler -> Pcs]
        /\ todo' \in [Handler -> Seq(Event)]
    BY <2>2, <2>3, PublishTyped
  <2> QED BY <2>2, <2>4, <2>6 DEF TeamTypeOK
<1>2. ASSUME NEW h \in Handler, EnsureSnapshot(h)
      PROVE  TeamTypeOK'
  <2>1. Publish(h, row, <<>>) /\ UNCHANGED <<row, blurred>>
    BY <1>2 DEF EnsureSnapshot
  <2>2. row \in [Conv -> Value] /\ <<>> \in Seq(Event)
    BY DEF TeamTypeOK
  <2>3. /\ UNCHANGED <<publisher, outbox, acked, published, latest, again,
                       from, upto, late, faults>>
        /\ pc' \in [Handler -> Pcs]
        /\ todo' \in [Handler -> Seq(Event)]
    BY <2>1, <2>2, PublishTyped
  <2> QED BY <2>1, <2>3 DEF TeamTypeOK
<1>3. ASSUME NEW h \in Handler, Enqueue(h)
      PROVE  TeamTypeOK'
  <2>1. todo[h] \in Seq(Event) /\ todo[h] # <<>>
    BY <1>3 DEF Enqueue, TeamTypeOK
  <2>2. Head(todo[h]) \in Event /\ Tail(todo[h]) \in Seq(Event)
    BY <2>1
  <2>3. outbox' \in Seq(Event) /\ Len(outbox') = Len(outbox) + 1
    BY <1>3, <2>2 DEF Enqueue, TeamTypeOK
  <2>4. Len(outbox) \in Nat /\ 0 .. Len(outbox) \subseteq 0 .. Len(outbox')
    BY <2>3 DEF TeamTypeOK
  <2>7. UNCHANGED <<row, publisher, acked, published, latest, again, pc, from, upto,
                    late, blurred, faults>>
    BY <1>3 DEF Enqueue, stream, flushes
  <2>5. /\ published' \in 0 .. Len(outbox')
        /\ upto' \in [Handler -> 0 .. Len(outbox')]
        /\ late' \subseteq [from : 0 .. published', upto : 0 .. Len(outbox')]
    BY <2>4, <2>7 DEF TeamTypeOK
  <2>6. todo' \in [Handler -> Seq(Event)]
    BY <1>3, <2>2 DEF Enqueue, TeamTypeOK
  <2> QED BY <2>3, <2>5, <2>6, <2>7 DEF TeamTypeOK
<1>4. ASSUME NEW h \in Handler, FlushPending(h) \/ Flush(h)
      PROVE  TeamTypeOK'
  <2>1. Len(outbox) \in Nat /\ acked \in 0 .. published
    BY DEF TeamTypeOK
  <2>2. /\ UNCHANGED <<row, publisher, outbox, acked, published, latest, again,
                       todo, late, blurred, faults>>
        /\ pc' \in [Handler -> Pcs]
        /\ \/ UNCHANGED <<from, upto>>
           \/ /\ from' = [from EXCEPT ![h] = acked]
              /\ upto' = [upto EXCEPT ![h] = Len(outbox)]
    BY <1>4 DEF FlushPending, Flush, StartFlush, Reads, TeamTypeOK, Pcs, stream
  <2>3. /\ from' \in [Handler -> 0 .. published]
        /\ upto' \in [Handler -> 0 .. Len(outbox)]
    <3> DEFINE had == 0 .. published
               ids == 0 .. Len(outbox)
    <3>1. /\ from \in [Handler -> had] /\ upto \in [Handler -> ids]
          /\ acked \in had /\ Len(outbox) \in ids
      BY <2>1 DEF TeamTypeOK
    <3> HIDE DEF had, ids
    <3>2. from' \in [Handler -> had] /\ upto' \in [Handler -> ids]
      BY <2>2, <3>1
    <3> QED BY <3>2 DEF had, ids
  <2> QED BY <2>2, <2>3 DEF TeamTypeOK
<1>8. ASSUME NEW h \in Handler, Connect(h)
      PROVE  TeamTypeOK'
  BY <1>8 DEF Connect, TeamTypeOK, Pcs, stream, flushes
<1>9. ASSUME NEW h \in Handler, Arrive(h)
      PROVE  TeamTypeOK'
  <2>1. from[h] \in 0 .. published /\ upto[h] \in 0 .. Len(outbox)
    BY DEF TeamTypeOK
  <2>2. Receive(from[h], upto[h])
    BY <1>9 DEF Arrive
  <2>3. UNCHANGED <<row, publisher, outbox, acked, todo, from, upto, late, blurred,
                    faults>> /\ pc' \in [Handler -> Pcs]
    BY <1>9 DEF Arrive, flushes, TeamTypeOK, Pcs
  <2> QED BY <2>1, <2>2, <2>3, ReceivedTyped
<1>10. ASSUME NEW request \in late, ArriveLate(request)
       PROVE  TeamTypeOK'
  <2>1. request.from \in 0 .. published /\ request.upto \in 0 .. Len(outbox)
    BY DEF TeamTypeOK
  <2>2. Receive(request.from, request.upto)
    BY <1>10 DEF ArriveLate
  <2>3. /\ UNCHANGED <<row, publisher, outbox, acked, todo, from, upto, blurred, faults>>
        /\ pc' \in [Handler -> Pcs] /\ late' \subseteq late
    BY <1>10 DEF ArriveLate, TeamTypeOK
  <2> QED BY <2>1, <2>2, <2>3, ReceivedTyped
<1>11. ASSUME NEW h \in Handler, MarkAcked(h)
       PROVE  TeamTypeOK'
  <2>1. /\ UNCHANGED <<row, publisher, outbox, published, latest, again, todo, late,
                       blurred, faults>>
        /\ pc' \in [Handler -> Pcs]
        /\ acked' = Larger(acked, upto[h]) /\ EndFlush(h) /\ upto[h] <= published
    BY <1>11 DEF MarkAcked, AnswersArrived, TeamTypeOK, Pcs, stream
  <2>2. acked' \in 0 .. published
    <3>1. upto[h] \in 0 .. Len(outbox) /\ acked \in 0 .. published
      BY DEF TeamTypeOK
    <3> QED BY <2>1, <3>1 DEF Larger
  <2>3. /\ from' \in [Handler -> 0 .. published]
        /\ upto' \in [Handler -> 0 .. Len(outbox)]
    BY <2>1, EndFlushTyped
  <2> QED BY <2>1, <2>2, <2>3 DEF TeamTypeOK
<1>5. ASSUME NEW h \in Handler, FlushFails(h)
      PROVE  TeamTypeOK'
  <2>1. /\ UNCHANGED <<row, publisher, outbox, acked, published, latest, again, todo,
                       blurred>>
        /\ pc' \in [Handler -> Pcs] /\ EndFlush(h)
        /\ late' \subseteq late \cup {Request(h)}
    BY <1>5 DEF FlushFails, TeamTypeOK, Pcs, stream
  <2>2. faults' \in 0 .. MaxFaults
    BY <1>5, BoundsAreNat DEF FlushFails, TeamTypeOK
  <2>3. /\ from' \in [Handler -> 0 .. published]
        /\ upto' \in [Handler -> 0 .. Len(outbox)]
    BY <2>1, EndFlushTyped
  <2>4. late' \subseteq [from : 0 .. published, upto : 0 .. Len(outbox)]
    BY <2>1, RequestTyped DEF TeamTypeOK
  <2> QED BY <2>1, <2>2, <2>3, <2>4 DEF TeamTypeOK
<1>6. CASE Crash
  <2>1. Len(outbox) \in Nat
    BY DEF TeamTypeOK
  <2>2. faults' \in 0 .. MaxFaults
    BY <1>6, BoundsAreNat DEF Crash, TeamTypeOK
  <2>6. /\ from' \in [Handler -> 0 .. published]
        /\ upto' \in [Handler -> 0 .. Len(outbox)]
    BY <1>6, <2>1 DEF Crash, TeamTypeOK
  <2>7. late' \subseteq [from : 0 .. published, upto : 0 .. Len(outbox)]
    BY <1>6, RequestTyped DEF Crash, TeamTypeOK
  <2>3. ASSUME NEW h \in Handler
        PROVE  Pending(h) \subseteq Conv \cup {Team}
    <3>1. todo[h] \in Seq(Event)
      BY DEF TeamTypeOK
    <3>2. \A i \in DOMAIN todo[h] : todo[h][i] \in Event
      BY <3>1
    <3>3. \A e \in Event : e.conv \in Conv \cup {Team}
      BY DEF Event
    <3> QED BY <3>2, <3>3, Zenon DEF Pending
  <2>4. blurred' \subseteq Conv
    BY <1>6, <2>3 DEF Crash, TeamTypeOK
  <2>5. todo' \in [Handler -> Seq(Event)] /\ pc' \in [Handler -> Pcs]
    BY <1>6 DEF Crash, Pcs
  <2>8. UNCHANGED <<row, publisher, outbox, acked, published, latest, again>>
    BY <1>6 DEF Crash, stream
  <2> QED BY <2>2, <2>4, <2>5, <2>6, <2>7, <2>8 DEF TeamTypeOK
<1>7. CASE UNCHANGED teamVars
  BY <1>7 DEF teamVars, stream, flushes, TeamTypeOK
<1> QED BY <1>1, <1>2, <1>3, <1>4, <1>5, <1>6, <1>7, <1>8, <1>9, <1>10, <1>11
        DEF TeamNext

(* A request that was answered stays in the stream. *)
LEMMA AnswersNext ==
  ASSUME TeamTypeOK, AnswersArrived, [TeamNext]_teamVars
  PROVE  AnswersArrived'
<1>1. Len(outbox) \in Nat /\ published \in 0 .. Len(outbox) /\ \A h \in Handler : upto[h] \in Int
  BY DEF TeamTypeOK
<1>2. ASSUME published' = published,
             \A h \in Handler : pc'[h] = "answered" => pc[h] = "answered" /\ upto'[h] = upto[h]
      PROVE  AnswersArrived'
  BY <1>2 DEF AnswersArrived
<1>3. ASSUME NEW h \in Handler, Mutate(h) \/ EnsureSnapshot(h)
      PROVE  AnswersArrived'
  <2>1. PICK rows, events : Publish(h, rows, events)
    BY <1>3, MutateIs DEF Store, EnsureSnapshot
  <2> QED BY <1>2, <2>1 DEF Publish, stream, flushes, TeamTypeOK
<1>4. ASSUME NEW h \in Handler, Enqueue(h) \/ Connect(h)
      PROVE  AnswersArrived'
  BY <1>2, <1>4 DEF Enqueue, Connect, stream, flushes, TeamTypeOK
<1>5. ASSUME NEW h \in Handler, FlushPending(h) \/ Flush(h)
      PROVE  AnswersArrived'
  BY <1>2, <1>5 DEF FlushPending, Flush, StartFlush, stream, TeamTypeOK
<1>6. ASSUME NEW h \in Handler, MarkAcked(h) \/ FlushFails(h)
      PROVE  AnswersArrived'
  BY <1>2, <1>6 DEF MarkAcked, FlushFails, EndFlush, stream, TeamTypeOK
<1>7. ASSUME NEW h \in Handler, Arrive(h)
      PROVE  AnswersArrived'
  <2>1. from[h] \in 0 .. published /\ upto[h] \in 0 .. Len(outbox)
    BY DEF TeamTypeOK
  <2>2. Receive(from[h], upto[h])
    BY <1>7 DEF Arrive
  <2>3. published' \in published .. Len(outbox) /\ upto[h] <= published'
    BY <2>1, <2>2, ReceiveIs
  <2>4. upto' = upto /\ \A g \in Handler \ {h} : pc'[g] = pc[g]
    BY <1>7 DEF Arrive, flushes, TeamTypeOK
  <2> QED BY <1>1, <2>3, <2>4 DEF AnswersArrived
<1>8. ASSUME NEW request \in late, ArriveLate(request)
      PROVE  AnswersArrived'
  <2>1. request.from \in 0 .. published /\ request.upto \in 0 .. Len(outbox)
    BY DEF TeamTypeOK
  <2>2. Receive(request.from, request.upto)
    BY <1>8 DEF ArriveLate
  <2>3. published' \in published .. Len(outbox)
    BY <2>1, <2>2, ReceiveIs
  <2>4. upto' = upto /\ pc' = pc
    BY <1>8 DEF ArriveLate
  <2> QED BY <1>1, <2>3, <2>4 DEF AnswersArrived
<1>9. CASE Crash
  BY <1>2, <1>9 DEF Crash, stream
<1>10. CASE UNCHANGED teamVars
  BY <1>2, <1>10 DEF teamVars, stream, flushes
<1> QED BY <1>3, <1>4, <1>5, <1>6, <1>7, <1>8, <1>9, <1>10 DEF TeamNext

(* The rows that are older than the publisher have their types. *)
LEMMA TeamInitTyped == TeamInit => TeamTypeOK
<1> SUFFICES ASSUME TeamInit PROVE TeamTypeOK
  OBVIOUS
<1>1. Absent \in Value /\ AnyTitle \in Title
  BY AbsentTyped, TitleAssumption DEF AnyTitle
<1>2. NewRow(AnyTitle) \in Value
  BY <1>1, RecordTyped DEF NewRow
<1>3. \A b \in BOOLEAN : [NewRow(AnyTitle) EXCEPT !.archived = b] \in Value
  BY <1>2 DEF Value
<1>4. row \in [Conv -> Value]
  BY <1>1, <1>3 DEF TeamInit
<1>5. faults \in 0 .. MaxFaults
  BY BoundsAreNat DEF TeamInit
<1>6. outbox \in Seq(Event) /\ Len(outbox) = 0
  BY DEF TeamInit
<1>7. todo \in [Handler -> Seq(Event)]
  BY DEF TeamInit
<1>8. pc \in [Handler -> Pcs]
  BY DEF TeamInit, Pcs
<1>9. /\ published = 0 /\ acked = 0 /\ again = {} /\ late = {}
      /\ latest \in [Conv -> 0 .. published]
      /\ from \in [Handler -> 0 .. published] /\ upto \in [Handler -> 0 .. Len(outbox)]
  BY <1>6 DEF TeamInit
<1>10. publisher \in BOOLEAN /\ blurred = {}
  BY DEF TeamInit
<1> QED BY <1>4, <1>5, <1>6, <1>7, <1>8, <1>9, <1>10 DEF TeamTypeOK

(***************************************************************************)
(* Every variable of TeamState has its type in every reachable state: what *)
(* a flush has read is in the outbox, which only grows, and no handler     *)
(* gives a row a revision beyond the bound (publishTeamState, flush).      *)
(***************************************************************************)
THEOREM TeamStateTyped == TeamSpec => []TeamTypeOK
<1>1. TeamInit => AnswersArrived
  BY DEF TeamInit, AnswersArrived
<1> QED BY <1>1, TeamInitTyped, TeamTypeNext, AnswersNext, PTL DEF TeamSpec

(* The steps, as the invariants below look at them. *)
LEMMA TeamStep ==
  ASSUME [TeamNext]_teamVars
  PROVE  \/ \E h \in Handler :
               Mutate(h) \/ EnsureSnapshot(h) \/ Enqueue(h)
         \/ Crash
         \/ UNCHANGED <<row, outbox, todo, blurred>>
BY DEF TeamNext, teamVars, FlushPending, Flush, Connect, Arrive, MarkAcked, FlushFails,
       ArriveLate

(* What is in the outbox, or in hand, is an event. *)
LEMMA EventsTyped ==
  ASSUME TeamTypeOK
  PROVE  /\ \A i \in DOMAIN outbox : outbox[i] \in Event
         /\ \A h \in Handler : \A i \in DOMAIN todo[h] : todo[h][i] \in Event
<1>1. outbox \in Seq(Event) /\ \A h \in Handler : todo[h] \in Seq(Event)
  BY DEF TeamTypeOK
<1> QED BY <1>1

(* The tail of a sequence is the sequence without its first. *)
LEMMA TailIs ==
  ASSUME NEW S, NEW s \in Seq(S), s # <<>>
  PROVE  /\ \A i \in DOMAIN Tail(s) : i + 1 \in DOMAIN s /\ Tail(s)[i] = s[i + 1]
         /\ \A i \in DOMAIN s :
              i # 1 => i - 1 \in DOMAIN Tail(s) /\ Tail(s)[i - 1] = s[i]
<1>1. /\ Len(s) \in Nat \ {0} /\ DOMAIN s = 1 .. Len(s)
      /\ DOMAIN Tail(s) = 1 .. Len(s) - 1
      /\ \A i \in 1 .. Len(s) - 1 : Tail(s)[i] = s[i + 1]
  OBVIOUS
<1>2. ASSUME NEW i \in DOMAIN s, i # 1
      PROVE  i - 1 \in DOMAIN Tail(s) /\ Tail(s)[i - 1] = s[i]
  <2>1. i - 1 \in 1 .. Len(s) - 1 /\ (i - 1) + 1 = i
    BY <1>1, <1>2
  <2> QED BY <1>1, <2>1
<1>3. \A i \in DOMAIN Tail(s) : i + 1 \in DOMAIN s
  BY <1>1
<1> QED BY <1>1, <1>2, <1>3

(***************************************************************************)
(* The next event of a handler becomes the last of the outbox.             *)
(***************************************************************************)
LEMMA EnqueueIs ==
  ASSUME TeamTypeOK, NEW h \in Handler, Enqueue(h)
  PROVE  /\ 1 \in DOMAIN todo[h]
         /\ DOMAIN outbox' = DOMAIN outbox \cup {Len(outbox) + 1}
         /\ Len(outbox) + 1 \in Nat /\ DOMAIN outbox = 1 .. Len(outbox)
         /\ outbox'[Len(outbox) + 1] = todo[h][1]
         /\ \A i \in DOMAIN outbox : outbox'[i] = outbox[i]
         /\ \A i \in DOMAIN outbox' :
              \/ i \in DOMAIN outbox /\ outbox'[i] = outbox[i]
              \/ outbox'[i] = todo[h][1] /\ 1 \in DOMAIN todo[h]
         /\ \A i \in DOMAIN todo'[h] :
              i + 1 \in DOMAIN todo[h] /\ todo'[h][i] = todo[h][i + 1]
         /\ \A i \in DOMAIN todo[h] :
              i # 1 => i - 1 \in DOMAIN todo'[h] /\ todo'[h][i - 1] = todo[h][i]
         /\ \A g \in Handler \ {h} : todo'[g] = todo[g]
         /\ UNCHANGED <<row, blurred, publisher, pc, published, latest, again>>
         /\ pc[h] = "enqueueing"
<1>1. todo[h] \in Seq(Event) /\ todo[h] # <<>> /\ outbox \in Seq(Event)
  BY DEF Enqueue, TeamTypeOK
<1>2. outbox' = Append(outbox, todo[h][1]) /\ todo'[h] = Tail(todo[h])
  BY <1>1 DEF Enqueue, TeamTypeOK
<1>3. 1 \in DOMAIN todo[h] /\ todo[h][1] \in Event
  BY <1>1
<1>4. /\ \A i \in DOMAIN todo'[h] :
           i + 1 \in DOMAIN todo[h] /\ todo'[h][i] = todo[h][i + 1]
      /\ \A i \in DOMAIN todo[h] :
           i # 1 => i - 1 \in DOMAIN todo'[h] /\ todo'[h][i - 1] = todo[h][i]
  BY <1>1, <1>2, TailIs
<1>5. /\ DOMAIN outbox' = DOMAIN outbox \cup {Len(outbox) + 1}
      /\ Len(outbox) + 1 \in Nat /\ DOMAIN outbox = 1 .. Len(outbox)
      /\ outbox'[Len(outbox) + 1] = todo[h][1]
      /\ \A i \in DOMAIN outbox : outbox'[i] = outbox[i]
  BY <1>1, <1>2, <1>3
<1> QED BY <1>3, <1>4, <1>5 DEF Enqueue, TeamTypeOK, stream

------------------------------------------------------------------------------
(* TeamState: what copies say *)

\* An event is of a conversation that is there, and not newer than its row.
IsCopy(e, rows) ==
    e.conv # Team =>
      /\ rows[e.conv].there
      /\ e.value.rev <= rows[e.conv].rev
      /\ e.value.rev = rows[e.conv].rev => e.value = rows[e.conv]

CopiesFollow ==
    /\ \A i \in DOMAIN outbox : IsCopy(outbox[i], row)
    /\ \A h \in Handler : \A i \in DOMAIN todo[h] : IsCopy(todo[h][i], row)

(* Copies that follow their rows are named by their revisions. *)
LEMMA CopyMeans ==
  CopiesFollow => RevisionNamesContent
<1> SUFFICES ASSUME CopiesFollow,
                    NEW e \in Range(outbox) \cup UNION {Range(todo[h]) : h \in Handler}
             PROVE  IsCopy(e, row)
  BY DEF IsCopy, RevisionNamesContent
<1>1. \/ \E i \in DOMAIN outbox : e = outbox[i]
      \/ \E h \in Handler : \E i \in DOMAIN todo[h] : e = todo[h][i]
  BY Zenon DEF Range
<1> QED BY <1>1 DEF CopiesFollow

(***************************************************************************)
(* A copy stays one when a conversation is stored at a later revision.     *)
(***************************************************************************)
LEMMA CopyStays ==
  ASSUME NEW e \in Event, NEW rows \in [Conv -> Value], NEW new \in [Conv -> Value],
         NEW c \in Conv, IsCopy(e, rows),
         \A d \in Conv \ {c} : new[d] = rows[d],
         new[c].there, rows[c].there => rows[c].rev < new[c].rev
  PROVE  IsCopy(e, new)
<1>1. SUFFICES ASSUME e.conv # Team PROVE IsCopy(e, new)
  BY DEF IsCopy
<1>2. e.conv \in Conv /\ e.value \in Value
  BY <1>1 DEF Event
<1>3. e.value.rev \in Int /\ rows[c].rev \in Int /\ new[c].rev \in Int
  BY <1>2 DEF Value, Rev
<1> QED BY <1>1, <1>2, <1>3 DEF IsCopy

(* What a handler gets to enqueue are copies of the rows as they are. *)
LEMMA EmissionCopies ==
  ASSUME NEW rows \in [Conv -> Value], NEW events \in Seq(Event),
         \A i \in DOMAIN events : IsCopy(events[i], rows)
  PROVE  \A i \in DOMAIN Emission(rows, events) :
           IsCopy(Emission(rows, events)[i], rows)
<1>1. CASE NeedsSnapshot
  <2>1. \A i \in DOMAIN Snapshot(rows) : IsCopy(Snapshot(rows)[i], rows)
    <3>1. \A c \in Conv : rows[c].rev <= rows[c].rev
      BY DEF Value, Rev
    <3> QED BY <3>1, SnapshotIs DEF IsCopy
  <2> QED BY <1>1, <2>1 DEF Emission
<1>2. CASE ~NeedsSnapshot
  BY <1>2 DEF Emission
<1> QED BY <1>1, <1>2

(***************************************************************************)
(* Each step keeps the copies, those in the outbox and those in hand, at   *)
(* or behind their rows.                                                   *)
(***************************************************************************)
LEMMA CopiesNext ==
  ASSUME TeamTypeOK, CopiesFollow, [TeamNext]_teamVars
  PROVE  CopiesFollow'
<1>1. ASSUME NEW h \in Handler, Mutate(h)
      PROVE  CopiesFollow'
  <2>1. PICK c \in Conv, value \in Value :
          Store(h, c, value) /\ value.there
          /\ (row[c].there => row[c].rev < value.rev)
    BY <1>1, MutateIs
  <2> DEFINE events == <<EventOf(c, value)>>
  <2>2. /\ row \in [Conv -> Value] /\ row' \in [Conv -> Value]
        /\ row'[c] = value /\ \A d \in Conv \ {c} : row'[d] = row[d]
        /\ events \in Seq(Event) /\ Publish(h, row', events)
    BY <2>1, StoreTyped DEF TeamTypeOK
  <2>3. \A e \in Event : IsCopy(e, row) => IsCopy(e, row')
    BY <2>1, <2>2, CopyStays
  <2>4. \A i \in DOMAIN events : IsCopy(events[i], row')
    <3>1. value.rev <= value.rev
      BY DEF Value, Rev
    <3> QED BY <2>1, <2>2, <3>1 DEF IsCopy, EventOf
  <2> HIDE DEF events
  <2>5. \A i \in DOMAIN Emission(row', events) : IsCopy(Emission(row', events)[i], row')
    BY <2>2, <2>4, EmissionCopies
  <2>6. outbox' = outbox /\ todo'[h] = Emission(row', events)
        /\ \A g \in Handler \ {h} : todo'[g] = todo[g]
    BY <2>2, PublishTyped
  <2>7. /\ \A i \in DOMAIN outbox : outbox[i] \in Event
        /\ \A g \in Handler : \A i \in DOMAIN todo[g] : todo[g][i] \in Event
    BY EventsTyped
  <2> QED BY <2>3, <2>5, <2>6, <2>7 DEF CopiesFollow
<1>2. ASSUME NEW h \in Handler, EnsureSnapshot(h)
      PROVE  CopiesFollow'
  <2>1. Publish(h, row, <<>>) /\ UNCHANGED <<row, blurred>>
    BY <1>2 DEF EnsureSnapshot
  <2>2. row \in [Conv -> Value] /\ <<>> \in Seq(Event) /\ DOMAIN <<>> = {}
    BY DEF TeamTypeOK
  <2>3. \A i \in DOMAIN Emission(row, <<>>) : IsCopy(Emission(row, <<>>)[i], row)
    BY <2>2, EmissionCopies
  <2>4. outbox' = outbox /\ todo'[h] = Emission(row, <<>>)
        /\ \A g \in Handler \ {h} : todo'[g] = todo[g]
    BY <2>1, <2>2, PublishTyped
  <2> QED BY <2>1, <2>3, <2>4 DEF CopiesFollow
<1>3. ASSUME NEW h \in Handler, Enqueue(h)
      PROVE  CopiesFollow'
  <2>1. /\ \A i \in DOMAIN outbox' :
             \/ i \in DOMAIN outbox /\ outbox'[i] = outbox[i]
             \/ outbox'[i] = todo[h][1] /\ 1 \in DOMAIN todo[h]
        /\ \A i \in DOMAIN todo'[h] :
             i + 1 \in DOMAIN todo[h] /\ todo'[h][i] = todo[h][i + 1]
        /\ \A g \in Handler \ {h} : todo'[g] = todo[g]
        /\ row' = row
    BY <1>3, EnqueueIs
  <2> QED BY <2>1 DEF CopiesFollow
<1>4. CASE Crash
  BY <1>4 DEF Crash, CopiesFollow
<1>5. CASE UNCHANGED <<row, outbox, todo>>
  BY <1>5 DEF CopiesFollow
<1> QED BY <1>1, <1>2, <1>3, <1>4, <1>5, TeamStep

(***************************************************************************)
(* For any conversations, titles and handlers: a copy with the revision of *)
(* its row is that row, so a rename that compares revisions undoes no      *)
(* change its author has not seen (patchConversation, activity,            *)
(* nextActivityRevision).                                                  *)
(***************************************************************************)
THEOREM RevisionsNameContents == TeamSpec => []RevisionNamesContent
<1>1. TeamInit => CopiesFollow
  BY DEF TeamInit, CopiesFollow
<1> QED BY <1>1, CopiesNext, CopyMeans, TeamStateTyped, PTL DEF TeamSpec
------------------------------------------------------------------------------
(* TeamState: what the stream comes to show *)

IsPending(c) == \E h \in Handler : c \in Pending(h)

\* Only a handler that is enqueueing has events in hand.
NothingLeft == \A h \in Handler : pc[h] # "enqueueing" => todo[h] = <<>>

\* A flush begins when there is an event.
PublisherHasEvents ==
    /\ publisher => outbox # <<>>
    /\ \A h \in Handler : pc[h] = "connecting" => outbox # <<>>

\* An event in hand is of the row as it is, or its conversation is excused.
PendingIsRow ==
    \A c \in Conv \ blurred, h \in Handler : \A i \in DOMAIN todo[h] :
      todo[h][i].conv = c => todo[h][i].value = row[c]

LastOf(c, i) ==
    /\ outbox[i].conv = c
    /\ \A j \in DOMAIN outbox : j > i => outbox[j].conv # c

\* The outbox ends with the row, or need not know of it.
Agrees(c) ==
    \/ ~IsOpen(row[c]) /\ \A i \in DOMAIN outbox : outbox[i].conv # c
    \/ \E i \in DOMAIN outbox : LastOf(c, i) /\ outbox[i].value = row[c]

Started == outbox # <<>> \/ \E h \in Handler : todo[h] # <<>>

\* Once a snapshot is on its way, the outbox agrees with every row that no
\* handler has an event of in hand.
OthersAgree ==
    \A c \in Conv \ blurred : Started /\ ~IsPending(c) => Agrees(c)

\* But for repetitions, the stream shows the last event that it has.
LastIsShown ==
    \A c \in Conv \ again :
      \/ latest[c] = 0 /\ \A i \in 1 .. published : outbox[i].conv # c
      \/ /\ latest[c] \in 1 .. published /\ outbox[latest[c]].conv = c
         /\ \A i \in 1 .. published : i > latest[c] => outbox[i].conv # c

SettleInv == NothingLeft /\ PublisherHasEvents /\ PendingIsRow /\ OthersAgree

(***************************************************************************)
(* A settled conversation is shown as its row is.                          *)
(***************************************************************************)
LEMMA SettleMeans == TeamTypeOK /\ SettleInv /\ LastIsShown => ViewSettles
<1> SUFFICES ASSUME TeamTypeOK, SettleInv, LastIsShown,
                    NEW c \in Conv \ blurred, Settled(c)
             PROVE  IF IsOpen(row[c]) THEN View(c) = row[c] ELSE ~IsOpen(View(c))
  BY DEF ViewSettles
<1>1. Agrees(c)
  BY DEF Settled, SettleInv, PublisherHasEvents, OthersAgree, Started, IsPending
<1>2. Len(outbox) \in Nat /\ 1 .. published = DOMAIN outbox
  BY DEF Settled, TeamTypeOK
<1>3. CASE latest[c] = 0 /\ \A i \in 1 .. published : outbox[i].conv # c
  <2>1. ~IsOpen(row[c])
    BY <1>1, <1>2, <1>3 DEF Agrees, LastOf
  <2>2. View(c) = Absent
    BY <1>3 DEF View
  <2>3. Absent.there = FALSE
    BY AbsentTyped DEF Absent
  <2> QED BY <2>1, <2>2, <2>3 DEF IsOpen
<1>4. CASE /\ latest[c] \in 1 .. published /\ outbox[latest[c]].conv = c
           /\ \A i \in 1 .. published : i > latest[c] => outbox[i].conv # c
  <2>1. PICK i \in DOMAIN outbox : LastOf(c, i) /\ outbox[i].value = row[c]
    BY <1>1, <1>2, <1>4 DEF Agrees
  <2>2. ~(latest[c] > i) /\ ~(i > latest[c])
    BY <1>2, <1>4, <2>1 DEF LastOf
  <2>3. i \in Int /\ latest[c] \in Int /\ latest[c] # 0
    BY <1>2, <1>4, <2>1
  <2>4. latest[c] = i
    BY <2>2, <2>3
  <2> QED BY <2>1, <2>3, <2>4 DEF View
<1> QED BY <1>3, <1>4 DEF LastIsShown, Settled

(***************************************************************************)
(* What is published is of the new rows, and leaves no row that differs    *)
(* unannounced.                                                            *)
(***************************************************************************)
LEMMA PublishSettles ==
  ASSUME TeamTypeOK, SettleInv, NEW h \in Handler, pc[h] = "idle",
         row' \in [Conv -> Value], NEW events \in Seq(Event),
         Publish(h, row', events), blurred \subseteq blurred',
         \A i \in DOMAIN events :
           events[i].conv \in Conv /\ events[i].value = row'[events[i].conv],
         \A d \in Conv \ blurred' :
           \/ row'[d] = row[d]
           \/ /\ ~IsPending(d)
              /\ NeedsSnapshot => IsOpen(row'[d])
              /\ ~NeedsSnapshot => \E i \in DOMAIN events : events[i].conv = d
  PROVE  SettleInv'
<1> DEFINE out == Emission(row', events)
<1>1. /\ UNCHANGED <<publisher, outbox>>
      /\ pc'[h] = "enqueueing" /\ todo'[h] = out
      /\ \A g \in Handler \ {h} : pc'[g] = pc[g] /\ todo'[g] = todo[g]
  BY PublishTyped
<1>2. todo[h] = <<>> /\ DOMAIN todo[h] = {}
  BY DEF SettleInv, NothingLeft
<1>3. \A i \in DOMAIN out :
        out[i].conv # Team => out[i].conv \in Conv /\ out[i].value = row'[out[i].conv]
  BY SnapshotIs DEF Emission
<1>4. ASSUME NEW d \in Conv, \/ NeedsSnapshot /\ IsOpen(row'[d])
                             \/ ~NeedsSnapshot /\ \E i \in DOMAIN events : events[i].conv = d
      PROVE  \E i \in DOMAIN out : out[i].conv = d
  BY <1>4, SnapshotIs DEF Emission
<1> HIDE DEF out
<1>5. NothingLeft' /\ PublisherHasEvents'
  BY <1>1 DEF SettleInv, NothingLeft, PublisherHasEvents
<1>6. ASSUME NEW d \in Conv \ blurred', NEW g \in Handler, NEW i \in DOMAIN todo'[g],
             todo'[g][i].conv = d
      PROVE  todo'[g][i].value = row'[d]
  <2>1. CASE g = h
    BY <1>1, <1>3, <1>6, <2>1, TeamAssumption
  <2>2. CASE g # h
    <3>1. todo'[g] = todo[g] /\ d \in Conv \ blurred
      BY <1>1, <2>2
    <3>2. todo[g][i].value = row[d]
      BY <1>6, <3>1 DEF SettleInv, PendingIsRow
    <3>3. IsPending(d)
      BY <1>6, <3>1 DEF IsPending, Pending
    <3> QED BY <3>1, <3>2, <3>3
  <2> QED BY <2>1, <2>2
<1>7. ASSUME NEW d \in Conv \ blurred', ~IsPending(d)'
      PROVE  Agrees(d)'
  <2>1. ~\E i \in DOMAIN out : out[i].conv = d
    BY <1>1, <1>7 DEF IsPending, Pending
  <2>2. ~(NeedsSnapshot /\ IsOpen(row'[d]))
    BY <1>4, <2>1
  <2>3. ~(~NeedsSnapshot /\ \E i \in DOMAIN events : events[i].conv = d)
    BY <1>4, <2>1
  <2>4. row'[d] = row[d]
    BY <2>2, <2>3
  <2>5. ~IsPending(d)
    BY <1>1, <1>2, <1>7 DEF IsPending, Pending
  <2>6. CASE Started
    BY <1>1, <2>4, <2>5, <2>6 DEF SettleInv, OthersAgree, Agrees, LastOf, IsOpen
  <2>7. CASE ~Started
    <3>1. outbox = <<>> /\ NeedsSnapshot
      BY <2>7 DEF Started, SettleInv, PublisherHasEvents, NeedsSnapshot
    <3>2. DOMAIN outbox' = {}
      BY <1>1, <3>1
    <3> QED BY <2>2, <3>1, <3>2 DEF Agrees, IsOpen
  <2> QED BY <2>6, <2>7
<1> QED BY <1>5, <1>6, <1>7 DEF SettleInv, PendingIsRow, OthersAgree

(***************************************************************************)
(* The steps keep it: a stored row is announced or excused, an event that  *)
(* is enqueued is of the row as it is, a lost isolate excuses what its     *)
(* handlers had in hand.                                                   *)
(***************************************************************************)
LEMMA SettleNext ==
  ASSUME TeamTypeOK, SettleInv, [TeamNext]_teamVars
  PROVE  SettleInv'
<1>1. ASSUME NEW h \in Handler, Mutate(h)
      PROVE  SettleInv'
  <2>1. PICK c \in Conv, value \in Value :
          pc[h] = "idle" /\ Store(h, c, value) /\ value.there
    BY <1>1, MutateIs
  <2> DEFINE events == <<EventOf(c, value)>>
  <2>2. /\ row' \in [Conv -> Value]
        /\ row'[c] = value /\ \A d \in Conv \ {c} : row'[d] = row[d]
        /\ events \in Seq(Event) /\ Publish(h, row', events)
        /\ blurred \subseteq blurred'
        /\ IsPending(c) => c \in blurred'
        /\ NeedsSnapshot /\ value.archived => c \in blurred'
    BY <2>1, StoreTyped DEF IsPending
  <2>3. /\ 1 \in DOMAIN events /\ events[1].conv = c
        /\ \A i \in DOMAIN events :
             events[i].conv \in Conv /\ events[i].value = row'[events[i].conv]
    BY <2>2 DEF EventOf
  <2> HIDE DEF events
  <2>4. ASSUME NEW d \in Conv \ blurred'
        PROVE  \/ row'[d] = row[d]
               \/ /\ ~IsPending(d)
                  /\ NeedsSnapshot => IsOpen(row'[d])
                  /\ ~NeedsSnapshot => \E i \in DOMAIN events : events[i].conv = d
    BY <2>1, <2>2, <2>3 DEF IsOpen
  <2> QED BY <2>1, <2>2, <2>3, <2>4, PublishSettles
<1>2. ASSUME NEW h \in Handler, EnsureSnapshot(h)
      PROVE  SettleInv'
  <2>1. pc[h] = "idle" /\ Publish(h, row, <<>>) /\ UNCHANGED <<row, blurred>>
    BY <1>2 DEF EnsureSnapshot
  <2>2. row' \in [Conv -> Value] /\ <<>> \in Seq(Event) /\ DOMAIN <<>> = {}
    BY <2>1 DEF TeamTypeOK
  <2>3. Publish(h, row', <<>>)
    BY <2>1
  <2> QED BY <2>1, <2>2, <2>3, PublishSettles
<1>3. ASSUME NEW h \in Handler, Enqueue(h)
      PROVE  SettleInv'
  <2>0. PICK n \in Nat : n = Len(outbox) + 1
    BY <1>3, EnqueueIs
  <2>1. /\ 1 \in DOMAIN todo[h]
        /\ DOMAIN outbox' = DOMAIN outbox \cup {n}
        /\ outbox'[n] = todo[h][1]
        /\ \A i \in DOMAIN outbox : outbox'[i] = outbox[i]
        /\ \A g \in Handler \ {h} : todo'[g] = todo[g]
        /\ UNCHANGED <<row, blurred, publisher, pc>> /\ pc[h] = "enqueueing"
    BY <1>3, <2>0, EnqueueIs
  <2>i. \A i \in DOMAIN outbox : i \in Nat /\ i < n
    <3>1. DOMAIN outbox = 1 .. Len(outbox) /\ Len(outbox) \in Nat
      BY DEF TeamTypeOK
    <3> QED BY <2>0, <3>1
  <2>2. /\ \A i \in DOMAIN todo'[h] :
             i + 1 \in DOMAIN todo[h] /\ todo'[h][i] = todo[h][i + 1]
        /\ \A i \in DOMAIN todo[h] :
             i # 1 => i - 1 \in DOMAIN todo'[h] /\ todo'[h][i - 1] = todo[h][i]
    BY <1>3, EnqueueIs
  <2>3. outbox' # <<>> /\ todo[h] # <<>>
    BY <1>3, <2>1 DEF Enqueue
  <2>4. NothingLeft' /\ PublisherHasEvents'
    BY <2>1, <2>3 DEF SettleInv, NothingLeft, PublisherHasEvents
  <2>5. PendingIsRow'
    BY <2>1, <2>2 DEF SettleInv, PendingIsRow
  <2>6. ASSUME NEW d \in Conv \ blurred, ~IsPending(d)'
        PROVE  Agrees(d)'
    <3>1. CASE todo[h][1].conv = d
      <4>1. outbox'[n].value = row[d]
        BY <2>1, <3>1 DEF SettleInv, PendingIsRow
      <4>2. LastOf(d, n)'
        BY <2>1, <2>i, <3>1 DEF LastOf
      <4> QED BY <2>1, <4>1, <4>2 DEF Agrees
    <3>2. CASE todo[h][1].conv # d
      <4>1. ~IsPending(d)
        BY <2>1, <2>2, <2>6, <3>2 DEF IsPending, Pending
      <4>2. Agrees(d)
        BY <2>3, <4>1 DEF SettleInv, OthersAgree, Started
      <4> QED BY <2>1, <3>2, <4>2 DEF Agrees, LastOf
    <3> QED BY <3>1, <3>2
  <2> QED BY <2>1, <2>4, <2>5, <2>6 DEF SettleInv, OthersAgree
<1>4. CASE Crash
  <2>1. /\ UNCHANGED <<row, publisher, outbox>>
        /\ \A h \in Handler : pc'[h] = "idle" /\ todo'[h] = <<>> /\ DOMAIN todo'[h] = {}
        /\ \A d \in Conv \ blurred' : d \notin blurred /\ ~IsPending(d)
    BY <1>4, TeamAssumption DEF Crash, IsPending
  <2>2. OthersAgree'
    BY <2>1 DEF SettleInv, OthersAgree, Started, Agrees, LastOf, IsOpen
  <2> QED BY <2>1, <2>2 DEF SettleInv, NothingLeft, PublisherHasEvents, PendingIsRow
<1>5. CASE UNCHANGED <<row, outbox, todo, blurred>> /\ NothingLeft' /\ PublisherHasEvents'
  BY <1>5 DEF SettleInv, PendingIsRow, OthersAgree, IsPending, Pending, Started,
              Agrees, LastOf, IsOpen
<1>6. ASSUME NEW h \in Handler,
             FlushPending(h) \/ Flush(h) \/ Connect(h) \/ Arrive(h)
             \/ MarkAcked(h) \/ FlushFails(h)
      PROVE  UNCHANGED <<row, outbox, todo, blurred>> /\ NothingLeft' /\ PublisherHasEvents'
  <2>1. acked < Len(outbox) => outbox # <<>>
    BY DEF TeamTypeOK
  <2>2. UNCHANGED <<row, outbox, todo, blurred>>
    BY <1>6 DEF FlushPending, Flush, Connect, Arrive, MarkAcked, FlushFails
  <2>3. /\ \A g \in Handler \ {h} : pc'[g] = pc[g]
        /\ todo[h] = <<>>
        /\ pc'[h] = "connecting" => outbox # <<>>
        /\ publisher' => publisher \/ pc[h] = "connecting"
    BY <1>6, <2>1 DEF FlushPending, Flush, StartFlush, Connect, Arrive, MarkAcked,
                      FlushFails, TeamTypeOK, SettleInv, NothingLeft
  <2> QED BY <2>2, <2>3 DEF SettleInv, NothingLeft, PublisherHasEvents
<1>8. ASSUME NEW request \in late, ArriveLate(request)
      PROVE  UNCHANGED <<row, outbox, todo, blurred>> /\ NothingLeft' /\ PublisherHasEvents'
  BY <1>8 DEF ArriveLate, SettleInv, NothingLeft, PublisherHasEvents
<1>7. CASE UNCHANGED teamVars
  BY <1>7 DEF teamVars, SettleInv, NothingLeft, PublisherHasEvents,
              PendingIsRow, OthersAgree, IsPending, Pending, Started, Agrees,
              LastOf, IsOpen
<1> QED BY <1>1, <1>2, <1>3, <1>4, <1>5, <1>6, <1>7, <1>8 DEF TeamNext

(***************************************************************************)
(* A batch that arrives is in the order of the outbox, but for what the    *)
(* stream had before; nothing else changes the stream or what it has of    *)
(* the outbox.                                                             *)
(***************************************************************************)
LEMMA LastShownNext ==
  ASSUME TeamTypeOK, LastIsShown, [TeamNext]_teamVars
  PROVE  LastIsShown'
<1>1. Len(outbox) \in Nat /\ published \in 0 .. Len(outbox)
  BY DEF TeamTypeOK
<1>2. ASSUME UNCHANGED <<published, latest, again>>,
             \A i \in 1 .. published : outbox'[i] = outbox[i]
      PROVE  LastIsShown'
  BY <1>2 DEF LastIsShown
<1>3. ASSUME NEW first \in 0 .. published, NEW last \in 0 .. Len(outbox),
             Receive(first, last), outbox' = outbox
      PROVE  LastIsShown'
  <2> SUFFICES ASSUME NEW c \in Conv \ again'
               PROVE  \/ /\ latest'[c] = 0
                         /\ \A i \in 1 .. published' : outbox[i].conv # c
                      \/ /\ latest'[c] \in 1 .. published'
                         /\ outbox[latest'[c]].conv = c
                         /\ \A i \in 1 .. published' : i > latest'[c] => outbox[i].conv # c
    BY <1>3 DEF LastIsShown
  <2>1. published' \in published .. Len(outbox)
    BY <1>3, ReceiveIs
  <2>2. CASE /\ c \notin again /\ latest'[c] = latest[c]
             /\ \A i \in 1 .. published' : i > published => outbox[i].conv # c
    <3>1. \A i \in 1 .. published' : i \in 1 .. published \/ i > published
      BY <1>1, <2>1
    <3>2. \/ latest[c] = 0 /\ \A i \in 1 .. published : outbox[i].conv # c
          \/ /\ latest[c] \in 1 .. published /\ outbox[latest[c]].conv = c
             /\ \A i \in 1 .. published : i > latest[c] => outbox[i].conv # c
      BY <2>2 DEF LastIsShown
    <3>3. \A i \in 1 .. published : i \in 1 .. published'
      BY <1>1, <2>1
    <3> QED BY <2>2, <3>1, <3>2, <3>3
  <2> QED BY <1>3, <2>2, ReceiveIs
<1>4. ASSUME NEW h \in Handler, Enqueue(h)
      PROVE  LastIsShown'
  <2>1. DOMAIN outbox = 1 .. Len(outbox) /\ \A i \in DOMAIN outbox : outbox'[i] = outbox[i]
    BY <1>4, EnqueueIs
  <2>2. \A i \in 1 .. published : outbox'[i] = outbox[i]
    BY <1>1, <2>1
  <2>3. UNCHANGED <<published, latest, again>>
    BY <1>4 DEF Enqueue, stream
  <2> QED BY <1>2, <2>2, <2>3
<1>5. ASSUME NEW h \in Handler, Arrive(h)
      PROVE  LastIsShown'
  <2>1. from[h] \in 0 .. published /\ upto[h] \in 0 .. Len(outbox)
    BY DEF TeamTypeOK
  <2> QED BY <1>3, <1>5, <2>1 DEF Arrive
<1>6. ASSUME NEW request \in late, ArriveLate(request)
      PROVE  LastIsShown'
  <2>1. request.from \in 0 .. published /\ request.upto \in 0 .. Len(outbox)
    BY DEF TeamTypeOK
  <2> QED BY <1>3, <1>6, <2>1 DEF ArriveLate
<1>7. ASSUME NEW h \in Handler, Mutate(h) \/ EnsureSnapshot(h)
      PROVE  LastIsShown'
  <2>1. PICK rows, events : Publish(h, rows, events)
    BY <1>7, MutateIs DEF Store, EnsureSnapshot
  <2> QED BY <1>2, <2>1 DEF Publish, stream
<1>8. ASSUME NEW h \in Handler,
             \/ FlushPending(h) \/ Flush(h) \/ Connect(h) \/ MarkAcked(h) \/ FlushFails(h)
      PROVE  LastIsShown'
  BY <1>2, <1>8 DEF FlushPending, Flush, Connect, MarkAcked, FlushFails, stream
<1>9. CASE Crash \/ UNCHANGED teamVars
  BY <1>2, <1>9 DEF Crash, teamVars, stream
<1> QED BY <1>4, <1>5, <1>6, <1>7, <1>8, <1>9 DEF TeamNext

(***************************************************************************)
(* For any conversations, handlers, overlapping and failed flushes, late   *)
(* requests and losses of the isolate: once the outbox is published and no *)
(* handler has an event of a conversation in hand, the stream shows it as  *)
(* its row is, unless its last event there is the repetition of an older   *)
(* flush (publishTeamState, collectSnapshotRows, flush, useTeamState.ts).  *)
(***************************************************************************)
THEOREM ViewsSettle == TeamSpec => []ViewSettles
<1>1. TeamInit => SettleInv /\ LastIsShown
  BY DEF TeamInit, SettleInv, NothingLeft, PublisherHasEvents, PendingIsRow,
         OthersAgree, Started, LastIsShown
<1> QED BY <1>1, SettleNext, LastShownNext, SettleMeans, TeamStateTyped, PTL DEF TeamSpec
==============================================================================
