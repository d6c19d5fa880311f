------------------------------ MODULE Schedules ------------------------------
(***************************************************************************)
(* Schedules, their occurrences and the inbox of one AgentCell             *)
(* (agent-cell.ts: alarm, createSchedule, pauseSchedule, resetWorkspace,   *)
(* setCapabilities, receiveInbox; store.ts; the schedules tools of         *)
(* capabilities.ts).                                                       *)
(*                                                                         *)
(* The cell has one alarm.  Firing consumes it, and its handler, which     *)
(* runs alone but lets requests in while a snippet executes, sets it again *)
(* at its end, as a process of a run does at its end, after the flush it   *)
(* awaits.  A snippet invoked by a request, and a nested one whose host    *)
(* call outlived its timeout, end without setting it.  Time counts ticks.  *)
(* What a run does is AgentRuns'; here it is a row that may be active,     *)
(* with or without a process.                                              *)
(***************************************************************************)
EXTENDS Integers, FiniteSets, FiniteSetsExt

CONSTANTS
    Schedule,     \* ids of schedules
    Event,        \* ids of inbox events
    Delays,       \* delays a schedule is created with
    Recur,        \* recur_seconds of the recurring ones
    RetryAfter,   \* the minute until a failed occurrence is retried
    InboxTurns,   \* LIMITS.inboxCoordinatorTurns
    InboxRetained,\* LIMITS.inboxRetained
    MaxTime,      \* bound: the clock
    MaxDue,       \* bound: the latest due time that can be computed
    MaxPosts,     \* bound: posts of one inbox event
    MaxCrashes,   \* bound: losses of the isolate
    MaxProcesses, \* bound: processes of runs at a time
    MaxPrograms,  \* bound: programs outside them at a time
    NoAlarm,      \* no alarm is set
    NoRow         \* no row is being executed

ASSUME TimesAssumption ==
    /\ Recur \in Nat \ {0} /\ RetryAfter \in Nat \ {0}
    /\ MaxTime \in Nat /\ Delays \subseteq Nat
    /\ MaxDue \in Nat
    /\ \A d \in Delays \cup {Recur, RetryAfter} : MaxTime + d <= MaxDue
ASSUME InboxAssumption ==
    InboxTurns \in Nat \ {0} /\ InboxRetained \in Nat \ {0}
ASSUME NoneAssumption ==
    NoAlarm \notin Nat /\ NoRow \notin Schedule \X Nat

VARIABLES
    clock,
    status,       \* schedules.status
    recurs,       \* schedules.recur_seconds is set
    nextDue,      \* schedules.next_due_at
    granted,      \* the pinned capabilities are among those of the agent
    occ,          \* schedule_occurrences.status
    fired,        \* how often the snippet had its effects for an occurrence
    alarm,        \* the alarm of the cell
    unarmed,      \* active ones that nothing which ran or runs arms the alarm for
    handler,      \* where alarm() is
    now,          \* when it started
    todo,         \* the due rows it read
    doing,        \* the row it executes
    run,          \* the active run
    processes,    \* calls of process() that have not ended
    programs,     \* programs that run outside them and the handler
    archived,     \* meta "archived"
    inbox,        \* the rows of the inbox; `at` orders them as created_at does
    accepted,     \* how often an event was accepted
    messages,     \* the system messages made of an event
    crashes

table == <<status, recurs, nextDue>>
handling == <<handler, now, todo, doing>>
mail == <<inbox, accepted, messages>>
arming == <<alarm, unarmed>>
runs == <<run, processes, programs>>
vars == <<clock, table, granted, occ, fired, arming, handling, runs, archived,
          mail, crashes>>

Due == 0 .. MaxDue

Init ==
    /\ clock = 0
    /\ status = [s \in Schedule |-> "absent"]
    /\ recurs = [s \in Schedule |-> FALSE]
    /\ nextDue = [s \in Schedule |-> 0]
    /\ granted = TRUE
    /\ occ = [s \in Schedule |-> [d \in Due |-> "none"]]
    /\ fired = [s \in Schedule |-> [d \in Due |-> 0]]
    /\ alarm = NoAlarm /\ unarmed = {}
    /\ handler = "idle" /\ now = 0 /\ todo = {} /\ doing = NoRow
    /\ run = "none" /\ processes = 0 /\ programs = 0 /\ archived = FALSE
    /\ inbox = {}
    /\ accepted = [e \in Event |-> 0]
    /\ messages = [e \in Event |-> 0]
    /\ crashes = 0

Tick ==
    /\ clock < MaxTime
    /\ clock' = clock + 1
    /\ UNCHANGED <<table, granted, occ, fired, arming, handling, runs, archived,
                   mail, crashes>>

------------------------------------------------------------------------------
(* armAlarm *)

ActiveIn(st) == {s \in Schedule : st[s] = "active"}

NextAlarmTime(st, due) ==
    IF ActiveIn(st) = {} THEN NoAlarm
    ELSE CHOOSE t \in {due[s] : s \in ActiveIn(st)} :
           \A s \in ActiveIn(st) : t <= due[s]

\* Mutant: what is due already is left to the alarm that is running.
ArmAlarmAhead(st, due) ==
    /\ alarm' = NextAlarmTime([s \in Schedule |-> IF due[s] > clock THEN st[s]
                                                 ELSE "paused"], due)
    /\ unarmed' = {}

\* From the rows as they are after the step.
ArmAlarm(st, due) == alarm' = NextAlarmTime(st, due) /\ unarmed' = {}

------------------------------------------------------------------------------
(* Requests.  Each is refused when the chat is archived. *)

\* store.createSchedule, for a snippet version that is pinned with it
NewSchedule(s, ds) ==
    /\ status[s] = "absent"
    /\ status' = [status EXCEPT ![s] = "active"]
    /\ \E d \in ds, r \in BOOLEAN :
         /\ nextDue' = [nextDue EXCEPT ![s] = clock + d]
         /\ recurs' = [recurs EXCEPT ![s] = r]

\* POST /schedules
CreateSchedule(s) ==
    /\ ~archived
    /\ NewSchedule(s, Delays)
    /\ ArmAlarm(status', nextDue')
    /\ UNCHANGED <<clock, granted, occ, fired, handling, runs, archived, mail,
                   crashes>>

\* POST /schedules/pause, which pauses and resumes whatever the status is.
PauseSchedule(s) ==
    /\ ~archived /\ status[s] # "absent"
    /\ \E st \in {"active", "paused"} : status' = [status EXCEPT ![s] = st]
    /\ ArmAlarm(status', nextDue)
    /\ UNCHANGED <<clock, recurs, nextDue, granted, occ, fired, handling, runs,
                   archived, mail, crashes>>

\* clearApplicationState
Cleared == [s \in Schedule |-> IF status[s] \in {"active", "paused"}
                               THEN "cancelled" ELSE status[s]]

\* POST /reset
ResetWorkspace ==
    /\ ~archived /\ run = "none"
    /\ status' = Cleared
    /\ ArmAlarm(status', nextDue)
    /\ UNCHANGED <<clock, recurs, nextDue, granted, occ, fired, handling, runs,
                   archived, mail, crashes>>

\* POST /capabilities
SetCapabilities ==
    /\ ~archived
    /\ granted' = ~granted
    /\ UNCHANGED <<clock, table, occ, fired, arming, handling, runs, archived, mail,
                   crashes>>

\* The alarm of an archived chat goes on.
MarkArchived ==
    /\ ~archived
    /\ archived' = TRUE
    /\ UNCHANGED <<clock, table, granted, occ, fired, arming, handling, runs, mail,
                   crashes>>

------------------------------------------------------------------------------
(* The tools of a program: they do not arm the alarm.                       *)

ProgramRuns == run = "running" \/ handler = "executing" \/ programs > 0

\* Nothing that runs will set the alarm at its end.
Unattended == handler = "idle" /\ processes = 0

LeftUnarmed(s) ==
    unarmed' = IF Unattended THEN (unarmed \cup {s}) \cap ActiveIn(status') ELSE {}

SchedulesCreate(s) ==
    /\ ProgramRuns
    /\ NewSchedule(s, Delays \ {0})
    /\ LeftUnarmed(s)
    /\ UNCHANGED <<clock, granted, occ, fired, alarm, handling, runs, archived,
                   mail, crashes>>

SchedulesSet(s) ==
    /\ ProgramRuns /\ status[s] # "absent"
    /\ \E st \in {"active", "paused", "cancelled"} :
         status' = [status EXCEPT ![s] = st]
    /\ LeftUnarmed(s)
    /\ UNCHANGED <<clock, recurs, nextDue, granted, occ, fired, alarm, handling,
                   runs, archived, mail, crashes>>

\* POST /snippets/invoke, at any time, a live snippet of the current generation.
InvokeSnippet ==
    /\ ~archived
    /\ programs < MaxPrograms
    /\ programs' = programs + 1
    /\ UNCHANGED <<clock, table, granted, occ, fired, arming, handling, run,
                   processes, archived, mail, crashes>>

ProgramEnds ==
    /\ programs > 0
    /\ programs' = programs - 1
    /\ UNCHANGED <<clock, table, granted, occ, fired, arming, handling, run,
                   processes, archived, mail, crashes>>

\* The generation of a new run fences the tools of every program before it.
StartRun ==
    /\ run = "none" /\ ~archived
    /\ processes < MaxProcesses
    /\ run' = "running" /\ processes' = processes + 1 /\ programs' = 0
    /\ unarmed' = {}
    /\ UNCHANGED <<clock, table, granted, occ, fired, alarm, handling, archived,
                   mail, crashes>>

\* The row ends, or waits for an approval; the process goes on to its flush,
\* and a nested program whose host call timed out goes on as well.
EndRun ==
    /\ run = "running"
    /\ run' \in {"none", "waiting"}
    /\ programs' \in {programs, programs + 1} /\ programs' <= MaxPrograms
    /\ UNCHANGED <<clock, table, granted, occ, fired, arming, handling, processes,
                   archived, mail, crashes>>

\* The end of process(), once its flush is through.
ProcessEnds ==
    /\ processes > (IF run = "running" THEN 1 ELSE 0)
    /\ processes' = processes - 1
    /\ ArmAlarm(status, nextDue)
    /\ UNCHANGED <<clock, table, granted, occ, fired, handling, run, programs,
                   archived, mail, crashes>>

Approved ==
    /\ run = "waiting" /\ ~archived
    /\ run' = "none"
    /\ UNCHANGED <<clock, table, granted, occ, fired, arming, handling, processes,
                   programs, archived, mail, crashes>>

\* recoverOrContinue at the beginning of a request.
Recover ==
    /\ run = "orphan" /\ ~archived
    /\ run' = "none"
    /\ UNCHANGED <<clock, table, granted, occ, fired, arming, handling, processes,
                   programs, archived, mail, crashes>>

------------------------------------------------------------------------------
(* The inbox *)

\* Mutant: the oldest rows go, processed or not.
PrunableAny(rows) == rows

\* The processed rows go first, and only they.
Prunable(rows) == {row \in rows : row.done}

\* ORDER BY created_at ASC LIMIT n
Oldest(rows, n) == {row \in rows : Cardinality({q \in rows : q.at < row.at}) < n}

\* enqueueInbox: as many of the oldest prunable rows as there are too many.
Prune(rows) == rows \ Oldest(Prunable(rows), Cardinality(rows) - InboxRetained)

NewRow(e) == [event |-> e, done |-> FALSE,
              at |-> 1 + Max({row.at : row \in inbox} \cup {0})]

\* POST /inbox; an event that is known is answered and nothing else.
ReceiveInbox(e) ==
    /\ ~archived
    /\ accepted[e] < MaxPosts
    /\ \A row \in inbox : row.event # e
    /\ inbox' = Prune(inbox \cup {NewRow(e)})
    /\ accepted' = [accepted EXCEPT ![e] = @ + 1]
    /\ ArmAlarm(status, nextDue)
    /\ UNCHANGED <<clock, table, granted, occ, fired, handling, runs, archived,
                   messages, crashes>>

Unprocessed == {row \in inbox : ~row.done}

\* The oldest InboxTurns unprocessed rows.
Pending == Oldest(Unprocessed, InboxTurns)

\* processInboxCoordinatorTurns, with the run row as the recovery leaves it.
ProcessInbox(active) ==
    IF active THEN UNCHANGED <<inbox, messages>>
    ELSE /\ inbox' = (inbox \ Pending) \cup {[row EXCEPT !.done = TRUE] : row \in Pending}
         /\ messages' = [e \in Event |-> messages[e] +
                           Cardinality({row \in Pending : row.event = e})]

------------------------------------------------------------------------------
(* alarm() *)

\* dueSchedules, with the due times as they are read
DueRows ==
    {<<s, nextDue[s]>> : s \in {q \in ActiveIn(status) : nextDue[q] <= clock}}

\* recoverOrContinue, the inbox, and the list of the due rows.
AlarmFires ==
    /\ handler = "idle"
    /\ alarm # NoAlarm /\ alarm <= clock
    /\ alarm' = NoAlarm /\ unarmed' = {}
    /\ handler' = "listing" /\ now' = clock
    /\ run' = IF run = "orphan" THEN "none" ELSE run
    /\ ProcessInbox(run' # "none")
    /\ todo' = DueRows
    /\ UNCHANGED <<clock, table, granted, occ, fired, doing, processes, programs,
                   archived, accepted, crashes>>

First == {r \in todo : \A q \in todo : r[2] <= q[2]}

Ended == {"succeeded", "skipped", "failed"}

SetOcc(r, st) == occ' = [occ EXCEPT ![r[1]][r[2]] = st]

\* updateSchedule after a success or a skip: the status was active when the
\* row was read, so a recurring schedule keeps whatever status it has now.
Reschedule(s) ==
    IF recurs[s]
      THEN /\ nextDue' = [nextDue EXCEPT ![s] = now + Recur]
           /\ UNCHANGED status
      ELSE /\ status' = [status EXCEPT ![s] = "cancelled"]
           /\ UNCHANGED nextDue

\* Mutant: the status of an occurrence that exists is not looked at.
DispatchableAny(r) == TRUE

\* Mutant: any occurrence that exists is passed by.
DispatchableNew(r) == occ[r[1]][r[2]] = "none"

\* Only a new occurrence or one that a crash left is executed.
Dispatchable(r) == occ[r[1]][r[2]] \in {"none", "dispatched"}

\* The occurrence of the row has ended already.
PassBy(r) ==
    /\ handler = "listing" /\ r \in First
    /\ ~Dispatchable(r)
    /\ todo' = todo \ {r}
    /\ UNCHANGED <<clock, table, granted, occ, fired, arming, handler, now, doing,
                   runs, archived, mail, crashes>>

\* The alarm does not look at the schedule again, which may be paused by now.
Skip(r) ==
    /\ handler = "listing" /\ r \in First
    /\ Dispatchable(r) /\ ~granted
    /\ SetOcc(r, "skipped")
    /\ Reschedule(r[1])
    /\ todo' = todo \ {r}
    /\ UNCHANGED <<clock, recurs, granted, fired, arming, handler, now, doing,
                   runs, archived, mail, crashes>>

Dispatch(r) ==
    /\ handler = "listing" /\ r \in First
    /\ Dispatchable(r) /\ granted
    /\ SetOcc(r, "dispatched")
    /\ handler' = "executing" /\ doing' = r
    /\ todo' = todo \ {r}
    /\ UNCHANGED <<clock, table, granted, fired, arming, now, runs, archived, mail,
                   crashes>>

\* The snippet has its effects before the alarm goes on.
Effect ==
    /\ handler = "executing"
    /\ fired' = [fired EXCEPT ![doing[1]][doing[2]] = @ + 1]
    /\ handler' = "executed"
    /\ UNCHANGED <<clock, table, granted, occ, arming, now, todo, doing, runs,
                   archived, mail, crashes>>

Succeed ==
    /\ handler = "executed"
    /\ SetOcc(doing, "succeeded")
    /\ Reschedule(doing[1])
    /\ handler' = "listing" /\ doing' = NoRow
    /\ UNCHANGED <<clock, recurs, granted, fired, arming, now, todo, runs, archived,
                   mail, crashes>>

\* Before or after its effects: a run that starts, a timeout or the program
\* itself makes the execution fail.  What timed out may go on.
Fail ==
    /\ handler \in {"executing", "executed"}
    /\ programs' \in {programs, programs + 1} /\ programs' <= MaxPrograms
    /\ SetOcc(doing, "failed")
    /\ nextDue' = [nextDue EXCEPT ![doing[1]] = now + RetryAfter]
    /\ handler' = "listing" /\ doing' = NoRow
    /\ UNCHANGED <<clock, status, recurs, granted, fired, arming, now, todo, run,
                   processes, archived, mail, crashes>>

AlarmEnds ==
    /\ handler = "listing" /\ todo = {}
    /\ ArmAlarm(status, nextDue)
    /\ handler' = "idle" /\ now' = 0
    /\ UNCHANGED <<clock, table, granted, occ, fired, todo, doing, runs, archived,
                   mail, crashes>>

\* The isolate is lost; the constructor of the next one arms the alarm.
Crash ==
    /\ crashes < MaxCrashes
    /\ crashes' = crashes + 1
    /\ handler' = "idle" /\ now' = 0 /\ todo' = {} /\ doing' = NoRow
    /\ run' = IF run = "running" THEN "orphan" ELSE run
    /\ processes' = 0 /\ programs' = 0
    /\ ArmAlarm(status, nextDue)
    /\ UNCHANGED <<clock, table, granted, occ, fired, archived, mail>>

------------------------------------------------------------------------------
AlarmStep ==
    \/ AlarmFires
    \/ \E r \in todo : PassBy(r) \/ Skip(r) \/ Dispatch(r)
    \/ Effect \/ Succeed \/ Fail \/ AlarmEnds

Others ==
    \/ Tick
    \/ ResetWorkspace
    \/ SetCapabilities
    \/ MarkArchived
    \/ InvokeSnippet \/ ProgramEnds
    \/ StartRun \/ EndRun \/ ProcessEnds \/ Approved \/ Recover
    \/ Crash
    \/ \E e \in Event : ReceiveInbox(e)
    \/ \E s \in Schedule :
         \/ CreateSchedule(s)
         \/ PauseSchedule(s)
         \/ SchedulesCreate(s)
         \/ SchedulesSet(s)

\* Only the execution of a snippet lets anything else in: between two of
\* them, the loop awaits nothing.
Next == AlarmStep \/ (handler # "listing" /\ Others)

Spec == Init /\ [][Next]_vars

\* An alarm that is due fires, and a snippet ends: executionTimeoutMs.
FairSpec == Spec /\ WF_vars(AlarmStep)

------------------------------------------------------------------------------
(* The type of the rows, the alarm and its handler. *)
TypeOK ==
    /\ clock \in 0 .. MaxTime /\ now \in 0 .. clock
    /\ status \in [Schedule -> {"absent", "active", "paused", "cancelled"}]
    /\ recurs \in [Schedule -> BOOLEAN]
    /\ nextDue \in [Schedule -> Due]
    /\ granted \in BOOLEAN /\ archived \in BOOLEAN
    /\ occ \in [Schedule -> [Due -> {"none", "dispatched"} \cup Ended]]
    /\ fired \in [Schedule -> [Due -> Nat]]
    /\ alarm \in Due \cup {NoAlarm} /\ unarmed \subseteq Schedule
    /\ handler \in {"idle", "listing", "executing", "executed"}
    /\ todo \subseteq Schedule \X Due
    /\ doing \in (Schedule \X Due) \cup {NoRow}
    /\ (handler \in {"executing", "executed"}) <=> (doing # NoRow)
    /\ run \in {"none", "running", "waiting", "orphan"}
    /\ processes \in Nat /\ programs \in Nat
    /\ IsFiniteSet(inbox) /\ inbox \subseteq [event : Event, done : BOOLEAN, at : Nat]
    /\ accepted \in [Event -> Nat] /\ messages \in [Event -> Nat]
    /\ crashes \in Nat

(***************************************************************************)
(* docs/DEMO.md:17, "Exactly one successful occurrence should appear; do   *)
(* not double-send": a snippet has its effects once for one due time of a  *)
(* schedule, whatever pauses, resumes, resets and alarms come in between.  *)
(* Only a crash between the effects and the end of the occurrence, which   *)
(* leaves it "dispatched", repeats them.                                   *)
(***************************************************************************)
FiredOnce ==
    \A s \in Schedule, d \in Due : fired[s][d] <= 1 + crashes

(***************************************************************************)
(* The alarm forgets no active schedule that a request, a run or the alarm *)
(* made or resumed: unless its handler or a process runs, whose end arms   *)
(* it, it is set for the earliest one.  Only what a program outside both   *)
(* created or resumed may be without an alarm, until something arms it.    *)
(***************************************************************************)
AlarmCovers ==
    Unattended =>
      \A s \in ActiveIn(status) \ unarmed : alarm # NoAlarm /\ alarm <= nextDue[s]

(***************************************************************************)
(* An event that the inbox accepted becomes a message or is still there:   *)
(* the pruning of a full inbox drops nothing that was not processed.       *)
(***************************************************************************)
NoEventLost ==
    \A e \in Event :
      accepted[e] = messages[e] + Cardinality({row \in Unprocessed : row.event = e})

(***************************************************************************)
(* The occurrence of a schedule that is due ends, across crashes, unless   *)
(* the schedule stops being active; a process that does not end may keep   *)
(* what its tools scheduled from the alarm, and what a program outside     *)
(* scheduled waits until something arms it.                                *)
(***************************************************************************)
DueIsServed ==
    \A s \in Schedule, d \in Due :
      status[s] = "active" /\ nextDue[s] = d /\ d <= clock
        ~> \/ occ[s][d] \in Ended
           \/ status[s] # "active" \/ nextDue[s] # d
           \/ processes > 0 \/ s \in unarmed
==============================================================================
