---------------------------- MODULE SchedulesProofs ---------------------------
(***************************************************************************)
(* Proofs about Schedules, for every set of schedules and events, all      *)
(* delays, and any number of crashes.                                      *)
(*                                                                         *)
(* AlarmCovers is inductive once the types are known: a tool schedules     *)
(* while a process or the handler runs, which end by arming the alarm, or  *)
(* its schedule is one of the unarmed.  What makes FiredOnce hold is       *)
(* Counted: the row of an occurrence says whether its effects may be       *)
(* repeated, and only a crash leaves it "dispatched" when nothing executes *)
(* it.                                                                     *)
(*                                                                         *)
(* That no event of the inbox is lost rests on its rows having one event   *)
(* each (MailInv), so that what a prune or a turn takes is known.          *)
(***************************************************************************)
EXTENDS Schedules, TLAPS, WellFoundedInduction, FiniteSetTheorems

USE TimesAssumption, NoneAssumption

\* TypeOK in parts, one for each group of variables.

ClockOK == clock \in 0 .. MaxTime /\ now \in 0 .. clock

TableOK ==
    /\ status \in [Schedule -> {"absent", "active", "paused", "cancelled"}]
    /\ recurs \in [Schedule -> BOOLEAN]
    /\ nextDue \in [Schedule -> Due]

RestOK ==
    /\ granted \in BOOLEAN /\ archived \in BOOLEAN
    /\ run \in {"none", "running", "waiting", "orphan"}
    /\ processes \in Nat /\ programs \in Nat
    /\ crashes \in Nat

OccOK ==
    /\ occ \in [Schedule -> [Due -> {"none", "dispatched"} \cup Ended]]
    /\ fired \in [Schedule -> [Due -> Nat]]

AlarmOK == alarm \in Due \cup {NoAlarm} /\ unarmed \subseteq Schedule

HandlerOK ==
    /\ handler \in {"idle", "listing", "executing", "executed"}
    /\ todo \subseteq Schedule \X Due
    /\ doing \in (Schedule \X Due) \cup {NoRow}
    /\ (handler \in {"executing", "executed"}) <=> (doing # NoRow)

MailOK ==
    /\ IsFiniteSet(inbox) /\ inbox \subseteq [event : Event, done : BOOLEAN, at : Nat]
    /\ accepted \in [Event -> Nat] /\ messages \in [Event -> Nat]

TypeInv == ClockOK /\ TableOK /\ RestOK /\ OccOK /\ AlarmOK /\ HandlerOK

Executing(s, d) == handler \in {"executing", "executed"} /\ doing = <<s, d>>

Counted ==
    \A s \in Schedule, d \in Due :
      /\ fired[s][d] <= 1 + crashes
      /\ occ[s][d] = "none" => fired[s][d] = 0
      /\ Executing(s, d) => occ[s][d] = "dispatched"
      /\ occ[s][d] = "dispatched" /\ ~(Executing(s, d) /\ handler = "executed")
           => fired[s][d] <= crashes

\* The primary key of the inbox.
EventIsKey == \A p, q \in inbox : p.event = q.event => p = q

MailInv == MailOK /\ EventIsKey /\ NoEventLost

------------------------------------------------------------------------------
(* Operators *)

(***************************************************************************)
(* NextAlarmTime of rows some of which are active is the least due time.   *)
(***************************************************************************)
LEMMA NextAlarmIsLeast ==
  ASSUME NEW st, NEW due \in [Schedule -> Due]
  PROVE  /\ NextAlarmTime(st, due) \in Due \cup {NoAlarm}
         /\ \A s \in ActiveIn(st) :
              NextAlarmTime(st, due) # NoAlarm /\ NextAlarmTime(st, due) <= due[s]
<1>1. CASE ActiveIn(st) = {}
  BY <1>1 DEF NextAlarmTime
<1>2. CASE ActiveIn(st) # {}
  <2> DEFINE Q == {due[s] : s \in ActiveIn(st)}
             T == {0 .. q : q \in Q}
             R == StrictSubsetOrdering(Nat)
  <2>0. Q # {} /\ Q \subseteq Due /\ Due \subseteq Nat
    BY <1>2 DEF ActiveIn, Due
  <2>1. T \subseteq FiniteSubsetsOf(Nat)
    <3>1. Q \subseteq Nat
      BY <2>0
    <3> HIDE DEF Q
    <3>2. \A q \in Q : q \in Nat /\ IsFiniteSet(0 .. q)
      BY <3>1, FS_Interval
    <3>3. \A q \in Q : 0 .. q \in FiniteSubsetsOf(Nat)
      BY <3>2 DEF FiniteSubsetsOf
    <3> QED BY <3>3
  <2>2. T # {}
    BY <2>0
  <2>3. PICK U \in T : \A V \in T : ~(<<V, U>> \in R)
    <3>1. IsWellFoundedOn(R, FiniteSubsetsOf(Nat))
      BY FS_StrictSubsetOrderingWellFounded
    <3> HIDE DEF R, T
    <3> QED BY <2>1, <2>2, <3>1, WFMin
  <2>4. PICK m \in Q : U = 0 .. m
    OBVIOUS
  <2> HIDE DEF Q
  <2>5. ASSUME NEW q \in Q, q < m
        PROVE  FALSE
    <3>1. 0 .. q \in SUBSET Nat /\ 0 .. m \in SUBSET Nat /\ 0 .. q \subseteq 0 .. m
      BY <2>0, <2>5
    <3>2. m \in 0 .. m /\ m \notin 0 .. q
      BY <2>0, <2>5
    <3>3. <<0 .. q, 0 .. m>> \in R
      BY <3>1, <3>2 DEF StrictSubsetOrdering
    <3> QED BY <3>3, <2>3, <2>4
  <2>6. m \in Q /\ \A q \in Q : m <= q
    BY <2>0, <2>5
  <2>7. NextAlarmTime(st, due) = CHOOSE t \in Q : \A s \in ActiveIn(st) : t <= due[s]
    BY <1>2 DEF NextAlarmTime, Q
  <2>8. \A s \in ActiveIn(st) : m <= due[s]
    BY <2>6 DEF Q
  <2>9. /\ NextAlarmTime(st, due) \in Q
        /\ \A s \in ActiveIn(st) : NextAlarmTime(st, due) <= due[s]
    BY <2>6, <2>7, <2>8
  <2>10. NextAlarmTime(st, due) # NoAlarm
    BY <2>0, <2>9
  <2> QED BY <2>0, <2>9, <2>10
<1> QED BY <1>1, <1>2

(***************************************************************************)
(* armAlarm leaves the alarm at the least due time of the rows.            *)
(***************************************************************************)
LEMMA ArmedCovers ==
  ASSUME NEW st, NEW due \in [Schedule -> Due], ArmAlarm(st, due)
  PROVE  /\ AlarmOK'
         /\ \A s \in ActiveIn(st) : alarm' # NoAlarm /\ alarm' <= due[s]
BY NextAlarmIsLeast DEF ArmAlarm, AlarmOK, Due

------------------------------------------------------------------------------
(* Types *)

(* The parts below make up the type invariant that the run checks. *)
LEMMA TypesAreTypeOK == TypeInv /\ MailOK => TypeOK
BY DEF TypeInv, MailOK, ClockOK, TableOK, RestOK, OccOK, AlarmOK, HandlerOK, TypeOK

(* Nothing scheduled, nothing fired. *)
LEMMA InitTyped == Init => TypeInv
<1> SUFFICES ASSUME Init PROVE TypeInv
  OBVIOUS
<1>1. ClockOK /\ RestOK
  <2>1. clock = 0 /\ now = 0 /\ granted = TRUE /\ archived = FALSE
    BY DEF Init
  <2>2. run = "none" /\ processes = 0 /\ programs = 0 /\ crashes = 0
    BY DEF Init
  <2>3. ClockOK
    BY <2>1 DEF ClockOK
  <2>4. granted \in BOOLEAN /\ archived \in BOOLEAN
    BY <2>1, Zenon
  <2>5. RestOK
    BY <2>2, <2>4 DEF RestOK
  <2> QED BY <2>3, <2>5
<1>4. AlarmOK /\ HandlerOK
  BY DEF Init, AlarmOK, HandlerOK
<1>2. TableOK
  <2>1. 0 \in Due
    BY DEF Due
  <2> QED BY <2>1 DEF Init, TableOK
<1>3. OccOK
  BY DEF Init, OccOK
<1> QED BY <1>1, <1>2, <1>3, <1>4 DEF TypeInv

(* A part whose variables do not change keeps its type. *)
LEMMA Kept ==
  ASSUME TypeInv
  PROVE  /\ UNCHANGED <<clock, now>> => ClockOK'
         /\ UNCHANGED table => TableOK'
         /\ UNCHANGED <<granted, runs, archived, crashes>> => RestOK'
         /\ UNCHANGED <<occ, fired>> => OccOK'
         /\ UNCHANGED arming => AlarmOK'
         /\ UNCHANGED handling => HandlerOK'
<1>1. /\ UNCHANGED <<clock, now>> => ClockOK'
      /\ UNCHANGED table => TableOK'
      /\ UNCHANGED <<granted, runs, archived, crashes>> => RestOK'
  BY DEF TypeInv, ClockOK, TableOK, RestOK, table, runs
<1>2. /\ UNCHANGED <<occ, fired>> => OccOK'
      /\ UNCHANGED arming => AlarmOK'
      /\ UNCHANGED handling => HandlerOK'
  BY DEF TypeInv, OccOK, AlarmOK, HandlerOK, handling, arming
<1> QED BY <1>1, <1>2

(***************************************************************************)
(* The rows of a new schedule (store.createSchedule).                      *)
(***************************************************************************)
LEMMA NewTyped ==
  ASSUME TypeInv, NEW s \in Schedule, NEW ds \in SUBSET Delays, NewSchedule(s, ds)
  PROVE  TableOK'
<1>1. PICK d \in ds, r \in BOOLEAN :
        /\ nextDue' = [nextDue EXCEPT ![s] = clock + d]
        /\ recurs' = [recurs EXCEPT ![s] = r]
  BY DEF NewSchedule
<1>2. clock + d \in Due
  BY DEF TypeInv, ClockOK, Due
<1>3. nextDue' \in [Schedule -> Due] /\ recurs' \in [Schedule -> BOOLEAN]
  BY <1>1, <1>2 DEF TypeInv, TableOK
<1>4. status' \in [Schedule -> {"absent", "active", "paused", "cancelled"}]
  BY DEF NewSchedule, TypeInv, TableOK
<1> QED BY <1>3, <1>4 DEF TableOK

(***************************************************************************)
(* The rows after an occurrence (updateSchedule).                          *)
(***************************************************************************)
LEMMA RescheduleTyped ==
  ASSUME TypeInv, NEW s \in Schedule, Reschedule(s), recurs' = recurs
  PROVE  TableOK'
<1>1. now + Recur \in Due
  BY DEF TypeInv, ClockOK, Due
<1> QED BY <1>1 DEF Reschedule, TypeInv, TableOK

(* Writing the status of one occurrence keeps the table typed. *)
LEMMA OccTyped ==
  ASSUME TypeInv, NEW r \in Schedule \X Due,
         NEW st \in {"none", "dispatched"} \cup Ended, SetOcc(r, st), fired' = fired
  PROVE  OccOK'
<1>1. r[1] \in Schedule /\ r[2] \in Due
  OBVIOUS
<1>2. occ[r[1]] \in [Due -> {"none", "dispatched"} \cup Ended]
  BY <1>1 DEF TypeInv, OccOK
<1>3. occ' = [occ EXCEPT ![r[1]] = [occ[r[1]] EXCEPT ![r[2]] = st]]
  BY <1>1 DEF SetOcc, TypeInv, OccOK
<1>4. [occ[r[1]] EXCEPT ![r[2]] = st] \in [Due -> {"none", "dispatched"} \cup Ended]
  BY <1>2
<1>5. occ' \in [Schedule -> [Due -> {"none", "dispatched"} \cup Ended]]
  BY <1>3, <1>4 DEF TypeInv, OccOK
<1> QED BY <1>5 DEF TypeInv, OccOK

(***************************************************************************)
(* Requests and tools change rows and the alarm, and no occurrence.        *)
(***************************************************************************)
LEMMA OthersTyped ==
  ASSUME TypeInv, Others
  PROVE  TypeInv'
<1>1. CASE Tick
  <2>1. ClockOK'
    BY <1>1 DEF Tick, TypeInv, ClockOK, handling
  <2>2. UNCHANGED <<table, occ, fired, arming, handling, granted, runs, archived, crashes>>
    BY <1>1 DEF Tick
  <2> QED BY <2>1, <2>2, Kept DEF TypeInv
<1>2. CASE ResetWorkspace
  <2>1. TableOK'
    <3>1. Cleared \in [Schedule -> {"absent", "active", "paused", "cancelled"}]
      BY DEF Cleared, TypeInv, TableOK
    <3> QED BY <1>2, <3>1 DEF ResetWorkspace, TypeInv, TableOK
  <2>2. AlarmOK'
    BY <1>2, ArmedCovers DEF ResetWorkspace, TypeInv, TableOK
  <2>3. UNCHANGED <<clock, now, occ, fired, handling, granted, runs, archived, crashes>>
    BY <1>2 DEF ResetWorkspace, handling
  <2> QED BY <2>1, <2>2, <2>3, Kept DEF TypeInv
<1>3. CASE SetCapabilities \/ MarkArchived
  <2>1. UNCHANGED <<clock, now, table, occ, fired, arming, handling, runs, crashes>>
    BY <1>3 DEF SetCapabilities, MarkArchived, handling
  <2>2. granted' \in BOOLEAN /\ archived' \in BOOLEAN
    BY <1>3 DEF SetCapabilities, MarkArchived, TypeInv, RestOK
  <2>3. RestOK'
    BY <2>1, <2>2 DEF TypeInv, RestOK, runs
  <2> QED BY <2>1, <2>3, Kept DEF TypeInv
<1>4. CASE StartRun \/ Approved \/ Recover \/ InvokeSnippet \/ ProgramEnds \/ EndRun
  <2>1. UNCHANGED <<clock, now, table, occ, fired, alarm, handling, granted, archived,
                    crashes>>
    BY <1>4 DEF StartRun, Approved, Recover, InvokeSnippet, ProgramEnds, EndRun, handling,
                arming
  <2>2. run' \in {"none", "running", "waiting", run}
    BY <1>4 DEF StartRun, Approved, Recover, InvokeSnippet, ProgramEnds, EndRun
  <2>3. processes' \in Nat /\ programs' \in Nat
    BY <1>4 DEF StartRun, Approved, Recover, InvokeSnippet, ProgramEnds, EndRun, TypeInv,
                RestOK
  <2>4. RestOK'
    BY <2>1, <2>2, <2>3 DEF TypeInv, RestOK
  <2>5. unarmed' \in {unarmed, {}}
    BY <1>4 DEF StartRun, Approved, Recover, InvokeSnippet, ProgramEnds, EndRun, arming
  <2>6. AlarmOK'
    BY <2>1, <2>5 DEF TypeInv, AlarmOK
  <2> QED BY <2>1, <2>4, <2>6, Kept DEF TypeInv
<1>5. CASE ProcessEnds
  <2>1. RestOK'
    BY <1>5 DEF ProcessEnds, TypeInv, RestOK
  <2>2. AlarmOK'
    BY <1>5, ArmedCovers DEF ProcessEnds, TypeInv, TableOK
  <2>3. UNCHANGED <<clock, now, table, occ, fired, handling>>
    BY <1>5 DEF ProcessEnds, handling
  <2> QED BY <2>1, <2>2, <2>3, Kept DEF TypeInv
<1>6. CASE Crash
  <2>1. ClockOK'
    BY <1>6 DEF Crash, TypeInv, ClockOK
  <2>2. RestOK'
    BY <1>6 DEF Crash, TypeInv, RestOK
  <2>3. HandlerOK'
    BY <1>6 DEF Crash, HandlerOK
  <2>4. AlarmOK'
    BY <1>6, ArmedCovers DEF Crash, TypeInv, TableOK
  <2>5. UNCHANGED <<table, occ, fired>>
    BY <1>6 DEF Crash
  <2> QED BY <2>1, <2>2, <2>3, <2>4, <2>5, Kept DEF TypeInv
<1>7. ASSUME NEW e \in Event, ReceiveInbox(e)
      PROVE  TypeInv'
  <2>1. AlarmOK'
    BY <1>7, ArmedCovers DEF ReceiveInbox, TypeInv, TableOK
  <2>2. UNCHANGED <<clock, now, table, occ, fired, handling, granted, runs, archived,
                    crashes>>
    BY <1>7 DEF ReceiveInbox, handling
  <2> QED BY <2>1, <2>2, Kept DEF TypeInv
<1>8. ASSUME NEW s \in Schedule, CreateSchedule(s)
      PROVE  TypeInv'
  <2>1. TableOK'
    BY <1>8, NewTyped DEF CreateSchedule
  <2>2. AlarmOK'
    BY <1>8, <2>1, ArmedCovers DEF CreateSchedule, TableOK
  <2>3. UNCHANGED <<clock, now, occ, fired, handling, granted, runs, archived, crashes>>
    BY <1>8 DEF CreateSchedule, handling
  <2> QED BY <2>1, <2>2, <2>3, Kept DEF TypeInv
<1>9. ASSUME NEW s \in Schedule, PauseSchedule(s)
      PROVE  TypeInv'
  <2>1. TableOK'
    BY <1>9 DEF PauseSchedule, TypeInv, TableOK
  <2>2. AlarmOK'
    BY <1>9, ArmedCovers DEF PauseSchedule, TypeInv, TableOK
  <2>3. UNCHANGED <<clock, now, occ, fired, handling, granted, runs, archived, crashes>>
    BY <1>9 DEF PauseSchedule, handling
  <2> QED BY <2>1, <2>2, <2>3, Kept DEF TypeInv
<1>10. ASSUME NEW s \in Schedule, SchedulesCreate(s)
       PROVE  TypeInv'
  <2>1. TableOK'
    BY <1>10, NewTyped DEF SchedulesCreate
  <2>2. UNCHANGED <<clock, now, occ, fired, handling, granted, runs, archived, crashes>>
    BY <1>10 DEF SchedulesCreate, handling
  <2>3. AlarmOK'
    BY <1>10 DEF SchedulesCreate, LeftUnarmed, ActiveIn, TypeInv, AlarmOK
  <2> QED BY <2>1, <2>2, <2>3, Kept DEF TypeInv
<1>11. ASSUME NEW s \in Schedule, SchedulesSet(s)
       PROVE  TypeInv'
  <2>1. TableOK'
    BY <1>11 DEF SchedulesSet, TypeInv, TableOK
  <2>2. UNCHANGED <<clock, now, occ, fired, handling, granted, runs, archived, crashes>>
    BY <1>11 DEF SchedulesSet, handling
  <2>3. AlarmOK'
    BY <1>11 DEF SchedulesSet, LeftUnarmed, ActiveIn, TypeInv, AlarmOK
  <2> QED BY <2>1, <2>2, <2>3, Kept DEF TypeInv
<1> QED
  BY <1>1, <1>2, <1>3, <1>4, <1>5, <1>6, <1>7, <1>8, <1>9, <1>10, <1>11 DEF Others

(***************************************************************************)
(* The handler of the alarm.                                               *)
(***************************************************************************)
LEMMA AlarmTyped ==
  ASSUME TypeInv, AlarmStep
  PROVE  TypeInv'
<1>1. CASE AlarmFires
  <2>1. ClockOK' /\ AlarmOK'
    BY <1>1 DEF AlarmFires, TypeInv, ClockOK, AlarmOK
  <2>2. RestOK'
    BY <1>1 DEF AlarmFires, TypeInv, RestOK
  <2>3. todo' \subseteq Schedule \X Due
    BY <1>1 DEF AlarmFires, DueRows, ActiveIn, TypeInv, TableOK
  <2>4. HandlerOK'
    BY <1>1, <2>3 DEF AlarmFires, TypeInv, HandlerOK
  <2>5. UNCHANGED <<table, occ, fired>>
    BY <1>1 DEF AlarmFires
  <2> QED BY <2>1, <2>2, <2>4, <2>5, Kept DEF TypeInv
<1>2. ASSUME NEW r \in todo, PassBy(r)
      PROVE  TypeInv'
  <2>1. HandlerOK'
    BY <1>2 DEF PassBy, TypeInv, HandlerOK
  <2>2. UNCHANGED <<clock, now, table, occ, fired, arming, granted, runs, archived, crashes>>
    BY <1>2 DEF PassBy
  <2> QED BY <2>1, <2>2, Kept DEF TypeInv
<1>3. ASSUME NEW r \in todo, Skip(r)
      PROVE  TypeInv'
  <2>1. r \in Schedule \X Due /\ r[1] \in Schedule
    BY DEF TypeInv, HandlerOK
  <2>2. HandlerOK'
    BY <1>3 DEF Skip, TypeInv, HandlerOK
  <2>3. OccOK'
    BY <1>3, <2>1, OccTyped DEF Skip, Ended
  <2>4. TableOK'
    BY <1>3, <2>1, RescheduleTyped DEF Skip
  <2>5. UNCHANGED <<clock, now, arming, granted, runs, archived, crashes>>
    BY <1>3 DEF Skip
  <2> QED BY <2>2, <2>3, <2>4, <2>5, Kept DEF TypeInv
<1>4. ASSUME NEW r \in todo, Dispatch(r)
      PROVE  TypeInv'
  <2>1. r \in Schedule \X Due /\ r # NoRow
    BY DEF TypeInv, HandlerOK, Due
  <2>2. HandlerOK'
    BY <1>4, <2>1 DEF Dispatch, TypeInv, HandlerOK
  <2>3. OccOK'
    BY <1>4, <2>1, OccTyped DEF Dispatch
  <2>4. UNCHANGED <<clock, now, table, arming, granted, runs, archived, crashes>>
    BY <1>4 DEF Dispatch
  <2> QED BY <2>2, <2>3, <2>4, Kept DEF TypeInv
<1>5. CASE Effect
  <2>1. doing \in Schedule \X Due
    BY <1>5 DEF Effect, TypeInv, HandlerOK
  <2>2. HandlerOK'
    BY <1>5 DEF Effect, TypeInv, HandlerOK
  <2>3. fired' \in [Schedule -> [Due -> Nat]]
    BY <1>5, <2>1 DEF Effect, TypeInv, OccOK
  <2>4. OccOK'
    BY <1>5, <2>3 DEF Effect, TypeInv, OccOK
  <2>5. UNCHANGED <<clock, now, table, arming, granted, runs, archived, crashes>>
    BY <1>5 DEF Effect
  <2> QED BY <2>2, <2>4, <2>5, Kept DEF TypeInv
<1>6. CASE Succeed
  <2>1. doing \in Schedule \X Due /\ doing[1] \in Schedule
    BY <1>6 DEF Succeed, TypeInv, HandlerOK
  <2>2. HandlerOK'
    BY <1>6 DEF Succeed, TypeInv, HandlerOK
  <2>3. OccOK'
    BY <1>6, <2>1, OccTyped DEF Succeed, Ended
  <2>4. TableOK'
    BY <1>6, <2>1, RescheduleTyped DEF Succeed
  <2>5. UNCHANGED <<clock, now, arming, granted, runs, archived, crashes>>
    BY <1>6 DEF Succeed
  <2> QED BY <2>2, <2>3, <2>4, <2>5, Kept DEF TypeInv
<1>7. CASE Fail
  <2>1. doing \in Schedule \X Due /\ doing[1] \in Schedule
    BY <1>7 DEF Fail, TypeInv, HandlerOK
  <2>2. HandlerOK'
    BY <1>7 DEF Fail, TypeInv, HandlerOK
  <2>3. OccOK'
    BY <1>7, <2>1, OccTyped DEF Fail, Ended
  <2>4. TableOK'
    <3>1. now + RetryAfter \in Due
      BY DEF TypeInv, ClockOK, Due
    <3> QED BY <1>7, <3>1 DEF Fail, TypeInv, TableOK
  <2>5. UNCHANGED <<clock, now, arming>>
    BY <1>7 DEF Fail
  <2>6. RestOK'
    BY <1>7 DEF Fail, TypeInv, RestOK
  <2> QED BY <2>2, <2>3, <2>4, <2>5, <2>6, Kept DEF TypeInv
<1>8. CASE AlarmEnds
  <2>1. ClockOK'
    BY <1>8 DEF AlarmEnds, TypeInv, ClockOK
  <2>2. HandlerOK'
    BY <1>8 DEF AlarmEnds, TypeInv, HandlerOK
  <2>3. AlarmOK'
    BY <1>8, ArmedCovers DEF AlarmEnds, TypeInv, TableOK
  <2>4. UNCHANGED <<table, occ, fired, granted, runs, archived, crashes>>
    BY <1>8 DEF AlarmEnds
  <2> QED BY <2>1, <2>2, <2>3, <2>4, Kept DEF TypeInv
<1> QED BY <1>1, <1>2, <1>3, <1>4, <1>5, <1>6, <1>7, <1>8 DEF AlarmStep

(* Every step keeps the types. *)
LEMMA NextTyped ==
  ASSUME TypeInv, [Next]_vars
  PROVE  TypeInv'
<1>1. CASE UNCHANGED vars
  <2>1. UNCHANGED <<clock, now, table, occ, fired, arming, handling, granted, runs, archived,
                    crashes>>
    BY <1>1 DEF vars, handling
  <2> QED BY <2>1, Kept DEF TypeInv
<1> QED BY <1>1, OthersTyped, AlarmTyped DEF Next

------------------------------------------------------------------------------
(* The inbox *)

(***************************************************************************)
(* Of rows with one key there is one at most.                              *)
(***************************************************************************)
LEMMA CountOfKey ==
  ASSUME NEW S, \A p, q \in S : p = q
  PROVE  Cardinality(S) = IF S = {} THEN 0 ELSE 1
<1>1. CASE S = {}
  BY <1>1, FS_EmptySet
<1>2. CASE S # {}
  <2>1. PICK p \in S : TRUE
    BY <1>2
  <2>2. S = {p}
    BY <2>1
  <2>3. Cardinality({p}) = 1
    BY FS_Singleton
  <2> QED BY <1>2, <2>2, <2>3
<1> QED BY <1>1, <1>2

(***************************************************************************)
(* The greatest of finitely many naturals.                                 *)
(***************************************************************************)
LEMMA MaxIsIn ==
  ASSUME NEW S \in SUBSET Nat, S # {}, IsFiniteSet(S)
  PROVE  Max(S) \in S /\ \A x \in S : x <= Max(S)
<1> DEFINE Above(x) == {y \in S : y > x}
           T == {Above(x) : x \in S}
           R == StrictSubsetOrdering(S)
<1>1. T \subseteq FiniteSubsetsOf(S)
  <2>1. \A x \in S : IsFiniteSet(Above(x)) /\ Above(x) \subseteq S
    BY FS_Subset
  <2> QED BY <2>1 DEF FiniteSubsetsOf
<1>2. PICK U \in T : \A V \in T : ~(<<V, U>> \in R)
  <2>1. IsWellFoundedOn(R, FiniteSubsetsOf(S))
    BY FS_StrictSubsetOrderingWellFounded
  <2>2. T # {}
    OBVIOUS
  <2> HIDE DEF R, T
  <2> QED BY <1>1, <2>1, <2>2, WFMin
<1>3. PICK m \in S : U = Above(m)
  OBVIOUS
<1>4. ASSUME NEW y \in S, y > m
      PROVE  FALSE
  <2>1. Above(y) \in SUBSET S /\ Above(m) \in SUBSET S /\ Above(y) \subseteq Above(m)
    <3>1. \A z \in S : z > y => z > m
      <4>1. m \in Nat /\ y \in Nat /\ \A z \in S : z \in Nat
        OBVIOUS
      <4> QED BY <4>1, <1>4
    <3> QED BY <3>1
  <2>2. y \in Above(m) /\ y \notin Above(y)
    BY <1>4
  <2>3. <<Above(y), Above(m)>> \in R
    BY <2>1, <2>2 DEF StrictSubsetOrdering
  <2> QED BY <2>3, <1>2, <1>3
<1>5. \A x \in S : m >= x
  BY <1>4
<1> QED BY <1>5 DEF Max

(***************************************************************************)
(* A function takes finitely many values on a finite set.                  *)
(***************************************************************************)
LEMMA FiniteImage ==
  ASSUME NEW S, IsFiniteSet(S), NEW f, DOMAIN f = S
  PROVE  IsFiniteSet({f[x] : x \in S})
<1> DEFINE T == {f[x] : x \in S}
<1>1. [x \in S |-> f[x]] \in Surjection(S, T)
  BY DEF Surjection
<1> HIDE DEF T
<1>2. IsFiniteSet(T)
  BY <1>1, FS_Surjection
<1> QED BY <1>2 DEF T

(***************************************************************************)
(* A row that comes in has a place after those that are there.             *)
(***************************************************************************)
LEMMA NewRowTyped ==
  ASSUME MailOK, NEW e \in Event
  PROVE  NewRow(e) \in [event : Event, done : BOOLEAN, at : Nat]
<1> DEFINE S == {row.at : row \in inbox} \cup {0}
<1>1. IsFiniteSet({row.at : row \in inbox})
  <2> DEFINE f == [row \in inbox |-> row.at]
  <2>1. IsFiniteSet({f[row] : row \in inbox})
    <3>1. DOMAIN f = inbox /\ IsFiniteSet(inbox)
      BY DEF MailOK
    <3> HIDE DEF f
    <3> QED BY <3>1, FiniteImage
  <2> QED BY <2>1
<1>2. IsFiniteSet(S)
  BY <1>1, FS_AddElement
<1>3. S \in SUBSET Nat /\ S # {}
  BY DEF MailOK
<1>4. Max(S) \in Nat
  <2> HIDE DEF S
  <2> QED BY <1>2, <1>3, MaxIsIn
<1> QED BY <1>4 DEF NewRow

(***************************************************************************)
(* Pruning takes processed rows only (enqueueInbox).                       *)
(***************************************************************************)
LEMMA PruneKeepsUnprocessed ==
  ASSUME NEW rows
  PROVE  /\ Prune(rows) \subseteq rows
         /\ \A row \in rows : ~row.done => row \in Prune(rows)
BY DEF Prune, Oldest, Prunable

(* An event that arrives keeps the account of the mail. *)
LEMMA ReceiveMail ==
  ASSUME MailInv, NEW e \in Event, ReceiveInbox(e)
  PROVE  MailInv'
<1> DEFINE rows == inbox \cup {NewRow(e)}
<1>1. /\ \A row \in inbox : row.event # e
      /\ inbox' = Prune(rows)
      /\ accepted' = [accepted EXCEPT ![e] = @ + 1]
      /\ messages' = messages
  BY DEF ReceiveInbox
<1>2. /\ NewRow(e) \in [event : Event, done : BOOLEAN, at : Nat]
      /\ NewRow(e).event = e /\ ~NewRow(e).done
  BY NewRowTyped DEF MailInv, NewRow
<1>3. /\ inbox' \subseteq rows
      /\ \A row \in rows : ~row.done => row \in inbox'
  BY <1>1, PruneKeepsUnprocessed
<1>4. MailOK'
  <2>1. IsFiniteSet(rows)
    BY FS_AddElement DEF MailInv, MailOK
  <2>2. IsFiniteSet(inbox')
    BY <1>3, <2>1, FS_Subset
  <2>3. inbox' \subseteq [event : Event, done : BOOLEAN, at : Nat]
    BY <1>2, <1>3 DEF MailInv, MailOK
  <2>4. accepted' \in [Event -> Nat] /\ messages' \in [Event -> Nat]
    BY <1>1 DEF MailInv, MailOK
  <2> QED BY <2>2, <2>3, <2>4 DEF MailOK
<1>5. EventIsKey'
  BY <1>1, <1>2, <1>3 DEF MailInv, EventIsKey
<1>6. NoEventLost'
  <2> SUFFICES ASSUME NEW x \in Event
               PROVE  accepted'[x] = messages[x] +
                        Cardinality({row \in Unprocessed' : row.event = x})
    BY <1>1 DEF NoEventLost
  <2> DEFINE U == {row \in Unprocessed : row.event = x}
             V == {row \in Unprocessed' : row.event = x}
  <2>1. accepted[x] = messages[x] + Cardinality(U)
    BY DEF MailInv, NoEventLost
  <2>2. accepted[x] \in Nat /\ messages[x] \in Nat
    BY DEF MailInv, MailOK
  <2>3. CASE x = e
    <3>1. U = {}
      BY <1>1, <2>3 DEF Unprocessed
    <3>2. V = {NewRow(e)}
      BY <1>1, <1>2, <1>3, <2>3 DEF Unprocessed
    <3>3. Cardinality(U) = 0 /\ Cardinality(V) = 1
      BY <3>1, <3>2, FS_EmptySet, FS_Singleton
    <3>4. accepted'[x] = accepted[x] + 1
      BY <1>1, <2>3 DEF MailInv, MailOK
    <3> HIDE DEF U, V
    <3>5. Cardinality(V) = 1 /\ accepted'[x] = messages[x] + 1
      BY <2>1, <2>2, <3>3, <3>4
    <3> QED BY <3>5 DEF V
  <2>4. CASE x # e
    <3>1. U = V
      BY <1>2, <1>3, <2>4 DEF Unprocessed
    <3>2. accepted'[x] = accepted[x]
      BY <1>1, <2>4 DEF MailInv, MailOK
    <3> QED BY <2>1, <3>1, <3>2
  <2> QED BY <2>3, <2>4
<1> QED BY <1>4, <1>5, <1>6 DEF MailInv

(***************************************************************************)
(* A turn of the inbox marks the rows it makes messages of, and no others. *)
(***************************************************************************)
LEMMA ProcessMail ==
  ASSUME MailInv, ProcessInbox(FALSE), accepted' = accepted
  PROVE  MailInv'
<1> DEFINE Rows == [event : Event, done : BOOLEAN, at : Nat]
           Done(row) == [row EXCEPT !.done = TRUE]
           Marked == {Done(row) : row \in Pending}
<1>1. /\ inbox' = (inbox \ Pending) \cup Marked
      /\ messages' = [e \in Event |-> messages[e] +
                        Cardinality({row \in Pending : row.event = e})]
  BY DEF ProcessInbox
<1>2. Pending \subseteq inbox /\ \A row \in Pending : ~row.done
  BY DEF Pending, Oldest, Unprocessed
<1>3. \A row \in inbox : Done(row) \in Rows /\ Done(row).event = row.event /\ Done(row).done
  BY DEF MailInv, MailOK
<1>4. \A e \in Event :
        /\ \A p, q \in {row \in Unprocessed : row.event = e} : p = q
        /\ \A p, q \in {row \in Pending : row.event = e} : p = q
  BY <1>2 DEF MailInv, EventIsKey, Unprocessed
<1>5. MailOK'
  <2>1. IsFiniteSet(Pending)
    BY <1>2, FS_Subset DEF MailInv, MailOK
  <2>2. IsFiniteSet(Marked) /\ IsFiniteSet(inbox \ Pending)
    <3>1. IsFiniteSet(inbox)
      BY DEF MailInv, MailOK
    <3>2. IsFiniteSet(inbox \ Pending)
      BY <3>1, FS_Subset
    <3> DEFINE f == [row \in Pending |-> Done(row)]
    <3>3. IsFiniteSet({f[row] : row \in Pending})
      <4>1. DOMAIN f = Pending
        OBVIOUS
      <4> HIDE DEF f
      <4> QED BY <2>1, <4>1, FiniteImage
    <3>4. IsFiniteSet(Marked)
      BY <3>3
    <3> QED BY <3>2, <3>4
  <2>3. IsFiniteSet(inbox')
    <3> HIDE DEF Marked
    <3> QED BY <1>1, <2>2, FS_Union
  <2>4. inbox' \subseteq Rows
    BY <1>1, <1>2, <1>3 DEF MailInv, MailOK
  <2>5. \A e \in Event : Cardinality({row \in Pending : row.event = e}) \in Nat
    <3>1. ASSUME NEW e \in Event
          PROVE  Cardinality({row \in Pending : row.event = e}) \in {0, 1}
      BY <1>4, CountOfKey
    <3> QED BY <3>1
  <2>6. messages' \in [Event -> Nat]
    <3>1. \A e \in Event : messages[e] \in Nat
      BY DEF MailInv, MailOK
    <3> DEFINE n(e) == Cardinality({row \in Pending : row.event = e})
    <3>2. \A e \in Event : n(e) \in Nat
      BY <2>5
    <3>3. messages' = [e \in Event |-> messages[e] + n(e)]
      BY <1>1
    <3> HIDE DEF n
    <3>4. \A e \in Event : messages[e] + n(e) \in Nat
      BY <3>1, <3>2
    <3> QED BY <3>3, <3>4
  <2> QED BY <2>3, <2>4, <2>6 DEF MailInv, MailOK
<1>6. EventIsKey'
  <2> SUFFICES ASSUME NEW p \in inbox', NEW q \in inbox', p.event = q.event
               PROVE  p = q
    BY DEF EventIsKey
  <2>1. PICK r \in inbox : r.event = p.event /\
          ((r \in Pending /\ p = Done(r)) \/ (r \notin Pending /\ p = r))
    BY <1>1, <1>2, <1>3
  <2>2. PICK s \in inbox : s.event = q.event /\
          ((s \in Pending /\ q = Done(s)) \/ (s \notin Pending /\ q = s))
    BY <1>1, <1>2, <1>3
  <2>3. r = s
    BY <2>1, <2>2 DEF MailInv, EventIsKey
  <2> HIDE DEF Done
  <2> QED BY <2>1, <2>2, <2>3
<1>7. NoEventLost'
  <2> SUFFICES ASSUME NEW e \in Event
               PROVE  accepted[e] = messages'[e] +
                        Cardinality({row \in Unprocessed' : row.event = e})
    BY DEF NoEventLost
  <2> DEFINE U == {row \in Unprocessed : row.event = e}
             P == {row \in Pending : row.event = e}
             V == {row \in Unprocessed' : row.event = e}
  <2>1. accepted[e] = messages[e] + Cardinality(U) /\ messages[e] \in Nat
    BY DEF MailInv, MailOK, NoEventLost
  <2>2. messages'[e] = messages[e] + Cardinality(P)
    BY <1>1
  <2>3. P \subseteq U /\ V = U \ P
    <3>1. P \subseteq U
      BY <1>2 DEF Unprocessed
    <3>2. ASSUME NEW row \in inbox', ~row.done
          PROVE  row \in inbox \ Pending
      BY <1>1, <1>2, <1>3, <3>2
    <3>3. \A row \in inbox \ Pending : row \in inbox'
      BY <1>1
    <3> HIDE DEF Marked
    <3>4. V = U \ P
      BY <3>2, <3>3 DEF Unprocessed
    <3> QED BY <3>1, <3>4
  <2>4. /\ Cardinality(U) = IF U = {} THEN 0 ELSE 1
        /\ Cardinality(P) = IF P = {} THEN 0 ELSE 1
        /\ Cardinality(V) = IF V = {} THEN 0 ELSE 1
    <3>1. (\A p, q \in U : p = q) /\ (\A p, q \in P : p = q)
      BY <1>4
    <3> HIDE DEF U, P, V
    <3>2. \A p, q \in V : p = q
      BY <2>3, <3>1
    <3> QED BY <3>1, <3>2, CountOfKey
  <2>5. P = {} \/ P = U
    BY <1>4, <2>3
  <2> HIDE DEF U, P, V
  <2>6. Cardinality(U) = Cardinality(P) + Cardinality(V)
    <3>1. CASE P = {}
      BY <2>3, <2>4, <3>1
    <3>2. CASE P = U
      BY <2>3, <2>4, <3>2
    <3> QED BY <2>5, <3>1, <3>2
  <2>7. Cardinality(P) \in {0, 1} /\ Cardinality(V) \in {0, 1}
    BY <2>4
  <2>8. accepted[e] = messages'[e] + Cardinality(V)
    BY <2>1, <2>2, <2>6, <2>7
  <2> QED BY <2>8 DEF V
<1> QED BY <1>5, <1>6, <1>7 DEF MailInv

(* No mail yet. *)
LEMMA InitMail == Init => MailInv
<1> SUFFICES ASSUME Init PROVE MailInv
  OBVIOUS
<1>1. MailOK /\ EventIsKey
  BY FS_EmptySet DEF Init, MailOK, EventIsKey
<1>2. NoEventLost
  <2> SUFFICES ASSUME NEW e \in Event
               PROVE  accepted[e] = messages[e] +
                        Cardinality({row \in Unprocessed : row.event = e})
    BY DEF NoEventLost
  <2>1. {row \in Unprocessed : row.event = e} = {}
    BY DEF Init, Unprocessed
  <2>2. Cardinality({row \in Unprocessed : row.event = e}) = 0
    BY <2>1, FS_EmptySet
  <2>3. accepted[e] = 0 /\ messages[e] = 0
    BY DEF Init
  <2> QED BY <2>2, <2>3
<1> QED BY <1>1, <1>2 DEF MailInv

(* Every step keeps the account of the mail. *)
LEMMA NextMail ==
  ASSUME MailInv, [Next]_vars
  PROVE  MailInv'
<1>1. ASSUME UNCHANGED mail
      PROVE  MailInv'
  BY <1>1 DEF mail, MailInv, MailOK, EventIsKey, NoEventLost, Unprocessed
<1>2. CASE AlarmFires
  <2>1. accepted' = accepted /\ (ProcessInbox(FALSE) \/ UNCHANGED mail)
    BY <1>2 DEF AlarmFires, ProcessInbox, mail
  <2> QED BY <1>1, <2>1, ProcessMail
<1>3. CASE \E e \in Event : ReceiveInbox(e)
  BY <1>3, ReceiveMail
<1>4. CASE UNCHANGED vars
  BY <1>1, <1>4 DEF vars
<1>5. ASSUME \/ \E r \in todo : PassBy(r) \/ Skip(r) \/ Dispatch(r)
             \/ Effect \/ Succeed \/ Fail \/ AlarmEnds
      PROVE  UNCHANGED mail
  BY <1>5 DEF PassBy, Skip, Dispatch, Effect, Succeed, Fail, AlarmEnds
<1>6. ASSUME \/ Tick \/ ResetWorkspace \/ SetCapabilities \/ MarkArchived
             \/ StartRun \/ EndRun \/ ProcessEnds \/ Approved \/ Recover \/ Crash
             \/ InvokeSnippet \/ ProgramEnds
             \/ \E s \in Schedule : CreateSchedule(s) \/ PauseSchedule(s)
                                    \/ SchedulesCreate(s) \/ SchedulesSet(s)
      PROVE  UNCHANGED mail
  BY <1>6 DEF Tick, ResetWorkspace, SetCapabilities, MarkArchived, StartRun, EndRun,
              ProcessEnds, InvokeSnippet, ProgramEnds, Approved, Recover, Crash, CreateSchedule, PauseSchedule, SchedulesCreate,
              SchedulesSet
<1> QED BY <1>1, <1>2, <1>3, <1>4, <1>5, <1>6 DEF Next, AlarmStep, Others

(***************************************************************************)
(* An event that the inbox accepted became one message or is there to be   *)
(* processed: neither the turns of the inbox nor the pruning of a full one *)
(* lose any (enqueueInbox, processInboxCoordinatorTurns).                  *)
(***************************************************************************)
THEOREM EventsAreKept == Spec => []NoEventLost
<1>1. MailInv => NoEventLost
  BY DEF MailInv
<1> QED BY <1>1, InitMail, NextMail, PTL DEF Spec

------------------------------------------------------------------------------
(***************************************************************************)
(* The rows, the alarm and its handler keep their types: no due time that  *)
(* is computed leaves the range it is given (createSchedule, alarm).       *)
(***************************************************************************)
THEOREM TypeCorrect == Spec => []TypeOK
<1>1. MailInv => MailOK
  BY DEF MailInv
<1> QED
  BY <1>1, InitTyped, NextTyped, InitMail, NextMail, TypesAreTypeOK, PTL DEF Spec

------------------------------------------------------------------------------
(* The alarm covers what is active *)

(***************************************************************************)
(* A step of the handler ends with the alarm armed or in the handler.      *)
(***************************************************************************)
LEMMA HandlerCovers ==
  ASSUME TypeInv, AlarmStep
  PROVE  AlarmCovers'
<1>1. CASE AlarmEnds
  <2>1. \A s \in ActiveIn(status) : alarm' # NoAlarm /\ alarm' <= nextDue[s]
    BY <1>1, ArmedCovers DEF AlarmEnds, TypeInv, TableOK
  <2> QED BY <1>1, <2>1 DEF AlarmEnds, AlarmCovers, Unattended, ActiveIn, table
<1>2. CASE \/ AlarmFires
           \/ \E r \in todo : PassBy(r) \/ Skip(r) \/ Dispatch(r)
           \/ Effect \/ Succeed \/ Fail
  <2>1. handler' # "idle"
    BY <1>2 DEF AlarmFires, PassBy, Skip, Dispatch, Effect, Succeed, Fail
  <2> QED BY <2>1 DEF AlarmCovers, Unattended
<1> QED BY <1>1, <1>2 DEF AlarmStep

(* Outside the alarm handler, what is due stays covered by the alarm. *)
LEMMA OthersCover ==
  ASSUME TypeInv, AlarmCovers, Others
  PROVE  AlarmCovers'
<1>1. CASE ResetWorkspace \/ ProcessEnds \/ Crash \/ (\E e \in Event : ReceiveInbox(e))
           \/ \E s \in Schedule : CreateSchedule(s) \/ PauseSchedule(s)
  <2>1. nextDue' \in [Schedule -> Due]
    BY OthersTyped DEF TypeInv, TableOK
  <2>2. ArmAlarm(status', nextDue')
    BY <1>1 DEF ResetWorkspace, ProcessEnds, Crash, ReceiveInbox, CreateSchedule,
                PauseSchedule, table, ArmAlarm
  <2>3. \A s \in ActiveIn(status') : alarm' # NoAlarm /\ alarm' <= nextDue'[s]
    BY <2>1, <2>2, ArmedCovers
  <2> QED BY <2>3 DEF AlarmCovers, ActiveIn
<1>2. CASE \/ Tick \/ SetCapabilities \/ MarkArchived \/ Approved \/ Recover
           \/ InvokeSnippet \/ ProgramEnds \/ EndRun
  <2>1. UNCHANGED <<table, arming, handler, processes>>
    BY <1>2 DEF Tick, SetCapabilities, MarkArchived, Approved, Recover, InvokeSnippet,
                ProgramEnds, EndRun, handling, runs
  <2>2. ActiveIn(status)' = ActiveIn(status) /\ nextDue' = nextDue
    BY <2>1 DEF ActiveIn, table
  <2> QED BY <2>1, <2>2 DEF AlarmCovers, Unattended, arming
<1>3. CASE StartRun
  <2>1. processes' # 0
    BY <1>3 DEF StartRun, TypeInv, RestOK
  <2> QED BY <2>1 DEF AlarmCovers, Unattended
<1>4. ASSUME NEW s \in Schedule, SchedulesCreate(s) \/ SchedulesSet(s)
      PROVE  AlarmCovers'
  <2>1. UNCHANGED <<handler, processes, alarm>> /\ LeftUnarmed(s)
        /\ \A q \in Schedule \ {s} : status'[q] = status[q] /\ nextDue'[q] = nextDue[q]
    BY <1>4 DEF SchedulesCreate, SchedulesSet, NewSchedule, handling, runs, TypeInv, TableOK
  <2> SUFFICES ASSUME Unattended', NEW q \in ActiveIn(status') \ unarmed'
               PROVE  alarm' # NoAlarm /\ alarm' <= nextDue'[q]
    BY DEF AlarmCovers, ActiveIn
  <2>2. Unattended /\ q # s /\ q \in Schedule
    BY <2>1 DEF Unattended, LeftUnarmed, ActiveIn
  <2>3. q \in ActiveIn(status) \ unarmed
    BY <2>1, <2>2 DEF LeftUnarmed, ActiveIn
  <2> QED BY <2>1, <2>2, <2>3 DEF AlarmCovers
<1> QED BY <1>1, <1>2, <1>3, <1>4 DEF Others

(***************************************************************************)
(* Unless the handler or a process is under way, the alarm is set for the  *)
(* earliest active schedule that no program outside both created or        *)
(* resumed since it was set (armAlarm, alarm, process, invokeSnippet).     *)
(***************************************************************************)
THEOREM ActiveIsCovered == Spec => []AlarmCovers
<1> DEFINE Inv == TypeInv /\ AlarmCovers
<1>1. Init => Inv
  <2> SUFFICES ASSUME Init PROVE Inv
    OBVIOUS
  <2>1. \A s \in Schedule : status[s] = "absent"
    BY DEF Init
  <2> QED BY <2>1, InitTyped DEF AlarmCovers, ActiveIn
<1>2. Inv /\ [Next]_vars => Inv'
  <2> SUFFICES ASSUME Inv, [Next]_vars PROVE AlarmCovers'
    BY NextTyped
  <2>1. CASE UNCHANGED vars
    <3>1. UNCHANGED <<arming, handler, runs>> /\ nextDue' = nextDue
          /\ ActiveIn(status)' = ActiveIn(status)
      BY <2>1 DEF vars, table, handling, ActiveIn
    <3> QED BY <3>1 DEF AlarmCovers, Unattended, arming, runs
  <2> QED BY <2>1, HandlerCovers, OthersCover DEF Next
<1> QED BY <1>1, <1>2, PTL DEF Spec

------------------------------------------------------------------------------
(* Occurrences have their effects once *)

(* Nothing has fired. *)
LEMMA InitCounted == Init => Counted
<1> SUFFICES ASSUME Init, NEW s \in Schedule, NEW d \in Due
             PROVE  /\ fired[s][d] = 0 /\ occ[s][d] = "none" /\ handler = "idle"
                    /\ crashes = 0
  BY DEF Counted, Executing
<1> QED BY DEF Init

(***************************************************************************)
(* Requests touch no occurrence; a crash lets go of the one that executes. *)
(***************************************************************************)
LEMMA OthersCounted ==
  ASSUME TypeInv, Counted, Others \/ UNCHANGED vars
  PROVE  Counted'
<1>1. UNCHANGED <<occ, fired>>
  BY DEF Others, Tick, ResetWorkspace, SetCapabilities, MarkArchived, StartRun, EndRun,
         ProcessEnds, InvokeSnippet, ProgramEnds, Approved, Recover, Crash, ReceiveInbox, CreateSchedule, PauseSchedule,
         SchedulesCreate, SchedulesSet, vars
<1>2. CASE Crash
  <2>1. handler' = "idle" /\ crashes' = crashes + 1
    BY <1>2 DEF Crash
  <2> SUFFICES ASSUME NEW s \in Schedule, NEW d \in Due
               PROVE  /\ fired[s][d] <= 1 + crashes'
                      /\ occ[s][d] = "none" => fired[s][d] = 0
                      /\ occ[s][d] = "dispatched" => fired[s][d] <= crashes'
    BY <1>1, <2>1 DEF Counted, Executing
  <2>2. fired[s][d] \in Nat /\ crashes \in Nat
    BY DEF TypeInv, OccOK, RestOK
  <2> QED BY <2>1, <2>2 DEF Counted
<1>3. CASE ~Crash
  <2>1. UNCHANGED <<handling, crashes>>
    BY <1>3 DEF Others, Tick, ResetWorkspace, SetCapabilities, MarkArchived, StartRun,
                EndRun, ProcessEnds, InvokeSnippet, ProgramEnds, Approved, Recover, ReceiveInbox, CreateSchedule, PauseSchedule,
                SchedulesCreate, SchedulesSet, vars
  <2> QED BY <1>1, <2>1 DEF Counted, Executing, handling
<1> QED BY <1>2, <1>3

(***************************************************************************)
(* One entry of the table of occurrences changes.                          *)
(***************************************************************************)
LEMMA OneChanges ==
  ASSUME TypeInv, NEW r \in Schedule \X Due, NEW st, SetOcc(r, st)
  PROVE  /\ occ'[r[1]][r[2]] = st
         /\ \A s \in Schedule, d \in Due : <<s, d>> # r => occ'[s][d] = occ[s][d]
<1>1. PICK q \in Schedule, e \in Due : r = <<q, e>>
  OBVIOUS
<1>2. occ' = [occ EXCEPT ![q] = [occ[q] EXCEPT ![e] = st]]
  BY <1>1 DEF SetOcc, TypeInv, OccOK
<1>3. occ'[q][e] = st
  BY <1>2 DEF TypeInv, OccOK
<1>4. ASSUME NEW s \in Schedule, NEW d \in Due, <<s, d>> # r
      PROVE  occ'[s][d] = occ[s][d]
  BY <1>1, <1>2, <1>4 DEF TypeInv, OccOK
<1> QED BY <1>1, <1>3, <1>4

(* The alarm handler fires an occurrence once, and again only after a crash. *)
LEMMA AlarmCounted ==
  ASSUME TypeInv, Counted, AlarmStep
  PROVE  Counted'
<1>1. CASE AlarmFires \/ AlarmEnds \/ (\E r \in todo : PassBy(r))
  <2>1. UNCHANGED <<occ, fired, crashes>> /\ handler' \in {"idle", "listing"}
        /\ handler \in {"idle", "listing"}
    BY <1>1 DEF AlarmFires, AlarmEnds, PassBy
  <2> QED BY <2>1 DEF Counted, Executing
<1>2. ASSUME NEW r \in todo, Skip(r)
      PROVE  Counted'
  <2>1. /\ SetOcc(r, "skipped") /\ UNCHANGED <<fired, crashes, handler>>
        /\ handler = "listing" /\ r \in Schedule \X Due
    BY <1>2 DEF Skip, TypeInv, HandlerOK
  <2>2. \A s \in Schedule, d \in Due :
          IF <<s, d>> = r THEN occ'[s][d] = "skipped" ELSE occ'[s][d] = occ[s][d]
    BY <2>1, OneChanges
  <2> QED BY <2>1, <2>2 DEF Counted, Executing
<1>3. ASSUME NEW r \in todo, Dispatch(r)
      PROVE  Counted'
  <2>1. /\ SetOcc(r, "dispatched") /\ UNCHANGED <<fired, crashes>>
        /\ handler = "listing" /\ handler' = "executing" /\ doing' = r
        /\ r \in Schedule \X Due /\ occ[r[1]][r[2]] \in {"none", "dispatched"}
    BY <1>3 DEF Dispatch, Dispatchable, TypeInv, HandlerOK
  <2>2. \A s \in Schedule, d \in Due :
          IF <<s, d>> = r THEN occ'[s][d] = "dispatched" ELSE occ'[s][d] = occ[s][d]
    BY <2>1, OneChanges
  <2> SUFFICES ASSUME NEW s \in Schedule, NEW d \in Due
               PROVE  /\ fired[s][d] <= 1 + crashes
                      /\ occ'[s][d] = "none" => fired[s][d] = 0
                      /\ <<s, d>> = r => occ'[s][d] = "dispatched"
                      /\ occ'[s][d] = "dispatched" => fired[s][d] <= crashes
    BY <2>1 DEF Counted, Executing
  <2>3. /\ fired[s][d] <= 1 + crashes
        /\ occ[s][d] = "none" => fired[s][d] = 0
        /\ occ[s][d] = "dispatched" => fired[s][d] <= crashes
    BY <2>1 DEF Counted, Executing
  <2>4. crashes \in Nat
    BY DEF TypeInv, RestOK
  <2>5. CASE <<s, d>> = r
    <3>1. r[1] = s /\ r[2] = d
      BY <2>5
    <3> QED BY <2>1, <2>2, <2>3, <2>4, <2>5, <3>1
  <2>6. CASE <<s, d>> # r
    BY <2>2, <2>3, <2>6
  <2> QED BY <2>5, <2>6
<1>4. CASE Effect
  <2>1. /\ UNCHANGED <<occ, crashes, doing>>
        /\ handler = "executing" /\ handler' = "executed"
        /\ doing \in Schedule \X Due
    BY <1>4 DEF Effect, TypeInv, HandlerOK
  <2>2. PICK q \in Schedule, e \in Due : doing = <<q, e>>
    BY <2>1
  <2>3. fired' = [fired EXCEPT ![q] = [fired[q] EXCEPT ![e] = fired[q][e] + 1]]
    BY <1>4, <2>2 DEF Effect, TypeInv, OccOK
  <2> SUFFICES ASSUME NEW s \in Schedule, NEW d \in Due
               PROVE  /\ fired'[s][d] <= 1 + crashes
                      /\ occ[s][d] = "none" => fired'[s][d] = 0
                      /\ doing = <<s, d>> => occ[s][d] = "dispatched"
                      /\ occ[s][d] = "dispatched" /\ doing # <<s, d>>
                           => fired'[s][d] <= crashes
    BY <2>1 DEF Counted, Executing
  <2>4. /\ fired[s][d] <= 1 + crashes
        /\ occ[s][d] = "none" => fired[s][d] = 0
        /\ doing = <<s, d>> => occ[s][d] = "dispatched"
        /\ occ[s][d] = "dispatched" => fired[s][d] <= crashes
    BY <2>1 DEF Counted, Executing
  <2>5. CASE doing = <<s, d>>
    <3>1. fired'[s][d] = fired[s][d] + 1
      BY <2>2, <2>3, <2>5 DEF TypeInv, OccOK
    <3>2. fired[s][d] \in Nat /\ crashes \in Nat
      BY DEF TypeInv, OccOK, RestOK
    <3> QED BY <2>4, <2>5, <3>1, <3>2
  <2>6. CASE doing # <<s, d>>
    <3>1. fired'[s][d] = fired[s][d]
      BY <2>2, <2>3, <2>6 DEF TypeInv, OccOK
    <3> QED BY <2>4, <2>6, <3>1
  <2> QED BY <2>5, <2>6
<1>5. CASE Succeed \/ Fail
  <2>1. PICK st \in {"succeeded", "failed"} : SetOcc(doing, st)
    BY <1>5 DEF Succeed, Fail
  <2>2. /\ UNCHANGED <<fired, crashes>> /\ handler' = "listing"
        /\ handler \in {"executing", "executed"} /\ doing \in Schedule \X Due
    BY <1>5 DEF Succeed, Fail, TypeInv, HandlerOK
  <2>3. \A s \in Schedule, d \in Due :
          IF <<s, d>> = doing THEN occ'[s][d] = st ELSE occ'[s][d] = occ[s][d]
    BY <2>1, <2>2, OneChanges
  <2> QED BY <2>1, <2>2, <2>3 DEF Counted, Executing
<1> QED BY <1>1, <1>2, <1>3, <1>4, <1>5 DEF AlarmStep

(***************************************************************************)
(* A snippet has its effects once for one due time, and once more at most  *)
(* for each crash (alarm, createOccurrence, finishOccurrence).             *)
(***************************************************************************)
THEOREM EffectsAreOnce == Spec => []FiredOnce
<1> DEFINE Inv == TypeInv /\ Counted
<1>1. Init => Inv
  BY InitTyped, InitCounted
<1>2. Inv /\ [Next]_vars => Inv'
  BY NextTyped, OthersCounted, AlarmCounted DEF Next
<1>3. Inv => FiredOnce
  BY DEF Counted, FiredOnce
<1> QED BY <1>1, <1>2, <1>3, PTL DEF Spec
==============================================================================
