--------------------------- MODULE MachinePoolProofs --------------------------
(***************************************************************************)
(* Proofs about MachinePool, for every set of machines, every number of    *)
(* assignments, suspended requests and restarts, every capacity and every  *)
(* delay.                                                                  *)
(*                                                                         *)
(* A poll goes on with a copy of the row of its machine.  That the copy    *)
(* has a live status rests on CredentialIsLive: a machine that can still   *)
(* authenticate is neither unknown nor revoked.  The capacity is kept      *)
(* because a poll counts what is held after its await, when it assigns.    *)
(***************************************************************************)
EXTENDS MachinePool, TLAPS, WellFoundedInduction, FiniteSetTheorems

CredentialIsLive == \A m \in Machine : credential[m] => machine[m] \in LiveMachine

TypeInv == TypeOK /\ CredentialIsLive

USE MaxAssignmentsAssumption, CapacityAssumption, StaleAfterAssumption,
    SweepDelayAssumption, BoundsAssumption, NoMachineAssumption
    DEF Assignment

------------------------------------------------------------------------------
(* What a poll hands out. *)

(***************************************************************************)
(* ORDER BY created_at LIMIT 1 of pending assignments finds one if there   *)
(* is one.                                                                 *)
(***************************************************************************)
LEMMA LeastAssignment ==
  ASSUME NEW S \in SUBSET Assignment, S # {}
  PROVE  Min(S) \in S
<1> DEFINE T == {0 .. a : a \in S}
           R == StrictSubsetOrdering(Nat)
<1>1. T \subseteq FiniteSubsetsOf(Nat)
  <2>1. \A a \in S : IsFiniteSet(0 .. a)
    BY FS_Interval
  <2> QED BY <2>1 DEF FiniteSubsetsOf
<1>2. T # {}
  OBVIOUS
<1>3. PICK U \in T : \A V \in T : ~(<<V, U>> \in R)
  <2>1. IsWellFoundedOn(R, FiniteSubsetsOf(Nat))
    BY FS_StrictSubsetOrderingWellFounded
  <2> HIDE DEF R, T
  <2> QED BY <1>1, <1>2, <2>1, WFMin
<1>4. PICK a \in S : U = 0 .. a
  OBVIOUS
<1>5. ASSUME NEW b \in S, b < a
      PROVE  FALSE
  <2>1. 0 .. b \subseteq 0 .. a /\ a \in 0 .. a /\ a \notin 0 .. b
    BY <1>5
  <2>2. <<0 .. b, 0 .. a>> \in R
    BY <2>1 DEF StrictSubsetOrdering
  <2> QED BY <2>2, <1>3, <1>4
<1>6. \E x \in S : \A y \in S : x =< y
  BY <1>5
<1> QED BY <1>6 DEF Min

(***************************************************************************)
(* A poll hands out at most one assignment, to its own machine, and        *)
(* nothing else of the assignments changes.                                *)
(***************************************************************************)
LEMMA PollStep ==
  ASSUME TypeOK, NEW h \in suspended, PollAssigns(h)
  PROVE  /\ h.machine \in Machine
         /\ HasRoom(h.machine)
         /\ \E given \in SUBSET Assignment :
              /\ \E x : given \subseteq {x}
              /\ assignment' = [a \in Assignment |-> IF a \in given THEN "assigned"
                                                     ELSE assignment[a]]
              /\ holder' = [a \in Assignment |-> IF a \in given THEN h.machine
                                                 ELSE holder[a]]
              /\ suspended' = (suspended \ {h}) \cup
                                {[h EXCEPT !.stage = "wait", !.given = given]}
<1>1. h.machine \in Machine
  BY DEF TypeOK, Handler
<1> DEFINE given == {Min(Pending)}
<1>2. given \in SUBSET Assignment /\ \E x : given \subseteq {x}
  BY LeastAssignment DEF Pending, PollAssigns
<1>3. /\ assignment' = [a \in Assignment |-> IF a \in given THEN "assigned"
                                             ELSE assignment[a]]
      /\ holder' = [a \in Assignment |-> IF a \in given THEN h.machine
                                         ELSE holder[a]]
      /\ suspended' = (suspended \ {h}) \cup
                        {[h EXCEPT !.stage = "wait", !.given = given]}
      /\ HasRoom(h.machine)
  BY DEF PollAssigns, Assign
<1> HIDE DEF given
<1> QED BY <1>1, <1>2, <1>3

------------------------------------------------------------------------------
(* Type correctness. *)

(***************************************************************************)
(* armMachineSweepAlarm keeps the type of the alarm.                       *)
(***************************************************************************)
LEMMA ArmedTyped ==
  ASSUME NEW ms, NEW was \in -1 .. SweepDelay
  PROVE  Armed(ms, was) \in -1 .. SweepDelay
BY DEF Armed

(***************************************************************************)
(* An answer keeps the types of what it changes, whoever awaits it.        *)
(***************************************************************************)
LEMMA AnswerTyped ==
  ASSUME TypeOK, NEW h \in suspended, NEW given \in SUBSET Assignment,
         NEW cancels \in SUBSET Assignment, Answer(h, given, cancels)
  PROVE  /\ suspended' \subseteq Handler
         /\ awaits' \in [Machine -> 0 .. MaxSuspended]
         /\ beats' \in [Machine -> BOOLEAN]
         /\ orders' \in [Machine -> Orders]
<1>1. h.machine \in Machine
  BY DEF TypeOK, Handler
<1>2. suspended' \subseteq Handler
  BY DEF Answer, TypeOK
<1>3. CASE awaits[h.machine] = h.id
  <2>1. [cancels |-> cancels, given |-> given] \in Orders
    BY DEF Orders
  <2>2. /\ awaits' = [awaits EXCEPT ![h.machine] = 0]
        /\ beats' = [beats EXCEPT ![h.machine] = h.kind = "poll"]
        /\ orders' = [orders EXCEPT ![h.machine] = [cancels |-> cancels,
                                                    given |-> given]]
    BY <1>3 DEF Answer
  <2>3. awaits' \in [Machine -> 0 .. MaxSuspended]
    BY <1>1, <2>2 DEF TypeOK
  <2>4. beats' \in [Machine -> BOOLEAN]
    BY <1>1, <2>2 DEF TypeOK
  <2>5. orders' \in [Machine -> Orders]
    BY <1>1, <2>1, <2>2 DEF TypeOK
  <2> QED BY <1>2, <2>3, <2>4, <2>5
<1>4. CASE awaits[h.machine] # h.id
  BY <1>2, <1>4 DEF Answer, TypeOK
<1> QED BY <1>3, <1>4

(***************************************************************************)
(* The requests of supervisors keep the types.                             *)
(***************************************************************************)
LEMMA RequestTyped ==
  ASSUME TypeInv, NEW h \in suspended, AnswerRequest(h)
  PROVE  TypeInv'
<1> USE DEF TypeInv
<1>1. /\ h \in Handler
      /\ h.machine \in Machine
      /\ h.given \in SUBSET Assignment
      /\ h.age \in 0 .. StaleAfter
  BY DEF TypeOK, Handler
<1>2. CASE Heartbeat(h)
  <2>1. /\ machine' \in [Machine -> MachineStatus]
        /\ CredentialIsLive'
    BY <1>1, <1>2 DEF Heartbeat, TypeOK, CredentialIsLive, MachineStatus, LiveMachine
  <2>2. [h EXCEPT !.stage = "wait"] \in Handler
    BY <1>1 DEF Handler
  <2>3. idle' \in [Machine -> 0 .. StaleAfter]
    BY <1>1, <1>2 DEF Heartbeat, TypeOK
  <2>4. suspended' = (suspended \ {h}) \cup {[h EXCEPT !.stage = "wait"]}
    BY <1>2 DEF Heartbeat
  <2>5. suspended' \subseteq Handler
    BY <2>2, <2>4 DEF TypeOK
  <2> QED BY <1>2, <2>1, <2>3, <2>5 DEF Heartbeat, TypeOK, assignments, sweep,
                                  supervisors, containers
<1>3. CASE HeartbeatEnds(h)
  <2>1. Answer(h, {}, {})
    BY <1>3 DEF HeartbeatEnds
  <2>2. /\ suspended' \subseteq Handler
        /\ awaits' \in [Machine -> 0 .. MaxSuspended]
        /\ beats' \in [Machine -> BOOLEAN]
        /\ orders' \in [Machine -> Orders]
    BY <2>1, AnswerTyped
  <2>3. alarm' \in -1 .. SweepDelay
    BY <1>3, ArmedTyped DEF HeartbeatEnds, TypeOK
  <2> QED BY <1>3, <2>2, <2>3 DEF HeartbeatEnds, TypeOK, CredentialIsLive,
                                  machines, assignments, containers
<1>4. CASE PollIdle(h)
  <2>1. Answer(h, {}, {})
    BY <1>4 DEF PollIdle
  <2>2. /\ suspended' \subseteq Handler
        /\ awaits' \in [Machine -> 0 .. MaxSuspended]
        /\ beats' \in [Machine -> BOOLEAN]
        /\ orders' \in [Machine -> Orders]
    BY <2>1, AnswerTyped
  <2> QED BY <1>4, <2>2 DEF PollIdle, TypeOK, CredentialIsLive, machines,
                            assignments, sweep, containers
<1>5. CASE PollAssigns(h)
  <2>1. PICK given \in SUBSET Assignment :
          /\ assignment' = [a \in Assignment |-> IF a \in given THEN "assigned"
                                                 ELSE assignment[a]]
          /\ holder' = [a \in Assignment |-> IF a \in given THEN h.machine
                                             ELSE holder[a]]
          /\ suspended' = (suspended \ {h}) \cup
                            {[h EXCEPT !.stage = "wait", !.given = given]}
    BY <1>5, PollStep
  <2>2. assignment' \in [Assignment -> {"absent", "pending", "assigned"}]
    BY <2>1 DEF TypeOK
  <2>3. holder' \in [Assignment -> Machine \cup {NoMachine}]
    BY <1>1, <2>1 DEF TypeOK
  <2>4. [h EXCEPT !.stage = "wait", !.given = given] \in Handler
    BY <1>1 DEF Handler
  <2>5. suspended' \subseteq Handler
    BY <2>1, <2>4 DEF TypeOK
  <2> QED BY <1>5, <2>2, <2>3, <2>5 DEF PollAssigns, TypeOK, CredentialIsLive,
                                        machines, sweep, supervisors, containers
<1>6. CASE PollEnds(h)
  <2>1. Answer(h, h.given, ToCancel(h.machine))
    BY <1>6 DEF PollEnds
  <2>2. ToCancel(h.machine) \in SUBSET Assignment
    BY DEF ToCancel, HeldBy
  <2>3. /\ suspended' \subseteq Handler
        /\ awaits' \in [Machine -> 0 .. MaxSuspended]
        /\ beats' \in [Machine -> BOOLEAN]
        /\ orders' \in [Machine -> Orders]
    BY <1>1, <2>1, <2>2, AnswerTyped
  <2>4. idle' \in [Machine -> 0 .. StaleAfter]
    BY <1>1, <1>6 DEF PollEnds, TypeOK
  <2> QED BY <1>6, <2>3, <2>4 DEF PollEnds, TypeOK, CredentialIsLive, assignments,
                                  sweep, containers
<1> QED BY <1>2, <1>3, <1>4, <1>5, <1>6 DEF AnswerRequest

(***************************************************************************)
(* The loop of a supervisor keeps the types; a request is suspended with a *)
(* live status because its machine could authenticate.                     *)
(***************************************************************************)
LEMMA LoopTyped ==
  ASSUME TypeInv, NEW m \in Machine,
         \/ SupervisorStops(m) \/ SupervisorStarts(m) \/ HeartbeatFails(m)
         \/ \E id \in RequestId : BeginRequest(m, id)
         \/ \E a \in Assignment :
              SkipCancel(m, a) \/ StopRunner(m, a) \/ StartRunner(m, a)
  PROVE  TypeInv'
<1> USE DEF TypeInv
<1>1. NoOrders \in Orders
  BY DEF NoOrders, Orders
<1>2. CASE SupervisorStops(m)
  BY <1>1, <1>2 DEF SupervisorStops, TypeOK, CredentialIsLive, machines,
                    assignments, sweep
<1>3. CASE SupervisorStarts(m)
  BY <1>3 DEF SupervisorStarts, TypeOK, CredentialIsLive, machines, assignments,
              sweep
<1>4. CASE HeartbeatFails(m)
  BY <1>4 DEF HeartbeatFails, TypeOK, CredentialIsLive, machines, assignments,
              sweep, containers
<1>5. ASSUME NEW id \in RequestId, BeginRequest(m, id)
      PROVE  TypeInv'
  <2> DEFINE h == [id |-> id, kind |-> IF beats[m] THEN "heartbeat" ELSE "poll",
                   stage |-> "hash", machine |-> m, status |-> machine[m],
                   given |-> {}, age |-> 0]
  <2>1. h \in Handler
    BY <1>5 DEF BeginRequest, CredentialIsLive, Handler
  <2>2. suspended' = suspended \cup {h} /\ awaits' = [awaits EXCEPT ![m] = id]
    BY <1>5 DEF BeginRequest
  <2> HIDE DEF h
  <2>3. suspended' \subseteq Handler
    BY <2>1, <2>2 DEF TypeOK
  <2>4. awaits' \in [Machine -> 0 .. MaxSuspended]
    BY <2>2 DEF TypeOK, RequestId
  <2> QED BY <1>5, <2>3, <2>4 DEF BeginRequest, TypeOK, CredentialIsLive, machines,
                                  assignments, sweep, containers
<1>6. ASSUME NEW a \in Assignment,
             SkipCancel(m, a) \/ StopRunner(m, a) \/ StartRunner(m, a)
      PROVE  TypeInv'
  <2>1. orders[m].cancels \in SUBSET Assignment /\ orders[m].given \in SUBSET Assignment
    BY DEF TypeOK, Orders
  <2>2. orders' \in [Machine -> Orders]
    <3>1. CASE StartRunner(m, a)
      <4> DEFINE o == [cancels |-> orders[m].cancels, given |-> orders[m].given \ {a}]
      <4>1. orders' = [orders EXCEPT ![m] = o]
        BY <3>1 DEF StartRunner
      <4>2. o \in Orders
        BY <2>1 DEF Orders
      <4> HIDE DEF o
      <4> QED BY <4>1, <4>2 DEF TypeOK
    <3>2. CASE SkipCancel(m, a) \/ StopRunner(m, a)
      <4> DEFINE o == [cancels |-> orders[m].cancels \ {a}, given |-> orders[m].given]
      <4>1. orders' = [orders EXCEPT ![m] = o]
        BY <3>2 DEF SkipCancel, StopRunner
      <4>2. o \in Orders
        BY <2>1 DEF Orders
      <4> HIDE DEF o
      <4> QED BY <4>1, <4>2 DEF TypeOK
    <3> QED BY <1>6, <3>1, <3>2
  <2>3. running' \subseteq Machine \X Assignment /\ recorded' \subseteq Machine \X Assignment
    BY <1>6 DEF SkipCancel, StopRunner, StartRunner, TypeOK, containers
  <2> QED BY <1>6, <2>2, <2>3 DEF SkipCancel, StopRunner, StartRunner, TypeOK,
                                  CredentialIsLive, machines, assignments, sweep
<1> QED BY <1>2, <1>3, <1>4, <1>5, <1>6

(***************************************************************************)
(* Every action of the pool keeps the types.                               *)
(***************************************************************************)
LEMMA TypeNext == TypeInv /\ [Next]_vars => TypeInv'
<1> SUFFICES ASSUME TypeInv, [Next]_vars
             PROVE  TypeInv'
  OBVIOUS
<1> USE DEF TypeInv
<1>1. ASSUME NEW m \in Machine, Enroll(m) \/ Drain(m) \/ Revoke(m)
      PROVE  TypeInv'
  <2>1. /\ machine' \in [Machine -> MachineStatus]
        /\ credential' \in [Machine -> BOOLEAN]
        /\ idle' \in [Machine -> 0 .. StaleAfter]
    <3>1. CASE Enroll(m)
      BY <3>1 DEF Enroll, TypeOK, MachineStatus, LiveMachine
    <3>2. CASE Drain(m)
      BY <3>2 DEF Drain, TypeOK, MachineStatus, LiveMachine
    <3>3. CASE Revoke(m)
      BY <3>3 DEF Revoke, TypeOK, MachineStatus, LiveMachine
    <3> QED BY <1>1, <3>1, <3>2, <3>3
  <2>2. CredentialIsLive'
    BY <1>1 DEF Enroll, Drain, Revoke, TypeOK, CredentialIsLive, LiveMachine
  <2> QED BY <1>1, <2>1, <2>2 DEF Enroll, Drain, Revoke, TypeOK, assignments,
                                  sweep, supervisors, containers
<1>2. ASSUME NEW a \in Assignment, QueueTaskAssignment(a) \/ RequestCancel(a)
      PROVE  TypeInv'
  <2>1. /\ assignment' \in [Assignment -> {"absent", "pending", "assigned"}]
        /\ cancel' \in [Assignment -> BOOLEAN]
    BY <1>2 DEF QueueTaskAssignment, RequestCancel, TypeOK
  <2>2. alarm' \in -1 .. SweepDelay
    BY <1>2, ArmedTyped DEF QueueTaskAssignment, RequestCancel, TypeOK, sweep
  <2> QED BY <1>2, <2>1, <2>2 DEF QueueTaskAssignment, RequestCancel, TypeOK,
                                  CredentialIsLive, machines, sweep, supervisors,
                                  containers
<1>3. CASE Sweep
  <2>1. machine' \in [Machine -> MachineStatus] /\ CredentialIsLive'
    BY <1>3 DEF Sweep, TypeOK, CredentialIsLive, MachineStatus, LiveMachine
  <2>2. assignment' \in [Assignment -> {"absent", "pending", "assigned"}]
    BY <1>3 DEF Sweep, TypeOK
  <2>3. holder' \in [Assignment -> Machine \cup {NoMachine}]
    BY <1>3 DEF Sweep, TypeOK
  <2>4. alarm' \in -1 .. SweepDelay
    BY <1>3 DEF Sweep
  <2> QED BY <1>3, <2>1, <2>2, <2>3, <2>4 DEF Sweep, TypeOK, supervisors, containers
<1>4. CASE SweepEnds
  <2>1. alarm' \in -1 .. SweepDelay
    BY <1>4, ArmedTyped DEF SweepEnds, TypeOK
  <2> QED BY <1>4, <2>1 DEF SweepEnds, TypeOK, CredentialIsLive, machines,
                            assignments, supervisors, containers
<1>5. CASE Tick
  <2>1. idle' \in [Machine -> 0 .. StaleAfter] /\ alarm' \in -1 .. SweepDelay
    BY <1>5 DEF Tick, TypeOK, Older
  <2>2. ASSUME NEW h \in suspended
        PROVE  (IF h.kind = "poll" /\ h.stage = "wait"
                THEN [h EXCEPT !.age = Older(@)] ELSE h) \in Handler
    <3>1. h \in Handler /\ Older(h.age) \in 0 .. StaleAfter
      BY DEF TypeOK, Handler, Older
    <3> QED BY <3>1 DEF Handler
  <2>3. suspended' \subseteq Handler
    BY <1>5, <2>2 DEF Tick
  <2> QED BY <1>5, <2>1, <2>3 DEF Tick, TypeOK, CredentialIsLive, assignments,
                                  supervisors, containers
<1>6. CASE Restart
  <2>1. alarm' \in -1 .. SweepDelay
    BY <1>6, ArmedTyped DEF Restart, TypeOK
  <2>2. /\ awaits' \in [Machine -> 0 .. MaxSuspended]
        /\ beats' \in [Machine -> BOOLEAN]
        /\ up' \in [Machine -> BOOLEAN]
        /\ running' \subseteq Machine \X Assignment
    BY <1>6 DEF Restart, TypeOK
  <2>3. /\ UNCHANGED <<machine, credential, idle, assignment, holder, cancel,
                        orders, recorded>>
        /\ suspended' = {} /\ sweeping' = FALSE
        /\ restarts' \in 0 .. MaxRestarts
    BY <1>6 DEF Restart, machines, assignments, TypeOK
  <2> QED BY <2>1, <2>2, <2>3 DEF TypeOK, CredentialIsLive
<1>7. CASE UNCHANGED vars
  BY <1>7 DEF vars, TypeOK, CredentialIsLive, machines, assignments, sweep,
              supervisors, containers
<1> QED BY <1>1, <1>2, <1>3, <1>4, <1>5, <1>6, <1>7, LoopTyped, RequestTyped
        DEF Next

(***************************************************************************)
(* The tables of a new team have these types.                              *)
(***************************************************************************)
LEMMA InitTyped == Init => TypeInv
<1> SUFFICES ASSUME Init
             PROVE  TypeInv
  OBVIOUS
<1>1. NoOrders \in Orders
  BY DEF NoOrders, Orders
<1>2. orders \in [Machine -> Orders]
  BY <1>1 DEF Init
<1>3. awaits \in [Machine -> 0 .. MaxSuspended]
  BY DEF Init
<1>4. /\ running = {} /\ recorded = {} /\ suspended = {} /\ sweeping = FALSE
      /\ restarts = 0 /\ alarm = -1 /\ beats \in [Machine -> BOOLEAN]
      /\ up \in [Machine -> BOOLEAN]
  BY DEF Init
<1>5. /\ machine \in [Machine -> MachineStatus]
      /\ credential \in [Machine -> BOOLEAN]
      /\ idle \in [Machine -> 0 .. StaleAfter]
      /\ assignment \in [Assignment -> {"absent", "pending", "assigned"}]
      /\ holder \in [Assignment -> Machine \cup {NoMachine}]
      /\ cancel \in [Assignment -> BOOLEAN]
      /\ CredentialIsLive
  BY DEF Init, MachineStatus, CredentialIsLive
<1>6. alarm \in -1 .. SweepDelay /\ restarts \in 0 .. MaxRestarts
  BY <1>4
<1> QED BY <1>2, <1>3, <1>4, <1>5, <1>6 DEF TypeInv, TypeOK

(***************************************************************************)
(* The tables of a team and its suspended requests keep their types.       *)
(***************************************************************************)
THEOREM TypeCorrect == Spec => []TypeOK
<1>1. TypeInv => TypeOK
  BY DEF TypeInv
<1> QED BY <1>1, InitTyped, TypeNext, PTL DEF Spec

------------------------------------------------------------------------------
(* Who holds what. *)

(***************************************************************************)
(* Only a queued task, a poll and the sweep write the columns that say who *)
(* works on an assignment.                                                 *)
(***************************************************************************)
LEMMA OthersLeaveHolders ==
  ASSUME [Next]_vars
  PROVE  \/ \E a \in Assignment : QueueTaskAssignment(a)
         \/ \E h \in suspended : PollAssigns(h)
         \/ Sweep
         \/ UNCHANGED <<assignment, holder>>
<1>1. ASSUME NEW m \in Machine,
             \/ Enroll(m) \/ Drain(m) \/ Revoke(m) \/ SupervisorStops(m)
             \/ SupervisorStarts(m) \/ HeartbeatFails(m)
             \/ \E id \in RequestId : BeginRequest(m, id)
             \/ \E a \in Assignment :
                  SkipCancel(m, a) \/ StopRunner(m, a) \/ StartRunner(m, a)
      PROVE  UNCHANGED <<assignment, holder>>
  BY <1>1 DEF Enroll, Drain, Revoke, SupervisorStops, SupervisorStarts,
              HeartbeatFails, BeginRequest, SkipCancel, StopRunner, StartRunner,
              assignments
<1>2. ASSUME NEW h \in suspended,
             Heartbeat(h) \/ HeartbeatEnds(h) \/ PollIdle(h) \/ PollEnds(h)
      PROVE  UNCHANGED <<assignment, holder>>
  BY <1>2 DEF Heartbeat, HeartbeatEnds, PollIdle, PollEnds, assignments
<1>3. ASSUME NEW a \in Assignment, RequestCancel(a)
      PROVE  UNCHANGED <<assignment, holder>>
  BY <1>3 DEF RequestCancel
<1>4. CASE SweepEnds \/ Tick \/ Restart \/ UNCHANGED vars
  BY <1>4 DEF SweepEnds, Tick, Restart, vars, assignments
<1> QED BY <1>1, <1>2, <1>3, <1>4 DEF Next, AnswerRequest

HolderInv == TypeInv /\ HolderAgrees

(***************************************************************************)
(* Status and machine_id of an assignment are written together.            *)
(***************************************************************************)
LEMMA HolderNext == HolderInv /\ [Next]_vars => HolderInv'
<1> SUFFICES ASSUME TypeInv, HolderAgrees, [Next]_vars
             PROVE  HolderAgrees'
  BY TypeNext DEF HolderInv
<1> USE DEF HolderAgrees
<1>1. ASSUME NEW a \in Assignment, QueueTaskAssignment(a)
      PROVE  HolderAgrees'
  BY <1>1 DEF QueueTaskAssignment, TypeInv, TypeOK
<1>2. ASSUME NEW h \in suspended, PollAssigns(h)
      PROVE  HolderAgrees'
  BY <1>2, PollStep DEF TypeInv
<1>3. CASE Sweep
  BY <1>3 DEF Sweep, TypeInv, TypeOK
<1>4. CASE UNCHANGED <<assignment, holder>>
  BY <1>4
<1> QED BY <1>1, <1>2, <1>3, <1>4, OthersLeaveHolders

(***************************************************************************)
(* An assignment is assigned exactly when a machine holds it.              *)
(***************************************************************************)
THEOREM AssignedMeansHeld == Spec => []HolderAgrees
<1>1. Init => HolderInv
  BY InitTyped DEF Init, HolderInv, HolderAgrees
<1>2. HolderInv => HolderAgrees
  BY DEF HolderInv
<1> QED BY <1>1, <1>2, HolderNext, PTL DEF Spec

(***************************************************************************)
(* What a machine holds is a finite set, so that it can be counted.        *)
(***************************************************************************)
LEMMA HeldFinite ==
  ASSUME NEW m
  PROVE  IsFiniteSet(HeldBy(m)) /\ Cardinality(HeldBy(m)) \in Nat
<1>1. IsFiniteSet(Assignment)
  BY FS_Interval
<1>2. HeldBy(m) \in SUBSET Assignment
  BY DEF HeldBy
<1>3. IsFiniteSet(HeldBy(m))
  BY <1>1, <1>2, FS_Subset
<1> QED BY <1>3, FS_CardinalityType

CapacityInv == TypeInv /\ WithinCapacity

(***************************************************************************)
(* Only a poll lets a machine hold more, one assignment at a time, after   *)
(* it has counted in the same block; the sweep only takes away.            *)
(***************************************************************************)
LEMMA CapacityNext == CapacityInv /\ [Next]_vars => CapacityInv'
<1> SUFFICES ASSUME TypeInv, WithinCapacity, [Next]_vars, NEW m \in Machine
             PROVE  Cardinality(HeldBy(m)') <= Capacity
  BY TypeNext DEF CapacityInv, WithinCapacity
<1>1. ASSUME HeldBy(m)' \subseteq HeldBy(m)
      PROVE  Cardinality(HeldBy(m)') <= Capacity
  <2>1. HeldBy(m)' \in SUBSET HeldBy(m)
    BY <1>1
  <2>2. IsFiniteSet(HeldBy(m)') /\ Cardinality(HeldBy(m)') <= Cardinality(HeldBy(m))
    BY <2>1, HeldFinite, FS_Subset
  <2>3. Cardinality(HeldBy(m)') \in Nat
    BY <2>2, FS_CardinalityType
  <2> QED BY <2>2, <2>3, HeldFinite DEF WithinCapacity
<1>2. ASSUME NEW h \in suspended, PollAssigns(h)
      PROVE  Cardinality(HeldBy(m)') <= Capacity
  <2>1. PICK given \in SUBSET Assignment :
          /\ \E x : given \subseteq {x}
          /\ assignment' = [a \in Assignment |-> IF a \in given THEN "assigned"
                                                 ELSE assignment[a]]
          /\ holder' = [a \in Assignment |-> IF a \in given THEN h.machine
                                             ELSE holder[a]]
          /\ suspended' = (suspended \ {h}) \cup
                            {[h EXCEPT !.stage = "wait", !.given = given]}
    BY <1>2, PollStep DEF TypeInv
  <2>2. CASE m # h.machine
    BY <1>1, <2>1, <2>2 DEF HeldBy
  <2>3. CASE m = h.machine
    <3>1. PICK x : given \subseteq {x}
      BY <2>1
    <3>2. HeldBy(m)' \subseteq HeldBy(m) \cup {x}
      BY <2>1, <3>1 DEF HeldBy
    <3>3. /\ IsFiniteSet(HeldBy(m) \cup {x})
          /\ Cardinality(HeldBy(m) \cup {x}) \in Nat
          /\ Cardinality(HeldBy(m) \cup {x}) <= Cardinality(HeldBy(m)) + 1
      <4>1. /\ IsFiniteSet(HeldBy(m) \cup {x})
            /\ Cardinality(HeldBy(m) \cup {x}) =
                 IF x \in HeldBy(m) THEN Cardinality(HeldBy(m))
                 ELSE Cardinality(HeldBy(m)) + 1
        BY HeldFinite, FS_AddElement
      <4> QED BY <4>1, HeldFinite
    <3>4. HeldBy(m)' \in SUBSET (HeldBy(m) \cup {x})
      BY <3>2
    <3>5. /\ IsFiniteSet(HeldBy(m)')
          /\ Cardinality(HeldBy(m)') <= Cardinality(HeldBy(m) \cup {x})
      BY <3>3, <3>4, FS_Subset
    <3>6. Cardinality(HeldBy(m)') \in Nat
      BY <3>5, FS_CardinalityType
    <3>7. Cardinality(HeldBy(m)) < Capacity
      BY <1>2, <2>3, PollStep DEF HasRoom, TypeInv
    <3> QED BY <3>3, <3>5, <3>6, <3>7, HeldFinite
  <2> QED BY <2>2, <2>3
<1>3. CASE Sweep
  BY <1>1, <1>3 DEF Sweep, HeldBy, TypeInv, TypeOK
<1>4. ASSUME NEW a \in Assignment, QueueTaskAssignment(a)
      PROVE  Cardinality(HeldBy(m)') <= Capacity
  BY <1>1, <1>4 DEF QueueTaskAssignment, HeldBy, TypeInv, TypeOK
<1>5. CASE UNCHANGED <<assignment, holder>>
  BY <1>1, <1>5 DEF HeldBy
<1> QED BY <1>2, <1>3, <1>4, <1>5, OthersLeaveHolders

(***************************************************************************)
(* No machine is ever given more than its capacity.                        *)
(***************************************************************************)
THEOREM CapacityKept == Spec => []WithinCapacity
<1>1. Init => CapacityInv
  <2> SUFFICES ASSUME Init, NEW m \in Machine
               PROVE  Cardinality(HeldBy(m)) <= Capacity
    BY InitTyped DEF CapacityInv, WithinCapacity
  <2>1. HeldBy(m) = {}
    BY DEF Init, HeldBy
  <2> QED BY <2>1, FS_EmptySet
<1>2. CapacityInv => WithinCapacity
  BY DEF CapacityInv
<1> QED BY <1>1, <1>2, CapacityNext, PTL DEF Spec

------------------------------------------------------------------------------
(* The sweep. *)

(***************************************************************************)
(* Once it is armed the sweep stays armed, or is under way, while a        *)
(* machine needs it: the handler that takes the alarm arms it again after  *)
(* its awaits, and when the isolate is lost among them the constructor of  *)
(* the next one does.                                                      *)
(***************************************************************************)
THEOREM SweepStaysArmed == Spec => SweepKeepsGoing
<1> DEFINE Stays == (alarm >= 0 \/ sweeping) /\ SomeLive(machine')
                      => alarm' >= 0 \/ sweeping'
<1>1. TypeOK /\ [Next]_vars => [Stays]_vars
  <2> SUFFICES ASSUME TypeOK, [Next]_vars, alarm >= 0 \/ sweeping,
                      SomeLive(machine')
               PROVE  alarm' >= 0 \/ sweeping'
    OBVIOUS
  <2>1. \A was : Armed(machine', was) >= 0
    BY DEF Armed
  <2>2. ASSUME NEW m \in Machine,
               \/ Enroll(m) \/ Drain(m) \/ Revoke(m) \/ SupervisorStops(m)
               \/ SupervisorStarts(m) \/ HeartbeatFails(m)
               \/ \E id \in RequestId : BeginRequest(m, id)
               \/ \E a \in Assignment :
                    SkipCancel(m, a) \/ StopRunner(m, a) \/ StartRunner(m, a)
        PROVE  UNCHANGED sweep
    BY <2>2 DEF Enroll, Drain, Revoke, SupervisorStops, SupervisorStarts,
                HeartbeatFails, BeginRequest, SkipCancel, StopRunner, StartRunner
  <2>3. ASSUME NEW a \in Assignment, QueueTaskAssignment(a) \/ RequestCancel(a)
        PROVE  alarm' >= 0 \/ sweeping'
    BY <2>1, <2>3 DEF QueueTaskAssignment, RequestCancel, machines, sweep
  <2>4. ASSUME NEW h \in suspended, AnswerRequest(h)
        PROVE  alarm' >= 0 \/ sweeping'
    BY <2>1, <2>4 DEF AnswerRequest, Heartbeat, HeartbeatEnds, PollIdle,
                      PollAssigns, PollEnds, machines, sweep
  <2>5. CASE Sweep
    BY <2>5 DEF Sweep
  <2>6. CASE SweepEnds
    BY <2>1, <2>6 DEF SweepEnds, machines
  <2>7. CASE Tick
    BY <2>7 DEF Tick, TypeOK
  <2>8. CASE Restart
    BY <2>1, <2>8 DEF Restart, machines
  <2>9. CASE UNCHANGED vars \/ UNCHANGED sweep
    BY <2>9 DEF vars, sweep
  <2> QED BY <2>2, <2>3, <2>4, <2>5, <2>6, <2>7, <2>8, <2>9 DEF Next
<1> QED BY <1>1, TypeCorrect, PTL DEF Spec, SweepKeepsGoing
==============================================================================
