--------------------------- MODULE AgentRunsProofs ---------------------------
(***************************************************************************)
(* Proofs about AgentRuns, for every number of messages, generations and   *)
(* crashes and every length of the queue.                                  *)
(*                                                                         *)
(* The inductive invariants add to the properties what they rest on: an    *)
(* object that has not received a command yet has nothing running          *)
(* (AsleepIdle), a message is only queued, served or echoed after its      *)
(* command row exists (Claimed), and an operation is proposed once         *)
(* (ProposedOnce).  Then AgentRuns is shown to implement RunSlot.          *)
(*                                                                         *)
(* The last section is about Directory, the chats such agents serve, for   *)
(* any chats, requests, limit and number of faults: a request acts on what *)
(* it read before its await (ChatInv), and what the directory shows of an  *)
(* agent is behind it by the pushes under way (PreviewInv).  The two       *)
(* components share no variable.                                           *)
(***************************************************************************)
EXTENDS AgentRunsSlot, Directory, TLAPS, WellFoundedInduction, FiniteSetTheorems

AsleepIdle ==
    ~awake => abort = 0 /\ echoing = {} /\ \A g \in Gen : pc[g] = "off"

Claimed ==
    /\ \A m \in Message : ticket[m] # 0 \/ m \in echoing => command[m] # "none"
    /\ \A g \in Gen, m \in Message : userText[g] = m => command[m] # "none"

ProposedOnce == \A g \in Gen : pc[g] = "proposing" => op[g] = "none"

SlotInv == TypeOK /\ OnlyNewestActive
RecoveryInv == SlotInv /\ AsleepIdle /\ NoOrphanRunning
ServiceInv == TypeOK /\ Claimed /\ ServedOnce
JournalInv == TypeOK /\ ProposedOnce /\ DeliveredIsSucceeded

USE MaxGenAssumption, QueueLimitAssumption, NotifyingAssumption,
    RouteDenyAssumption, MaxCrashesAssumption, NoMessageAssumption DEF Gen

------------------------------------------------------------------------------
(* The two CHOOSEs of the model: the oldest queued message and the active run. *)

(***************************************************************************)
(* A function into the naturals has a least value: ORDER BY created_at     *)
(* LIMIT 1 of a table that is not empty finds a row.                       *)
(***************************************************************************)
LEMMA LeastExists ==
  ASSUME NEW S, NEW f \in [S -> Nat], NEW Q \in SUBSET S, Q # {}
  PROVE  \E m \in Q : \A n \in Q : f[m] <= f[n]
<1> DEFINE T == {0 .. f[m] : m \in Q}
           R == StrictSubsetOrdering(Nat)
<1>1. T \subseteq FiniteSubsetsOf(Nat)
  <2>1. \A m \in Q : IsFiniteSet(0 .. f[m])
    BY FS_Interval
  <2> QED BY <2>1 DEF FiniteSubsetsOf
<1>2. T # {}
  OBVIOUS
<1>3. PICK U \in T : \A V \in T : ~(<<V, U>> \in R)
  <2>1. IsWellFoundedOn(R, FiniteSubsetsOf(Nat))
    BY FS_StrictSubsetOrderingWellFounded
  <2> HIDE DEF R, T
  <2> QED BY <1>1, <1>2, <2>1, WFMin
<1>4. PICK m \in Q : U = 0 .. f[m]
  OBVIOUS
<1>5. ASSUME NEW n \in Q, f[n] < f[m]
      PROVE  FALSE
  <2>1. 0 .. f[n] \subseteq 0 .. f[m]
    BY <1>5
  <2>2. f[m] \in 0 .. f[m] /\ f[m] \notin 0 .. f[n]
    BY <1>5
  <2>3. 0 .. f[n] \in SUBSET Nat /\ 0 .. f[m] \in SUBSET Nat
    OBVIOUS
  <2>4. <<0 .. f[n], 0 .. f[m]>> \in R
    BY <2>1, <2>2, <2>3 DEF StrictSubsetOrdering
  <2> QED BY <2>4, <1>3, <1>4
<1> QED BY <1>5

(***************************************************************************)
(* nextQueued of a queue that is not empty is one of its oldest items.     *)
(***************************************************************************)
LEMMA NextQueuedIsOldest ==
  ASSUME ticket \in [Message -> Nat], Queued # {}
  PROVE  /\ NextQueued \in Queued
         /\ \A n \in Queued : ticket[NextQueued] <= ticket[n]
<1>1. Queued \in SUBSET Message
  BY DEF Queued
<1>2. \E m \in Queued : \A n \in Queued : ticket[m] <= ticket[n]
  BY <1>1, LeastExists
<1> QED BY <1>2 DEF NextQueued

(***************************************************************************)
(* As long as only the newest generation can be active, activeRun returns  *)
(* it or nothing.                                                          *)
(***************************************************************************)
LEMMA ActiveRunIsNewest ==
  ASSUME TypeOK, OnlyNewestActive
  PROVE  \/ ActiveIn(status) = {} /\ ActiveRun = 0
         \/ gen \in Gen /\ ActiveIn(status) = {gen} /\ ActiveRun = gen
<1>1. CASE ActiveIn(status) = {}
  BY <1>1 DEF ActiveRun
<1>2. CASE ActiveIn(status) # {}
  <2>1. gen \in Gen /\ ActiveIn(status) = {gen}
    BY <1>2 DEF TypeOK, OnlyNewestActive, ActiveIn
  <2>2. gen <= gen
    BY DEF TypeOK
  <2> QED BY <2>1, <2>2 DEF ActiveRun
<1> QED BY <1>1, <1>2

(***************************************************************************)
(* advanceQueueIfReady admits the oldest queued message, and only when no  *)
(* run is active; otherwise it leaves what it was given.                   *)
(***************************************************************************)
LEMMA AdvanceCases ==
  ASSUME TypeOK, NEW st, NEW pcs, NEW paused,
         AdvanceQueueIfReady(st, pcs, paused)
  PROVE  \/ \E m \in Message :
              /\ ticket[m] # 0
              /\ \A n \in Message : ticket[n] # 0 => ticket[m] <= ticket[n]
              /\ ActiveIn(st) = {}
              /\ AdmitRun(m, st, pcs)
              /\ ticket' = [ticket EXCEPT ![m] = 0]
         \/ /\ status' = st
            /\ pc' = pcs
            /\ UNCHANGED <<gen, userText, currentGen, abort, ticket>>
<1>1. CASE ShouldAdvance(st, paused)
  <2>1. Queued # {} /\ ActiveIn(st) = {}
    BY <1>1 DEF ShouldAdvance
  <2>2. AdmitRun(NextQueued, st, pcs) /\ ticket' = Dequeued(NextQueued)
    BY <1>1 DEF AdvanceQueueIfReady
  <2>3. /\ NextQueued \in Queued
        /\ \A n \in Queued : ticket[NextQueued] <= ticket[n]
    BY <2>1, NextQueuedIsOldest DEF TypeOK
  <2> QED BY <2>1, <2>2, <2>3 DEF Queued, Dequeued
<1>2. CASE ~ShouldAdvance(st, paused)
  BY <1>2 DEF AdvanceQueueIfReady
<1> QED BY <1>1, <1>2

------------------------------------------------------------------------------
(* Type correctness. *)

(***************************************************************************)
(* The types survive the end of a handler that may admit a run.            *)
(***************************************************************************)
LEMMA AdvanceTyped ==
  ASSUME TypeOK,
         NEW st \in [Gen -> RunStatus], NEW pcs \in [Gen -> ProcessPc],
         NEW paused, AdvanceQueueIfReady(st, pcs, paused)
  PROVE  /\ gen' \in 0 .. MaxGen
         /\ status' \in [Gen -> RunStatus]
         /\ userText' \in [Gen -> Message \cup {NoMessage}]
         /\ ticket' \in [Message -> Nat]
         /\ abort' \in 0 .. MaxGen
         /\ currentGen' \in 0 .. MaxGen
         /\ pc' \in [Gen -> ProcessPc]
<1>1. CASE \E m \in Message : /\ AdmitRun(m, st, pcs)
                              /\ ticket' = [ticket EXCEPT ![m] = 0]
  BY <1>1 DEF AdmitRun, TypeOK, RunStatus, ActiveStatus, ProcessPc, Conversing
<1>2. CASE status' = st /\ pc' = pcs
           /\ UNCHANGED <<gen, userText, currentGen, abort, ticket>>
  BY <1>2 DEF TypeOK
<1> QED BY <1>1, <1>2, AdvanceCases

(***************************************************************************)
(* Every action of the cell keeps the types of its tables and fields.      *)
(***************************************************************************)
LEMMA TypeNext == TypeOK /\ [Next]_vars => TypeOK'
<1> SUFFICES ASSUME TypeOK, [Next]_vars
             PROVE  TypeOK'
  OBVIOUS
<1> USE DEF RunStatus, ActiveStatus, TerminalStatus, OpStatus, CommandRow,
            ProcessPc, Conversing
<1>1. CASE ReceiveCommand
  <2>1. Recovered \in [Gen -> RunStatus]
    BY DEF TypeOK, Recovered
  <2>2. AdvanceQueueIfReady(Recovered, pc, queuePaused)
    BY <1>1 DEF ReceiveCommand
  <2> QED BY <1>1, <2>1, <2>2, AdvanceTyped DEF ReceiveCommand, TypeOK
<1>2. ASSUME NEW m \in Message, SendRecord(m)
      PROVE  TypeOK'
  BY <1>2 DEF SendRecord, TypeOK
<1>3. ASSUME NEW m \in Message, SendAdmit(m)
      PROVE  TypeOK'
  <2>1. CASE Refuse(m)
    BY <1>3, <2>1 DEF SendAdmit, Refuse, TypeOK
  <2>2. CASE Enqueue(m)
    BY <1>3, <2>2 DEF SendAdmit, Enqueue, TypeOK
  <2>3. CASE StartSent(m)
    BY <1>3, <2>3 DEF SendAdmit, StartSent, AdmitRun, TypeOK
  <2> QED BY <1>3, <2>1, <2>2, <2>3 DEF SendAdmit
<1>4. ASSUME NEW m \in Message, RemoveQueued(m)
      PROVE  TypeOK'
  BY <1>4 DEF RemoveQueued, Dequeued, TypeOK, volatile
<1>5. ASSUME NEW expected \in 0 .. MaxGen, Stop(expected)
      PROVE  TypeOK'
  BY <1>5 DEF Stop, TypeOK, volatile
<1>6. CASE ResumeQueue
  <2>1. AdvanceQueueIfReady(status, pc, FALSE)
    BY <1>6 DEF ResumeQueue
  <2> QED BY <1>6, <2>1, AdvanceTyped DEF ResumeQueue, TypeOK
<1>7. ASSUME NEW g \in Gen, ProcessStep(g)
      PROVE  TypeOK'
  <2>1. CASE StreamStep(g)
    BY <2>1 DEF StreamStep, ChunkFenced, StreamEnds, StreamFails,
                RequestNotify, Move, TypeOK, durable
  <2>2. CASE ProposeNotification(g)
    BY <2>2 DEF ProposeNotification, Move, TypeOK
  <2>3. CASE Complete(g) \/ Fail(g) \/ Terminate(g)
    BY <2>3 DEF Complete, Fail, Terminate, FinishRun, Move, TypeOK
  <2>4. CASE ProcessFinally(g)
    BY <2>4 DEF ProcessFinally, Move, TypeOK, durable
  <2>5. CASE ProcessFlushed(g)
    <3>1. [pc EXCEPT ![g] = "off"] \in [Gen -> ProcessPc]
      BY DEF TypeOK
    <3>2. AdvanceQueueIfReady(status, [pc EXCEPT ![g] = "off"], queuePaused)
      BY <2>5 DEF ProcessFlushed
    <3> QED BY <2>5, <3>1, <3>2, AdvanceTyped DEF ProcessFlushed, TypeOK
  <2> QED BY <1>7, <2>1, <2>2, <2>3, <2>4, <2>5 DEF ProcessStep
<1>8. ASSUME NEW g \in Gen, Decide(g)
      PROVE  TypeOK'
  <2>1. CASE Approve(g)
    BY <2>1 DEF Approve, TypeOK
  <2>2. CASE CommitApproval(g)
    BY <2>2 DEF CommitApproval, TypeOK
  <2>3. CASE DenyCommand(g) \/ DenyRoute(g)
    BY <2>3 DEF DenyCommand, DenyRoute, MarkDenied, TypeOK, volatile
  <2> QED BY <1>8, <2>1, <2>2, <2>3 DEF Decide
<1>9. CASE Crash
  <2>1. pc' \in [Gen -> ProcessPc]
    BY <1>9 DEF Crash
  <2>2. /\ abort' \in 0 .. MaxGen /\ currentGen' \in 0 .. MaxGen
        /\ crashes' \in 0 .. MaxCrashes
    BY <1>9 DEF Crash, TypeOK
  <2>3. echoing' \subseteq Message /\ deciding' \subseteq Gen
    BY <1>9 DEF Crash
  <2>4. awake' \in BOOLEAN
    BY <1>9 DEF Crash
  <2> QED BY <1>9, <2>1, <2>2, <2>3, <2>4 DEF Crash, TypeOK, durable
<1>10. CASE UNCHANGED vars
  BY <1>10 DEF vars, durable, volatile, TypeOK
<1> QED BY <1>1, <1>2, <1>3, <1>4, <1>5, <1>6, <1>7, <1>8, <1>9, <1>10 DEF Next

(***************************************************************************)
(* The constructor and the schema of an empty cell have these types.       *)
(***************************************************************************)
LEMMA InitTyped == Init => TypeOK
<1> SUFFICES ASSUME Init
             PROVE  TypeOK
  OBVIOUS
<1> USE DEF Init
<1>1. /\ gen \in 0 .. MaxGen /\ clock \in Nat /\ crashes \in 0 .. MaxCrashes
      /\ abort \in 0 .. MaxGen /\ currentGen \in 0 .. MaxGen
  OBVIOUS
<1>2. status \in [Gen -> RunStatus] /\ op \in [Gen -> OpStatus]
  BY DEF RunStatus, OpStatus
<1>3. cancelled \in [Gen -> BOOLEAN]
  OBVIOUS
<1>4. userText \in [Gen -> Message \cup {NoMessage}]
  OBVIOUS
<1>5. ticket \in [Message -> Nat]
  OBVIOUS
<1>6. command \in [Message -> CommandRow]
  BY DEF CommandRow
<1>7. notified \in [Gen -> Nat]
  OBVIOUS
<1>8. pc \in [Gen -> ProcessPc]
  BY DEF ProcessPc
<1>9. /\ queuePaused \in BOOLEAN /\ awake \in BOOLEAN
      /\ echoing \subseteq Message /\ deciding \subseteq Gen
  OBVIOUS
<1> HIDE DEF Init
<1> QED BY <1>1, <1>2, <1>3, <1>4, <1>5, <1>6, <1>7, <1>8, <1>9 DEF TypeOK

(***************************************************************************)
(* The tables, fields and suspended handlers of a cell keep their types.   *)
(***************************************************************************)
THEOREM TypeCorrect == Spec => []TypeOK
  BY InitTyped, TypeNext, PTL DEF Spec

------------------------------------------------------------------------------
(* The run slot. *)

(***************************************************************************)
(* No step makes an older generation active: each of the four places that  *)
(* admit a run has found no active one in the same block.                  *)
(***************************************************************************)
LEMMA SlotNext == SlotInv /\ [Next]_vars => OnlyNewestActive'
<1> SUFFICES ASSUME TypeOK, OnlyNewestActive, [Next]_vars
             PROVE  OnlyNewestActive'
  BY DEF SlotInv
<1> USE DEF OnlyNewestActive, ActiveStatus, TerminalStatus
<1>1. ASSUME NEW st \in [Gen -> RunStatus], NEW pcs, NEW paused,
             \A g \in Gen : st[g] \in ActiveStatus => g = gen,
             AdvanceQueueIfReady(st, pcs, paused)
      PROVE  OnlyNewestActive'
  <2>1. CASE \E m \in Message : ActiveIn(st) = {} /\ AdmitRun(m, st, pcs)
    BY <1>1, <2>1 DEF ActiveIn, AdmitRun, TypeOK
  <2>2. CASE status' = st /\ gen' = gen
    BY <1>1, <2>2
  <2> QED BY <1>1, <2>1, <2>2, AdvanceCases
<1>2. CASE ReceiveCommand
  <2>1. Recovered \in [Gen -> RunStatus]
    BY DEF TypeOK, Recovered, RunStatus
  <2>2. \A g \in Gen : Recovered[g] \in ActiveStatus => g = gen
    BY DEF Recovered
  <2>3. AdvanceQueueIfReady(Recovered, pc, queuePaused)
    BY <1>2 DEF ReceiveCommand
  <2> QED BY <1>1, <2>1, <2>2, <2>3
<1>3. ASSUME NEW m \in Message, SendAdmit(m)
      PROVE  OnlyNewestActive'
  <2>1. CASE StartSent(m)
    <3>1. ActiveIn(status) = {}
      BY <2>1, ActiveRunIsNewest DEF StartSent
    <3> QED BY <2>1, <3>1 DEF StartSent, AdmitRun, ActiveIn, TypeOK
  <2> QED BY <1>3, <2>1 DEF SendAdmit, Refuse, Enqueue
<1>4. ASSUME NEW expected \in 0 .. MaxGen, Stop(expected)
      PROVE  OnlyNewestActive'
  BY <1>4, ActiveRunIsNewest DEF Stop, TypeOK
<1>5. CASE ResumeQueue
  BY <1>1, <1>5 DEF ResumeQueue, TypeOK
<1>6. ASSUME NEW g \in Gen, ProcessStep(g)
      PROVE  OnlyNewestActive'
  <2>1. CASE Complete(g) \/ Fail(g) \/ Terminate(g)
    BY <2>1 DEF Complete, Fail, Terminate, FinishRun, Move, TypeOK
  <2>2. CASE ProcessFlushed(g)
    <3>1. AdvanceQueueIfReady(status, [pc EXCEPT ![g] = "off"], queuePaused)
      BY <2>2 DEF ProcessFlushed
    <3> QED BY <1>1, <3>1 DEF TypeOK
  <2>3. CASE UNCHANGED <<status, gen>>
    BY <2>3
  <2> QED BY <1>6, <2>1, <2>2, <2>3 DEF ProcessStep, StreamStep, ChunkFenced,
          StreamEnds, StreamFails, RequestNotify, ProposeNotification,
          ProcessFinally, durable
<1>7. ASSUME NEW g \in Gen, Decide(g)
      PROVE  OnlyNewestActive'
  BY <1>7 DEF Decide, Approve, CommitApproval, DenyCommand, DenyRoute,
              MarkDenied, TypeOK
<1>8. CASE UNCHANGED <<status, gen>>
  BY <1>8
<1> QED BY <1>2, <1>3, <1>4, <1>5, <1>6, <1>7, <1>8
        DEF Next, SendRecord, RemoveQueued, Crash, vars, durable

(***************************************************************************)
(* At most the newest generation of a cell is active, in every state.      *)
(***************************************************************************)
THEOREM SlotIsExclusive == Spec => []OnlyNewestActive
<1>1. Init => SlotInv
  <2>1. Init => TypeOK
    BY InitTyped
  <2> QED BY <2>1 DEF Init, SlotInv, OnlyNewestActive, ActiveStatus
<1>2. SlotInv /\ [Next]_vars => SlotInv'
  BY SlotNext, TypeNext DEF SlotInv
<1>3. SlotInv => OnlyNewestActive
  BY DEF SlotInv
<1> QED BY <1>1, <1>2, <1>3, PTL DEF Spec

------------------------------------------------------------------------------
(* Recovery. *)

(***************************************************************************)
(* Nothing runs in an object that has not received a command.              *)
(***************************************************************************)
LEMMA AsleepNext == TypeOK /\ AsleepIdle /\ [Next]_vars => AsleepIdle'
<1> SUFFICES ASSUME TypeOK, AsleepIdle, [Next]_vars
             PROVE  AsleepIdle'
  OBVIOUS
<1> USE DEF AsleepIdle
<1>1. CASE ReceiveCommand
  BY <1>1 DEF ReceiveCommand
<1>2. ASSUME NEW m \in Message, SendRecord(m) \/ SendAdmit(m) \/ RemoveQueued(m)
      PROVE  AsleepIdle'
  BY <1>2 DEF SendRecord, SendAdmit, RemoveQueued, volatile
<1>3. CASE ResumeQueue
  BY <1>3 DEF ResumeQueue
<1>8. ASSUME NEW expected \in 0 .. MaxGen, Stop(expected)
      PROVE  AsleepIdle'
  BY <1>8 DEF Stop, volatile
<1>4. ASSUME NEW g \in Gen, ProcessStep(g)
      PROVE  AsleepIdle'
  <2>1. pc[g] # "off" /\ awake' = awake
    BY <1>4 DEF ProcessStep, StreamStep, ChunkFenced, StreamEnds, StreamFails,
                RequestNotify, ProposeNotification, Complete, Fail, Terminate,
                FinishRun, ProcessFinally, ProcessFlushed, Move
  <2> QED BY <2>1
<1>5. ASSUME NEW g \in Gen, Decide(g)
      PROVE  AsleepIdle'
  BY <1>5 DEF Decide, Approve, CommitApproval, DenyCommand, DenyRoute,
              MarkDenied, volatile
<1>6. CASE Crash
  BY <1>6 DEF Crash
<1>7. CASE UNCHANGED vars
  BY <1>7 DEF vars, volatile
<1> QED BY <1>1, <1>2, <1>3, <1>4, <1>5, <1>6, <1>7, <1>8 DEF Next

(***************************************************************************)
(* recoverOrContinue leaves no row "running" that has no process: in an    *)
(* object without an AbortController the active row is failed, and an      *)
(* object with one has received a command before.                          *)
(***************************************************************************)
LEMMA NoOrphanNext == RecoveryInv /\ [Next]_vars => NoOrphanRunning'
<1> SUFFICES ASSUME TypeOK, OnlyNewestActive, AsleepIdle, NoOrphanRunning,
                    [Next]_vars
             PROVE  NoOrphanRunning'
  BY DEF RecoveryInv, SlotInv
<1> USE DEF NoOrphanRunning, Conversing
<1>1. ASSUME NEW st \in [Gen -> RunStatus], NEW pcs \in [Gen -> ProcessPc],
             NEW paused, AdvanceQueueIfReady(st, pcs, paused),
             \A g \in Gen : st[g] = "running" => pcs[g] \in Conversing
      PROVE  NoOrphanRunning'
  <2>1. CASE \E m \in Message : AdmitRun(m, st, pcs)
    BY <1>1, <2>1 DEF AdmitRun, TypeOK
  <2>2. CASE status' = st /\ pc' = pcs
    BY <1>1, <2>2
  <2> QED BY <1>1, <2>1, <2>2, AdvanceCases
<1>2. CASE ReceiveCommand
  <2>1. Recovered \in [Gen -> RunStatus]
    BY DEF TypeOK, Recovered, RunStatus, TerminalStatus
  <2>2. ASSUME NEW g \in Gen, Recovered[g] = "running"
        PROVE  pc[g] \in Conversing
    <3>1. status[g] = "running" /\ ~Lost(g)
      BY <2>2 DEF Recovered
    <3>2. g = ActiveRun
      BY <3>1, ActiveRunIsNewest DEF OnlyNewestActive, ActiveIn, ActiveStatus
    <3>3. abort # 0
      BY <3>1, <3>2 DEF Lost
    <3> QED BY <3>1, <3>3 DEF AsleepIdle, TypeOK
  <2> QED BY <1>1, <1>2, <2>1, <2>2 DEF ReceiveCommand, TypeOK
<1>3. ASSUME NEW m \in Message, SendAdmit(m)
      PROVE  NoOrphanRunning'
  <2>1. CASE StartSent(m)
    BY <1>3, <2>1 DEF SendAdmit, StartSent, AdmitRun, TypeOK
  <2> QED BY <1>3, <2>1 DEF SendAdmit, Refuse, Enqueue
<1>4. ASSUME NEW expected \in 0 .. MaxGen, Stop(expected)
      PROVE  NoOrphanRunning'
  BY <1>4 DEF Stop, TypeOK, volatile
<1>5. CASE ResumeQueue
  BY <1>1, <1>5 DEF ResumeQueue, TypeOK
<1>6. ASSUME NEW g \in Gen, ProcessStep(g)
      PROVE  NoOrphanRunning'
  <2>1. CASE StreamStep(g) \/ ProposeNotification(g)
    BY <2>1 DEF StreamStep, ChunkFenced, StreamEnds, StreamFails,
                RequestNotify, ProposeNotification, Move, TypeOK, durable
  <2>2. CASE Complete(g) \/ Fail(g) \/ Terminate(g)
    BY <2>2 DEF Complete, Fail, Terminate, FinishRun, Move, TypeOK
  <2>3. CASE ProcessFinally(g)
    BY <2>3 DEF ProcessFinally, Move, TypeOK, durable
  <2>4. CASE ProcessFlushed(g)
    <3>1. [pc EXCEPT ![g] = "off"] \in [Gen -> ProcessPc]
      BY DEF TypeOK, ProcessPc
    <3>2. awake
      BY <2>4 DEF ProcessFlushed, AsleepIdle
    <3>3. \A h \in Gen : status[h] = "running" =>
            [pc EXCEPT ![g] = "off"][h] \in Conversing
      BY <2>4, <3>2 DEF ProcessFlushed, TypeOK
    <3> QED BY <1>1, <2>4, <3>1, <3>3 DEF ProcessFlushed, TypeOK
  <2> QED BY <1>6, <2>1, <2>2, <2>3, <2>4 DEF ProcessStep
<1>7. ASSUME NEW g \in Gen, Decide(g)
      PROVE  NoOrphanRunning'
  BY <1>7 DEF Decide, Approve, CommitApproval, DenyCommand, DenyRoute,
              MarkDenied, TypeOK, volatile
<1>8. CASE Crash
  BY <1>8 DEF Crash
<1>9. CASE UNCHANGED <<awake, status, pc>>
  BY <1>9
<1> QED BY <1>2, <1>3, <1>4, <1>5, <1>6, <1>7, <1>8, <1>9
        DEF Next, SendRecord, RemoveQueued, vars, durable, volatile

(***************************************************************************)
(* In every state in which a command has been received, each run that is   *)
(* "running" has a process, however often the isolate was lost before.     *)
(***************************************************************************)
THEOREM RecoveryLeavesNoOrphan == Spec => []NoOrphanRunning
<1>1. Init => RecoveryInv
  BY InitTyped DEF Init, RecoveryInv, SlotInv, OnlyNewestActive, ActiveStatus,
                   AsleepIdle, NoOrphanRunning
<1>2. RecoveryInv /\ [Next]_vars => RecoveryInv'
  BY SlotNext, TypeNext, AsleepNext, NoOrphanNext DEF RecoveryInv, SlotInv
<1>3. RecoveryInv => NoOrphanRunning
  BY DEF RecoveryInv
<1> QED BY <1>1, <1>2, <1>3, PTL DEF Spec

------------------------------------------------------------------------------
(* Messages. *)

(***************************************************************************)
(* A message that gets a run was claimed by its command and waited nowhere *)
(* else; so admission keeps messages apart.                                *)
(***************************************************************************)
LEMMA AdmitServes ==
  ASSUME ServiceInv, NEW st, NEW pcs, NEW m \in Message, AdmitRun(m, st, pcs),
         ticket[m] # 0 \/ m \in echoing,
         ticket' = [ticket EXCEPT ![m] = 0],
         echoing' = echoing \ {m},
         \A n \in Message : command[n] # "none" => command'[n] # "none"
  PROVE  ServedOnce' /\ Claimed'
<1> USE DEF ServiceInv, TypeOK, AdmitRun
<1>1. gen + 1 \in Gen /\ userText' = [userText EXCEPT ![gen + 1] = m]
  OBVIOUS
<1>2. \A g \in Gen : userText[g] # m
  BY DEF ServedOnce
<1>3. m # NoMessage
  OBVIOUS
<1>4. \A g, h \in Gen :
        userText'[g] = userText'[h] /\ userText'[g] # NoMessage => g = h
  BY <1>1, <1>2 DEF ServedOnce
<1>5. \A g \in Gen, n \in Message :
        userText'[g] = n => ticket'[n] = 0 /\ n \notin echoing'
  BY <1>1, <1>2 DEF ServedOnce
<1>6. \A n \in Message : ticket'[n] # 0 => n \notin echoing'
  BY DEF ServedOnce
<1>7. \A n \in Message : ticket'[n] # 0 \/ n \in echoing' => command'[n] # "none"
  BY DEF Claimed
<1>8. \A g \in Gen, n \in Message : userText'[g] = n => command'[n] # "none"
  BY <1>1 DEF Claimed
<1> QED BY <1>4, <1>5, <1>6, <1>7, <1>8 DEF ServedOnce, Claimed

(***************************************************************************)
(* A handler that ends with advanceQueueIfReady keeps messages apart.      *)
(***************************************************************************)
LEMMA AdvanceServes ==
  ASSUME ServiceInv, NEW st, NEW pcs, NEW paused,
         AdvanceQueueIfReady(st, pcs, paused), UNCHANGED <<command, echoing>>
  PROVE  ServedOnce' /\ Claimed'
<1>1. CASE UNCHANGED <<userText, ticket>>
  BY <1>1 DEF ServiceInv, ServedOnce, Claimed
<1>2. ASSUME NEW m \in Message, ticket[m] # 0, AdmitRun(m, st, pcs),
             ticket' = [ticket EXCEPT ![m] = 0]
      PROVE  ServedOnce' /\ Claimed'
  <2>1. echoing' = echoing \ {m}
    BY <1>2 DEF ServiceInv, ServedOnce
  <2> QED BY <1>2, <2>1, AdmitServes
<1> QED BY <1>1, <1>2, AdvanceCases DEF ServiceInv

(***************************************************************************)
(* Every action keeps messages apart.                                      *)
(***************************************************************************)
LEMMA ServiceNext == ServiceInv /\ [Next]_vars => ServedOnce' /\ Claimed'
<1> SUFFICES ASSUME ServiceInv, [Next]_vars
             PROVE  ServedOnce' /\ Claimed'
  OBVIOUS
<1>1. CASE ReceiveCommand
  BY <1>1, AdvanceServes DEF ReceiveCommand
<1>2. ASSUME NEW m \in Message, SendRecord(m)
      PROVE  ServedOnce' /\ Claimed'
  <2>1. ticket[m] = 0 /\ \A g \in Gen : userText[g] # m
    BY <1>2 DEF SendRecord, ServiceInv, Claimed
  <2> QED BY <1>2, <2>1 DEF SendRecord, ServiceInv, TypeOK, ServedOnce, Claimed
<1>3. ASSUME NEW m \in Message, SendAdmit(m)
      PROVE  ServedOnce' /\ Claimed'
  <2>1. CASE Refuse(m)
    BY <1>3, <2>1 DEF SendAdmit, Refuse, ServiceInv, TypeOK, ServedOnce, Claimed
  <2>2. CASE Enqueue(m)
    BY <1>3, <2>2 DEF SendAdmit, Enqueue, ServiceInv, TypeOK, ServedOnce, Claimed
  <2>3. CASE StartSent(m)
    <3>1. ticket' = [ticket EXCEPT ![m] = 0]
      BY <1>3, <2>3 DEF SendAdmit, StartSent, ServiceInv, TypeOK, ServedOnce
    <3> QED BY <1>3, <2>3, <3>1, AdmitServes
            DEF SendAdmit, StartSent, ServiceInv, TypeOK
  <2> QED BY <1>3, <2>1, <2>2, <2>3 DEF SendAdmit
<1>4. ASSUME NEW m \in Message, RemoveQueued(m)
      PROVE  ServedOnce' /\ Claimed'
  BY <1>4 DEF RemoveQueued, Dequeued, volatile, ServiceInv, TypeOK,
              ServedOnce, Claimed
<1>5. CASE ResumeQueue
  BY <1>5, AdvanceServes DEF ResumeQueue
<1>6. CASE \E g \in Gen : ProcessFlushed(g)
  BY <1>6, AdvanceServes DEF ProcessFlushed
<1>7. CASE Crash
  BY <1>7 DEF Crash, durable, ServiceInv, ServedOnce, Claimed
<1>8. CASE UNCHANGED <<userText, ticket, echoing, command>>
  BY <1>8 DEF ServiceInv, ServedOnce, Claimed
<1> QED BY <1>1, <1>2, <1>3, <1>4, <1>5, <1>6, <1>7, <1>8
        DEF Next, Stop, ProcessStep, StreamStep, ChunkFenced, StreamEnds,
            StreamFails, RequestNotify, ProposeNotification, Complete, Fail,
            Terminate, FinishRun, ProcessFinally, Decide, Approve,
            CommitApproval, DenyCommand, DenyRoute, MarkDenied, vars, durable,
            volatile

(***************************************************************************)
(* No message is ever served twice, or served and queued at once.          *)
(***************************************************************************)
THEOREM MessagesServedOnce == Spec => []ServedOnce
<1>1. Init => ServiceInv
  BY InitTyped DEF Init, ServiceInv, Claimed, ServedOnce
<1>2. ServiceInv /\ [Next]_vars => ServiceInv'
  BY ServiceNext, TypeNext DEF ServiceInv
<1>3. ServiceInv => ServedOnce
  BY DEF ServiceInv
<1> QED BY <1>1, <1>2, <1>3, PTL DEF Spec

(***************************************************************************)
(* The queue is served in order: nextQueued is the only message that can   *)
(* leave it in a step that admits a run, and it is one of the oldest.      *)
(***************************************************************************)
THEOREM QueueServedInOrder == Spec => QueueIsFifo
<1> DEFINE InOrder(m, n) ==
             /\ ticket[n] # 0
             /\ ticket[n] < ticket[m]
             /\ ticket'[m] = 0
             /\ ticket'[n] # 0
             => gen' = gen
           InOrderAll == \A m, n \in Message : InOrder(m, n)
<1>1. TypeOK /\ [Next]_vars => [InOrderAll]_vars
  <2> SUFFICES ASSUME TypeOK, Next, NEW m \in Message, NEW n \in Message
               PROVE  InOrder(m, n)
    OBVIOUS
  <2>1. ASSUME NEW st, NEW pcs, NEW paused, AdvanceQueueIfReady(st, pcs, paused)
        PROVE  InOrder(m, n)
    <3>1. ASSUME NEW k \in Message, ticket' = [ticket EXCEPT ![k] = 0],
                 \A j \in Message : ticket[j] # 0 => ticket[k] <= ticket[j]
          PROVE  InOrder(m, n)
      BY <3>1 DEF TypeOK
    <3> QED BY <2>1, <3>1, AdvanceCases
  <2>2. CASE ReceiveCommand
    BY <2>1, <2>2 DEF ReceiveCommand
  <2>3. CASE \E k \in Message : SendRecord(k) \/ RemoveQueued(k)
    BY <2>3 DEF SendRecord, RemoveQueued
  <2>4. ASSUME NEW k \in Message, SendAdmit(k)
        PROVE  InOrder(m, n)
    BY <2>4 DEF SendAdmit, Refuse, Enqueue, StartSent, TypeOK
  <2>5. CASE ResumeQueue
    BY <2>1, <2>5 DEF ResumeQueue
  <2>6. CASE \E g \in Gen : ProcessFlushed(g)
    BY <2>1, <2>6 DEF ProcessFlushed
  <2>7. CASE gen' = gen
    BY <2>7
  <2> QED BY <2>2, <2>3, <2>4, <2>5, <2>6, <2>7
          DEF Next, Stop, ProcessStep, StreamStep, ChunkFenced, StreamEnds,
              StreamFails, RequestNotify, ProposeNotification, Complete, Fail,
              Terminate, FinishRun, ProcessFinally, Decide, Approve,
              CommitApproval, DenyCommand, DenyRoute, MarkDenied, Crash, durable
<1> QED BY <1>1, TypeCorrect, PTL DEF Spec, QueueIsFifo

------------------------------------------------------------------------------
(* Operations. *)

(***************************************************************************)
(* Only an approval delivers, and it refuses an operation that was denied. *)
(***************************************************************************)
THEOREM DenialIsFinal == Spec => DeniedNeverDelivers
<1> DEFINE Undelivered ==
             \A g \in Gen : op[g] = "denied" => notified'[g] = notified[g]
<1>1. TypeOK /\ [Next]_vars => [Undelivered]_vars
  <2> SUFFICES ASSUME TypeOK, Next
               PROVE  Undelivered
    OBVIOUS
  <2>1. ASSUME NEW g \in Gen, Approve(g)
        PROVE  Undelivered
    BY <2>1 DEF Approve, Approvable, TypeOK
  <2>2. CASE notified' = notified
    BY <2>2
  <2> QED BY <2>1, <2>2
          DEF Next, ReceiveCommand, SendRecord, SendAdmit, RemoveQueued, Stop,
              ResumeQueue, ProcessStep, StreamStep, ChunkFenced, StreamEnds,
              StreamFails, RequestNotify, ProposeNotification, Complete, Fail,
              Terminate, FinishRun, ProcessFinally, ProcessFlushed, Decide,
              CommitApproval, DenyCommand, DenyRoute, MarkDenied, Crash, durable
<1> QED BY <1>1, TypeCorrect, PTL DEF Spec, DeniedNeverDelivers

(***************************************************************************)
(* Without the deny of POST /approvals, an operation is only written by a  *)
(* process that proposes it and by decisions that compare its status.      *)
(***************************************************************************)
LEMMA JournalNext ==
  ASSUME ~RouteDeny
  PROVE  JournalInv /\ [Next]_vars => ProposedOnce' /\ DeliveredIsSucceeded'
<1> SUFFICES ASSUME TypeOK, ProposedOnce, DeliveredIsSucceeded, [Next]_vars
             PROVE  ProposedOnce' /\ DeliveredIsSucceeded'
  BY DEF JournalInv
<1> USE DEF ProposedOnce, DeliveredIsSucceeded
<1>1. ASSUME NEW g \in Gen, Approve(g)
      PROVE  ProposedOnce' /\ DeliveredIsSucceeded'
  BY <1>1 DEF Approve, Approvable, TypeOK
<1>2. ASSUME NEW g \in Gen, DenyCommand(g)
      PROVE  ProposedOnce' /\ DeliveredIsSucceeded'
  BY <1>2 DEF DenyCommand, Deniable, MarkDenied, volatile, TypeOK
<1>3. ASSUME NEW g \in Gen, ProposeNotification(g)
      PROVE  ProposedOnce' /\ DeliveredIsSucceeded'
  BY <1>3 DEF ProposeNotification, Move, TypeOK
<1>4. ASSUME UNCHANGED <<op, notified>>,
             \A g \in Gen : pc'[g] = "proposing" => pc[g] = "proposing" \/ op[g] = "none"
      PROVE  ProposedOnce' /\ DeliveredIsSucceeded'
  BY <1>4
<1>5. ASSUME NEW st, NEW pcs \in [Gen -> ProcessPc], NEW paused,
             AdvanceQueueIfReady(st, pcs, paused), UNCHANGED <<op, notified>>,
             \A g \in Gen : pcs[g] = "proposing" => pc[g] = "proposing"
      PROVE  ProposedOnce' /\ DeliveredIsSucceeded'
  <2>1. ASSUME NEW m, AdmitRun(m, st, pcs)
        PROVE  \A g \in Gen : pc'[g] = "proposing" => pc[g] = "proposing"
    BY <1>5, <2>1 DEF AdmitRun, TypeOK
  <2> QED BY <1>4, <1>5, <2>1, AdvanceCases
<1>6. CASE ReceiveCommand \/ ResumeQueue
  BY <1>5, <1>6 DEF ReceiveCommand, ResumeQueue, TypeOK
<1>7. ASSUME NEW m \in Message, SendAdmit(m)
      PROVE  ProposedOnce' /\ DeliveredIsSucceeded'
  BY <1>4, <1>7 DEF SendAdmit, Refuse, Enqueue, StartSent, AdmitRun, TypeOK
<1>8. ASSUME NEW g \in Gen, ProcessFlushed(g)
      PROVE  ProposedOnce' /\ DeliveredIsSucceeded'
  <2>1. [pc EXCEPT ![g] = "off"] \in [Gen -> ProcessPc]
    BY DEF TypeOK, ProcessPc
  <2>2. \A h \in Gen : [pc EXCEPT ![g] = "off"][h] = "proposing" => pc[h] = "proposing"
    BY DEF TypeOK
  <2> QED BY <1>5, <1>8, <2>1, <2>2 DEF ProcessFlushed
<1>9. ASSUME NEW g \in Gen, StreamStep(g)
      PROVE  ProposedOnce' /\ DeliveredIsSucceeded'
  BY <1>4, <1>9 DEF StreamStep, ChunkFenced, StreamEnds, StreamFails,
                    RequestNotify, Move, durable, TypeOK
<1>10. ASSUME NEW g \in Gen,
              Complete(g) \/ Fail(g) \/ Terminate(g) \/ ProcessFinally(g)
       PROVE  ProposedOnce' /\ DeliveredIsSucceeded'
  BY <1>4, <1>10 DEF Complete, Fail, Terminate, FinishRun, ProcessFinally,
                     Move, durable, TypeOK
<1>11. CASE Crash
  BY <1>4, <1>11 DEF Crash, durable
<1>12. CASE UNCHANGED <<op, notified, pc>>
  BY <1>4, <1>12
<1> QED BY <1>1, <1>2, <1>3, <1>6, <1>7, <1>8, <1>9, <1>10, <1>11, <1>12
        DEF Next, SendRecord, RemoveQueued, Stop, ProcessStep, Decide,
            CommitApproval, DenyRoute, vars, durable, volatile

(***************************************************************************)
(* When decisions only come as commands, the journal agrees with what was  *)
(* delivered: "succeeded" means exactly one notification.                  *)
(***************************************************************************)
THEOREM JournalAgrees ==
  ASSUME ~RouteDeny
  PROVE  Spec => []DeliveredIsSucceeded
<1>1. Init => JournalInv
  BY InitTyped DEF Init, JournalInv, ProposedOnce, DeliveredIsSucceeded
<1>2. JournalInv /\ [Next]_vars => JournalInv'
  BY JournalNext, TypeNext DEF JournalInv
<1>3. JournalInv => DeliveredIsSucceeded
  BY DEF JournalInv
<1> QED BY <1>1, <1>2, <1>3, PTL DEF Spec

------------------------------------------------------------------------------
(***************************************************************************)
(* AgentRuns implements RunSlot: an action of the cell is one step of the  *)
(* slot with its queue, or none.                                           *)
(*                                                                         *)
(* The mapping rests on three facts more than the exclusive slot: an       *)
(* active run has a message, a message that waits or runs was accepted     *)
(* while one whose echo is being written was not (SendDecided), and no     *)
(* place in the queue is later than the clock (PlacesGiven).               *)
(***************************************************************************)

ActiveHasMessage ==
    \A g \in Gen : status[g] \in ActiveStatus => userText[g] \in Message

SendDecided ==
    /\ \A m \in Message : ticket[m] # 0 => command[m] = "accepted"
    /\ \A m \in echoing : command[m] = "in_flight"

PlacesGiven == \A m \in Message : ticket[m] <= clock

MappingInv ==
    /\ TypeOK
    /\ OnlyNewestActive
    /\ ActiveHasMessage
    /\ SendDecided
    /\ PlacesGiven

USE MaxGenAssumption, QueueLimitAssumption, NotifyingAssumption,
    RouteDenyAssumption, MaxCrashesAssumption, NoMessageAssumption DEF Gen

------------------------------------------------------------------------------
(* The invariant. *)

(***************************************************************************)
(* Admission gives the new run a message; every other step leaves the      *)
(* messages of active runs alone and activates nothing.                    *)
(***************************************************************************)
LEMMA ActiveHasMessageNext ==
  TypeOK /\ OnlyNewestActive /\ ActiveHasMessage /\ [Next]_vars
    => ActiveHasMessage'
<1> SUFFICES ASSUME TypeOK, OnlyNewestActive, ActiveHasMessage, [Next]_vars
             PROVE  ActiveHasMessage'
  OBVIOUS
<1> USE DEF ActiveHasMessage, ActiveStatus
<1>1. ASSUME NEW st \in [Gen -> RunStatus], NEW pcs, NEW m \in Message,
             \A g \in Gen : st[g] \in ActiveStatus => status[g] \in ActiveStatus,
             AdmitRun(m, st, pcs)
      PROVE  ActiveHasMessage'
  BY <1>1 DEF AdmitRun, TypeOK
<1>2. ASSUME NEW st \in [Gen -> RunStatus], NEW pcs, NEW paused,
             \A g \in Gen : st[g] \in ActiveStatus => status[g] \in ActiveStatus,
             AdvanceQueueIfReady(st, pcs, paused)
      PROVE  ActiveHasMessage'
  <2>1. CASE status' = st /\ userText' = userText
    BY <1>2, <2>1
  <2> QED BY <1>1, <1>2, <2>1, AdvanceCases
<1>3. CASE ReceiveCommand
  <2>1. Recovered \in [Gen -> RunStatus]
    BY DEF TypeOK, Recovered, RunStatus, TerminalStatus
  <2>2. \A g \in Gen : Recovered[g] \in ActiveStatus => status[g] \in ActiveStatus
    BY DEF Recovered
  <2> QED BY <1>2, <1>3, <2>1, <2>2 DEF ReceiveCommand
<1>4. ASSUME NEW m \in Message, SendAdmit(m)
      PROVE  ActiveHasMessage'
  <2>1. CASE StartSent(m)
    BY <1>1, <2>1 DEF StartSent, TypeOK
  <2> QED BY <1>4, <2>1 DEF SendAdmit, Refuse, Enqueue
<1>5. ASSUME NEW expected \in 0 .. MaxGen, Stop(expected)
      PROVE  ActiveHasMessage'
  <2>1. ActiveRun \in Gen /\ status[ActiveRun] \in ActiveStatus
    BY <1>5, ActiveRunIsNewest DEF Stop, ActiveIn
  <2> QED BY <1>5, <2>1 DEF Stop, TypeOK
<1>6. CASE ResumeQueue
  BY <1>2, <1>6 DEF ResumeQueue, TypeOK
<1>7. ASSUME NEW g \in Gen, ProcessStep(g)
      PROVE  ActiveHasMessage'
  <2>1. CASE Complete(g) \/ Fail(g) \/ Terminate(g)
    BY <2>1 DEF Complete, Fail, Terminate, FinishRun, TypeOK
  <2>2. CASE ProcessFlushed(g)
    BY <1>2, <2>2 DEF ProcessFlushed, TypeOK
  <2>3. CASE UNCHANGED <<status, userText>>
    BY <2>3
  <2> QED BY <1>7, <2>1, <2>2, <2>3 DEF ProcessStep, StreamStep, ChunkFenced,
          StreamEnds, StreamFails, RequestNotify, ProposeNotification,
          ProcessFinally, durable
<1>8. ASSUME NEW g \in Gen, Decide(g)
      PROVE  ActiveHasMessage'
  BY <1>8 DEF Decide, Approve, CommitApproval, DenyCommand, DenyRoute,
              MarkDenied, TypeOK
<1>9. CASE UNCHANGED <<status, userText>>
  BY <1>9
<1> QED BY <1>3, <1>4, <1>5, <1>6, <1>7, <1>8, <1>9
        DEF Next, SendRecord, RemoveQueued, Crash, vars, durable

(***************************************************************************)
(* A row enters run_queue in the block that accepts its command, with the  *)
(* next ticket, and it can only leave.                                     *)
(***************************************************************************)
LEMMA QueueNext ==
  TypeOK /\ SendDecided /\ PlacesGiven /\ [Next]_vars
    => SendDecided' /\ PlacesGiven'
<1> SUFFICES ASSUME TypeOK, SendDecided, PlacesGiven, [Next]_vars
             PROVE  SendDecided' /\ PlacesGiven'
  OBVIOUS
<1> USE DEF SendDecided, PlacesGiven
<1>1. ASSUME NEW st, NEW pcs, NEW paused, AdvanceQueueIfReady(st, pcs, paused),
             UNCHANGED <<command, clock, echoing>>
      PROVE  SendDecided' /\ PlacesGiven'
  <2>1. CASE ticket' = ticket
    BY <1>1, <2>1
  <2>2. CASE \E m \in Message : ticket' = [ticket EXCEPT ![m] = 0]
    BY <1>1, <2>2 DEF TypeOK
  <2> QED BY <1>1, <2>1, <2>2, AdvanceCases
<1>2. CASE ReceiveCommand
  BY <1>1, <1>2 DEF ReceiveCommand
<1>3. ASSUME NEW m \in Message, SendRecord(m)
      PROVE  SendDecided' /\ PlacesGiven'
  BY <1>3 DEF SendRecord, TypeOK
<1>4. ASSUME NEW m \in Message, SendAdmit(m)
      PROVE  SendDecided' /\ PlacesGiven'
  <2>1. CASE Refuse(m)
    BY <1>4, <2>1 DEF SendAdmit, Refuse, TypeOK
  <2>2. CASE Enqueue(m)
    BY <1>4, <2>2 DEF SendAdmit, Enqueue, TypeOK
  <2>3. CASE StartSent(m)
    BY <1>4, <2>3 DEF SendAdmit, StartSent, TypeOK
  <2> QED BY <1>4, <2>1, <2>2, <2>3 DEF SendAdmit
<1>5. ASSUME NEW m \in Message, RemoveQueued(m)
      PROVE  SendDecided' /\ PlacesGiven'
  BY <1>5 DEF RemoveQueued, Dequeued, volatile, TypeOK
<1>6. CASE ResumeQueue
  BY <1>1, <1>6 DEF ResumeQueue
<1>7. CASE \E g \in Gen : ProcessFlushed(g)
  BY <1>1, <1>7 DEF ProcessFlushed
<1>8. CASE Crash
  BY <1>8 DEF Crash, durable
<1>9. CASE UNCHANGED <<ticket, clock, echoing, command>>
  BY <1>9
<1> QED BY <1>2, <1>3, <1>4, <1>5, <1>6, <1>7, <1>8, <1>9
        DEF Next, Stop, ProcessStep, StreamStep, ChunkFenced, StreamEnds,
            StreamFails, RequestNotify, ProposeNotification, Complete, Fail,
            Terminate, FinishRun, ProcessFinally, Decide, Approve,
            CommitApproval, DenyCommand, DenyRoute, MarkDenied, vars, durable,
            volatile

(***************************************************************************)
(* What the mapping rests on holds in every state.                         *)
(***************************************************************************)
LEMMA MappingInvariant == Spec => []MappingInv
<1>1. Init => MappingInv
  BY InitTyped DEF Init, MappingInv, OnlyNewestActive, ActiveHasMessage,
                   SendDecided, PlacesGiven, ActiveStatus
<1>2. MappingInv /\ [Next]_vars => MappingInv'
  BY TypeNext, SlotNext, ActiveHasMessageNext, QueueNext
     DEF MappingInv, SlotInv
<1> QED BY <1>1, <1>2, PTL DEF Spec

------------------------------------------------------------------------------
(* The mapping. *)

(***************************************************************************)
(* With one active row in the table, the slot holds its message.           *)
(***************************************************************************)
LEMMA SlotHolds ==
  ASSUME NEW g \in Gen, ActiveIn(status)' = {g}
  PROVE  slot' = userText'[g]
<1>1. g <= g
  OBVIOUS
<1>2. ActiveRun' = g
  BY <1>1 DEF ActiveRun
<1> QED BY <1>2 DEF slot

(***************************************************************************)
(* What the users see of the slot depends on the active rows and their     *)
(* messages alone.                                                         *)
(***************************************************************************)
LEMMA SlotKept ==
  ASSUME ActiveIn(status)' = ActiveIn(status), userText' = userText
  PROVE  slot' = slot
  BY DEF slot, ActiveRun

(***************************************************************************)
(* The rows of the queue and the accepted commands say what is settled.    *)
(***************************************************************************)
LEMMA SettledKept ==
  ASSUME ticket' = ticket,
         \A m \in Message : command'[m] = "accepted" <=> command[m] = "accepted"
  PROVE  settled' = settled
  BY DEF settled

(***************************************************************************)
(* A step that activates nothing and leaves the messages alone releases    *)
(* the slot or is not visible.                                             *)
(***************************************************************************)
LEMMA KeepsOrReleases ==
  ASSUME TypeOK, OnlyNewestActive,
         ActiveIn(status)' \subseteq ActiveIn(status),
         userText' = userText, ticket' = ticket,
         \A m \in Message : command'[m] = "accepted" <=> command[m] = "accepted"
  PROVE  [Slot!Next]_(Slot!slotVars)
<1>1. settled' = settled
  BY SettledKept
<1>2. CASE ActiveIn(status)' = {}
  <2>1. slot' = NoMessage
    BY <1>2 DEF slot, ActiveRun
  <2> QED BY <1>1, <2>1 DEF Slot!Next, Slot!Release
<1>3. CASE ActiveIn(status)' = ActiveIn(status)
  BY <1>1, <1>3, SlotKept DEF Slot!slotVars
<1>4. ActiveIn(status)' = {} \/ ActiveIn(status)' = ActiveIn(status)
  BY ActiveRunIsNewest
<1> QED BY <1>2, <1>3, <1>4

(***************************************************************************)
(* AdmitRun gives the slot to the message of the new run.                  *)
(***************************************************************************)
LEMMA AdmitTakesSlot ==
  ASSUME TypeOK, NEW st \in [Gen -> RunStatus], NEW pcs, NEW m \in Message,
         ActiveIn(st) = {}, AdmitRun(m, st, pcs)
  PROVE  slot' = m
<1>1. gen + 1 \in Gen
  BY DEF AdmitRun, TypeOK
<1>2. ActiveIn(status)' = {gen + 1}
  BY <1>1 DEF AdmitRun, ActiveIn, ActiveStatus
<1>3. userText'[gen + 1] = m
  BY <1>1 DEF AdmitRun, TypeOK
<1> QED BY <1>1, <1>2, <1>3, SlotHolds

(***************************************************************************)
(* A handler that ends with advanceQueueIfReady gives the slot to the head *)
(* of the queue, or keeps or releases it.                                  *)
(***************************************************************************)
LEMMA AdvanceImplements ==
  ASSUME MappingInv, NEW st \in [Gen -> RunStatus], NEW pcs, NEW paused,
         ActiveIn(st) \subseteq ActiveIn(status),
         AdvanceQueueIfReady(st, pcs, paused), command' = command
  PROVE  [Slot!Next]_(Slot!slotVars)
<1> USE DEF MappingInv
<1>1. ASSUME NEW m \in Message, ticket[m] # 0,
             \A n \in Message : ticket[n] # 0 => ticket[m] <= ticket[n],
             ActiveIn(st) = {}, AdmitRun(m, st, pcs),
             ticket' = [ticket EXCEPT ![m] = 0]
      PROVE  Slot!FromQueue(m)
  <2>1. slot' = m
    BY <1>1, AdmitTakesSlot
  <2>2. settled' = settled \cup {m}
    BY <1>1 DEF settled, SendDecided, TypeOK
  <2> QED BY <1>1, <2>1, <2>2 DEF Slot!FromQueue, Slot!Waiting
<1>2. CASE status' = st /\ UNCHANGED <<userText, ticket>>
  <2>1. ActiveIn(status)' \subseteq ActiveIn(status)
    BY <1>2 DEF ActiveIn
  <2> QED BY <1>2, <2>1, KeepsOrReleases
<1> QED BY <1>1, <1>2, AdvanceCases DEF Slot!Next

(***************************************************************************)
(* admitSend starts a run in the free slot, puts the message behind all    *)
(* that wait, or refuses it and changes nothing the users see.             *)
(***************************************************************************)
LEMMA AdmitImplements ==
  ASSUME MappingInv, NEW m \in Message, SendAdmit(m)
  PROVE  [Slot!Next]_(Slot!slotVars)
<1> USE DEF MappingInv
<1>1. command[m] = "in_flight" /\ ticket[m] = 0
  BY DEF SendAdmit, SendDecided
<1>2. m \notin Slot!Waiting /\ m \notin settled
  BY <1>1 DEF Slot!Waiting, settled
<1>3. CASE Refuse(m)
  <2>1. \A n \in Message : command'[n] = "accepted" <=> command[n] = "accepted"
    BY <1>1, <1>3 DEF Refuse, TypeOK
  <2>2. ActiveIn(status)' = ActiveIn(status)
    BY <1>3 DEF Refuse, ActiveIn
  <2> QED BY <1>3, <2>1, <2>2, KeepsOrReleases DEF Refuse
<1>4. CASE Enqueue(m)
  <2>1. slot \in Message
    BY <1>4, ActiveRunIsNewest
       DEF Enqueue, slot, ActiveHasMessage, ActiveIn
  <2>2. ActiveIn(status)' = ActiveIn(status) /\ userText' = userText
    BY <1>4 DEF Enqueue, ActiveIn
  <2>3. slot' = slot
    BY <2>2, SlotKept
  <2>4. settled' = settled
    BY <1>1, <1>4 DEF Enqueue, settled, TypeOK
  <2>5. ticket' = [ticket EXCEPT ![m] = ticket'[m]] /\ ticket'[m] = clock + 1
    BY <1>4 DEF Enqueue, TypeOK
  <2>6. ticket'[m] \in Nat \ {0} /\ \A n \in Message : ticket[n] < ticket'[m]
    BY <2>5 DEF PlacesGiven, TypeOK
  <2>7. Slot!Cardinality(Slot!Waiting) < QueueLimit
    BY <1>4 DEF Enqueue, Queued, Slot!Waiting, Slot!Cardinality, Cardinality
  <2>8. Slot!Wait(m)
    BY <1>2, <2>1, <2>3, <2>4, <2>5, <2>6, <2>7
       DEF Slot!Wait, Slot!Fresh, Slot!Waiting
  <2> QED BY <2>8 DEF Slot!Next
<1>5. CASE StartSent(m)
  <2>1. ActiveIn(status) = {} /\ slot = NoMessage
    BY <1>5, ActiveRunIsNewest DEF StartSent, slot
  <2>2. slot' = m
    BY <1>5, <2>1, AdmitTakesSlot DEF StartSent, TypeOK
  <2>3. settled' = settled \cup {m}
    BY <1>1, <1>5 DEF StartSent, settled, TypeOK
  <2>4. Slot!Direct(m)
    BY <1>2, <1>5, <2>1, <2>2, <2>3 DEF StartSent, Slot!Direct, Slot!Fresh
  <2> QED BY <2>4 DEF Slot!Next
<1> QED BY <1>3, <1>4, <1>5 DEF SendAdmit

(***************************************************************************)
(* remove_queued takes a message that waits out of the queue for good.     *)
(***************************************************************************)
LEMMA RemoveImplements ==
  ASSUME MappingInv, NEW m \in Message, RemoveQueued(m)
  PROVE  Slot!Remove(m)
<1> USE DEF MappingInv, RemoveQueued, Dequeued, Queued
<1>1. slot' = slot
  BY SlotKept DEF ActiveIn
<1>2. settled' = settled \cup {m}
  BY DEF settled, SendDecided, TypeOK
<1> QED BY <1>1, <1>2 DEF Slot!Remove, Slot!Waiting

(***************************************************************************)
(* Every action of the cell is a step of RunSlot or stutters.              *)
(***************************************************************************)
LEMMA StepImplements ==
  MappingInv /\ [Next]_vars => [Slot!Next]_(Slot!slotVars)
<1> SUFFICES ASSUME MappingInv, [Next]_vars
             PROVE  [Slot!Next]_(Slot!slotVars)
  OBVIOUS
<1>1. CASE ReceiveCommand
  <2>1. Recovered \in [Gen -> RunStatus]
    BY DEF MappingInv, TypeOK, Recovered, RunStatus, TerminalStatus
  <2>2. ActiveIn(Recovered) \subseteq ActiveIn(status)
    BY DEF ActiveIn, Recovered, ActiveStatus
  <2> QED BY <1>1, <2>1, <2>2, AdvanceImplements DEF ReceiveCommand
<1>2. ASSUME NEW m \in Message, SendAdmit(m)
      PROVE  [Slot!Next]_(Slot!slotVars)
  BY <1>2, AdmitImplements
<1>3. ASSUME NEW m \in Message, RemoveQueued(m)
      PROVE  [Slot!Next]_(Slot!slotVars)
  BY <1>3, RemoveImplements DEF Slot!Next
<1>4. CASE ResumeQueue
  BY <1>4, AdvanceImplements DEF ResumeQueue, MappingInv, TypeOK
<1>5. ASSUME NEW g \in Gen, ProcessFlushed(g)
      PROVE  [Slot!Next]_(Slot!slotVars)
  BY <1>5, AdvanceImplements DEF ProcessFlushed, MappingInv, TypeOK
<1>6. CASE \/ \E g \in Gen : ProcessStep(g) /\ ~ProcessFlushed(g)
           \/ \E g \in Gen : Decide(g)
           \/ \E expected \in 0 .. MaxGen : Stop(expected)
           \/ \E m \in Message : SendRecord(m)
           \/ Crash
           \/ UNCHANGED vars
  <2>1. userText' = userText /\ ticket' = ticket
    BY <1>6 DEF Stop, SendRecord, Crash, vars, durable, volatile,
        ProcessStep, StreamStep, ChunkFenced, StreamEnds, StreamFails,
        RequestNotify, ProposeNotification, Complete, Fail, Terminate,
        FinishRun, ProcessFinally, Decide, Approve, CommitApproval,
        DenyCommand, DenyRoute, MarkDenied
  <2>2. \A m \in Message : command'[m] = "accepted" <=> command[m] = "accepted"
    BY <1>6 DEF Stop, SendRecord, Crash, vars, durable, volatile,
        ProcessStep, StreamStep, ChunkFenced, StreamEnds, StreamFails,
        RequestNotify, ProposeNotification, Complete, Fail, Terminate,
        FinishRun, ProcessFinally, Decide, Approve, CommitApproval,
        DenyCommand, DenyRoute, MarkDenied, MappingInv, TypeOK
  <2>3. ActiveIn(status)' \subseteq ActiveIn(status)
    <3>1. CASE \E expected \in 0 .. MaxGen : Stop(expected)
      <4>1. ActiveRun \in ActiveIn(status)
        BY <3>1, ActiveRunIsNewest DEF Stop, MappingInv
      <4> QED BY <3>1, <4>1 DEF Stop, ActiveIn, MappingInv, TypeOK
    <3>2. CASE \E g \in Gen : Complete(g) \/ Fail(g) \/ Terminate(g)
                              \/ CommitApproval(g)
      BY <3>2 DEF Complete, Fail, Terminate, FinishRun, CommitApproval,
                  ActiveIn, ActiveStatus, MappingInv, TypeOK
    <3>3. CASE status' = status
      BY <3>3 DEF ActiveIn
    <3> QED BY <1>6, <3>1, <3>2, <3>3 DEF SendRecord, Crash, vars, durable,
        ProcessStep, StreamStep, ChunkFenced, StreamEnds, StreamFails,
        RequestNotify, ProposeNotification, ProcessFinally, Decide, Approve,
        DenyCommand, DenyRoute, MarkDenied
  <2> QED BY <2>1, <2>2, <2>3, KeepsOrReleases DEF MappingInv
<1> QED BY <1>1, <1>2, <1>3, <1>4, <1>5, <1>6 DEF Next

(***************************************************************************)
(* The admission code, with its processes, crashes and recoveries, behaves *)
(* as one slot with a queue in front of it: whatever interleaving, every   *)
(* message is settled at most once and leaves the queue from its head.     *)
(***************************************************************************)
THEOREM CellImplementsSlot == Spec => ImplementsRunSlot
<1>1. Init => Slot!Init
  <2> SUFFICES ASSUME Init
               PROVE  Slot!Init
    OBVIOUS
  <2>1. slot = NoMessage
    BY DEF Init, slot, ActiveRun, ActiveIn, ActiveStatus
  <2>2. settled = {}
    BY DEF Init, settled
  <2> QED BY <2>1, <2>2 DEF Init, Slot!Init
<1> QED BY <1>1, MappingInvariant, StepImplements, PTL
        DEF Spec, ImplementsRunSlot, Slot!Spec

------------------------------------------------------------------------------
(***************************************************************************)
(* The chats of an owner (Directory).                                      *)
(***************************************************************************)

\* The bootstrap of the agent of c is on its way.
Booting(r, c) ==
    /\ call[r] # Idle
    /\ call[r].on = c /\ call[r].op # "archive" /\ call[r].at = "sent"

\* insertAndBootstrap: who writes the row calls the agent.
BootsRows ==
    \A c \in Chat \ excused : row[c] # "absent" =>
      booted[c] \/ \E r \in Request : Booting(r, c)

\* archive: the agent is told after its row is archived, and a row stays so.
ClosesRows ==
    \A c \in Chat :
      /\ closed[c] => booted[c]
      /\ closed[c] /\ c \notin excused => row[c] = "archived"

\* A call nobody listens to any more excuses its chat.
CallsHeard ==
    \A r \in Request : call[r] # Idle =>
      /\ call[r].op = "archive" => row[call[r].on] = "archived"
      /\ ~call[r].heard => call[r].on \in excused

\* No preview, shown or on its way, is ahead of the last push, and no push is
\* ahead of the agent.
SeenIsBehind ==
    \A c \in Chat :
      /\ pushed[c] <= seq[c]
      /\ shown[c].seq <= pushed[c]
      /\ \A p \in pushes : p.chat = c => p.seq <= pushed[c]

\* Unless a push was missed, the last one is shown or on its way.
LastIsOnItsWay ==
    \A c \in Chat \ missed :
      \/ shown[c].seq = pushed[c]
      \/ \E p \in pushes : p.chat = c /\ p.seq = pushed[c]

FewListed == IsFiniteSet(Listed(row)) /\ WithinLimit

ChatInv == DirTypeOK /\ BootsRows /\ ClosesRows /\ CallsHeard
PreviewInv == DirTypeOK /\ SeenIsBehind /\ LastIsOnItsWay

USE ChatAssumption, LimitAssumption, BoundsAssumption, IdleAssumption

(***************************************************************************)
(* The calls of the directory: one is made, its request ends, its agent    *)
(* answers, its request stops listening.                                   *)
(***************************************************************************)
LEMMA CallMade ==
  ASSUME DirTypeOK, NEW r \in Request, NEW what \in {"seed", "insert", "archive"},
         NEW c \in Chat, NEW d \in Chat, Calls(r, what, c, d)
  PROVE  /\ call' \in [Request -> Call \cup {Idle}]
         /\ call'[r] # Idle /\ call'[r].op = what /\ call'[r].on = d
         /\ call'[r].at = "sent" /\ call'[r].heard
         /\ \A q \in Request \ {r} : call'[q] = call[q]
<1> DEFINE new == [op |-> what, chat |-> c, on |-> d, at |-> "sent", heard |-> TRUE]
<1>1. new \in Call /\ new # Idle
  <2>1. new \in Call
    BY Zenon DEF Call
  <2> QED BY <2>1
<1>2. call' = [call EXCEPT ![r] = new] /\ call \in [Request -> Call \cup {Idle}]
  BY DEF Calls, DirTypeOK
<1>3. call'[r] = new
  BY <1>2
<1> HIDE DEF new
<1>4. /\ call' \in [Request -> Call \cup {Idle}]
      /\ \A q \in Request \ {r} : call'[q] = call[q]
  BY <1>1, <1>2
<1>5. new.op = what /\ new.on = d /\ new.at = "sent" /\ new.heard
  BY DEF new
<1> QED BY <1>1, <1>3, <1>4, <1>5

(* A finished request leaves its slot idle and the other requests as they were. *)
LEMMA CallEnds ==
  ASSUME DirTypeOK, NEW r \in Request, call' = [call EXCEPT ![r] = Idle]
  PROVE  /\ call' \in [Request -> Call \cup {Idle}] /\ call'[r] = Idle
         /\ \A q \in Request \ {r} : call'[q] = call[q]
<1>1. call \in [Request -> Call \cup {Idle}]
  BY DEF DirTypeOK
<1> QED BY <1>1

(* An answer moves one request past "sent" and changes nothing it asked for. *)
LEMMA CallAnswered ==
  ASSUME DirTypeOK, NEW r \in Request, call[r] # Idle, NEW ok \in BOOLEAN,
         Answer(r, ok)
  PROVE  /\ call' \in [Request -> Call \cup {Idle}] /\ call'[r] # Idle
         /\ call'[r].op = call[r].op /\ call'[r].on = call[r].on
         /\ call'[r].at # "sent" /\ call'[r].heard = call[r].heard
         /\ \A q \in Request \ {r} : call'[q] = call[q]
<1> DEFINE new == [call[r] EXCEPT !.at = IF ok THEN "ok" ELSE "error"]
<1>1. call \in [Request -> Call \cup {Idle}] /\ call[r] \in Call
  BY DEF DirTypeOK
<1>2. /\ new \in Call /\ new.op = call[r].op /\ new.on = call[r].on /\ new.at # "sent"
      /\ new.heard = call[r].heard
  BY <1>1 DEF Call
<1>3. call' = [call EXCEPT ![r] = new]
  BY DEF Answer
<1> HIDE DEF new
<1>4. new # Idle /\ call'[r] = new
  BY <1>1, <1>2, <1>3
<1>5. call' \in [Request -> Call \cup {Idle}] /\ \A q \in Request \ {r} : call'[q] = call[q]
  BY <1>1, <1>2, <1>3
<1> QED BY <1>2, <1>4, <1>5

(* A request nobody waits for any more keeps its place and what it asked for. *)
LEMMA CallAbandoned ==
  ASSUME DirTypeOK, NEW r \in Request, call[r] # Idle,
         call' = [call EXCEPT ![r].heard = FALSE]
  PROVE  /\ call' \in [Request -> Call \cup {Idle}] /\ call'[r] # Idle
         /\ call'[r].op = call[r].op /\ call'[r].on = call[r].on
         /\ call'[r].at = call[r].at
         /\ \A q \in Request \ {r} : call'[q] = call[q]
<1> DEFINE new == [call[r] EXCEPT !.heard = FALSE]
<1>1. call \in [Request -> Call \cup {Idle}] /\ call[r] \in Call
  BY DEF DirTypeOK
<1>2. new \in Call /\ new.op = call[r].op /\ new.on = call[r].on /\ new.at = call[r].at
  BY <1>1 DEF Call
<1>3. call' = [call EXCEPT ![r] = new]
  OBVIOUS
<1> HIDE DEF new
<1>4. new # Idle /\ call'[r] = new
  BY <1>1, <1>2, <1>3
<1>5. call' \in [Request -> Call \cup {Idle}] /\ \A q \in Request \ {r} : call'[q] = call[q]
  BY <1>1, <1>2, <1>3
<1> QED BY <1>2, <1>4, <1>5

(***************************************************************************)
(* The agent and its pushes after pushActivity.                            *)
(***************************************************************************)
LEMMA PushTyped ==
  ASSUME DirTypeOK, NEW c \in Chat, sent[c] < MaxPushes, Push(c)
  PROVE  /\ sent' \in [Chat -> 0 .. MaxPushes]
         /\ pushed' \in [Chat -> 0 .. MaxMessages]
         /\ pushed'[c] = seq[c] /\ \A d \in Chat \ {c} : pushed'[d] = pushed[d]
         /\ \A p \in pushes' : p.chat \in Chat /\ p.seq \in 0 .. MaxMessages
                               /\ p.nr \in 1 .. MaxPushes
         /\ pushes \subseteq pushes'
         /\ \E p \in pushes' : p.chat = c /\ p.seq = seq[c]
         /\ \A p \in pushes' \ pushes : p.chat = c /\ p.seq = seq[c]
<1>1. sent' = [sent EXCEPT ![c] = sent[c] + 1] /\ pushed' = [pushed EXCEPT ![c] = seq[c]]
  BY DEF Push
<1>2. seq[c] \in 0 .. MaxMessages /\ sent[c] \in 0 .. MaxPushes
  BY DEF DirTypeOK
<1>3. /\ sent' \in [Chat -> 0 .. MaxPushes] /\ pushed' \in [Chat -> 0 .. MaxMessages]
      /\ pushed'[c] = seq[c] /\ \A d \in Chat \ {c} : pushed'[d] = pushed[d]
  BY <1>1, <1>2 DEF DirTypeOK
<1>4. sent[c] + 1 \in 1 .. MaxPushes
  BY <1>2
<1>5. pushes' = pushes \cup {[chat |-> c, seq |-> seq[c], nr |-> sent[c] + 1]}
  BY DEF Push
<1>6. \A p \in pushes' : p.chat \in Chat /\ p.seq \in 0 .. MaxMessages /\ p.nr \in 1 .. MaxPushes
  BY <1>2, <1>4, <1>5 DEF DirTypeOK
<1>7. /\ \E p \in pushes' : p.chat = c /\ p.seq = seq[c]
      /\ \A p \in pushes' \ pushes : p.chat = c /\ p.seq = seq[c]
      /\ pushes \subseteq pushes'
  <2> DEFINE new == [chat |-> c, seq |-> seq[c], nr |-> sent[c] + 1]
  <2>1. new.chat = c /\ new.seq = seq[c] /\ pushes' = pushes \cup {new}
    BY <1>5
  <2> HIDE DEF new
  <2> QED BY <2>1
<1> QED BY <1>3, <1>6, <1>7

(* Every step of the directory keeps its types. *)
LEMMA DirTyped ==
  ASSUME DirTypeOK, [DirNext]_dirVars
  PROVE  DirTypeOK'
<1> DEFINE DirectoryOK == row \in [Chat -> {"absent", "listed", "archived"}]
           CallOK == call \in [Request -> Call \cup {Idle}]
<1>1. CASE UNCHANGED dirVars
  BY <1>1 DEF dirVars, directory, agents, DirTypeOK
<1>2. ASSUME NEW r \in Request, NEW c \in Chat,
             \/ ListChats(r) \/ CreateChat(r, c) \/ ArchiveChat(r, c) \/ Resume(r)
             \/ Abandon(r) \/ Forget(r)
      PROVE  DirTypeOK'
  <2>1. /\ UNCHANGED <<shown, agents, pushes, missed>>
        /\ excused' \subseteq Chat /\ faults' \in 0 .. MaxFaults
    <3>1. call[r] # Idle => call[r].on \in Chat /\ call[r].chat \in Chat
      BY DEF DirTypeOK, Call
    <3> QED BY <1>2, <3>1 DEF ListChats, CreateChat, ArchiveChat, Resume, Abandon, Forget,
                 DirTypeOK, directory
  <2>2. CallOK'
    <3>1. call[r] # Idle => call[r].on \in Chat /\ call[r].chat \in Chat
      BY DEF DirTypeOK, Call
    <3>2. \/ \E what \in {"seed", "insert", "archive"}, d, e \in Chat : Calls(r, what, d, e)
          \/ call' = [call EXCEPT ![r] = Idle]
          \/ call[r] # Idle /\ call' = [call EXCEPT ![r].heard = FALSE]
      BY <1>2, <3>1 DEF ListChats, CreateChat, ArchiveChat, Resume, Abandon, Forget, Insert,
                        Place
    <3> QED BY <3>2, CallMade, CallEnds, CallAbandoned
  <2>3. DirectoryOK'
    <3>1. call[r] # Idle => call[r].on \in Chat /\ call[r].chat \in Chat
      BY DEF DirTypeOK, Call
    <3>2. \/ row' = row \/ row' = [row EXCEPT ![c] = "archived"]
          \/ \E d \in Chat : row' = [row EXCEPT ![d] = "listed"]
      BY <1>2, <3>1 DEF ListChats, CreateChat, ArchiveChat, Resume, Abandon, Forget, Insert,
                        Place, directory
    <3> QED BY <3>2 DEF DirTypeOK
  <2> QED BY <2>1, <2>2, <2>3 DEF DirTypeOK, agents
<1>3. ASSUME NEW r \in Request, Bootstrap(r)
      PROVE  DirTypeOK'
  <2>1. /\ UNCHANGED <<row, shown, missed, excused, faults, closed, seq>>
        /\ call[r] # Idle /\ \E ok \in BOOLEAN : Answer(r, ok)
        /\ \/ UNCHANGED <<booted, sent, pushed, pushes>>
           \/ /\ booted' = [booted EXCEPT ![call[r].on] = TRUE]
              /\ sent[call[r].on] < MaxPushes
              /\ Push(call[r].on)
    BY <1>3 DEF Bootstrap, directory, agents
  <2>2. call[r].on \in Chat
    BY <2>1 DEF DirTypeOK, Call
  <2>3. CallOK'
    BY <2>1, CallAnswered
  <2>4. CASE UNCHANGED <<booted, sent, pushed, pushes>>
    BY <2>1, <2>3, <2>4 DEF DirTypeOK
  <2>5. CASE ~UNCHANGED <<booted, sent, pushed, pushes>>
    <3>1. booted' \in [Chat -> BOOLEAN]
      BY <2>1, <2>2, <2>5 DEF DirTypeOK
    <3>2. /\ sent' \in [Chat -> 0 .. MaxPushes] /\ pushed' \in [Chat -> 0 .. MaxMessages]
          /\ \A p \in pushes' : p.chat \in Chat /\ p.seq \in 0 .. MaxMessages
                               /\ p.nr \in 1 .. MaxPushes
      BY <2>1, <2>2, <2>5, PushTyped
    <3> QED BY <2>1, <2>3, <3>1, <3>2 DEF DirTypeOK
  <2> QED BY <2>4, <2>5
<1>4. ASSUME NEW r \in Request, MarkArchived(r)
      PROVE  DirTypeOK'
  <2>1. /\ UNCHANGED <<row, shown, booted, seq, sent, pushed, pushes, missed, excused, faults>>
        /\ call[r] # Idle
        /\ closed' = [closed EXCEPT ![call[r].on] = @ \/ booted[call[r].on]]
        /\ Answer(r, booted[call[r].on] /\ ~closed[call[r].on])
    BY <1>4 DEF MarkArchived, directory
  <2>2. CallOK'
    BY <2>1, CallAnswered
  <2>3. closed' \in [Chat -> BOOLEAN]
    BY <2>1 DEF DirTypeOK
  <2> QED BY <2>1, <2>2, <2>3 DEF DirTypeOK
<1>5. ASSUME NEW c \in Chat, AgentSays(c) \/ AgentPushes(c) \/ Bypass(c)
      PROVE  DirTypeOK'
  <2>1. CASE AgentSays(c)
    <3>1. seq' = [seq EXCEPT ![c] = seq[c] + 1] /\ seq[c] < MaxMessages
      BY <2>1 DEF AgentSays
    <3>2. seq' \in [Chat -> 0 .. MaxMessages]
      BY <3>1 DEF DirTypeOK
    <3> QED BY <2>1, <3>2 DEF AgentSays, DirTypeOK, directory
  <2>3. CASE AgentPushes(c)
    <3>1. sent[c] < MaxPushes /\ Push(c)
      BY <2>3 DEF AgentPushes
    <3>2. /\ sent' \in [Chat -> 0 .. MaxPushes] /\ pushed' \in [Chat -> 0 .. MaxMessages]
          /\ \A p \in pushes' : p.chat \in Chat /\ p.seq \in 0 .. MaxMessages
                               /\ p.nr \in 1 .. MaxPushes
      BY <3>1, PushTyped
    <3> QED BY <2>3, <3>2 DEF AgentPushes, DirTypeOK, directory
  <2>2. CASE Bypass(c)
    <3>1. /\ UNCHANGED <<row, shown, call, seq, missed, faults>>
          /\ excused' = excused \cup {c}
          /\ booted' \in [Chat -> BOOLEAN] /\ closed' \in [Chat -> BOOLEAN]
      BY <2>2 DEF Bypass, DirTypeOK, directory
    <3>2. /\ sent' \in [Chat -> 0 .. MaxPushes] /\ pushed' \in [Chat -> 0 .. MaxMessages]
          /\ \A p \in pushes' : p.chat \in Chat /\ p.seq \in 0 .. MaxMessages
                               /\ p.nr \in 1 .. MaxPushes
      <4>1. \/ sent[c] < MaxPushes /\ Push(c)
            \/ UNCHANGED <<sent, pushed, pushes>>
        BY <2>2 DEF Bypass
      <4> QED BY <4>1, PushTyped DEF DirTypeOK
    <3> QED BY <3>1, <3>2 DEF DirTypeOK
  <2> QED BY <1>5, <2>1, <2>2, <2>3
<1>6. ASSUME NEW p \in pushes, Activity(p) \/ PushLost(p)
      PROVE  DirTypeOK'
  <2>1. p.chat \in Chat /\ p.seq \in 0 .. MaxMessages /\ p.nr \in 0 .. MaxPushes
    BY DEF DirTypeOK
  <2>2. /\ UNCHANGED <<row, call, agents, excused>>
        /\ pushes' \subseteq pushes /\ missed' \subseteq Chat
        /\ faults' \in 0 .. MaxFaults
    BY <1>6, <2>1 DEF Activity, PushLost, DirTypeOK, directory
  <2>3. shown' \in [Chat -> [seq : 0 .. MaxMessages, nr : 0 .. MaxPushes]]
    BY <1>6, <2>1 DEF Activity, PushLost, DirTypeOK, directory
  <2> QED BY <2>2, <2>3 DEF DirTypeOK, agents
<1> QED
  BY <1>1, <1>2, <1>3, <1>4, <1>5, <1>6
  DEF DirNext, Directing, Serving, Previewing

(***************************************************************************)
(* A row more, below the limit (create, insertAndBootstrap).               *)
(***************************************************************************)
LEMMA OneMoreListed ==
  ASSUME DirTypeOK, FewListed, NEW d \in Chat, row' = [row EXCEPT ![d] = "listed"],
         Cardinality(Listed(row)) < ChatsPerOwner
  PROVE  FewListed'
<1>1. Listed(row)' = Listed(row) \cup {d}
  BY DEF Listed, DirTypeOK
<1>2. IsFiniteSet(Listed(row)) /\ Cardinality(Listed(row)) \in Nat
  BY FS_CardinalityType DEF FewListed
<1>3. /\ IsFiniteSet(Listed(row) \cup {d})
      /\ Cardinality(Listed(row) \cup {d}) \in {Cardinality(Listed(row)),
                                              Cardinality(Listed(row)) + 1}
  BY <1>2, FS_AddElement
<1>4. Cardinality(Listed(row) \cup {d}) \in Nat
  BY <1>3, FS_CardinalityType
<1>5. Cardinality(Listed(row) \cup {d}) <= ChatsPerOwner
  BY <1>2, <1>3, <1>4
<1> QED BY <1>1, <1>3, <1>5 DEF FewListed, WithinLimit

(* No step lists more chats than the limit. *)
LEMMA LimitKept ==
  ASSUME DirTypeOK, FewListed, [DirNext]_dirVars
  PROVE  FewListed'
<1>1. ASSUME row' = row
      PROVE  FewListed'
  BY <1>1 DEF FewListed, WithinLimit
<1>2. Empty => Cardinality(Listed(row)) = 0
  <2>1. Empty => Listed(row) = {}
    BY DEF Empty, Listed
  <2> QED BY <2>1, FS_EmptySet
<1>3. ASSUME NEW r \in Request, NEW c \in Chat, Place(r, c)
      PROVE  FewListed'
  <2>1. row' = row \/ (/\ ~(Cardinality(Listed(row)) >= ChatsPerOwner)
                       /\ row' = [row EXCEPT ![c] = "listed"])
    BY <1>3 DEF Place, Insert
  <2>2. Cardinality(Listed(row)) \in Nat
    BY FS_CardinalityType DEF FewListed
  <2> QED BY <1>1, <2>1, <2>2, OneMoreListed
<1>4. ASSUME NEW r \in Request, NEW c \in Chat, ListChats(r) \/ CreateChat(r, c)
      PROVE  FewListed'
  <2>1. (Empty /\ row' = [row EXCEPT ![Default] = "listed"]) \/ Place(r, c)
    BY <1>4 DEF ListChats, CreateChat, Insert
  <2> QED BY <1>2, <1>3, <2>1, OneMoreListed
<1>5. ASSUME NEW r \in Request, NEW c \in Chat, ArchiveChat(r, c)
      PROVE  FewListed'
  <2>1. Listed(row)' \subseteq Listed(row)
    BY <1>5 DEF ArchiveChat, Listed, DirTypeOK
  <2>2. /\ IsFiniteSet(Listed(row)')
        /\ Cardinality(Listed(row)') <= Cardinality(Listed(row))
    BY <2>1, FS_Subset DEF FewListed
  <2>3. Cardinality(Listed(row)') \in Nat /\ Cardinality(Listed(row)) \in Nat
    BY <2>2, FS_CardinalityType DEF FewListed
  <2> QED BY <2>2, <2>3 DEF FewListed, WithinLimit
<1>6. ASSUME NEW r \in Request, Resume(r) \/ Abandon(r) \/ Forget(r)
      PROVE  FewListed'
  <2>1. row' = row \/ (call[r] # Idle /\ Place(r, call[r].chat))
    BY <1>6 DEF Resume, Abandon, Forget, directory
  <2>2. call[r] # Idle => call[r].chat \in Chat
    BY DEF DirTypeOK, Call
  <2> QED BY <1>1, <1>3, <2>1, <2>2
<1>7. CASE Serving \/ Previewing \/ UNCHANGED dirVars
  <2>1. row' = row
    BY <1>7 DEF Serving, Bootstrap, MarkArchived, AgentSays, AgentPushes, Bypass,
                Previewing, Activity, PushLost, dirVars, directory
  <2> QED BY <1>1, <2>1
<1> QED BY <1>4, <1>5, <1>6, <1>7 DEF DirNext, Directing

(***************************************************************************)
(* A push has the last message of the agent (pushActivity).                *)
(***************************************************************************)
LEMMA PushSettles ==
  ASSUME PreviewInv, NEW c \in Chat, sent[c] < MaxPushes, Push(c),
         UNCHANGED <<shown, seq, missed>>
  PROVE  SeenIsBehind' /\ LastIsOnItsWay'
<1>1. /\ pushed'[c] = seq[c] /\ \A d \in Chat \ {c} : pushed'[d] = pushed[d]
      /\ pushes \subseteq pushes'
      /\ \E p \in pushes' : p.chat = c /\ p.seq = seq[c]
      /\ \A p \in pushes' \ pushes : p.chat = c /\ p.seq = seq[c]
  BY PushTyped DEF PreviewInv
<1>2. /\ seq[c] \in Nat /\ pushed[c] \in Nat /\ shown[c].seq \in Nat
      /\ pushed[c] <= seq[c] /\ shown[c].seq <= pushed[c]
  BY DEF PreviewInv, DirTypeOK, SeenIsBehind
<1>3. \A p \in pushes : p.chat = c => p.seq <= pushed[c] /\ p.seq \in Nat
  BY DEF PreviewInv, DirTypeOK, SeenIsBehind
<1>4. SeenIsBehind'
  <2> SUFFICES ASSUME NEW d \in Chat
               PROVE  /\ pushed'[d] <= seq[d]
                      /\ shown[d].seq <= pushed'[d]
                      /\ \A p \in pushes' : p.chat = d => p.seq <= pushed'[d]
    BY DEF SeenIsBehind
  <2>1. CASE d = c
    <3>1. \A p \in pushes' : p.chat = c => p.seq <= pushed'[c]
      BY <1>1, <1>2, <1>3
    <3> QED BY <1>1, <1>2, <2>1, <3>1
  <2>2. CASE d # c
    BY <1>1, <2>2 DEF PreviewInv, SeenIsBehind
  <2> QED BY <2>1, <2>2
<1>5. LastIsOnItsWay'
  BY <1>1 DEF PreviewInv, LastIsOnItsWay
<1> QED BY <1>4, <1>5

(***************************************************************************)
(* A push that arrives is shown, or overtaken by one that was (activity).  *)
(***************************************************************************)
LEMMA ArrivalSettles ==
  ASSUME PreviewInv, NEW p \in pushes, Activity(p) \/ PushLost(p)
  PROVE  SeenIsBehind' /\ LastIsOnItsWay'
<1>1. p.chat \in Chat /\ p.seq \in Nat /\ shown[p.chat].seq \in Nat /\ pushed[p.chat] \in Nat
  BY DEF PreviewInv, DirTypeOK
<1>2. p.seq <= pushed[p.chat] /\ shown[p.chat].seq <= pushed[p.chat]
  BY <1>1 DEF PreviewInv, SeenIsBehind
<1>3. /\ pushes' = pushes \ {p} /\ UNCHANGED <<seq, pushed>>
      /\ missed \subseteq missed'
      /\ \/ p.chat \in missed' /\ shown' = shown
         \/ ~Fresh(p) /\ shown' = shown
         \/ Fresh(p) /\ shown' = [shown EXCEPT ![p.chat] = [seq |-> p.seq, nr |-> p.nr]]
  BY DEF Activity, PushLost, directory, agents
<1>4. \A c \in Chat \ {p.chat} : shown'[c] = shown[c]
  BY <1>3 DEF PreviewInv, DirTypeOK
<1>5. \/ shown'[p.chat] = shown[p.chat] /\ p.chat \in missed'
      \/ shown'[p.chat] = shown[p.chat] /\ p.seq < shown[p.chat].seq
      \/ p.seq >= shown[p.chat].seq /\ shown'[p.chat].seq = p.seq
  BY <1>1, <1>3 DEF Fresh, PreviewInv, DirTypeOK
<1>6. SeenIsBehind'
  <2> SUFFICES ASSUME NEW c \in Chat
               PROVE  shown'[c].seq <= pushed[c]
    BY <1>3 DEF PreviewInv, SeenIsBehind
  <2>1. CASE c = p.chat
    BY <1>2, <1>5, <2>1
  <2>2. CASE c # p.chat
    BY <1>4, <2>2 DEF PreviewInv, SeenIsBehind
  <2> QED BY <2>1, <2>2
<1>7. LastIsOnItsWay'
  <2> SUFFICES ASSUME NEW c \in Chat \ missed'
               PROVE  \/ shown'[c].seq = pushed[c]
                      \/ \E q \in pushes' : q.chat = c /\ q.seq = pushed[c]
    BY <1>3 DEF LastIsOnItsWay
  <2>1. c \in Chat \ missed
    BY <1>3
  <2>2. \/ shown[c].seq = pushed[c]
        \/ \E q \in pushes : q.chat = c /\ q.seq = pushed[c]
    BY <2>1 DEF PreviewInv, LastIsOnItsWay
  <2>3. CASE c # p.chat
    BY <1>3, <1>4, <2>2, <2>3
  <2>4. CASE c = p.chat
    <3>1. CASE shown[c].seq = pushed[c]
      BY <1>1, <1>2, <1>5, <2>4, <3>1
    <3>2. ASSUME NEW q \in pushes, q.chat = c, q.seq = pushed[c]
          PROVE  \/ shown'[c].seq = pushed[c]
                 \/ \E k \in pushes' : k.chat = c /\ k.seq = pushed[c]
      <4>1. CASE q = p
        BY <1>1, <1>2, <1>5, <2>4, <3>2, <4>1
      <4>2. CASE q # p
        BY <1>3, <3>2, <4>2
      <4> QED BY <4>1, <4>2
    <3> QED BY <2>2, <3>1, <3>2
  <2> QED BY <2>3, <2>4
<1> QED BY <1>6, <1>7

(* Every step keeps the account of the previews in flight. *)
LEMMA PreviewsKept ==
  ASSUME PreviewInv, [DirNext]_dirVars
  PROVE  PreviewInv'
<1>1. DirTypeOK'
  BY DirTyped DEF PreviewInv
<1>2. ASSUME UNCHANGED <<shown, seq, pushed, pushes, missed>>
      PROVE  SeenIsBehind' /\ LastIsOnItsWay'
  BY <1>2 DEF PreviewInv, SeenIsBehind, LastIsOnItsWay
<1>3. CASE Directing \/ UNCHANGED dirVars
  <2>1. UNCHANGED <<shown, seq, pushed, pushes, missed>>
    BY <1>3 DEF Directing, ListChats, CreateChat, ArchiveChat, Resume, Abandon, Forget, dirVars,
                directory, agents
  <2> QED BY <1>1, <1>2, <2>1 DEF PreviewInv
<1>5. CASE Serving
  <2>1. ASSUME NEW r \in Request, Bootstrap(r) \/ MarkArchived(r)
        PROVE  SeenIsBehind' /\ LastIsOnItsWay'
    <3>1. \/ UNCHANGED <<shown, seq, pushed, pushes, missed>>
          \/ /\ call[r] # Idle /\ sent[call[r].on] < MaxPushes
             /\ Push(call[r].on) /\ UNCHANGED <<shown, seq, missed>>
      BY <2>1 DEF Bootstrap, MarkArchived, directory, agents
    <3>2. call[r] # Idle => call[r].on \in Chat
      BY DEF PreviewInv, DirTypeOK, Call
    <3> QED BY <1>2, <3>1, <3>2, PushSettles
  <2>2. ASSUME NEW c \in Chat, AgentSays(c) \/ AgentPushes(c) \/ Bypass(c)
        PROVE  SeenIsBehind' /\ LastIsOnItsWay'
    <3>1. CASE AgentSays(c)
      <4>1. UNCHANGED <<shown, pushed, pushes, missed>>
        BY <3>1 DEF AgentSays, directory
      <4>2. seq[c] \in Nat /\ seq' = [seq EXCEPT ![c] = seq[c] + 1]
        BY <3>1 DEF AgentSays, PreviewInv, DirTypeOK
      <4>3. \A d \in Chat : seq[d] \in Nat /\ pushed[d] \in Nat /\ seq[d] <= seq'[d]
                            /\ seq'[d] \in Nat
        BY <4>2 DEF PreviewInv, DirTypeOK
      <4> QED BY <4>1, <4>3 DEF PreviewInv, SeenIsBehind, LastIsOnItsWay
    <3>3. CASE AgentPushes(c)
      BY <3>3, PushSettles DEF AgentPushes, directory
    <3>2. CASE Bypass(c)
      <4>1. \/ UNCHANGED <<shown, seq, pushed, pushes, missed>>
            \/ sent[c] < MaxPushes /\ Push(c) /\ UNCHANGED <<shown, seq, missed>>
        BY <3>2 DEF Bypass, directory
      <4> QED BY <1>2, <4>1, PushSettles
    <3> QED BY <2>2, <3>1, <3>2, <3>3
  <2> QED BY <1>1, <1>5, <2>1, <2>2 DEF Serving, PreviewInv
<1>6. CASE Previewing
  BY <1>1, <1>6, ArrivalSettles DEF Previewing, PreviewInv
<1> QED BY <1>3, <1>5, <1>6 DEF DirNext

(* A request under way is about a chat, by one of the three calls. *)
LEMMA OnIsChat ==
  ASSUME DirTypeOK, NEW r \in Request, call[r] # Idle
  PROVE  /\ call[r].on \in Chat /\ call[r].chat \in Chat
         /\ call[r].op \in {"seed", "insert", "archive"}
BY DEF DirTypeOK, Call

(***************************************************************************)
(* A new row is followed by the call of its agent.                         *)
(***************************************************************************)
LEMMA PlacedKeeps ==
  ASSUME ChatInv, NEW r \in Request, NEW d \in Chat,
         NEW what \in {"seed", "insert"}, NEW c \in Chat,
         Insert(r, what, c, d), row[d] = "absent",
         \A x \in Chat : ~Booting(r, x),
         UNCHANGED <<booted, closed>>, excused \subseteq excused'
  PROVE  BootsRows' /\ ClosesRows' /\ CallsHeard'
<1>1. /\ call'[r] # Idle /\ call'[r].op = what /\ call'[r].on = d
      /\ call'[r].at = "sent" /\ call'[r].heard
      /\ \A q \in Request \ {r} : call'[q] = call[q]
  BY CallMade DEF Insert, ChatInv
<1>2. row'[d] = "listed" /\ \A x \in Chat \ {d} : row'[x] = row[x]
  BY DEF Insert, ChatInv, DirTypeOK
<1>3. Booting(r, d)'
  BY <1>1 DEF Booting
<1>4. \A q \in Request, x \in Chat : Booting(q, x) => Booting(q, x)'
  BY <1>1 DEF Booting
<1>5. BootsRows'
  <2> SUFFICES ASSUME NEW x \in Chat \ excused', row'[x] # "absent"
               PROVE  booted[x] \/ \E q \in Request : Booting(q, x)'
    BY DEF BootsRows
  <2>1. CASE x = d
    BY <1>3, <2>1
  <2>2. CASE x # d
    BY <1>2, <1>4, <2>2 DEF ChatInv, BootsRows
  <2> QED BY <2>1, <2>2
<1>6. ClosesRows'
  BY <1>2 DEF ChatInv, ClosesRows
<1>7. CallsHeard'
  <2> SUFFICES ASSUME NEW q \in Request, call'[q] # Idle
               PROVE  /\ call'[q].op = "archive" => row'[call'[q].on] = "archived"
                      /\ ~call'[q].heard => call'[q].on \in excused'
    BY DEF CallsHeard
  <2>1. CASE q = r
    BY <1>1, <2>1
  <2>2. CASE q # r
    <3>1. call'[q] = call[q] /\ call[q].on \in Chat
      BY <1>1, <2>2, OnIsChat DEF ChatInv
    <3> QED BY <1>2, <3>1 DEF ChatInv, CallsHeard
  <2> QED BY <2>1, <2>2
<1> QED BY <1>5, <1>6, <1>7

(***************************************************************************)
(* A request ends that no bootstrap waits for.                             *)
(***************************************************************************)
LEMMA IdleKeeps ==
  ASSUME ChatInv, NEW r \in Request, call' = [call EXCEPT ![r] = Idle] \/ call' = call,
         \A c \in Chat : Booting(r, c) => c \in excused',
         UNCHANGED <<row, booted, closed>>, excused \subseteq excused'
  PROVE  BootsRows' /\ ClosesRows' /\ CallsHeard'
<1>1. \A q \in Request \ {r} : call'[q] = call[q]
  BY DEF ChatInv, DirTypeOK
<1>2. call'[r] = Idle \/ call'[r] = call[r]
  BY DEF ChatInv, DirTypeOK
<1>3. \A q \in Request, c \in Chat \ excused' : Booting(q, c) => Booting(q, c)'
  BY <1>1 DEF Booting
<1>4. BootsRows'
  BY <1>3 DEF ChatInv, BootsRows
<1>5. ClosesRows'
  BY DEF ChatInv, ClosesRows
<1>6. CallsHeard'
  BY <1>1, <1>2 DEF ChatInv, CallsHeard
<1> QED BY <1>4, <1>5, <1>6

(* Placing a row for a chat that nobody boots keeps the account of the chats. *)
LEMMA PlaceKeeps ==
  ASSUME ChatInv, NEW r \in Request, NEW c \in Chat, Place(r, c),
         \A x \in Chat : ~Booting(r, x),
         UNCHANGED <<booted, closed>>, excused \subseteq excused'
  PROVE  BootsRows' /\ ClosesRows' /\ CallsHeard'
<1>1. \/ row' = row /\ call' = [call EXCEPT ![r] = Idle]
      \/ Insert(r, "insert", c, c) /\ row[c] = "absent"
  BY DEF Place, Taken
<1> QED BY <1>1, PlacedKeeps, IdleKeeps

(***************************************************************************)
(* What a request to the directory does, and the agent.                    *)
(***************************************************************************)
LEMMA DirectingKeeps ==
  ASSUME ChatInv, NEW r \in Request, NEW c \in Chat,
         \/ ListChats(r) \/ CreateChat(r, c) \/ ArchiveChat(r, c) \/ Resume(r)
         \/ Abandon(r) \/ Forget(r)
  PROVE  BootsRows' /\ ClosesRows' /\ CallsHeard'
<1>1. UNCHANGED <<booted, closed>> /\ excused \subseteq excused'
  BY DEF ListChats, CreateChat, ArchiveChat, Resume, Abandon, Forget, agents
<1>2. CASE ListChats(r) \/ CreateChat(r, c)
  <2>1. \A x \in Chat : ~Booting(r, x)
    BY <1>2 DEF ListChats, CreateChat, Booting
  <2>2. \/ Place(r, c)
        \/ \E what \in {"seed", "insert"}, d \in Chat :
             Insert(r, what, d, Default) /\ row[Default] = "absent"
    BY <1>2 DEF ListChats, CreateChat, Empty
  <2> QED BY <1>1, <2>1, <2>2, PlaceKeeps, PlacedKeeps
<1>3. CASE ArchiveChat(r, c)
  <2>1. call[r] = Idle /\ row[c] = "listed" /\ Calls(r, "archive", c, c)
    BY <1>3 DEF ArchiveChat
  <2>2. row'[c] = "archived" /\ \A x \in Chat \ {c} : row'[x] = row[x]
    BY <1>3 DEF ArchiveChat, ChatInv, DirTypeOK
  <2>3. /\ call'[r].op = "archive" /\ call'[r].on = c /\ call'[r].heard
        /\ \A q \in Request \ {r} : call'[q] = call[q]
    BY <2>1, CallMade DEF ChatInv
  <2>4. \A q \in Request, x \in Chat : Booting(q, x) => Booting(q, x)'
    BY <2>1, <2>3 DEF Booting
  <2>5. BootsRows'
    BY <1>1, <2>1, <2>2, <2>4 DEF ChatInv, BootsRows
  <2>6. ClosesRows'
    BY <1>1, <2>2 DEF ChatInv, ClosesRows
  <2>7. CallsHeard'
    <3> SUFFICES ASSUME NEW q \in Request, call'[q] # Idle
                 PROVE  /\ call'[q].op = "archive" => row'[call'[q].on] = "archived"
                        /\ ~call'[q].heard => call'[q].on \in excused'
      BY DEF CallsHeard
    <3>1. CASE q = r
      BY <2>2, <2>3, <3>1
    <3>2. CASE q # r
      <4>1. call'[q] = call[q] /\ call[q].on \in Chat
        BY <2>3, <3>2, OnIsChat DEF ChatInv
      <4> QED BY <1>1, <2>2, <4>1 DEF ChatInv, CallsHeard
    <3> QED BY <3>1, <3>2
  <2> QED BY <2>5, <2>6, <2>7
<1>4. CASE Resume(r)
  <2>1. call[r] # Idle /\ \A x \in Chat : ~Booting(r, x)
    BY <1>4 DEF Resume, Booting
  <2>2. Place(r, call[r].chat) \/ (row' = row /\ call' = [call EXCEPT ![r] = Idle])
    BY <1>4 DEF Resume
  <2>3. call[r].chat \in Chat
    BY <2>1, OnIsChat DEF ChatInv
  <2> QED BY <1>1, <2>1, <2>2, <2>3, PlaceKeeps, IdleKeeps
<1>5. CASE Abandon(r)
  <2>1. /\ call[r] # Idle /\ call' = [call EXCEPT ![r].heard = FALSE]
        /\ call[r].on \in excused' /\ row' = row
    BY <1>5 DEF Abandon, directory
  <2>2. /\ call'[r].op = call[r].op /\ call'[r].on = call[r].on
        /\ call'[r].at = call[r].at /\ call'[r] # Idle
        /\ \A q \in Request \ {r} : call'[q] = call[q]
    BY <2>1, CallAbandoned DEF ChatInv
  <2>3. \A q \in Request, x \in Chat : Booting(q, x) => Booting(q, x)'
    BY <2>2 DEF Booting
  <2>4. BootsRows' /\ ClosesRows'
    BY <1>1, <2>1, <2>3 DEF ChatInv, BootsRows, ClosesRows
  <2>5. CallsHeard'
    BY <1>1, <2>1, <2>2 DEF ChatInv, CallsHeard
  <2> QED BY <2>4, <2>5
<1>6. CASE Forget(r)
  <2>1. /\ call[r] # Idle /\ ~call[r].heard
        /\ call' = [call EXCEPT ![r] = Idle] /\ row' = row
    BY <1>6 DEF Forget, directory
  <2>2. \A x \in Chat : Booting(r, x) => x \in excused'
    BY <1>1, <2>1 DEF ChatInv, CallsHeard, Booting
  <2> QED BY <1>1, <2>1, <2>2, IdleKeeps
<1> QED BY <1>2, <1>3, <1>4, <1>5, <1>6

(* What an agent does, called or on its own, keeps the account of the chats. *)
LEMMA AgentKeeps ==
  ASSUME ChatInv,
         \/ \E r \in Request : Bootstrap(r) \/ MarkArchived(r)
         \/ \E c \in Chat : AgentSays(c) \/ AgentPushes(c) \/ Bypass(c)
  PROVE  BootsRows' /\ ClosesRows' /\ CallsHeard'
<1>1. ASSUME NEW r \in Request, Bootstrap(r)
      PROVE  BootsRows' /\ ClosesRows' /\ CallsHeard'
  <2>1. /\ UNCHANGED <<row, closed, excused>> /\ call[r] # Idle /\ call[r].op # "archive"
        /\ \E ok \in BOOLEAN : Answer(r, ok)
        /\ \/ closed[call[r].on] /\ booted' = booted
           \/ booted' = [booted EXCEPT ![call[r].on] = TRUE]
    BY <1>1 DEF Bootstrap, directory, agents
  <2>2. /\ call[r].on \in Chat
        /\ call'[r] # Idle /\ call'[r].op = call[r].op /\ call'[r].on = call[r].on
        /\ call'[r].heard = call[r].heard
        /\ \A q \in Request \ {r} : call'[q] = call[q]
    BY <2>1, CallAnswered, OnIsChat DEF ChatInv
  <2>3. /\ booted'[call[r].on]
        /\ \A x \in Chat : booted[x] => booted'[x]
    BY <2>1, <2>2 DEF ChatInv, DirTypeOK, ClosesRows
  <2>4. \A q \in Request, x \in Chat : Booting(q, x) => Booting(q, x)' \/ booted'[x]
    BY <2>2, <2>3 DEF Booting
  <2>5. BootsRows'
    BY <2>1, <2>3, <2>4 DEF ChatInv, BootsRows
  <2>6. ClosesRows'
    BY <2>1, <2>3 DEF ChatInv, ClosesRows
  <2>7. CallsHeard'
    BY <2>1, <2>2 DEF ChatInv, CallsHeard
  <2> QED BY <2>5, <2>6, <2>7
<1>2. ASSUME NEW r \in Request, MarkArchived(r)
      PROVE  BootsRows' /\ ClosesRows' /\ CallsHeard'
  <2>1. /\ UNCHANGED <<row, booted, excused>> /\ call[r] # Idle /\ call[r].op = "archive"
        /\ closed' = [closed EXCEPT ![call[r].on] = @ \/ booted[call[r].on]]
        /\ Answer(r, booted[call[r].on] /\ ~closed[call[r].on])
    BY <1>2 DEF MarkArchived, directory
  <2>2. /\ call[r].on \in Chat /\ row[call[r].on] = "archived"
        /\ call'[r] # Idle /\ call'[r].op = call[r].op /\ call'[r].on = call[r].on
        /\ call'[r].heard = call[r].heard
        /\ \A q \in Request \ {r} : call'[q] = call[q]
    BY <2>1, CallAnswered, OnIsChat DEF ChatInv, CallsHeard
  <2>3. \A q \in Request, x \in Chat : Booting(q, x) => Booting(q, x)'
    BY <2>1, <2>2 DEF Booting
  <2>4. BootsRows'
    BY <2>1, <2>3 DEF ChatInv, BootsRows
  <2>5. ClosesRows'
    BY <2>1, <2>2 DEF ChatInv, ClosesRows, DirTypeOK
  <2>6. CallsHeard'
    BY <2>1, <2>2 DEF ChatInv, CallsHeard
  <2> QED BY <2>4, <2>5, <2>6
<1>3. ASSUME NEW c \in Chat, AgentSays(c) \/ AgentPushes(c)
      PROVE  BootsRows' /\ ClosesRows' /\ CallsHeard'
  <2>1. UNCHANGED <<row, call, booted, closed, excused>>
    BY <1>3 DEF AgentSays, AgentPushes, directory
  <2> QED BY <2>1 DEF ChatInv, BootsRows, ClosesRows, CallsHeard, Booting
<1>4. ASSUME NEW c \in Chat, Bypass(c)
      PROVE  BootsRows' /\ ClosesRows' /\ CallsHeard'
  <2>1. UNCHANGED <<row, call>> /\ excused' = excused \cup {c}
    BY <1>4 DEF Bypass, directory
  <2>2. \/ booted' = [booted EXCEPT ![c] = TRUE] /\ closed' = closed
        \/ booted[c] /\ closed' = [closed EXCEPT ![c] = TRUE] /\ booted' = booted
    BY <1>4 DEF Bypass
  <2>3. /\ \A x \in Chat \ {c} : booted'[x] = booted[x] /\ closed'[x] = closed[x]
        /\ booted'[c]
    BY <2>2 DEF ChatInv, DirTypeOK
  <2>4. BootsRows' /\ ClosesRows'
    BY <2>1, <2>3 DEF ChatInv, BootsRows, ClosesRows, Booting
  <2>5. CallsHeard'
    BY <2>1 DEF ChatInv, CallsHeard
  <2> QED BY <2>4, <2>5
<1> QED BY <1>1, <1>2, <1>3, <1>4

(* Every step keeps rows, cells and the requests under way in agreement. *)
LEMMA ChatsKept ==
  ASSUME ChatInv, [DirNext]_dirVars
  PROVE  ChatInv'
<1>1. DirTypeOK'
  BY DirTyped DEF ChatInv
<1>2. CASE Previewing \/ UNCHANGED dirVars
  <2>1. UNCHANGED <<row, call, booted, closed, excused>>
    BY <1>2 DEF Previewing, Activity, PushLost, dirVars, directory, agents
  <2> QED BY <1>1, <2>1 DEF ChatInv, BootsRows, ClosesRows, CallsHeard, Booting
<1>3. CASE Directing \/ Serving
  <2>1. BootsRows' /\ ClosesRows' /\ CallsHeard'
    BY <1>3, DirectingKeeps, AgentKeeps DEF Directing, Serving
  <2> QED BY <1>1, <2>1 DEF ChatInv
<1> QED BY <1>2, <1>3 DEF DirNext

(* An empty directory satisfies the three invariants. *)
LEMMA DirInits ==
  ASSUME DirInit
  PROVE  ChatInv /\ PreviewInv /\ FewListed
<1>1. DirTypeOK
  BY DEF DirInit, DirTypeOK
<1>2. BootsRows /\ ClosesRows /\ CallsHeard
  BY DEF DirInit, BootsRows, ClosesRows, CallsHeard
<1>3. SeenIsBehind /\ LastIsOnItsWay
  BY DEF DirInit, SeenIsBehind, LastIsOnItsWay
<1>4. FewListed
  <2>1. Listed(row) = {}
    BY DEF DirInit, Listed
  <2> QED BY <2>1, FS_EmptySet DEF FewListed, WithinLimit
<1> QED BY <1>1, <1>2, <1>3, <1>4 DEF ChatInv, PreviewInv

(* The three invariants together, for the temporal steps below. *)
LEMMA DirSteps ==
  ASSUME ChatInv, PreviewInv, FewListed, [DirNext]_dirVars
  PROVE  ChatInv' /\ PreviewInv' /\ FewListed'
BY ChatsKept, PreviewsKept, LimitKept DEF ChatInv, PreviewInv

(***************************************************************************)
(* The rows, the calls and the pushes of the chats of an owner keep their  *)
(* types (directory-cell.ts, pushActivity).                                *)
(***************************************************************************)
THEOREM DirectoryTyped == DirSpec => []DirTypeOK
<1>1. ChatInv => DirTypeOK
  BY DEF ChatInv
<1> QED BY <1>1, DirInits, DirSteps, PTL DEF DirSpec

(***************************************************************************)
(* An owner never has more active chats than the limit, however many       *)
(* requests pass it while the first chat is seeded (create).               *)
(***************************************************************************)
THEOREM ChatsWithinLimit == DirSpec => []WithinLimit
<1>1. FewListed => WithinLimit
  BY DEF FewListed
<1> QED BY <1>1, DirInits, DirSteps, PTL DEF DirSpec

(***************************************************************************)
(* A listed chat has an agent that is there and open, unless a call to it  *)
(* is under way, failed, or went round the directory (insertAndBootstrap,  *)
(* archive, bootstrap).                                                    *)
(***************************************************************************)
THEOREM ListedChatsAreOpen == DirSpec => []ListedIsOpen
<1>1. ASSUME ChatInv
      PROVE  ListedIsOpen
  <2> SUFFICES ASSUME NEW c \in Chat, row[c] = "listed", ~Underway(c), c \notin excused
               PROVE  booted[c] /\ ~closed[c]
    BY DEF ListedIsOpen
  <2> QED BY <1>1 DEF ChatInv, BootsRows, ClosesRows, Booting, Underway
<1> QED BY <1>1, DirInits, DirSteps, PTL DEF DirSpec

(***************************************************************************)
(* In whatever order the pushes of a chat arrive, once all of them have    *)
(* the directory is at the last message that was pushed (activity,         *)
(* pushActivity).                                                          *)
(***************************************************************************)
THEOREM PreviewsSettle == DirSpec => []PreviewSettles
<1>1. PreviewInv => PreviewSettles
  BY DEF PreviewInv, LastIsOnItsWay, PreviewSettles
<1> QED BY <1>1, DirInits, DirSteps, PTL DEF DirSpec
==============================================================================
