---------------------------- MODULE SupervisorProofs --------------------------
(***************************************************************************)
(* Proofs about Supervisor, for every set of attempts, number of lines and *)
(* of runs, and any number of crashes and failures.                        *)
(*                                                                         *)
(* What makes a line be reported once is that the position of a tail never *)
(* goes back, because the count of the journal is saved before the lines   *)
(* are posted and never behind: it is beyond every line that was accepted, *)
(* and beyond those being posted, which no post accepted yet (ReportInv).  *)
(*                                                                         *)
(* What makes a tail pass over no line is that, without a failure, it      *)
(* starts at the beginning of its file, and what it has read was accepted  *)
(* or is in the batch it posts (CleanInv).                                 *)
(***************************************************************************)
EXTENDS Supervisor, TLAPS, WellFoundedInduction, FiniteSetTheorems

USE LinesAssumption, MaxRunsAssumption, NoAttemptAssumption DEF Run, Line, Position

(* TypeOK in parts, one for each group of variables *)

TeamOK ==
    /\ assignment \in [Attempt -> {"absent", "pending", "assigned"}]
    /\ cancel \in [Attempt -> BOOLEAN] /\ draining \in BOOLEAN
    /\ toDrain \subseteq Attempt \X Run

DockerOK ==
    /\ run \in [Attempt -> 0 .. MaxRuns]
    /\ container \in [Attempt -> {"none", "running", "gone"}]
    /\ written \in [Attempt -> 0 .. Lines]

\* While the loop awaits something it knows for which attempt.
LoopOK ==
    /\ step \in {"down", "loop", "answer", "stopping", "starting"}
    /\ doing \in Attempt \cup {NoAttempt}
    /\ toCancel \subseteq Attempt /\ toStart \subseteq Attempt
    /\ step \in {"stopping", "starting"} => doing \in Attempt

Created == step = "starting" => run[doing] \in Run

TailsOK ==
    /\ tail \in [Attempt -> {"off", "reading", "posting", "finishing", "ended"}]
    /\ tailRun \in [Attempt -> 0 .. MaxRuns]
    /\ first \in [Attempt -> Position] /\ offset \in [Attempt -> Position]
    /\ batch \in [Attempt -> SUBSET Line] /\ stopped \in [Attempt -> BOOLEAN]

JournalOK == env \in [Attempt -> SUBSET Run] /\ saved \in [Attempt -> Position]
GotOK == got \in [Attempt -> [Run -> [Line -> Nat]]]
BoundsOK == crashes \in Nat /\ failures \in Nat /\ missing \in Nat

TypeInv ==
    TeamOK /\ DockerOK /\ LoopOK /\ Created /\ TailsOK /\ JournalOK /\ GotOK /\ BoundsOK

\* What the tail printed is counted at least once.
SavedIsRead == \A a \in Attempt : offset[a] <= saved[a]

SavedCovers ==
    \A a \in Attempt, r \in Run, l \in Line :
      /\ got[a][r][l] <= 1
      /\ got[a][r][l] # 0 => 2 * l <= offset[a]

PostingIsNew ==
    \A a \in Posting :
      \A l \in batch[a] : 2 * l <= offset[a] /\ \A r \in Run : got[a][r][l] = 0

ReportInv == TypeInv /\ SavedIsRead /\ SavedCovers /\ PostingIsNew

------------------------------------------------------------------------------
(* Operators *)

(***************************************************************************)
(* A set of runs has a least one: the first row of environments.           *)
(***************************************************************************)
LEMMA OldestIsIn ==
  ASSUME NEW rs \in SUBSET Run, rs # {}
  PROVE  Oldest(rs) \in rs
<1> DEFINE T == {0 .. r : r \in rs}
           R == StrictSubsetOrdering(Nat)
<1>1. T \subseteq FiniteSubsetsOf(Nat)
  <2>1. \A r \in rs : IsFiniteSet(0 .. r)
    BY FS_Interval
  <2> QED BY <2>1 DEF FiniteSubsetsOf
<1>2. T # {}
  OBVIOUS
<1>3. PICK U \in T : \A V \in T : ~(<<V, U>> \in R)
  <2>1. IsWellFoundedOn(R, FiniteSubsetsOf(Nat))
    BY FS_StrictSubsetOrderingWellFounded
  <2> HIDE DEF R, T
  <2> QED BY <1>1, <1>2, <2>1, WFMin
<1>4. PICK r \in rs : U = 0 .. r
  OBVIOUS
<1>5. ASSUME NEW q \in rs, q < r
      PROVE  FALSE
  <2>1. 0 .. q \in SUBSET Nat /\ 0 .. r \in SUBSET Nat /\ 0 .. q \subseteq 0 .. r
    BY <1>5
  <2>2. r \in 0 .. r /\ r \notin 0 .. q
    BY <1>5
  <2>3. <<0 .. q, 0 .. r>> \in R
    BY <2>1, <2>2 DEF StrictSubsetOrdering
  <2> QED BY <2>3, <1>3, <1>4
<1>6. \A q \in rs : r <= q
  BY <1>5
<1> QED BY <1>6 DEF Oldest

(***************************************************************************)
(* What a post adds to what was accepted.                                  *)
(***************************************************************************)
LEMMA Accepted ==
  ASSUME GotOK, NEW as \in SUBSET Attempt, Accept(as)
  PROVE  /\ got' \in [Attempt -> [Run -> [Line -> Nat]]]
         /\ \A a \in Attempt \ as : got'[a] = got[a]
         /\ \A a \in Attempt, r \in Run, l \in Line :
              got'[a][r][l] = IF a \in as /\ r = tailRun[a] /\ l \in batch[a]
                                THEN got[a][r][l] + 1 ELSE got[a][r][l]
<1>1. \A a \in Attempt, r \in Run, l \in Line :
        got'[a][r][l] = IF a \in as /\ r = tailRun[a] /\ l \in batch[a]
                          THEN got[a][r][l] + 1 ELSE got[a][r][l]
  BY DEF Accept, Posted
<1>2. got' \in [Attempt -> [Run -> [Line -> Nat]]]
  <2> DEFINE n(a, r) == [l \in Line |-> IF a \in as /\ Posted(a, r, l)
                                         THEN got[a][r][l] + 1 ELSE got[a][r][l]]
  <2>1. \A a \in Attempt, r \in Run : n(a, r) \in [Line -> Nat]
    <3> SUFFICES ASSUME NEW a \in Attempt, NEW r \in Run
                 PROVE  n(a, r) \in [Line -> Nat]
      OBVIOUS
    <3>1. \A l \in Line : got[a][r][l] \in Nat
      BY DEF GotOK
    <3> HIDE DEF Line
    <3>2. \A l \in Line : got[a][r][l] + 1 \in Nat
      BY <3>1
    <3> QED BY <3>1, <3>2, Zenon
  <2>2. got' = [a \in Attempt |-> [r \in Run |-> n(a, r)]]
    BY DEF Accept
  <2> HIDE DEF n
  <2> QED BY <2>1, <2>2
<1>3. ASSUME NEW a \in Attempt \ as
      PROVE  got'[a] = got[a]
  <2>1. got'[a] = [r \in Run |-> [l \in Line |-> got[a][r][l]]]
    BY <1>3 DEF Accept
  <2> QED BY <2>1 DEF GotOK
<1> QED BY <1>1, <1>2, <1>3

(***************************************************************************)
(* A tail begins where the journal says (startJournalTail).                *)
(***************************************************************************)
LEMMA TailStarted ==
  ASSUME TailsOK, JournalOK, NEW as \in SUBSET Attempt, NEW r, \A a \in as : r[a] \in Run,
         StartTail(as, r)
  PROVE  /\ tail' \in [Attempt -> {"off", "reading", "posting", "finishing", "ended"}]
         /\ tailRun' \in [Attempt -> 0 .. MaxRuns]
         /\ first' \in [Attempt -> Position] /\ offset' \in [Attempt -> Position]
         /\ batch' \in [Attempt -> SUBSET Line] /\ stopped' \in [Attempt -> BOOLEAN]
         /\ \A a \in as : tail'[a] = "reading" /\ offset'[a] = saved[a]
         /\ \A a \in as : first'[a] = saved[a] /\ batch'[a] = {}
         /\ \A a \in Attempt \ as :
              /\ tail'[a] = tail[a] /\ batch'[a] = batch[a] /\ offset'[a] = offset[a]
              /\ first'[a] = first[a] /\ tailRun'[a] = tailRun[a]
<1>1. tail' \in [Attempt -> {"off", "reading", "posting", "finishing", "ended"}]
  BY DEF TailsOK, StartTail
<1>2. tailRun' \in [Attempt -> 0 .. MaxRuns]
  <2>1. \A a \in Attempt : tailRun[a] \in 0 .. MaxRuns
    BY DEF TailsOK
  <2>2. \A a \in as : r[a] \in 0 .. MaxRuns
    <3>1. Run \subseteq 0 .. MaxRuns
      OBVIOUS
    <3> HIDE DEF Run
    <3> QED BY <3>1
  <2> QED BY <2>1, <2>2 DEF StartTail
<1>3. first' \in [Attempt -> Position] /\ offset' \in [Attempt -> Position]
  <2> HIDE DEF Position
  <2> QED BY DEF TailsOK, JournalOK, StartTail
<1>4. batch' \in [Attempt -> SUBSET Line] /\ stopped' \in [Attempt -> BOOLEAN]
  <2> HIDE DEF Line
  <2> QED BY DEF TailsOK, StartTail
<1>5. /\ \A a \in as : tail'[a] = "reading" /\ offset'[a] = saved[a]
      /\ \A a \in as : first'[a] = saved[a] /\ batch'[a] = {}
  BY DEF StartTail
<1>6. \A a \in Attempt \ as :
        /\ tail'[a] = tail[a] /\ batch'[a] = batch[a] /\ offset'[a] = offset[a]
        /\ first'[a] = first[a] /\ tailRun'[a] = tailRun[a]
  BY DEF StartTail
<1> QED BY <1>1, <1>2, <1>3, <1>4, <1>5, <1>6

(***************************************************************************)
(* A chunk moves the tail on, saves a count that is no less than before,   *)
(* and hands over whole lines whose end it read, up to the first sentinel  *)
(* that is seen (startJournalTail).                                        *)
(***************************************************************************)
LEMMA ChunkOf ==
  ASSUME TailsOK, JournalOK, NEW a \in Attempt, ReadChunk(a)
  PROVE  \E p \in Position, q \in Position, seen \in SUBSET Sentinels,
            s \in {"reading", "posting", "finishing"} :
           /\ offset[a] < p /\ (offset[a] <= saved[a] => p <= q)
           /\ offset' = [offset EXCEPT ![a] = p]
           /\ saved' = [saved EXCEPT ![a] = q]
           /\ batch' = [batch EXCEPT ![a] =
                          {l \in Ends(a, p) : Whole(a, l) /\ \A x \in seen : l <= x}]
           /\ tail' = [tail EXCEPT ![a] = s]
           /\ s = "reading" => Ends(a, p) = {}
<1>1. PICK p \in Position, seen \in SUBSET Sentinels :
        /\ offset[a] < p
        /\ \E q \in Counted(a, p) : SaveOffset(a, q)
        /\ offset' = [offset EXCEPT ![a] = p]
        /\ batch' = [batch EXCEPT ![a] =
                       {l \in {k \in Ends(a, p) : Whole(a, k)} : \A x \in seen : l <= x}]
        /\ tail' = [tail EXCEPT ![a] = IF Ends(a, p) = {} THEN "reading"
                                       ELSE IF seen = {} THEN "posting"
                                       ELSE "finishing"]
  BY DEF ReadChunk
<1>2. PICK q \in Counted(a, p) : saved' = [saved EXCEPT ![a] = q]
  BY <1>1 DEF SaveOffset
<1>3. q \in Position /\ (saved[a] + (p - offset[a]) <= q \/ q = 2 * Lines)
  BY DEF Counted
<1>4. offset[a] \in Position /\ saved[a] \in Position
  BY DEF TailsOK, JournalOK
<1>5. offset[a] <= saved[a] => p <= q
  BY <1>3, <1>4
<1>6. PICK s \in {"reading", "posting", "finishing"} :
        tail' = [tail EXCEPT ![a] = s] /\ (s = "reading" => Ends(a, p) = {})
  <2>1. CASE Ends(a, p) = {}
    BY <1>1, <2>1
  <2>2. CASE Ends(a, p) # {} /\ seen = {}
    BY <1>1, <2>2
  <2>3. CASE Ends(a, p) # {} /\ seen # {}
    BY <1>1, <2>3
  <2> QED BY <2>1, <2>2, <2>3
<1>7. {l \in {k \in Ends(a, p) : Whole(a, k)} : \A x \in seen : l <= x}
        = {l \in Ends(a, p) : Whole(a, l) /\ \A x \in seen : l <= x}
  OBVIOUS
<1> HIDE DEF Position
<1> QED BY <1>1, <1>2, <1>3, <1>5, <1>6, <1>7

------------------------------------------------------------------------------
(* Types *)

(* The parts above make up the type invariant that the run checks. *)
LEMMA TypesAreTypeOK == TypeInv => TypeOK
BY DEF TypeInv, TeamOK, DockerOK, LoopOK, TailsOK, JournalOK, GotOK, BoundsOK, TypeOK

(* A supervisor that has not started yet. *)
LEMMA InitTyped == Init => TypeInv
<1> SUFFICES ASSUME Init PROVE TypeInv
  OBVIOUS
<1>1. TeamOK
  BY DEF Init, TeamOK
<1>5. DockerOK
  BY DEF Init, DockerOK
<1>2. LoopOK /\ Created
  BY DEF Init, LoopOK, Created
<1>3. TailsOK /\ JournalOK
  BY DEF Init, TailsOK, JournalOK
<1>4. GotOK /\ BoundsOK
  BY DEF Init, GotOK, BoundsOK
<1> QED BY <1>1, <1>2, <1>3, <1>4, <1>5 DEF TypeInv

(***************************************************************************)
(* What a step leaves alone keeps its type.                                *)
(***************************************************************************)
LEMMA Kept ==
  ASSUME TypeInv
  PROVE  /\ UNCHANGED team => TeamOK'
         /\ UNCHANGED docker => DockerOK'
         /\ UNCHANGED loop => LoopOK'
         /\ UNCHANGED loop /\ UNCHANGED run => Created'
         /\ UNCHANGED tails => TailsOK'
         /\ UNCHANGED journal => JournalOK'
         /\ UNCHANGED got => GotOK'
         /\ UNCHANGED bounds => BoundsOK'
<1>1. /\ UNCHANGED team => TeamOK'
      /\ UNCHANGED docker => DockerOK'
  BY DEF TypeInv, TeamOK, DockerOK, team, docker
<1>2. /\ UNCHANGED loop => LoopOK'
      /\ UNCHANGED loop /\ UNCHANGED run => Created'
  BY DEF TypeInv, LoopOK, Created, loop
<1>3. UNCHANGED tails => TailsOK'
  BY DEF TypeInv, TailsOK, tails
<1>4. /\ UNCHANGED journal => JournalOK'
      /\ UNCHANGED got => GotOK'
      /\ UNCHANGED bounds => BoundsOK'
  BY DEF TypeInv, JournalOK, GotOK, BoundsOK, journal, bounds
<1> QED BY <1>1, <1>2, <1>3, <1>4

(* What the TeamCell does keeps the types. *)
LEMMA TeamTyped ==
  ASSUME TypeInv, NEW a \in Attempt,
         QueueTaskAssignment(a) \/ RequestCancel(a) \/ Requeue(a)
  PROVE  TypeInv'
<1>1. TeamOK'
  <2>1. CASE QueueTaskAssignment(a)
    BY <2>1 DEF QueueTaskAssignment, TypeInv, TeamOK
  <2>2. CASE RequestCancel(a)
    BY <2>2 DEF RequestCancel, TypeInv, TeamOK
  <2>3. CASE Requeue(a)
    BY <2>3 DEF Requeue, TypeInv, TeamOK
  <2> QED BY <2>1, <2>2, <2>3
<1>2. BoundsOK'
  BY DEF QueueTaskAssignment, RequestCancel, Requeue, Fails, TypeInv, BoundsOK, bounds
<1>3. UNCHANGED <<docker, loop, tails, journal, got>> /\ UNCHANGED run
  BY DEF QueueTaskAssignment, RequestCancel, Requeue, docker
<1> QED BY <1>1, <1>2, <1>3, Kept DEF TypeInv

(* What the runner does keeps the types. *)
LEMMA RunnerTyped ==
  ASSUME TypeInv, NEW a \in Attempt, WriteLine(a) \/ Exit(a)
  PROVE  TypeInv'
<1>1. DockerOK' /\ BoundsOK'
  BY DEF WriteLine, Exit, Fails, TypeInv, DockerOK, BoundsOK, bounds
<1>2. UNCHANGED <<team, loop, tails, journal, got>> /\ UNCHANGED run
  BY DEF WriteLine, Exit
<1> QED BY <1>1, <1>2, Kept DEF TypeInv

(* Draining after a restart keeps the types. *)
LEMMA DrainTyped ==
  ASSUME TypeInv,
         \/ Drain \/ ListEnvironments
         \/ \E a \in Attempt, r \in Run : DrainContainer(a, r)
  PROVE  TypeInv'
<1>1. TeamOK'
  BY DEF Drain, ListEnvironments, DrainContainer, TypeInv, TeamOK
<1>2. DockerOK'
  <2>1. UNCHANGED <<run, written>> /\
        (\/ UNCHANGED container
         \/ \E a \in Attempt, r \in Run :
              container' = [container EXCEPT ![a] =
                              IF @ = "running" /\ run[a] = r THEN "gone" ELSE @])
    BY DEF Drain, ListEnvironments, DrainContainer, docker
  <2> QED BY <2>1 DEF TypeInv, DockerOK
<1>4. BoundsOK'
  <2>1. UNCHANGED bounds
          \/ (UNCHANGED <<crashes, missing>> /\ failures' \in {failures, failures + 1})
    BY DEF Drain, ListEnvironments, DrainContainer, Fails
  <2> QED BY <2>1 DEF TypeInv, BoundsOK, bounds
<1>3. UNCHANGED <<loop, tails, journal, got>> /\ UNCHANGED run
  BY DEF Drain, ListEnvironments, DrainContainer, docker
<1> QED BY <1>1, <1>2, <1>3, <1>4, Kept DEF TypeInv

(* The poll loop keeps the types. *)
LEMMA LoopTyped ==
  ASSUME TypeInv,
         \/ Poll \/ StopContainer \/ EndTurn
         \/ \E a \in Attempt : IgnoreCancel(a) \/ StopTail(a) \/ CreateContainer(a)
  PROVE  TypeInv'
<1>1. CASE Poll
  <2>1. TeamOK' /\ LoopOK' /\ Created'
    <3>1. PICK given \in SUBSET Attempt :
            /\ assignment' = [a \in Attempt |-> IF a \in given THEN "assigned"
                                                ELSE assignment[a]]
            /\ toStart' = given
            /\ toCancel' = {a \in Assigned \cup given : cancel[a]}
      BY <1>1 DEF Poll
    <3>2. assignment' \in [Attempt -> {"absent", "pending", "assigned"}]
      BY <3>1 DEF TypeInv, TeamOK
    <3>3. toCancel' \subseteq Attempt
      BY <3>1 DEF Assigned
    <3> QED BY <1>1, <3>1, <3>2, <3>3 DEF Poll, TypeInv, TeamOK, LoopOK, Created
  <2>2. UNCHANGED <<docker, tails, journal, got, bounds>>
    BY <1>1 DEF Poll
  <2> QED BY <2>1, <2>2, Kept DEF TypeInv
<1>2. CASE StopContainer
  <2>1. DockerOK' /\ BoundsOK'
    BY <1>2 DEF StopContainer, Fails, TypeInv, DockerOK, BoundsOK
  <2>2. LoopOK' /\ Created'
    BY <1>2 DEF StopContainer, TypeInv, LoopOK, Created
  <2>3. TailsOK'
    BY <1>2 DEF StopContainer, TypeInv, TailsOK
  <2>4. UNCHANGED <<team, journal, got>>
    BY <1>2 DEF StopContainer
  <2> QED BY <2>1, <2>2, <2>3, <2>4, Kept DEF TypeInv
<1>3. CASE EndTurn
  <2>1. LoopOK' /\ Created'
    BY <1>3 DEF EndTurn, TypeInv, LoopOK, Created
  <2>2. UNCHANGED <<team, docker, tails, journal, got, bounds>>
    BY <1>3 DEF EndTurn
  <2> QED BY <2>1, <2>2, Kept DEF TypeInv
<1>4. ASSUME NEW a \in Attempt, IgnoreCancel(a)
      PROVE  TypeInv'
  <2>1. LoopOK' /\ Created'
    BY <1>4 DEF IgnoreCancel, TypeInv, LoopOK, Created
  <2>2. UNCHANGED <<team, docker, tails, journal, got, bounds>>
    BY <1>4 DEF IgnoreCancel
  <2> QED BY <2>1, <2>2, Kept DEF TypeInv
<1>5. ASSUME NEW a \in Attempt, StopTail(a)
      PROVE  TypeInv'
  <2>1. LoopOK' /\ Created'
    BY <1>5 DEF StopTail, TypeInv, LoopOK, Created
  <2>2. TailsOK'
    BY <1>5 DEF StopTail, TypeInv, TailsOK
  <2>3. UNCHANGED <<team, docker, journal, got, bounds>>
    BY <1>5 DEF StopTail
  <2> QED BY <2>1, <2>2, <2>3, Kept DEF TypeInv
<1>6. ASSUME NEW a \in Attempt, CreateContainer(a)
      PROVE  TypeInv'
  <2>1. run' = [run EXCEPT ![a] = @ + 1] /\ run[a] + 1 \in Run
    BY <1>6 DEF CreateContainer, TypeInv, DockerOK
  <2>2. DockerOK'
    BY <1>6, <2>1 DEF CreateContainer, TypeInv, DockerOK
  <2>3. LoopOK'
    BY <1>6 DEF CreateContainer, TypeInv, LoopOK
  <2>4. Created'
    BY <1>6, <2>1 DEF CreateContainer, TypeInv, DockerOK, Created
  <2>5. UNCHANGED <<team, tails, journal, got, bounds>>
    BY <1>6 DEF CreateContainer
  <2> QED BY <2>2, <2>3, <2>4, <2>5, Kept DEF TypeInv
<1> QED BY <1>1, <1>2, <1>3, <1>4, <1>5, <1>6

(* The tail of a container keeps the types. *)
LEMMA TailTyped ==
  ASSUME TypeInv, NEW a \in Attempt, TailStep(a) \/ PostFails(a)
  PROVE  TypeInv'
<1>1. CASE ReadChunk(a)
  <2>1. PICK p \in Position, q \in Position, B \in SUBSET Line,
             s \in {"reading", "posting", "finishing"} :
          /\ offset' = [offset EXCEPT ![a] = p] /\ saved' = [saved EXCEPT ![a] = q]
          /\ batch' = [batch EXCEPT ![a] = B] /\ tail' = [tail EXCEPT ![a] = s]
    <3>1. PICK p \in Position, q \in Position, seen \in SUBSET Sentinels,
               s \in {"reading", "posting", "finishing"} :
            /\ offset[a] < p /\ (offset[a] <= saved[a] => p <= q)
            /\ offset' = [offset EXCEPT ![a] = p]
            /\ saved' = [saved EXCEPT ![a] = q]
            /\ batch' = [batch EXCEPT ![a] =
                           {l \in Ends(a, p) : Whole(a, l) /\ \A x \in seen : l <= x}]
            /\ tail' = [tail EXCEPT ![a] = s]
            /\ s = "reading" => Ends(a, p) = {}
      BY <1>1, ChunkOf DEF TypeInv
    <3>2. {l \in Ends(a, p) : Whole(a, l) /\ \A x \in seen : l <= x} \in SUBSET Line
      BY DEF Ends
    <3> HIDE DEF Line, Position
    <3> QED BY <3>1, <3>2
  <2>3. TailsOK'
    BY <1>1, <2>1 DEF ReadChunk, TypeInv, TailsOK
  <2>4. JournalOK'
    BY <1>1, <2>1 DEF ReadChunk, TypeInv, JournalOK
  <2>5. UNCHANGED <<team, docker, loop, got, bounds>> /\ UNCHANGED run
    BY <1>1 DEF ReadChunk, docker
  <2> QED BY <2>3, <2>4, <2>5, Kept DEF TypeInv
<1>5. CASE MissesFile(a)
  <2>1. PICK q \in Position :
          /\ saved' = [saved EXCEPT ![a] = q]
          /\ offset' = [offset EXCEPT ![a] = q]
          /\ first' = [first EXCEPT ![a] = q]
    BY <1>5 DEF MissesFile
  <2>2. TailsOK'
    BY <1>5, <2>1 DEF MissesFile, TypeInv, TailsOK
  <2>3. JournalOK' /\ BoundsOK'
    BY <1>5, <2>1 DEF MissesFile, TypeInv, JournalOK, BoundsOK
  <2>4. UNCHANGED <<team, docker, loop, got>> /\ UNCHANGED run
    BY <1>5 DEF MissesFile, docker
  <2> QED BY <2>2, <2>3, <2>4, Kept DEF TypeInv
<1>2. CASE PostEvents(a)
  <2>1. GotOK'
    BY <1>2, Accepted DEF PostEvents, TypeInv, GotOK
  <2>2. TailsOK'
    BY <1>2 DEF PostEvents, TypeInv, TailsOK
  <2>3. UNCHANGED <<team, docker, loop, journal, bounds>> /\ UNCHANGED run
    BY <1>2 DEF PostEvents, docker
  <2> QED BY <2>1, <2>2, <2>3, Kept DEF TypeInv
<1>3. CASE NoticeStop(a)
  <2>1. TailsOK'
    BY <1>3 DEF NoticeStop, TypeInv, TailsOK
  <2>2. UNCHANGED <<team, docker, loop, journal, got, bounds>> /\ UNCHANGED run
    BY <1>3 DEF NoticeStop, docker
  <2> QED BY <2>1, <2>2, Kept DEF TypeInv
<1>4. CASE PostFails(a)
  <2>1. GotOK'
    BY <1>4, Accepted DEF PostFails, TypeInv, GotOK
  <2>2. TailsOK' /\ BoundsOK'
    BY <1>4 DEF PostFails, Fails, TypeInv, TailsOK, JournalOK, BoundsOK
  <2>3. UNCHANGED <<team, docker, loop, journal>> /\ UNCHANGED run
    BY <1>4 DEF PostFails, docker
  <2> QED BY <2>1, <2>2, <2>3, Kept DEF TypeInv
<1> QED BY <1>1, <1>2, <1>3, <1>4, <1>5 DEF TailStep

(* A start and a crash keep the types. *)
LEMMA StartsTyped ==
  ASSUME TypeInv, Start \/ RecordEnvironment \/ Crash
  PROVE  TypeInv'
<1>1. CASE Start
  <2> DEFINE recorded == {a \in Attempt : env[a] # {}}
             r == [a \in recorded |-> Oldest(env[a])]
  <2>1. StartTail(recorded, r)
    BY <1>1 DEF Start
  <2>2. \A a \in recorded : r[a] \in Run
    BY OldestIsIn DEF TypeInv, JournalOK
  <2>3. recorded \in SUBSET Attempt
    OBVIOUS
  <2> HIDE DEF recorded, r
  <2>4. TailsOK'
    BY <2>1, <2>2, <2>3, TailStarted DEF TypeInv, TailsOK
  <2>5. LoopOK' /\ Created'
    BY <1>1 DEF Start, TypeInv, LoopOK, Created
  <2>6. UNCHANGED <<team, docker, journal, got, bounds>>
    BY <1>1 DEF Start
  <2> QED BY <2>4, <2>5, <2>6, Kept DEF TypeInv
<1>2. CASE RecordEnvironment
  <2>1. GotOK'
    BY <1>2, Accepted DEF RecordEnvironment, TypeInv, GotOK, LoopOK
  <2>2. doing \in Attempt /\ run[doing] \in Run /\ StartTail({doing}, run)
    BY <1>2 DEF RecordEnvironment, TypeInv, LoopOK, Created
  <2>3. TailsOK'
    BY <2>2, TailStarted DEF TypeInv, TailsOK
  <2>4. JournalOK'
    BY <1>2, <2>2 DEF RecordEnvironment, TypeInv, JournalOK
  <2>5. LoopOK' /\ Created'
    BY <1>2 DEF RecordEnvironment, TypeInv, LoopOK, Created
  <2>6. UNCHANGED <<team, docker, bounds>>
    BY <1>2 DEF RecordEnvironment
  <2> QED BY <2>1, <2>3, <2>4, <2>5, <2>6, Kept DEF TypeInv
<1>3. CASE Crash
  <2>1. GotOK'
    <3>1. Posting \subseteq Attempt
      BY DEF Posting
    <3> QED BY <1>3, <3>1, Accepted DEF Crash, TypeInv, GotOK
  <2>2. TailsOK' /\ BoundsOK'
    BY <1>3 DEF Crash, TypeInv, TailsOK, BoundsOK
  <2>3. LoopOK' /\ Created'
    BY <1>3 DEF Crash, TypeInv, LoopOK, Created
  <2>4. UNCHANGED <<team, docker, journal>>
    BY <1>3 DEF Crash
  <2> QED BY <2>1, <2>2, <2>3, <2>4, Kept DEF TypeInv
<1> QED BY <1>1, <1>2, <1>3

(* Every step keeps the types. *)
LEMMA NextTyped ==
  ASSUME TypeInv, [Next]_vars
  PROVE  TypeInv'
<1>1. CASE UNCHANGED vars
  <2>1. UNCHANGED <<team, docker, loop, tails, journal, got, bounds>> /\ UNCHANGED run
    BY <1>1 DEF vars, docker
  <2> QED BY <2>1, Kept DEF TypeInv
<1> QED
  BY <1>1, TeamTyped, RunnerTyped, DrainTyped, LoopTyped, TailTyped, StartsTyped
  DEF Next, TurnStep

(***************************************************************************)
(* The tables of the team, the journal and the tails keep their types, and *)
(* the loop knows the attempt it waits for (runSupervisor).                *)
(***************************************************************************)
THEOREM TypeCorrect == Spec => []TypeOK
BY InitTyped, NextTyped, TypesAreTypeOK, PTL DEF Spec

------------------------------------------------------------------------------
(* Lines are reported once *)

(***************************************************************************)
(* A post that is accepted adds lines which the tail was beyond before it  *)
(* (postAttemptEvents).                                                    *)
(***************************************************************************)
LEMMA AcceptKeeps ==
  ASSUME ReportInv, NEW as \in SUBSET Posting, Accept(as),
         \A a \in Attempt : offset'[a] \in Position /\ offset[a] <= offset'[a]
  PROVE  SavedCovers'
<1> SUFFICES ASSUME NEW a \in Attempt, NEW r \in Run, NEW l \in Line
             PROVE  got'[a][r][l] <= 1 /\ (got'[a][r][l] # 0 => 2 * l <= offset'[a])
  BY DEF SavedCovers
<1>1. GotOK /\ offset[a] \in Position /\ as \in SUBSET Attempt
  BY DEF ReportInv, TypeInv, TailsOK, Posting
<1>2. got[a][r][l] <= 1 /\ (got[a][r][l] # 0 => 2 * l <= offset[a])
  BY DEF ReportInv, SavedCovers
<1>3. got'[a][r][l] = IF a \in as /\ r = tailRun[a] /\ l \in batch[a]
                        THEN got[a][r][l] + 1 ELSE got[a][r][l]
  <2> HIDE DEF Run, Line, Position
  <2>1. \A b \in Attempt, q \in Run, k \in Line :
          got'[b][q][k] = IF b \in as /\ q = tailRun[b] /\ k \in batch[b]
                            THEN got[b][q][k] + 1 ELSE got[b][q][k]
    BY <1>1, Accepted
  <2> QED BY <2>1, Zenon
<1>4. CASE a \in as /\ r = tailRun[a] /\ l \in batch[a]
  <2>1. got[a][r][l] = 0 /\ 2 * l <= offset[a]
    BY <1>4 DEF ReportInv, PostingIsNew
  <2>2. got'[a][r][l] = got[a][r][l] + 1
    BY <1>3, <1>4
  <2> QED BY <1>1, <2>1, <2>2
<1>5. CASE ~(a \in as /\ r = tailRun[a] /\ l \in batch[a])
  <2>1. got'[a][r][l] = got[a][r][l]
    BY <1>3, <1>5
  <2> QED BY <1>1, <1>2, <2>1
<1> QED BY <1>4, <1>5

(***************************************************************************)
(* Where nothing is accepted it is enough that no tail goes back.          *)
(***************************************************************************)
LEMMA OffsetGrows ==
  ASSUME ReportInv, got' = got,
         \A a \in Attempt : offset'[a] \in Position /\ offset[a] <= offset'[a]
  PROVE  SavedCovers'
<1> SUFFICES ASSUME NEW a \in Attempt, NEW r \in Run, NEW l \in Line
             PROVE  got[a][r][l] <= 1 /\ (got[a][r][l] # 0 => 2 * l <= offset'[a])
  BY DEF SavedCovers
<1>1. got[a][r][l] <= 1 /\ (got[a][r][l] # 0 => 2 * l <= offset[a])
  BY DEF ReportInv, SavedCovers
<1>2. offset[a] \in Position
  BY DEF ReportInv, TypeInv, TailsOK
<1> QED BY <1>1, <1>2

(* Nothing read, saved or posted. *)
LEMMA InitReports == Init => ReportInv
<1> SUFFICES ASSUME Init PROVE ReportInv
  OBVIOUS
<1>1. SavedIsRead /\ PostingIsNew
  BY DEF Init, SavedIsRead, PostingIsNew, Posting
<1>2. SavedCovers
  BY DEF Init, SavedCovers
<1> QED BY <1>1, <1>2, InitTyped DEF ReportInv

(***************************************************************************)
(* A step that moves no tail and accepts nothing reports nothing.          *)
(***************************************************************************)
LEMMA TailsUntouched ==
  ASSUME ReportInv, UNCHANGED <<offset, batch, saved, got>>, Posting' \subseteq Posting
  PROVE  SavedIsRead' /\ SavedCovers' /\ PostingIsNew'
BY DEF ReportInv, SavedIsRead, SavedCovers, PostingIsNew

(* A chunk read keeps the account of what was read, saved and posted. *)
LEMMA ReadChunkReports ==
  ASSUME ReportInv, NEW a \in Attempt, ReadChunk(a)
  PROVE  SavedIsRead' /\ SavedCovers' /\ PostingIsNew'
<1>1. TailsOK /\ JournalOK /\ GotOK /\ offset[a] <= saved[a]
  BY DEF ReportInv, TypeInv, SavedIsRead
<1>2. PICK p \in Position, q \in Position, seen \in SUBSET Sentinels,
           s \in {"reading", "posting", "finishing"} :
        /\ offset[a] < p /\ (offset[a] <= saved[a] => p <= q)
        /\ offset' = [offset EXCEPT ![a] = p]
        /\ saved' = [saved EXCEPT ![a] = q]
        /\ batch' = [batch EXCEPT ![a] =
                       {l \in Ends(a, p) : Whole(a, l) /\ \A x \in seen : l <= x}]
        /\ tail' = [tail EXCEPT ![a] = s]
        /\ s = "reading" => Ends(a, p) = {}
  BY <1>1, ChunkOf
<1>3. got' = got
  BY DEF ReadChunk
<1>4. saved'[a] = q /\ offset'[a] = p /\ p <= q
  BY <1>1, <1>2 DEF TailsOK, JournalOK
<1>5. \A b \in Attempt \ {a} : /\ saved'[b] = saved[b] /\ offset'[b] = offset[b]
                               /\ batch'[b] = batch[b] /\ tail'[b] = tail[b]
  BY <1>1, <1>2 DEF TailsOK, JournalOK
<1>6. SavedIsRead'
  BY <1>4, <1>5 DEF SavedIsRead, ReportInv
<1>7. SavedCovers'
  <2>1. ASSUME NEW b \in Attempt
        PROVE  offset'[b] \in Position /\ offset[b] <= offset'[b]
    <3>1. CASE b = a
      BY <3>1, <1>1, <1>2, <1>4 DEF TailsOK
    <3>2. CASE b # a
      BY <3>2, <1>1, <1>5 DEF TailsOK
    <3> QED BY <3>1, <3>2
  <2> HIDE DEF Position
  <2> QED BY <1>3, <2>1, OffsetGrows
<1>8. PostingIsNew'
  <2> SUFFICES ASSUME NEW b \in Attempt, b \in Posting', NEW l \in batch'[b],
                      NEW r \in Run
               PROVE  2 * l <= offset'[b] /\ got[b][r][l] = 0
    BY <1>3 DEF PostingIsNew, Posting
  <2>1. CASE b = a
    <3>1. l \in Ends(a, p)
      BY <2>1, <1>1, <1>2 DEF TailsOK
    <3>2. l \in Line /\ offset[a] < 2 * l /\ 2 * l <= p
      BY <3>1, <1>1 DEF Ends
    <3>3. got[a][r][l] # 0 => 2 * l <= offset[a]
      BY <3>2 DEF ReportInv, SavedCovers
    <3>4. offset[a] \in Position
      BY <1>1 DEF TailsOK
    <3> QED BY <2>1, <3>2, <3>3, <3>4, <1>4
  <2>2. CASE b # a
    BY <2>2, <1>5 DEF ReportInv, PostingIsNew, Posting
  <2> QED BY <2>1, <2>2
<1> QED BY <1>6, <1>7, <1>8

(* A tail that finds no file keeps that account: it moves on to what it counted. *)
LEMMA MissesFileReports ==
  ASSUME ReportInv, NEW a \in Attempt, MissesFile(a)
  PROVE  SavedIsRead' /\ SavedCovers' /\ PostingIsNew'
<1>1. /\ TailsOK /\ JournalOK /\ offset[a] <= saved[a] /\ tail[a] = "reading"
      /\ got' = got /\ batch' = [batch EXCEPT ![a] = {}]
  BY DEF ReportInv, TypeInv, SavedIsRead, MissesFile
<1>2. PICK q \in Position :
        /\ saved[a] < q
        /\ saved' = [saved EXCEPT ![a] = q] /\ offset' = [offset EXCEPT ![a] = q]
  BY DEF MissesFile
<1>3. /\ saved'[a] = q /\ offset'[a] = q
      /\ \A b \in Attempt \ {a} : saved'[b] = saved[b] /\ offset'[b] = offset[b]
  BY <1>1, <1>2 DEF TailsOK, JournalOK
<1>4. SavedIsRead'
  BY <1>3 DEF SavedIsRead, ReportInv
<1>5. SavedCovers'
  <2>1. ASSUME NEW b \in Attempt
        PROVE  offset'[b] \in Position /\ offset[b] <= offset'[b]
    <3>1. CASE b = a
      BY <3>1, <1>1, <1>2, <1>3 DEF TailsOK, JournalOK
    <3>2. CASE b # a
      BY <3>2, <1>1, <1>3 DEF TailsOK
    <3> QED BY <3>1, <3>2
  <2> HIDE DEF Position
  <2> QED BY <1>1, <2>1, OffsetGrows
<1>6. PostingIsNew'
  <2>1. tail' = [tail EXCEPT ![a] = "posting"]
    BY DEF MissesFile
  <2>2. batch'[a] = {} /\ \A b \in Attempt \ {a} : batch'[b] = batch[b] /\ tail'[b] = tail[b]
    BY <1>1, <2>1 DEF TailsOK
  <2> QED BY <1>1, <1>3, <2>2 DEF ReportInv, PostingIsNew, Posting
<1> QED BY <1>4, <1>5, <1>6

(* A post, answered or failed, keeps that account. *)
LEMMA PostReports ==
  ASSUME ReportInv, NEW a \in Attempt, PostEvents(a) \/ PostFails(a)
  PROVE  SavedIsRead' /\ SavedCovers' /\ PostingIsNew'
<1>1. /\ a \in Posting /\ saved' = saved
      /\ Accept({a}) \/ UNCHANGED got
      /\ batch' = [batch EXCEPT ![a] = {}]
      /\ \E s \in {"ended", "reading"} : tail' = [tail EXCEPT ![a] = s]
      /\ offset' = offset \/ offset' = [offset EXCEPT ![a] = saved[a]]
  <2>1. tail[a] # "finishing" => tail[a] = "posting"
    BY DEF PostEvents, PostFails, Posting
  <2> QED BY <2>1 DEF PostEvents, PostFails, journal
<1>2. TailsOK /\ JournalOK /\ GotOK /\ SavedIsRead
  BY DEF ReportInv, TypeInv
<1>3. /\ \A b \in Attempt : offset'[b] \in Position /\ offset[b] <= offset'[b]
      /\ \A b \in Attempt : offset'[b] <= saved[b]
  BY <1>1, <1>2 DEF TailsOK, JournalOK, SavedIsRead
<1>4. SavedIsRead' /\ SavedCovers'
  <2>1. CASE Accept({a})
    <3> HIDE DEF Position
    <3> QED BY <1>1, <1>3, <2>1, AcceptKeeps DEF SavedIsRead
  <2>2. CASE UNCHANGED got
    <3> HIDE DEF Position
    <3> QED BY <1>1, <1>3, <2>2, OffsetGrows DEF SavedIsRead
  <2> QED BY <1>1, <2>1, <2>2
<1>5. a \notin Posting'
  BY <1>1, <1>2 DEF TailsOK, Posting
<1>6. \A b \in Attempt \ {a} : /\ tail'[b] = tail[b] /\ batch'[b] = batch[b]
                               /\ got'[b] = got[b] /\ offset'[b] = offset[b]
  <2>1. \A b \in Attempt \ {a} : /\ tail'[b] = tail[b] /\ batch'[b] = batch[b]
                                 /\ offset'[b] = offset[b]
    BY <1>1, <1>2 DEF TailsOK
  <2>2. \A b \in Attempt \ {a} : got'[b] = got[b]
    BY <1>1, <1>2, Accepted
  <2> QED BY <2>1, <2>2
<1>7. PostingIsNew'
  <2> SUFFICES ASSUME NEW b \in Attempt, b \in Posting', NEW l \in batch'[b]
               PROVE  2 * l <= offset'[b] /\ \A r \in Run : got'[b][r][l] = 0
    BY DEF PostingIsNew, Posting
  <2>1. b # a
    BY <1>5
  <2> QED BY <2>1, <1>6 DEF ReportInv, PostingIsNew, Posting
<1> QED BY <1>4, <1>7

(* A start, a recorded environment and a crash keep that account. *)
LEMMA StartReports ==
  ASSUME ReportInv, Start \/ RecordEnvironment \/ Crash
  PROVE  SavedIsRead' /\ SavedCovers' /\ PostingIsNew'
<1>1. TailsOK /\ JournalOK /\ GotOK /\ LoopOK /\ Created /\ SavedIsRead
  BY DEF ReportInv, TypeInv
<1>2. CASE Start
  <2> DEFINE recorded == {a \in Attempt : env[a] # {}}
             r == [a \in recorded |-> Oldest(env[a])]
  <2>1. StartTail(recorded, r) /\ saved' = saved /\ got' = got
    BY <1>2 DEF Start, journal
  <2>2. \A a \in recorded : r[a] \in Run
    BY <1>1, OldestIsIn DEF JournalOK
  <2>3. recorded \in SUBSET Attempt
    OBVIOUS
  <2> HIDE DEF recorded, r
  <2>4. /\ \A a \in recorded : tail'[a] = "reading" /\ offset'[a] = saved[a]
        /\ \A a \in Attempt \ recorded :
             tail'[a] = tail[a] /\ batch'[a] = batch[a] /\ offset'[a] = offset[a]
    BY <1>1, <2>1, <2>2, <2>3, TailStarted
  <2>5. \A a \in Attempt : /\ offset'[a] \in Position /\ offset[a] <= offset'[a]
                           /\ offset'[a] <= saved[a]
    BY <1>1, <2>4 DEF TailsOK, JournalOK, SavedIsRead
  <2>6. SavedIsRead' /\ SavedCovers'
    <3> HIDE DEF Position
    <3> QED BY <2>1, <2>5, OffsetGrows DEF SavedIsRead
  <2>7. PostingIsNew'
    BY <2>1, <2>3, <2>4 DEF ReportInv, PostingIsNew, Posting
  <2> QED BY <2>6, <2>7
<1>3. CASE RecordEnvironment
  <2>1. doing \in Attempt /\ run[doing] \in Run
    BY <1>1, <1>3 DEF RecordEnvironment, LoopOK, Created
  <2>2. /\ StartTail({doing}, run) /\ saved' = saved
        /\ (doing \in Posting /\ Accept({doing})) \/ UNCHANGED got
    BY <1>3 DEF RecordEnvironment
  <2>3. /\ tail'[doing] = "reading" /\ offset'[doing] = saved[doing]
        /\ \A a \in Attempt \ {doing} :
             tail'[a] = tail[a] /\ batch'[a] = batch[a] /\ offset'[a] = offset[a]
    <3>1. {doing} \in SUBSET Attempt /\ \A a \in {doing} : run[a] \in Run
      BY <2>1
    <3> HIDE DEF Run, Line, Position
    <3>2. /\ \A a \in {doing} : tail'[a] = "reading" /\ offset'[a] = saved[a]
          /\ \A a \in Attempt \ {doing} :
               tail'[a] = tail[a] /\ batch'[a] = batch[a] /\ offset'[a] = offset[a]
      BY <1>1, <2>2, <3>1, TailStarted
    <3> QED BY <3>2
  <2>4. \A a \in Attempt \ {doing} : got'[a] = got[a]
    BY <1>1, <2>1, <2>2, Accepted
  <2>8. \A a \in Attempt : /\ offset'[a] \in Position /\ offset[a] <= offset'[a]
                           /\ offset'[a] <= saved[a]
    BY <1>1, <2>3 DEF TailsOK, JournalOK, SavedIsRead
  <2>5. SavedIsRead' /\ SavedCovers'
    <3> HIDE DEF Position
    <3>1. CASE doing \in Posting /\ Accept({doing})
      BY <3>1, <2>1, <2>2, <2>8, AcceptKeeps DEF SavedIsRead
    <3>2. CASE UNCHANGED got
      BY <3>2, <2>2, <2>8, OffsetGrows DEF SavedIsRead
    <3> QED BY <2>2, <3>1, <3>2
  <2>7. PostingIsNew'
    <3> SUFFICES ASSUME NEW a \in Attempt, a \in Posting', NEW l \in batch'[a]
                 PROVE  2 * l <= offset'[a] /\ \A r \in Run : got'[a][r][l] = 0
      BY DEF PostingIsNew, Posting
    <3>1. a # doing
      BY <2>3 DEF Posting
    <3> QED BY <3>1, <2>3, <2>4 DEF ReportInv, PostingIsNew, Posting
  <2> QED BY <2>5, <2>7
<1>4. CASE Crash
  <2>1. /\ tail' = [a \in Attempt |-> "off"] /\ saved' = saved /\ offset' = offset
        /\ \E as \in SUBSET Posting : Accept(as)
    BY <1>4 DEF Crash, journal
  <2>2. SavedCovers'
    <3>1. \A a \in Attempt : offset'[a] \in Position /\ offset[a] <= offset'[a]
      BY <1>1, <2>1 DEF TailsOK
    <3> HIDE DEF Position
    <3> QED BY <2>1, <3>1, AcceptKeeps
  <2> QED BY <2>1, <2>2 DEF ReportInv, SavedIsRead, PostingIsNew, Posting
<1> QED BY <1>2, <1>3, <1>4

(* Every step keeps the account of what was read, saved and posted. *)
LEMMA NextReports ==
  ASSUME ReportInv, [Next]_vars
  PROVE  ReportInv'
<1>1. TypeInv'
  BY NextTyped DEF ReportInv
<1>2. ASSUME \/ UNCHANGED vars \/ Drain \/ ListEnvironments
             \/ Poll \/ StopContainer \/ EndTurn
             \/ \E a \in Attempt :
                  \/ QueueTaskAssignment(a) \/ RequestCancel(a) \/ Requeue(a)
                  \/ WriteLine(a) \/ Exit(a) \/ NoticeStop(a)
                  \/ IgnoreCancel(a) \/ StopTail(a) \/ CreateContainer(a)
                  \/ \E r \in Run : DrainContainer(a, r)
      PROVE  SavedIsRead' /\ SavedCovers' /\ PostingIsNew'
  <2>1. UNCHANGED <<offset, batch, saved, got>>
    BY <1>2 DEF vars, Drain, ListEnvironments, Poll, StopContainer, EndTurn,
                QueueTaskAssignment, RequestCancel, Requeue, WriteLine, Exit, NoticeStop,
                IgnoreCancel, StopTail, CreateContainer, DrainContainer, tails, journal
  <2>2. \/ tail' = tail
        \/ \E a \in Attempt : tail' = [tail EXCEPT ![a] = "ended"]
        \/ tail' = [tail EXCEPT ![doing] = "off"]
    BY <1>2 DEF vars, Drain, ListEnvironments, Poll, StopContainer, EndTurn,
                QueueTaskAssignment, RequestCancel, Requeue, WriteLine, Exit, NoticeStop,
                IgnoreCancel, StopTail, CreateContainer, DrainContainer, tails
  <2>3. Posting' \subseteq Posting
    BY <2>2 DEF ReportInv, TypeInv, TailsOK, Posting
  <2> QED BY <2>1, <2>3, TailsUntouched
<1>3. SavedIsRead' /\ SavedCovers' /\ PostingIsNew'
  BY <1>2, ReadChunkReports, MissesFileReports, PostReports, StartReports DEF Next, TurnStep, TailStep
<1> QED BY <1>1, <1>3 DEF ReportInv

(***************************************************************************)
(* A line of a journal file is accepted as an event once at most, whatever *)
(* crashes, lost answers, failed stops and second runs come in between     *)
(* (startJournalTail, postAttemptEvents).                                  *)
(***************************************************************************)
THEOREM LinesAreReportedOnce == Spec => []ReportedOnce
<1>1. ReportInv => ReportedOnce
  BY DEF ReportInv, SavedCovers, ReportedOnce
<1> QED BY <1>1, InitReports, NextReports, PTL DEF Spec
------------------------------------------------------------------------------
(* Nothing is skipped *)

Clean == crashes = 0 /\ failures = 0 /\ missing = 0

\* What a post is about to hand over is read only when the tail posts.
OnlyPostingHasBatch == \A a \in Attempt \ Posting : batch[a] = {}

\* The attempt was not given to this machine, or it is still to be started.
Waiting(a) == assignment[a] # "assigned" \/ a \in toStart

\* Nothing was read for an attempt before its first and only start: the loop
\* begins once, with an empty journal.
StartsFresh ==
    /\ \A a \in toStart : assignment[a] = "assigned"
    /\ step = "starting" => doing \in toStart
    /\ \A a \in Attempt : Waiting(a) => tail[a] = "off" /\ saved[a] = 0
    /\ step = "down" => \A a \in Attempt : env[a] = {}

\* A tail that began at the first position has every line in its buffer whole,
\* and hands over each of them up to the sentinel.
ReadIsKept ==
    \A a \in Active :
      /\ first[a] = 0 /\ tailRun[a] \in Run
      /\ \A l \in Line \ {Lines} :
           2 * l <= offset[a] => got[a][tailRun[a]][l] = 1 \/ l \in batch[a]

CleanInv == Clean => OnlyPostingHasBatch /\ StartsFresh /\ ReadIsKept

(* Nothing was read yet. *)
LEMMA InitClean == Init => CleanInv
<1> SUFFICES ASSUME Init PROVE CleanInv
  OBVIOUS
<1>1. OnlyPostingHasBatch /\ StartsFresh
  BY DEF Init, OnlyPostingHasBatch, Posting, StartsFresh
<1>2. ReadIsKept
  BY DEF Init, ReadIsKept, Active
<1> QED BY <1>1, <1>2 DEF CleanInv

(***************************************************************************)
(* No step undoes a failure or a crash, and these steps are failures.      *)
(***************************************************************************)
LEMMA CleanBefore ==
  ASSUME TypeInv, Next, Clean'
  PROVE  /\ Clean /\ UNCHANGED bounds /\ ~Crash
         /\ \A a \in Attempt : ~Requeue(a) /\ ~PostFails(a) /\ ~MissesFile(a)
<1>1. crashes \in Nat /\ failures \in Nat /\ missing \in Nat
  BY DEF TypeInv, BoundsOK
<1>2. ~Fails
  BY <1>1 DEF Clean, Fails
<1>3. ~Crash /\ \A a \in Attempt : ~Requeue(a) /\ ~PostFails(a) /\ ~MissesFile(a)
  BY <1>1, <1>2 DEF Clean, Crash, Requeue, PostFails, MissesFile
<1>4. UNCHANGED bounds
  <2>1. TurnStep => UNCHANGED bounds
    BY <1>2 DEF TurnStep, Poll, IgnoreCancel, StopTail, CreateContainer, StopContainer,
                RecordEnvironment, EndTurn, bounds
  <2>2. \A a \in Attempt : TailStep(a) => UNCHANGED bounds
    BY <1>3 DEF TailStep, ReadChunk, PostEvents, NoticeStop
  <2>3. \A a \in Attempt :
          QueueTaskAssignment(a) \/ RequestCancel(a) \/ WriteLine(a) \/ Exit(a)
            => UNCHANGED bounds
    BY <1>2 DEF QueueTaskAssignment, RequestCancel, WriteLine, Exit, bounds
  <2>4. \A a \in Attempt, r \in Run : DrainContainer(a, r) => UNCHANGED bounds
    BY <1>2 DEF DrainContainer, bounds
  <2>5. Start \/ Drain \/ ListEnvironments => UNCHANGED bounds
    BY DEF Start, Drain, ListEnvironments
  <2> QED BY <1>3, <2>1, <2>2, <2>3, <2>4, <2>5 DEF Next
<1> QED BY <1>3, <1>4 DEF Clean, bounds

(***************************************************************************)
(* A step that moves no tail, journal or row keeps what was read.          *)
(***************************************************************************)
LEMMA TailsAlone ==
  ASSUME CleanInv, Clean, UNCHANGED <<tails, journal, got>>
  PROVE  /\ OnlyPostingHasBatch' /\ ReadIsKept'
         /\ /\ \A a \in toStart' : assignment'[a] = "assigned"
            /\ step' = "starting" => doing' \in toStart'
            /\ \A a \in Attempt : Waiting(a)' => Waiting(a)
            /\ step' = "down" => step = "down"
            => StartsFresh'
<1>1. OnlyPostingHasBatch'
  BY DEF CleanInv, OnlyPostingHasBatch, Posting, tails
<1>2. ReadIsKept'
  BY DEF CleanInv, ReadIsKept, Active, tails
<1> QED BY <1>1, <1>2 DEF CleanInv, StartsFresh, tails, journal

(* While nothing crashed or failed, steps outside the tail lose nothing read. *)
LEMMA LoopClean ==
  ASSUME ReportInv, CleanInv, Clean,
         \/ Poll \/ EndTurn \/ Drain \/ ListEnvironments
         \/ \E a \in Attempt :
              \/ QueueTaskAssignment(a) \/ RequestCancel(a)
              \/ WriteLine(a) \/ Exit(a)
              \/ IgnoreCancel(a) \/ CreateContainer(a)
              \/ \E r \in Run : DrainContainer(a, r)
  PROVE  OnlyPostingHasBatch' /\ StartsFresh' /\ ReadIsKept'
<1>1. UNCHANGED <<tails, journal, got>>
  BY DEF Poll, EndTurn, Drain, ListEnvironments, QueueTaskAssignment, RequestCancel,
         WriteLine, Exit, IgnoreCancel, CreateContainer, DrainContainer
<1>2. StartsFresh /\ assignment \in [Attempt -> {"absent", "pending", "assigned"}]
  BY DEF CleanInv, ReportInv, TypeInv, TeamOK
<1>3. CASE Poll
  <2>1. PICK given \in SUBSET Attempt :
          /\ \A a \in given : assignment[a] = "pending"
          /\ assignment' = [a \in Attempt |-> IF a \in given THEN "assigned"
                                              ELSE assignment[a]]
          /\ toStart' = given
    BY <1>3 DEF Poll
  <2>2. \A a \in toStart' : assignment'[a] = "assigned"
    BY <2>1
  <2>3. \A a \in Attempt : Waiting(a)' => Waiting(a)
    BY <2>1 DEF Waiting
  <2>4. step' = "answer"
    BY <1>3 DEF Poll
  <2> QED BY <1>1, <2>2, <2>3, <2>4, TailsAlone
<1>4. CASE EndTurn
  <2>1. assignment' = assignment /\ toStart' = toStart /\ step' = "loop"
    BY <1>4 DEF EndTurn, team
  <2> QED BY <1>1, <1>2, <2>1, TailsAlone DEF Waiting, StartsFresh
<1>5. ASSUME NEW a \in Attempt, QueueTaskAssignment(a)
      PROVE  OnlyPostingHasBatch' /\ StartsFresh' /\ ReadIsKept'
  <2>1. /\ assignment[a] = "absent"
        /\ assignment' = [assignment EXCEPT ![a] = "pending"]
        /\ toStart' = toStart /\ step' = step /\ doing' = doing
    BY <1>5 DEF QueueTaskAssignment, loop
  <2>2. \A b \in toStart' : assignment'[b] = "assigned"
    BY <1>2, <2>1 DEF StartsFresh
  <2>3. \A b \in Attempt : Waiting(b)' => Waiting(b)
    BY <1>2, <2>1 DEF Waiting
  <2> QED BY <1>1, <1>2, <2>1, <2>2, <2>3, TailsAlone DEF StartsFresh
<1>6. ASSUME NEW a \in Attempt, CreateContainer(a)
      PROVE  OnlyPostingHasBatch' /\ StartsFresh' /\ ReadIsKept'
  <2>1. /\ assignment' = assignment /\ toStart' = toStart
        /\ step' = "starting" /\ doing' = a /\ a \in toStart
    BY <1>6 DEF CreateContainer, team
  <2> QED BY <1>1, <1>2, <2>1, TailsAlone DEF Waiting, StartsFresh
<1>7. ASSUME UNCHANGED <<assignment, toStart, doing>>,
             step' = step
      PROVE  OnlyPostingHasBatch' /\ StartsFresh' /\ ReadIsKept'
  BY <1>1, <1>2, <1>7, TailsAlone DEF Waiting, StartsFresh
<1> QED
  BY <1>3, <1>4, <1>5, <1>6, <1>7
  DEF Drain, ListEnvironments, RequestCancel, WriteLine, Exit, IgnoreCancel,
      DrainContainer, team, loop

(***************************************************************************)
(* A stop changes the tail it stops to a tail that reads no more.          *)
(***************************************************************************)
LEMMA StopClean ==
  ASSUME ReportInv, CleanInv, Clean,
         \/ StopContainer
         \/ \E a \in Attempt : StopTail(a) \/ NoticeStop(a)
  PROVE  OnlyPostingHasBatch' /\ StartsFresh' /\ ReadIsKept'
<1>1. /\ UNCHANGED <<assignment, toStart, tailRun, first, offset, batch, saved, env, got>>
      /\ step' # "down" \/ step' = step
      /\ step' = "starting" => step = "starting" /\ doing' = doing
  BY DEF StopContainer, StopTail, NoticeStop, team, loop, journal
<1>2. TailsOK /\ StartsFresh /\ ReadIsKept /\ OnlyPostingHasBatch
  BY DEF CleanInv, ReportInv, TypeInv
<1>3. \A a \in Attempt :
        \/ tail'[a] = tail[a]
        \/ tail[a] \in {"reading", "ended"} /\ tail'[a] \in {"ended", "off"}
  <2>1. CASE StopContainer
    BY <1>2, <2>1 DEF StopContainer, TailsOK
  <2>2. ASSUME NEW a \in Attempt, StopTail(a) \/ NoticeStop(a)
        PROVE  \A b \in Attempt :
                 \/ tail'[b] = tail[b]
                 \/ tail[b] \in {"reading", "ended"} /\ tail'[b] \in {"ended", "off"}
    BY <1>2, <2>2 DEF StopTail, NoticeStop, TailsOK
  <2> QED BY <2>1, <2>2
<1>4. OnlyPostingHasBatch'
  BY <1>1, <1>2, <1>3 DEF OnlyPostingHasBatch, Posting
<1>5. StartsFresh'
  BY <1>1, <1>2, <1>3 DEF StartsFresh, Waiting
<1>6. ReadIsKept'
  BY <1>1, <1>2, <1>3 DEF ReadIsKept, Active
<1> QED BY <1>4, <1>5, <1>6

(***************************************************************************)
(* The loop starts a tail only once it has an assignment, so from the      *)
(* first position on (startJournalTail).                                   *)
(***************************************************************************)
LEMMA StartClean ==
  ASSUME ReportInv, CleanInv, Clean, Start \/ RecordEnvironment
  PROVE  OnlyPostingHasBatch' /\ StartsFresh' /\ ReadIsKept'
<1>1. /\ TailsOK /\ JournalOK /\ LoopOK /\ Created
      /\ StartsFresh /\ ReadIsKept /\ OnlyPostingHasBatch
  BY DEF CleanInv, ReportInv, TypeInv
<1>2. CASE Start
  <2>1. /\ step = "down" /\ step' = "loop"
        /\ UNCHANGED <<assignment, toStart, got, saved, env, doing>>
        /\ StartTail({a \in Attempt : env[a] # {}},
                     [a \in {b \in Attempt : env[b] # {}} |-> Oldest(env[a])])
    BY <1>2 DEF Start, team, journal
  <2>2. {a \in Attempt : env[a] # {}} = {}
    BY <1>1, <2>1 DEF StartsFresh
  <2>3. \A a \in Attempt : /\ tail'[a] = tail[a] /\ batch'[a] = batch[a]
                           /\ offset'[a] = offset[a] /\ first'[a] = first[a]
                           /\ tailRun'[a] = tailRun[a]
    BY <2>1, <2>2 DEF StartTail
  <2>4. OnlyPostingHasBatch'
    BY <1>1, <2>3 DEF OnlyPostingHasBatch, Posting
  <2>5. StartsFresh'
    BY <1>1, <2>1, <2>3 DEF StartsFresh, Waiting
  <2>6. ReadIsKept'
    BY <1>1, <2>1, <2>3 DEF ReadIsKept, Active
  <2> QED BY <2>4, <2>5, <2>6
<1>3. CASE RecordEnvironment
  <2>1. /\ doing \in Attempt /\ run[doing] \in Run /\ doing \in toStart
        /\ tail[doing] = "off" /\ saved[doing] = 0
    BY <1>1, <1>3 DEF RecordEnvironment, LoopOK, Created, StartsFresh, Waiting
  <2>2. /\ StartTail({doing}, run) /\ saved' = saved /\ got' = got
        /\ assignment' = assignment /\ toStart' = toStart \ {doing} /\ step' = "answer"
    BY <1>3, <2>1 DEF RecordEnvironment, Posting, team
  <2>3. /\ tail'[doing] = "reading" /\ offset'[doing] = 0
        /\ first'[doing] = 0 /\ batch'[doing] = {} /\ tailRun'[doing] = run[doing]
        /\ \A a \in Attempt \ {doing} :
             /\ tail'[a] = tail[a] /\ batch'[a] = batch[a] /\ offset'[a] = offset[a]
             /\ first'[a] = first[a] /\ tailRun'[a] = tailRun[a]
    BY <2>1, <2>2 DEF StartTail
  <2>4. OnlyPostingHasBatch'
    BY <1>1, <2>3 DEF OnlyPostingHasBatch, Posting
  <2>5. StartsFresh'
    BY <1>1, <2>1, <2>2, <2>3 DEF StartsFresh, Waiting
  <2>6. ReadIsKept'
    <3> SUFFICES ASSUME NEW a \in Attempt, tail'[a] # "off"
                 PROVE  /\ first'[a] = 0 /\ tailRun'[a] \in Run
                        /\ \A l \in Line \ {Lines} : 2 * l <= offset'[a] =>
                             got[a][tailRun'[a]][l] = 1 \/ l \in batch'[a]
      BY <2>2 DEF ReadIsKept, Active
    <3>1. CASE a = doing
      BY <2>1, <2>3, <3>1
    <3>2. CASE a # doing
      BY <1>1, <2>3, <3>2 DEF ReadIsKept, Active
    <3> QED BY <3>1, <3>2
  <2> QED BY <2>4, <2>5, <2>6
<1> QED BY <1>2, <1>3

(***************************************************************************)
(* A chunk hands over every line up to the sentinel whose end it reads:    *)
(* the tail read its beginning, too.                                       *)
(***************************************************************************)
LEMMA ReadChunkClean ==
  ASSUME ReportInv, CleanInv, Clean, NEW a \in Attempt, ReadChunk(a)
  PROVE  OnlyPostingHasBatch' /\ StartsFresh' /\ ReadIsKept'
<1>1. /\ TailsOK /\ JournalOK /\ tail[a] = "reading" /\ ~Waiting(a)
      /\ StartsFresh /\ ReadIsKept /\ OnlyPostingHasBatch
  BY DEF CleanInv, ReportInv, TypeInv, ReadChunk, StartsFresh
<1>2. PICK p \in Position, q \in Position, seen \in SUBSET Sentinels,
           s \in {"reading", "posting", "finishing"} :
        /\ offset[a] < p /\ (offset[a] <= saved[a] => p <= q)
        /\ offset' = [offset EXCEPT ![a] = p]
        /\ saved' = [saved EXCEPT ![a] = q]
        /\ batch' = [batch EXCEPT ![a] =
                       {l \in Ends(a, p) : Whole(a, l) /\ \A x \in seen : l <= x}]
        /\ tail' = [tail EXCEPT ![a] = s]
        /\ s = "reading" => Ends(a, p) = {}
  BY <1>1, ChunkOf
<1>3. UNCHANGED <<assignment, toStart, step, doing, tailRun, first, env, got>>
  BY DEF ReadChunk, team, loop
<1>4. \A b \in Attempt \ {a} : /\ saved'[b] = saved[b] /\ offset'[b] = offset[b]
                               /\ batch'[b] = batch[b] /\ tail'[b] = tail[b]
  BY <1>1, <1>2 DEF TailsOK, JournalOK
<1>5. /\ offset'[a] = p /\ tail'[a] = s
      /\ batch'[a] = {l \in Ends(a, p) : Whole(a, l) /\ \A x \in seen : l <= x}
  BY <1>1, <1>2 DEF TailsOK
<1>6. OnlyPostingHasBatch'
  <2> SUFFICES ASSUME NEW b \in Attempt, tail'[b] \notin {"posting", "finishing"}
               PROVE  batch'[b] = {}
    BY DEF OnlyPostingHasBatch, Posting
  <2> QED BY <1>1, <1>2, <1>4, <1>5 DEF OnlyPostingHasBatch, Posting
<1>7. StartsFresh'
  <2>1. \A b \in Attempt : Waiting(b)' => Waiting(b) /\ b # a
    BY <1>1, <1>3 DEF Waiting
  <2> QED BY <1>1, <1>3, <1>4, <2>1 DEF StartsFresh
<1>8. ASSUME NEW l \in Line \ {Lines}, 2 * l <= p
      PROVE  got[a][tailRun[a]][l] = 1 \/ l \in batch'[a]
  <2>1. first[a] = 0 /\ offset[a] \in Position
    BY <1>1 DEF ReadIsKept, Active, TailsOK
  <2>2. CASE 2 * l <= offset[a]
    <3>1. l \notin batch[a]
      BY <1>1 DEF OnlyPostingHasBatch, Posting
    <3> QED BY <1>1, <2>2, <3>1 DEF ReadIsKept, Active
  <2>3. CASE ~(2 * l <= offset[a])
    <3>1. l \in Ends(a, p)
      BY <1>8, <2>1, <2>3 DEF Ends
    <3>2. Whole(a, l)
      BY <2>1 DEF Whole
    <3>3. \A x \in seen : l <= x
      BY DEF Sentinels
    <3> QED BY <1>5, <3>1, <3>2, <3>3
  <2> QED BY <2>2, <2>3
<1>9. ReadIsKept'
  <2> SUFFICES ASSUME NEW b \in Attempt, tail'[b] # "off"
               PROVE  /\ first[b] = 0 /\ tailRun[b] \in Run
                      /\ \A l \in Line \ {Lines} : 2 * l <= offset'[b] =>
                           got[b][tailRun[b]][l] = 1 \/ l \in batch'[b]
    BY <1>3 DEF ReadIsKept, Active
  <2>1. CASE b = a
    <3>1. first[a] = 0 /\ tailRun[a] \in Run
      BY <1>1 DEF ReadIsKept, Active
    <3> QED BY <1>5, <1>8, <2>1, <3>1
  <2>2. CASE b # a
    BY <1>1, <1>4, <2>2 DEF ReadIsKept, Active
  <2> QED BY <2>1, <2>2
<1> QED BY <1>6, <1>7, <1>9

(***************************************************************************)
(* The lines of a batch were accepted by no post before, and this one      *)
(* accepts them all (postAttemptEvents).                                   *)
(***************************************************************************)
LEMMA PostClean ==
  ASSUME ReportInv, CleanInv, Clean, NEW a \in Attempt, PostEvents(a)
  PROVE  OnlyPostingHasBatch' /\ StartsFresh' /\ ReadIsKept'
<1>1. /\ TailsOK /\ GotOK /\ a \in Posting /\ tail[a] # "off" /\ ~Waiting(a)
      /\ StartsFresh /\ ReadIsKept /\ OnlyPostingHasBatch
  BY DEF CleanInv, ReportInv, TypeInv, PostEvents, StartsFresh, Posting
<1>2. /\ Accept({a}) /\ batch' = [batch EXCEPT ![a] = {}]
      /\ UNCHANGED <<assignment, toStart, step, doing, tailRun, first, offset, saved, env>>
  BY DEF PostEvents, team, loop, journal
<1>3. PICK s \in {"ended", "reading"} : tail' = [tail EXCEPT ![a] = s]
  BY DEF PostEvents
<1>4. \A b \in Attempt \ {a} : batch'[b] = batch[b] /\ tail'[b] = tail[b]
  BY <1>1, <1>2, <1>3 DEF TailsOK
<1>5. batch'[a] = {} /\ tail'[a] = s
  BY <1>1, <1>2, <1>3 DEF TailsOK
<1>6. OnlyPostingHasBatch'
  <2> SUFFICES ASSUME NEW b \in Attempt, tail'[b] \notin {"posting", "finishing"}
               PROVE  batch'[b] = {}
    BY DEF OnlyPostingHasBatch, Posting
  <2> QED BY <1>1, <1>2, <1>4, <1>5 DEF OnlyPostingHasBatch, Posting
<1>7. StartsFresh'
  <2>1. \A b \in Attempt : Waiting(b)' => Waiting(b) /\ b # a
    BY <1>1, <1>2 DEF Waiting
  <2> QED BY <1>1, <1>2, <1>4, <2>1 DEF StartsFresh
<1>8. ASSUME NEW l \in Line \ {Lines}, 2 * l <= offset[a]
      PROVE  got'[a][tailRun[a]][l] = 1
  <2>1. got[a][tailRun[a]][l] = 1 \/ l \in batch[a]
    BY <1>1, <1>8 DEF ReadIsKept, Active
  <2>2. l \in batch[a] => \A r \in Run : got[a][r][l] = 0
    BY <1>1 DEF ReportInv, PostingIsNew
  <2>3. tailRun[a] \in Run
    BY <1>1 DEF ReadIsKept, Active
  <2>4. got'[a][tailRun[a]][l] = IF l \in batch[a] THEN got[a][tailRun[a]][l] + 1
                                 ELSE got[a][tailRun[a]][l]
    <3> HIDE DEF Run, Line
    <3>1. \A b \in Attempt, q \in Run, k \in Line :
            got'[b][q][k] = IF b \in {a} /\ q = tailRun[b] /\ k \in batch[b]
                              THEN got[b][q][k] + 1 ELSE got[b][q][k]
      BY <1>1, <1>2, Accepted
    <3> QED BY <2>3, <3>1
  <2> QED BY <2>1, <2>2, <2>3, <2>4
<1>9. ReadIsKept'
  <2> SUFFICES ASSUME NEW b \in Attempt, tail'[b] # "off"
               PROVE  /\ first[b] = 0 /\ tailRun[b] \in Run
                      /\ \A l \in Line \ {Lines} : 2 * l <= offset[b] =>
                           got'[b][tailRun[b]][l] = 1 \/ l \in batch'[b]
    BY <1>2 DEF ReadIsKept, Active
  <2>1. CASE b = a
    <3>1. first[a] = 0 /\ tailRun[a] \in Run
      BY <1>1 DEF ReadIsKept, Active
    <3> QED BY <1>8, <2>1, <3>1
  <2>2. CASE b # a
    <3>1. got'[b] = got[b]
      BY <1>1, <1>2, <2>2, Accepted
    <3> QED BY <1>1, <1>4, <2>2, <3>1 DEF ReadIsKept, Active
  <2> QED BY <2>1, <2>2
<1> QED BY <1>6, <1>7, <1>9

(* Every step keeps the account behind NothingSkipped. *)
LEMMA NextClean ==
  ASSUME ReportInv, CleanInv, [Next]_vars
  PROVE  CleanInv'
<1> SUFFICES ASSUME Clean'
             PROVE  OnlyPostingHasBatch' /\ StartsFresh' /\ ReadIsKept'
  BY DEF CleanInv
<1>1. CASE UNCHANGED vars
  <2>1. Clean /\ UNCHANGED <<tails, journal, got>>
    BY <1>1 DEF vars, Clean, bounds
  <2>2. UNCHANGED <<assignment, toStart, step, doing>>
    BY <1>1 DEF vars, team, loop
  <2> QED BY <2>1, <2>2, TailsAlone DEF Waiting, CleanInv, StartsFresh
<1>2. CASE Next
  <2>1. Clean /\ ~Crash
        /\ \A a \in Attempt : ~Requeue(a) /\ ~PostFails(a) /\ ~MissesFile(a)
    BY <1>2, CleanBefore DEF ReportInv
  <2> QED
    BY <1>2, <2>1, LoopClean, StopClean, StartClean, ReadChunkClean, PostClean
    DEF Next, TurnStep, TailStep
<1> QED BY <1>1, <1>2

(***************************************************************************)
(* As long as nothing failed and every tail found its file, a tail passes  *)
(* over no line up to the sentinel: what lies before its position was      *)
(* accepted or is being posted, wherever the chunks of the stream were cut *)
(* and whatever they were counted as (startJournalTail).                   *)
(***************************************************************************)
THEOREM NoLineIsSkipped == Spec => []NothingSkipped
<1>1. CleanInv => NothingSkipped
  BY DEF CleanInv, Clean, ReadIsKept, NothingSkipped
<1> QED
  BY <1>1, InitReports, InitClean, NextReports, NextClean, PTL DEF Spec
==============================================================================
