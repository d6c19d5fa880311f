------------------------------ MODULE Supervisor -----------------------------
(***************************************************************************)
(* The supervisor of one machine (supervisor/src): the loop that polls,    *)
(* cancels and starts containers (run.ts), its node:sqlite journal         *)
(* (journal.ts), the tail of the journal file of every container           *)
(* (journal-tail.ts), the drain command, which is another process          *)
(* (drain.ts), the containers (docker.ts) and the runner that writes the   *)
(* lines and the exit sentinel (runner/src/main.ts).                       *)
(*                                                                         *)
(* A run of an attempt writes Lines lines.  The last but one is the exit   *)
(* sentinel; console.log, which the runner has patched, writes it once     *)
(* more.  Positions count half lines, so that a chunk of the stream can    *)
(* end in the middle of a line.  A container keeps its journal file to     *)
(* itself and is removed with it when it ends (AutoRemove).                *)
(*                                                                         *)
(* The tail counts the bytes of the text it decodes from what the exec     *)
(* prints.  That is never less than what it read of the file, and may be   *)
(* more: the message of a tail that finds no file, frames of the stream, a *)
(* character that a chunk cut in two and U+FFFD replaces.  So the position *)
(* in the file, "offset", is apart from the count, "saved", from which the *)
(* next exec starts.  "tail -c +N -f" prints nothing before byte N.        *)
(*                                                                         *)
(* The lease of an attempt, and what TaskCell does with its events, are    *)
(* TaskCell's; what the team does with its machines is MachinePool's.      *)
(* Here the team is the answers of its poll.  The sweep of stopped         *)
(* containers and journal-stalled change nothing of what is modelled.      *)
(***************************************************************************)
EXTENDS Integers, FiniteSets

CONSTANTS
    Attempt,      \* the attempts assigned to this machine
    NoAttempt,    \* not an attempt
    Lines,        \* lines of the journal file of one run
    MaxRuns,      \* bound: containers created for one attempt
    Capacity,     \* capacities.workspaces
    MaxCrashes,   \* bound: ends of the supervisor process
    MaxFailures,  \* bound: posts and stops that fail, containers that die
    MaxMissing    \* bound: tails that begin before the file is there

ASSUME LinesAssumption == Lines \in Nat \ {0, 1}
ASSUME MaxRunsAssumption == MaxRuns \in Nat \ {0}
ASSUME NoAttemptAssumption == NoAttempt \notin Attempt

VARIABLES
    assignment,   \* task_assignments.status
    cancel,       \* task_assignments.cancel_requested
    draining,     \* machines.status is draining
    toDrain,      \* the containers the drain command has still to stop
    run,          \* containers created for the attempt so far
    container,    \* the newest container of the attempt
    written,      \* lines in its journal file
    step,         \* where the loop of run.ts is
    doing,        \* the attempt it awaits something for
    toCancel,     \* the cancels of the last poll still to be handled
    toStart,      \* its assignments still to be started
    tail,         \* the tail of the attempt
    tailRun,      \* the container it reads
    first,        \* the position it reads on from without a gap
    offset,       \* the position in the file it has read up to
    batch,        \* the lines it is posting
    stopped,      \* stop() was called
    env,          \* environments: the containers recorded as active
    saved,        \* journal_offsets.byte_offset
    got,          \* how often each line of each run was accepted as an event
    crashes, failures,
    missing       \* tails that began before the file was there, so far

team == <<assignment, cancel, draining, toDrain>>
docker == <<run, container, written>>
loop == <<step, doing, toCancel, toStart>>
tails == <<tail, tailRun, first, offset, batch, stopped>>
journal == <<env, saved>>
bounds == <<crashes, failures, missing>>
vars == <<team, docker, loop, tails, journal, got, bounds>>

Run == 1 .. MaxRuns
Line == 1 .. Lines
Position == 0 .. 2 * Lines
Sentinels == {Lines - 1, Lines}

Init ==
    /\ assignment = [a \in Attempt |-> "absent"]
    /\ cancel = [a \in Attempt |-> FALSE]
    /\ draining = FALSE /\ toDrain = {}
    /\ run = [a \in Attempt |-> 0]
    /\ container = [a \in Attempt |-> "none"]
    /\ written = [a \in Attempt |-> 0]
    /\ step = "down" /\ doing = NoAttempt
    /\ toCancel = {} /\ toStart = {}
    /\ tail = [a \in Attempt |-> "off"]
    /\ tailRun = [a \in Attempt |-> 0]
    /\ first = [a \in Attempt |-> 0]
    /\ offset = [a \in Attempt |-> 0]
    /\ batch = [a \in Attempt |-> {}]
    /\ stopped = [a \in Attempt |-> FALSE]
    /\ env = [a \in Attempt |-> {}]
    /\ saved = [a \in Attempt |-> 0]
    /\ got = [a \in Attempt |-> [r \in Run |-> [l \in Line |-> 0]]]
    /\ crashes = 0 /\ failures = 0 /\ missing = 0

Fails == failures < MaxFailures /\ failures' = failures + 1

------------------------------------------------------------------------------
(* The team, as this machine sees it. *)

QueueTaskAssignment(a) ==
    /\ assignment[a] = "absent"
    /\ assignment' = [assignment EXCEPT ![a] = "pending"]
    /\ UNCHANGED <<cancel, draining, toDrain, docker, loop, tails, journal, got,
                   bounds>>

RequestCancel(a) ==
    /\ assignment[a] # "absent" /\ ~cancel[a]
    /\ cancel' = [cancel EXCEPT ![a] = TRUE]
    /\ UNCHANGED <<assignment, draining, toDrain, docker, loop, tails, journal,
                   got, bounds>>

\* The machine became stale: nothing polled for it in between.
Requeue(a) ==
    /\ assignment[a] = "assigned"
    /\ step \in {"down", "stopping"}
    /\ Fails
    /\ assignment' = [assignment EXCEPT ![a] = "pending"]
    /\ UNCHANGED <<cancel, draining, toDrain, docker, loop, tails, journal, got,
                   crashes, missing>>

Assigned == {a \in Attempt : assignment[a] = "assigned"}

------------------------------------------------------------------------------
(* runSupervisor *)

\* activeByAttempt
Active == {a \in Attempt : tail[a] # "off"}

\* startJournalTail from the offset of the journal; the buffer begins empty.
StartTail(as, r) ==
    /\ tail' = [a \in Attempt |-> IF a \in as THEN "reading" ELSE tail[a]]
    /\ tailRun' = [a \in Attempt |-> IF a \in as THEN r[a] ELSE tailRun[a]]
    /\ first' = [a \in Attempt |-> IF a \in as THEN saved[a] ELSE first[a]]
    /\ offset' = [a \in Attempt |-> IF a \in as THEN saved[a] ELSE offset[a]]
    /\ batch' = [a \in Attempt |-> IF a \in as THEN {} ELSE batch[a]]
    /\ stopped' = [a \in Attempt |-> IF a \in as THEN FALSE ELSE stopped[a]]

Oldest(rs) == CHOOSE r \in rs : \A q \in rs : r <= q

\* Of several rows of an attempt the first one is resumed.
Start ==
    /\ step = "down"
    /\ LET recorded == {a \in Attempt : env[a] # {}}
       IN  StartTail(recorded, [a \in recorded |-> Oldest(env[a])])
    /\ step' = "loop"
    /\ UNCHANGED <<team, docker, doing, toCancel, toStart, journal, got, bounds>>

\* "finishing": the batch ends with the sentinel, attempt.finished.
Posting == {a \in Attempt : tail[a] \in {"posting", "finishing"}}

\* The body of postAttemptEvents: the lines of the container the tail reads.
Posted(a, r, l) == r = tailRun[a] /\ l \in batch[a]

\* The team passes the batches of the tails of as on to TaskCell, which takes
\* them.
Accept(as) ==
    got' = [a \in Attempt |-> [r \in Run |-> [l \in Line |->
              IF a \in as /\ Posted(a, r, l)
              THEN got[a][r][l] + 1 ELSE got[a][r][l]]]]

\* A failed poll ends the process as well: main().catch exits.  A post under
\* way may still be accepted.
Crash ==
    /\ step # "down"
    /\ crashes < MaxCrashes
    /\ crashes' = crashes + 1
    /\ step' = "down" /\ doing' = NoAttempt
    /\ toCancel' = {} /\ toStart' = {}
    /\ \E as \in SUBSET Posting : Accept(as)
    /\ tail' = [a \in Attempt |-> "off"]
    /\ batch' = [a \in Attempt |-> {}]
    /\ UNCHANGED <<team, docker, tailRun, first, offset, stopped, journal,
                   failures, missing>>

\* pollMachine of the team cell: a full or draining machine gets nothing.
Poll ==
    /\ step = "loop"
    /\ ~draining
    /\ Cardinality(Assigned) < Capacity
    /\ \E given \in SUBSET Attempt :
         /\ Cardinality(given) =
              IF \E a \in Attempt : assignment[a] = "pending" THEN 1 ELSE 0
         /\ \A a \in given : assignment[a] = "pending"
         /\ assignment' = [a \in Attempt |-> IF a \in given THEN "assigned"
                                             ELSE assignment[a]]
         /\ toStart' = given
         /\ toCancel' = {a \in Assigned \cup given : cancel[a]}
    /\ step' = "answer"
    /\ UNCHANGED <<cancel, draining, toDrain, docker, doing, tails, journal, got,
                   bounds>>

\* A cancel for an attempt that is not active is only noted.
IgnoreCancel(a) ==
    /\ step = "answer" /\ a \in toCancel \ Active
    /\ toCancel' = toCancel \ {a}
    /\ UNCHANGED <<team, docker, step, doing, toStart, tails, journal, got, bounds>>

\* await journalTail.stop()
StopTail(a) ==
    /\ step = "answer" /\ a \in toCancel \cap Active
    /\ stopped' = [stopped EXCEPT ![a] = TRUE]
    /\ step' = "stopping" /\ doing' = a
    /\ UNCHANGED <<team, docker, toCancel, toStart, tail, tailRun, first,
                   offset, batch, journal, got, bounds>>

\* stopContainer, whose failure is swallowed, and what follows it.  The row
\* of the environment stays active: a second row says "cancelled".
StopContainer ==
    /\ step = "stopping"
    /\ tail[doing] = "ended"
    /\ \/ /\ container' = [container EXCEPT ![doing] =
                             IF @ = "running" /\ tailRun[doing] = run[doing]
                             THEN "gone" ELSE @]
          /\ UNCHANGED failures
       \/ Fails /\ UNCHANGED container
    /\ tail' = [tail EXCEPT ![doing] = "off"]
    /\ toCancel' = toCancel \ {doing}
    /\ step' = "answer" /\ doing' = NoAttempt
    /\ UNCHANGED <<team, run, written, toStart, tailRun, first, offset, batch,
                   stopped, journal, got, crashes, missing>>

\* createRunnerContainer: the name of the container is that of the attempt.
CreateContainer(a) ==
    /\ step = "answer" /\ toCancel = {} /\ a \in toStart
    /\ container[a] # "running"
    /\ run[a] < MaxRuns
    /\ run' = [run EXCEPT ![a] = @ + 1]
    /\ container' = [container EXCEPT ![a] = "running"]
    /\ written' = [written EXCEPT ![a] = 0]
    /\ step' = "starting" /\ doing' = a
    /\ UNCHANGED <<team, toCancel, toStart, tails, journal, got, bounds>>

\* startJournalTail and recordEnvironment.  A tail of an earlier run may be
\* left over; nothing stops it and it has nothing more to read.
RecordEnvironment ==
    /\ step = "starting"
    /\ \/ doing \in Posting /\ Accept({doing})
       \/ UNCHANGED got
    /\ StartTail({doing}, run)
    /\ env' = [env EXCEPT ![doing] = @ \cup {run[doing]}]
    /\ toStart' = toStart \ {doing}
    /\ step' = "answer" /\ doing' = NoAttempt
    /\ UNCHANGED <<team, docker, toCancel, saved, bounds>>

EndTurn ==
    /\ step = "answer" /\ toCancel = {} /\ toStart = {}
    /\ step' = "loop"
    /\ UNCHANGED <<team, docker, doing, toCancel, toStart, tails, journal, got, bounds>>

------------------------------------------------------------------------------
(* startJournalTail *)

\* The exec of the tail lives: its container still runs.
Attached(a) == tailRun[a] = run[a] /\ container[a] = "running"

\* Mutant: the rest of a chunk after its last line feed is dropped.
EndsDropRest(a, p) == {l \in Line : offset[a] <= 2 * (l - 1) /\ 2 * l <= p}

\* The lines whose end is read when the tail goes on to position p.
Ends(a, p) == {l \in Line : offset[a] < 2 * l /\ 2 * l <= p}

\* A line is whole in the buffer if the tail read its beginning, too.
Whole(a, l) == first[a] <= 2 * (l - 1)

\* Mutant: the offset is saved once the lines are posted.
SaveOffsetLater(a, q) == saved' = [saved EXCEPT ![a] = offset[a]]

SaveOffset(a, q) == saved' = [saved EXCEPT ![a] = q]

\* What the count may be after a chunk up to p: exact, or more by what was no
\* byte of the file.
Counted(a, p) ==
    LET exact == saved[a] + (p - offset[a])
    IN  {q \in Position : exact <= q \/ q = 2 * Lines}

\* One chunk; the count is saved before its lines are posted.  A line that is
\* garbled is posted as raw text, so a sentinel may go unseen; the lines
\* after the sentinel that is seen are dropped.
ReadChunk(a) ==
    /\ tail[a] = "reading" /\ ~stopped[a] /\ Attached(a)
    /\ \E p \in Position, seen \in SUBSET Sentinels :
         LET whole == {l \in Ends(a, p) : Whole(a, l)}
         IN  /\ offset[a] < p /\ p <= 2 * written[a]
             /\ seen \subseteq whole
             /\ \E q \in Counted(a, p) :
                  /\ SaveOffset(a, q)
                  /\ q = saved[a] + (p - offset[a]) =>
                       seen = Sentinels \cap whole
             /\ offset' = [offset EXCEPT ![a] = p]
             /\ batch' = [batch EXCEPT ![a] =
                            {l \in whole : \A s \in seen : l <= s}]
             /\ tail' = [tail EXCEPT ![a] = IF Ends(a, p) = {} THEN "reading"
                                            ELSE IF seen = {} THEN "posting"
                                            ELSE "finishing"]
    /\ UNCHANGED <<team, docker, loop, tailRun, first, stopped, env, got, bounds>>

\* The probe for the file changes nothing, whatever it finds.  A tail that
\* finds no file says so and ends; its message is posted and counted, and the
\* next exec starts behind it.
MissesFile(a) ==
    /\ tail[a] = "reading" /\ ~stopped[a] /\ Attached(a)
    /\ written[a] = 0
    /\ missing < MaxMissing
    /\ missing' = missing + 1
    /\ \E q \in Position :
         /\ saved[a] < q
         /\ saved' = [saved EXCEPT ![a] = q]
         /\ offset' = [offset EXCEPT ![a] = q]
         /\ first' = [first EXCEPT ![a] = q]
    /\ batch' = [batch EXCEPT ![a] = {}]
    /\ tail' = [tail EXCEPT ![a] = "posting"]
    /\ UNCHANGED <<team, docker, loop, tailRun, stopped, env, got, crashes, failures>>

\* The sentinel ends the tail.
PostEvents(a) ==
    /\ a \in Posting
    /\ Accept({a})
    /\ batch' = [batch EXCEPT ![a] = {}]
    /\ tail' = [tail EXCEPT ![a] = IF @ = "finishing" THEN "ended" ELSE "reading"]
    /\ UNCHANGED <<team, docker, loop, tailRun, first, offset, stopped, journal,
                   bounds>>

\* The request or its answer is lost, or the events are refused: a new exec
\* starts behind what was counted.
PostFails(a) ==
    /\ a \in Posting
    /\ Fails
    /\ Accept({a}) \/ UNCHANGED got
    /\ batch' = [batch EXCEPT ![a] = {}]
    /\ tail' = [tail EXCEPT ![a] = IF stopped[a] THEN "ended" ELSE "reading"]
    /\ offset' = [offset EXCEPT ![a] = saved[a]]
    /\ first' = [first EXCEPT ![a] = IF saved[a] = offset[a] THEN @ ELSE saved[a]]
    /\ UNCHANGED <<team, docker, loop, tailRun, stopped, journal, crashes, missing>>

\* stopped is looked at only when a chunk comes or the stream ends.
NoticeStop(a) ==
    /\ tail[a] = "reading" /\ stopped[a]
    /\ Attached(a) => offset[a] < 2 * written[a] \/ written[a] = 0
    /\ tail' = [tail EXCEPT ![a] = "ended"]
    /\ UNCHANGED <<team, docker, loop, tailRun, first, offset, batch, stopped,
                   journal, got, bounds>>

------------------------------------------------------------------------------
(* runner/src/main.ts *)

WriteLine(a) ==
    /\ container[a] = "running" /\ written[a] < Lines
    /\ written' = [written EXCEPT ![a] = @ + 1]
    /\ UNCHANGED <<team, run, container, loop, tails, journal, got, bounds>>

\* process.exit after the sentinel, or the container dies before it.
Exit(a) ==
    /\ container[a] = "running"
    /\ IF written[a] = Lines THEN UNCHANGED failures ELSE Fails
    /\ container' = [container EXCEPT ![a] = "gone"]
    /\ UNCHANGED <<team, run, written, loop, tails, journal, got, crashes, missing>>

------------------------------------------------------------------------------
(* drainSupervisor: it releases environments by the id of their container, *)
(* which is no environment's id, so the rows stay active.                  *)

Drain ==
    /\ ~draining
    /\ draining' = TRUE
    /\ UNCHANGED <<assignment, cancel, toDrain, docker, loop, tails, journal, got,
                   bounds>>

\* The list is made once; a container recorded later is not on it.
ListEnvironments ==
    /\ draining /\ toDrain = {}
    /\ toDrain' = {p \in Attempt \X Run : p[2] \in env[p[1]]}
    /\ UNCHANGED <<assignment, cancel, draining, docker, loop, tails, journal, got,
                   bounds>>

DrainContainer(a, r) ==
    /\ <<a, r>> \in toDrain
    /\ toDrain' = toDrain \ {<<a, r>>}
    /\ \/ /\ container' = [container EXCEPT ![a] =
                             IF @ = "running" /\ run[a] = r THEN "gone" ELSE @]
          /\ UNCHANGED failures
       \/ Fails /\ UNCHANGED container
    /\ UNCHANGED <<assignment, cancel, draining, run, written, loop, tails,
                   journal, got, crashes, missing>>

------------------------------------------------------------------------------
TurnStep ==
    \/ Poll
    \/ \E a \in Attempt : IgnoreCancel(a) \/ StopTail(a) \/ CreateContainer(a)
    \/ StopContainer
    \/ RecordEnvironment
    \/ EndTurn

TailStep(a) == ReadChunk(a) \/ MissesFile(a) \/ PostEvents(a) \/ NoticeStop(a)

Next ==
    \/ TurnStep
    \/ Start
    \/ Crash
    \/ Drain
    \/ ListEnvironments
    \/ \E a \in Attempt :
         \/ QueueTaskAssignment(a)
         \/ RequestCancel(a)
         \/ Requeue(a)
         \/ TailStep(a)
         \/ PostFails(a)
         \/ WriteLine(a)
         \/ Exit(a)
         \/ \E r \in Run : DrainContainer(a, r)

Spec == Init /\ [][Next]_vars

------------------------------------------------------------------------------
(* The type of the tables of the team, the journal and the tails. *)
TypeOK ==
    /\ assignment \in [Attempt -> {"absent", "pending", "assigned"}]
    /\ cancel \in [Attempt -> BOOLEAN] /\ draining \in BOOLEAN
    /\ toDrain \subseteq Attempt \X Run
    /\ run \in [Attempt -> 0 .. MaxRuns]
    /\ container \in [Attempt -> {"none", "running", "gone"}]
    /\ written \in [Attempt -> 0 .. Lines]
    /\ step \in {"down", "loop", "answer", "stopping", "starting"}
    /\ doing \in Attempt \cup {NoAttempt}
    /\ toCancel \subseteq Attempt /\ toStart \subseteq Attempt
    /\ tail \in [Attempt -> {"off", "reading", "posting", "finishing",
                            "ended"}]
    /\ tailRun \in [Attempt -> 0 .. MaxRuns]
    /\ first \in [Attempt -> Position] /\ offset \in [Attempt -> Position]
    /\ batch \in [Attempt -> SUBSET Line] /\ stopped \in [Attempt -> BOOLEAN]
    /\ env \in [Attempt -> SUBSET Run] /\ saved \in [Attempt -> Position]
    /\ got \in [Attempt -> [Run -> [Line -> Nat]]]
    /\ crashes \in Nat /\ failures \in Nat /\ missing \in Nat

(***************************************************************************)
(* No line of a journal file becomes an attempt event twice: not after a   *)
(* crash of the supervisor in the middle of a post, not when the answer of *)
(* a post is lost, not when the same attempt is run a second time, however *)
(* much the saved count is ahead of the file.                              *)
(***************************************************************************)
ReportedOnce ==
    \A a \in Attempt, r \in Run, l \in Line : got[a][r][l] <= 1

(***************************************************************************)
(* Within one exec the tail passes over no line: as long as no post, stop, *)
(* container or supervisor failed and every tail found its file, what lies *)
(* before the position of a tail was accepted or is being posted, wherever *)
(* the chunks were cut and whatever they were counted as.  The second copy *)
(* of the sentinel is excepted.  Lines the tail has not read yet when the  *)
(* container goes are not meant, and a garbled line counts as accepted.    *)
(***************************************************************************)
NothingSkipped ==
    crashes = 0 /\ failures = 0 /\ missing = 0 =>
      \A a \in Active, l \in Line :
        l # Lines /\ 2 * l <= offset[a] =>
          got[a][tailRun[a]][l] = 1 \/ l \in batch[a]
==============================================================================
