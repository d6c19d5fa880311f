# Verification of the celld Code Mode workbench

TLA+ models of the cells (Durable Objects) that hold the state of the
workbench, TLC configurations that check them on small instances, and proofs
for every instance, checked by TLAPS. Paths below are relative to the
repository. `docs/` says what the system is meant to do; every definition here
is translated from the code.

## The system

A cell is a single-threaded object with a SQLite database. What a handler does
between two `await`s is atomic, at every `await` other handlers may run, and
losing the isolate drops all suspended handlers and all fields of the object
but not the database. That is the source of nearly everything that is hard
here: checks made on one side of an `await` and used on the other, rows that
outlive the process that was to finish them, one alarm per cell shared by
several duties, and two tables in two cells that describe the same work.

| Component (code) | State | Operations | Interacts with | What is hard |
|---|---|---|---|---|
| AgentCell: runs, queue, commands (`worker/agent-cell.ts`, `store.ts`, `runtime.ts`, `commands/`) | `runs`, `run_queue`, `commands`, `meta.queue_paused`; `this.abort`, `currentGeneration` | send, stop, resume_queue, remove_queued, recovery on every command, the conversation process under `ctx.waitUntil` | model provider, outbox, directory | admission after the echo was awaited; four places that admit runs; isolate loss; stop racing the last chunk |
| AgentCell: approvals (`host/notify.ts`, `commands/approvals.ts`) | `operations`, `notifications` | propose, approve, deny, expire; by command and by `POST /approvals` | the run that proposed | repeated and racing decisions |
| AgentCell: schedules and inbox (`agent-cell.ts`, `store.ts`) | `schedules`, `schedule_occurrences`, `inbox`, the alarm | create, pause, reset by route and by tool; alarm, dispatch, retry, inbox turns, pruning | programs of the chat, TaskCell results | one alarm set by many; a crash between dispatch and end; requests served while a snippet runs |
| Code Mode (`isolate.ts`, `runtime.ts`, `capabilities.ts`, `host/`) | executions, `snippet_versions`, the shared budget | programs, snippets that test and invoke snippets, tool calls behind one gate | AgentCell store | calls that outlive their timeout; grants that change under a program; contexts inherited down the calls |
| Outbox publisher (`streams/publisher.ts`) | outbox rows, epoch, sequence | enqueue, flush, reconcile | Durable Streams sidecar | crash between append and ack; two flushes at once |
| TaskCell (`task-cell.ts`, `task/`) | `tasks`, `attempts`, `leases`, `artifacts`, lease alarm | create, attempt, renew, events, cancel, signal, complete, expire | supervisors, TeamCell, AgentCell inbox | stale copies across the hash of a token; retry against completion; one alarm for all leases |
| TeamCell: machines and assignments (`team-cell.ts`, `team/sweep.ts`, `team/machines.ts`) | `machines`, `task_assignments`, sweep alarm | enroll, drain, revoke, poll, heartbeat, queue, cancel, sweep | supervisors, TaskCell | sweep against late machines; stale copies in polls; capacity |
| TeamCell: members, invitations, tokens (`team/invitations.ts`, `team/enrollment.ts`, `team/roles.ts`) | `teams`, `memberships`, `invitations`, `enrollment_tokens` | bootstrap, remove, invite, accept, revoke, enroll | users, supervisors | roles checked before a hash is awaited, tokens used across one |
| TeamCell: conversations and state stream (`team/activity.ts`, `team/state-outbox.ts`) | `conversations`, `state_outbox` | create, link, rename, archive, activity, publish | UI, AgentCells | snapshot against deltas of interleaved handlers |
| Delegation (`delegation/client.ts`) | none of its own | submit, cancel, notify | all three cells | partial failure between cells |
| DirectoryCell (`directory-cell.ts`) | `chats` | create, archive, bootstrap, pushes of activity | AgentCells | pushes that overtake each other; two-step creation |
| Supervisor (`supervisor/src`) | SQLite journal of environments and offsets | loop: poll, cancel, start; tails; drain | TeamCell, TaskCell, containers | restart between post and offset; chunks that end in a line |
| Runner (`runner/src`) | one NDJSON file | a sequential program | Supervisor | it may die before its sentinel |
| Identity, routes, UI | sessions; views | | | no protocol of their own |

## The modules

| Module | Models | Proofs |
|---|---|---|
| `AgentRuns` | the run slot, queue, commands, conversation processes and approvals of one AgentCell | `AgentRunsProofs` |
| `RunSlot` | abstract: one slot, a FIFO queue of limited length in front, every message settled at most once | |
| `AgentRunsSlot` | the refinement mapping from `AgentRuns` to `RunSlot` | `AgentRunsProofs` |
| `Schedules` | schedules, occurrences, the alarm and the inbox of one AgentCell | `SchedulesProofs` |
| `CodeMode` | the programs and snippets one AgentCell executes | `CodeModeProofs` |
| `TaskCell` | tasks, attempts, leases, cancellation and the lease alarm of one TaskCell | `TaskCellProofs` |
| `MachinePool` | machines, assignments and the sweep of one TeamCell, with the supervisors as far as it notices them | `MachinePoolProofs` |
| `Supervisor` | the loop, journal, tails and containers of one machine | `SupervisorProofs` |
| `Delegation` | composition: an AgentCell that submits and cancels tasks, the TaskCell, the TeamCell and the machine, one step for each call between them | `CodeModeProofs` |
| `Membership` | owner, members, invitations and enrollment tokens of one team | `MembershipProofs` |
| `TeamState` | conversations of a team, and the stream its clients read | `TaskCellProofs` |
| `Directory` | composition: one DirectoryCell and the AgentCells of its chats | `AgentRunsProofs` |
| `Outbox` | the outbox of a cell, its overlapping flushes, the requests under way and the stream | `OutboxProofs` |

Each `MC` module extends its module with what TLC needs: the symmetry set, in
`MCCodeMode` the sets of grants.

A proof module extends the module it is about. Three of them extend a second
one as well, with which the first shares no variable: `AgentRunsProofs` ends with
the proofs about `Directory`, `CodeModeProofs` with those about `Delegation`,
`TaskCellProofs` with those about `TeamState`. The specifications of these three
are therefore named apart: `DirInit`, `DirNext`, `DirSpec`, `DirTypeOK`, and the
same with `Del` and `Team`.

The parts fit together as the code does. `AgentRuns` and `Schedules` share one
cell and its programs: a run is only "active or not" in `Schedules`, a program
only "any sequence of tool calls" in `CodeMode`. `TaskCell`, `MachinePool` and
`Supervisor` look inside one cell, or one process, and take the others as any
sequence of calls; `Delegation` composes the four along their calls and takes
each call as one step. `Outbox` and `TeamState` share the flush: `Outbox` says
which requests the epochs of the server refuse, and what gets marked; `TeamState`
lets every request of an overlapping, failed or lost flush arrive, repeating what
is in the stream, and says what its reader sees.

### AgentRuns

One action is one synchronous stretch of a handler. `send` is two:
`SendRecord(m)` inserts the command row and the message
(`agent-cell.ts:426-434`) and `SendAdmit(m)` runs after the echo was awaited;
it refuses, queues or starts (`Refuse`, `Enqueue`, `StartSent`). A message with
a suspended `admitSend` is in `echoing`, an approval whose `runHost` has not
resolved yet is in `deciding`. `ReceiveCommand` is `recoverOrContinue`, which
every command runs first and which a client may trigger at any time; `awake`
says that one was received since the isolate was loaded, a guard of all the
commands. `AdvanceQueueIfReady` is a helper and not an action: it is part of
each of the three actions that call it.

The process of run `g` is `pc[g]`: it streams, may propose a notification, then
closes, fails or is cancelled; after its final status is written it is `ended`,
clears `this.abort` (`flushing`) and looks at the queue. The outcome of the
provider's stream is free, even after an abort. `status`, `cancelled`,
`userText` are columns of `runs`; `ticket` is `run_queue.created_at` as an
order of insertion; `op` and `notified` are the operation of a run and the
number of notifications delivered for it.

`waiting_approval` is left out because no step reaches it: `isolate.ts:217-219`
turns errors of host bindings into strings before `runtime.ts:346` could see
them.

### TaskCell

Handlers that hash a lease token are records in `suspended`: the row they have
read travels with them, as `status` and `lease`, and `RenewLease`,
`SubmitEvents`, `SubmitCancelled` and `RejectFenced` decide on that copy where
the code does and on the tables where it reads again. `BeginAttempt` and
`CommitAttempt` are `createAttempt` before and after its await. `Alarm` is
`applyLeaseExpiry` and the re-arming; `Restart` runs the constructor, which
arms as well. Time is what is left of a lease, so that a state does not
remember the clock; `lease = 0` is the edge where the fence (`<=`) refuses and
the alarm (`<`) does not yet collect.

### MachinePool

`BeginRequest` is `requireMachineAuth` up to the hash; what resumes runs on the
copy of the machine's row. A poll that assigns something (`PollAssigns`) awaits
the publication and only then reads the cancels (`PollEnds`); a heartbeat
(`Heartbeat`, `HeartbeatEnds`) awaits the renewals before it arms the sweep, and
the sweep (`Sweep`, `SweepEnds`) its publications before it arms the next.
`suspended` are the requests at an await, with a `stage`. `PollIdle` is the early
return for a machine that may not work or is full: no work and no cancels.
Assignments never leave `pending` and `assigned`, because no code writes any
other status.

The supervisor is as much of `run.ts` as the pool can notice: it sends a
heartbeat and a poll in turn (`beats`), awaits one answer at a time (`awaits`),
and obeys it before it goes on (`orders`): cancels first, then the starts.
`StopRunner` needs the tail of the container to end, which needs a line of the
runner, so nothing forces it. `running` is `activeByAttempt`, `recorded` the
active rows of the journal: a supervisor that starts again takes up all of them,
cancelled ones included. The process ends when a poll fails; a heartbeat that
fails is caught.

### Outbox

A flush (`publisher.ts:92-185`) is a small process: `BeginFlush` reads the
pending rows, `Connect` reads the row of the publisher, raises the epoch when a
sequence number of it was saved and sends, `MarkAcked` and `FlushThrows` are the
answers with and without an offset, `Reconcile`, `ReadTail` and
`MarkAckedByFingerprints` the way through `StaleEpochError`; `ConnectFails` and
`NetworkError` are its failures. A flush begins for each queued message, after
recovery, at the end of each run and in each alarm (`agent-cell.ts:451`, `:742`,
`:790`, `:140`), so flushes overlap; each keeps its own copy of the rows
(`remaining`) and of the publisher (`mine`).

The server and its client library are external. They are modelled from the
comments of the code (`publisher.ts:106-108`, `:129-131`): a new epoch is
appended, the same epoch and sequence number again is a duplicate and comes
back without an offset, an older epoch is refused with the server's. `requests`
is the set of appends on their way; after a crash or a network error a request
belongs to nobody (`NoFlusher`) and may still arrive, at any time. The stream is
a sequence of batches and an offset a number of batches. A batch is never split,
so a flush uses sequence number 0 only.

### Schedules

`AlarmFires` is `alarm()` up to its first await: the recovery, the inbox turns
and the list of due rows. The loop over that list awaits only the execution of
a snippet, so `Next` lets other steps in while the handler is idle, executing or
at the end of an execution, and not while it is `listing`. `Dispatch`, `Effect`,
`Succeed`, `Fail` and `Skip` are the ways through `createOccurrence`,
`invokeSnippet` and `finishOccurrence`; `PassBy` is an occurrence that has
ended. `fired` counts effects, wherever the failure that follows them. The list
is a copy: what the routes and tools do to a schedule meanwhile is not seen, as
in the code. Programs run in a run, in the handler, and outside both:
`InvokeSnippet` is `POST /snippets/invoke` (`agent-cell.ts:933-950`), and `EndRun`
and `Fail` may leave a nested program whose host call timed out
(`isolate.ts:203-208`); `programs` counts them, and the generation of the next run
fences them. Their tools create and resume schedules and arm nothing. `unarmed`
are the active schedules written while neither the handler nor a process was
there to arm the alarm at its end; any arming empties it. A process outlives the
row of its run: between the two it awaits the flush, and `ProcessEnds` arms the
alarm. The inbox is a set of rows, ordered by `at`, the order of their
`created_at`. `Crash` arms the alarm as the constructor does and leaves
occurrences `dispatched`. Time counts ticks, with delays that reach the present
tick.

### CodeMode

An execution has the context the code hands it: `mode`, `allowed`, `generation`,
the abort signal, the budget it shares (`owner`) and the version under test.
`Gate` is `requireCap`: cancellation, fence, grant, then the charge on the
budget. `HostCallTimesOut` takes the call from the isolate's count and leaves it
going in the host, so what it started may outlive its program. `wrote` is the
execution that changed memory or tasks in the step, for `TestIsolation`. The
isolate's own count of calls is left out: it can only end a program sooner.

### Supervisor

The loop of `run.ts` is `Poll`, then the cancels (`IgnoreCancel`, `StopTail`,
`StopContainer`), then the assignments (`CreateContainer`, `RecordEnvironment`),
then `EndTurn`. Each tail is a process of its own: `ReadChunk` saves the count and
only then `PostEvents` or `PostFails` ends the post. Positions are half lines, so
a chunk may end within one; `first` is where the tail began, because the
beginning of a cut line is lost with the buffer. `Crash` ends the process with
posts that may still arrive; `Start` resumes the first active row of each
attempt. `Drain` and its steps are the other process on the same journal.

`offset` is where a tail is in the file and `saved` what the journal counts. The
code counts the bytes of the text it has decoded, of everything the exec prints:
a cut character becomes U+FFFD and frames and messages of stderr are counted as
well (`journal-tail.ts:66-97`), so `saved` grows by what was read of the file or
by any amount more (`Counted`), and a garbled sentinel may go unseen. Nothing
checks the exit code of the probe, so a tail may begin before its file is there:
`MissesFile` posts the message of `tail` and counts it. A new exec begins at
`saved`, ahead of the file's position if the count was. The sentinel is written
twice, because `console.log` is patched (`runner/src/main.ts:42-65`); what comes
after the one that is seen is dropped. Two things are external: `tail -c +N -f`
prints nothing that lies before byte N, and that it would begin anew in a file it
finds truncated is not modelled, as nothing truncates the file.

### Delegation

`submit[t]` is where `submitDelegation` is among its three calls; a call may
fail before or after its effect. The commands that cancel go through the two
calls of `cancelDelegation`. Each handler of TaskCell and TeamCell is one step
here: what interleaves within a cell is in their own modules. `settled` are the
tasks whose cancellation came, both calls, after the submission.

`machine` is approved, drains, or has lost its supervisor for good. One `Poll`
assigns and brings the cancels, unless the machine drains or is full; then the
supervisor obeys it before it polls again (`Obeying`): it stops each `stopping`
runner, reports (`reports`), and starts what it was given. `StopRunner` is the end
of `journalTail.stop()`, which may never come, and `stopContainer`, which swallows
every failure of docker (`docker.ts:104-111`); either way the runner is
`released`: the supervisor has let go of it and reports `attempt.cancelled`,
whatever the container does. `completed` stands for succeeded and failed.

### Membership

Requests that wait for a hash are in `call`. Roles are checked before the wait
where a token is made and tokens are looked up after it where one is used, in
the order of the code. `admitted` and `overlapped` are history variables.

### TeamState

A handler changes a row (`Mutate`), enqueues events one by one (`Enqueue`, each
behind the await of a hash) and flushes. `todo[h]` are the events still to be
enqueued. The first publish of a team emits a snapshot instead of the event.

A flush reads what is not marked (`from`, `upto`), waits for the connection
(`Connect`) and for the answer (`Arrive`), and marks (`MarkAcked`); a flush that
fails, or a loss of the isolate, may leave its request to arrive late
(`ArriveLate`). Flushes overlap, so one that waited while another published
brings rows again after newer ones, all of them or what a reconciliation left of
them (`Receive`). What a reader makes of the stream needs only the last event of
each conversation, `latest`; `again` are the conversations for which that event
was in the stream before. `View` applies it.

`blurred` records, when it happens, that a conversation is one of those the code
cannot show (see the divergences); `ViewSettles` speaks of the others, and of
those whose last event is no repetition.

### Directory

`call[r]` is the request to an AgentCell that a handler of the directory awaits,
sent, answered or failed; an answer may be lost (`heard`). `row` and the agents
(`booted`, `closed`) are written in two steps. `pushes` is a set, so they
overtake each other. An agent inserts a message (`AgentSays`: `agent-cell.ts:426`,
`runtime.ts:279`) and pushes in another step (`AgentPushes`), if ever: the message
may be refused, or its handler lost at an await. `pushed` is the last message a
push has told of. A process and the alarm go on in an archived chat. `excused`
holds the chats for which a call failed, or which were bootstrapped round the
directory.

### Shared conventions

Inputs come from small sets; requests that are refused with no change (a wrong
token, a wrong generation, a repeated command) are stutters and left out. All
runs set `CHECK_DEADLOCK FALSE`: the bounds on generations, attempts, crashes
and messages end every instance, and a cell without requests is idle.

## The runs

| Run | Question |
|---|---|
| `AgentRuns_safety` | Is the slot exclusive, each message served once, no running row without a process; is it `RunSlot`, with its limit? |
| `AgentRuns_liveness` | Does a stop end, and does the queue drain, while the isolate lives? |
| `Schedules_alarm` | Does the alarm cover every active schedule that was not written outside runs and alarm, is an effect repeated only by a crash, is no accepted event lost, does what is due end? |
| `CodeMode_safety` | Do nested programs share one budget, does a test keep to its scratch copy, does no snippet gain a capability? |
| `TaskCell_leases` | Is only the newest attempt live, do both status columns agree, is an ended attempt final, is an expired lease collected? |
| `MachinePool_liveness` | Do status and holder agree, is a lone silent machine found, does a supervisor with room let go of what was cancelled? |
| `Supervisor_journal` | Is no line reported twice, and none passed over unless something failed? |
| `Delegation_cancel` | Does a cancellation, or a submission that failed half-way, free the conversation, and do the cells agree on what was let go of? |
| `Membership_safety` | Is there one owner, was every member invited, does an invitation admit one, does only an overlap use a token twice? |
| `TeamState_safety` | Does a reader of the stream end with the rows of the cell, unless a flush repeats an old one, and does a revision name one content? |
| `Directory_safety` | Is the limit of chats kept, are listed chats open, do previews settle at what was pushed? |
| `Outbox_safety` | Is a row marked only when it is in the stream, and are the rows in order, with overlapping flushes, late requests and a crash? |

All of them hold.

### Bounds

`AgentRuns_safety` has four messages, two generations and a queue of two: one
message runs, two wait (so that order matters) and the fourth is refused. Two
generations are the run that ends and the one admitted behind it, whose
controller the first may clear. One crash gives rows without a process; a
second would repeat the same from a state the first already allows.
`Notifying = {1}`: one operation sees every order of decisions. The liveness
run drops the third and fourth message and the crash, since no message may
outlive the generations there, and turns `RouteDeny` on.

`TaskCell_leases` has one task and two suspended handlers, which is what two
creations, or a completion against a late batch, need. It has two attempts, and
`RetryGeneration` is 2 and not the code's 3 (`lease.ts:21`), so that the last
failure is reached. A lease of two ticks and an alarm of one let the alarm come
before, at and after the end of the lease: valid, at the edge (`lease = 0`),
expired. `ExpiredIsCollected` needs the single task: with two live attempts each
renewal of one moves the alarm that would collect the other.

`MachinePool_liveness` has one machine with room for two assignments, and two of
them: with one it has room and is told of cancels, with both it is full and is
not. Two requests under way are one of the supervisor and one of a supervisor
that died before. Two restarts are shared by the isolate and the supervisor. With
one machine, that the heartbeats of others move the sweep is not exercised (see
the divergences). That machines do not disturb each other's assignments is
proved for any number of them (`AssignedMeansHeld`, `CapacityKept`).

`Supervisor_journal` has one attempt, as attempts share only the loop; three
lines, the last two of them sentinels, so that a chunk can end in, before and
after a line between two others; two runs, two crashes and two failures, so that
the second run meets what the first left, with a restart before and after; one
tail that misses its file. The count is exact, or any amount ahead, up to the end
of the file, beyond which all counts are alike.

`Schedules_alarm` has one schedule, which may be created when due or one tick
ahead and recurs after one; the alarm's minimum over several is proved
(`ActiveIsCovered`). Two events and an inbox of one: the second prunes. One
process and one program outside of it: a second run that starts while the first
flushes is not exercised here, and is covered by the proof, which has no such
bound.

`CodeMode_safety` has three executions, which is a program, a snippet it invokes
or tests and a snippet within that, or two roots that share a run; a budget of
four calls, which they exhaust; three capabilities, of which one comes and goes.

`Delegation_cancel` has two tasks and a fan-out of one, so that the second is
queued behind, or races with, the first; one fault at any call, or the death of
the supervisor; a machine with room for two, which one task leaves with room and
two fill.

`Membership_safety` has three users (owner, admin, invited), two invitations,
one token and two requests, so that enrollments overlap, and three machines: a
second and a third use of the token.

`TeamState_safety` has two conversations, one older than the publisher, two
handlers, so that events of one enter between those of the other and the flush of
one overtakes that of the other; one failed flush or crash, which leaves a late
request; four events in the outbox and in hand together, so two after a snapshot
of one conversation; revisions stop at 1, which two stale writers compete for.

`Directory_safety` has two chats, one of them the seeded one, a limit of one and
two requests; two pushes, which overtake each other; one message, inserted
before, between or after them; two faults.

`Outbox_safety` has three rows, so that a flush can have some of them and leave
some, with two payloads, so that fingerprints collide; two flushes that overlap,
three epochs after the first, a crash and two failed requests.

### Fairness

* `AgentRuns`: processes and admissions started are kept alive by
  `ctx.waitUntil`, their awaits are local or bounded by timeouts and
  `maxIterations(6)`; nothing is assumed of clients. `RecoveringSpec` adds that
  commands keep coming.
* `TaskCell`: time goes on and the runtime delivers a due alarm and retries it.
* `MachinePool`: time goes on, a due alarm is delivered and its handler ends.
  Nothing is assumed of supervisors or their requests: one that waits for the tail
  of a silent runner sends no heartbeat, and then the sweep finds its machine.
* `Schedules`: a due alarm is delivered and its handler goes on, since the
  execution of a snippet ends (`executionTimeoutMs`).
* `Delegation`: a machine that is approved, has room and whose supervisor is not
  obeying an answer polls, since its loop does so every two seconds; and a lease
  that nobody renews, because the supervisor has died, hangs in a stop or has let
  go, is collected. Nothing is assumed of docker, tails, submissions, commands or
  runners.
* Failures and crashes are never fair.

## What is proved

`AgentRunsProofs` proves, for any set of messages, any number of generations
and crashes and any queue limit:

* `TypeCorrect`: the type invariant.
* `SlotIsExclusive`: only the newest generation is active.
* `RecoveryLeavesNoOrphan`: after a command was received, a running row has a
  process.
* `MessagesServedOnce` and `QueueServedInOrder`.
* `DenialIsFinal`, and, assuming that decisions come as commands only
  (`~RouteDeny`), `JournalAgrees`. The assumption is needed: `POST /approvals`
  denies without comparing the status (see below).

None of these is inductive as stated; the strengthenings are named in the
module, each a fact about the code that a change could break:

* `SlotInv`: the types, and an active generation is the newest. Admission checks
  that nothing is active in the block that inserts, which is why the await of
  the echo does no harm.
* `RecoveryInv`: a running row of an awake cell has a process, because an empty
  `this.abort` makes recovery fail the row. `AsleepIdle` says that a cell
  that has received nothing has no processes.
* `ServiceInv`: a message that is echoed, waits or has run has a command row
  (`Claimed`), so its send is not recorded, or admitted, a second time.
* `JournalInv`: a notification is delivered exactly in the step to
  `succeeded`, and an operation is proposed once (`ProposedOnce`).

The choices `NextQueued` and `ActiveRun` need a least and a greatest element of
a finite set; `LeastExists` gets it from the well-foundedness of the subset
order, as the library has it for finite sets.

`AgentRunsProofs` also proves `CellImplementsSlot`: `Spec => Slot!Spec`, under the
mapping of `AgentRunsSlot`. `MappingInv` adds what the mapping needs: an active
run has a message (`ActiveHasMessage`), a message that waits was accepted while
one that is echoed is still `in_flight` (`SendDecided`), and no ticket is above
the clock (`PlacesGiven`). Then each action is one step of `RunSlot`: starting
is `Direct`, queueing `Wait`, under the limit of the queue, the end of `advanceQueueIfReady` `FromQueue`,
`remove_queued` `Remove`; the end of the active run, or its recovery, is
`Release`; all else stutters. Recovery that fails a lost run and admits the next
message in the same block is one `FromQueue`.

Its last section proves of `Directory`, for any chats, any requests that
interleave, any limit and any number of lost calls and pushes:

* `DirectoryTyped`.
* `ChatsWithinLimit`. A create counts the listed chats after its await, in the
  block that inserts, so what it read before does not matter; nothing else
  lists a chat but the seed, of a directory that has none.
* `ListedChatsAreOpen`, from `ChatInv`. The row and the agent are written in two
  steps. Who writes the row is the one who calls the agent (`BootsRows`), an
  agent is closed only after its row was archived, and a row stays archived
  (`ClosesRows`), and a request that stopped listening to its call has excused
  its chat (`CallsHeard`).
* `PreviewsSettle`, from `PreviewInv`: nothing shown or under way is ahead of the
  last push, which is not ahead of the agent (`SeenIsBehind`), and what the last
  push told is shown or under way, unless a push was lost (`LastIsOnItsWay`). So
  the fence turns away nothing but what is behind, and a row is behind its agent
  only by messages that nothing has pushed.

`TaskCellProofs`, for any tasks, attempts, suspended handlers, restarts, lease
and alarm:

* `NewestAttemptIsLive`. What `createAttempt` has found before its await may be
  stale after it. The property survives since generations have no gaps
  (`Contiguous`) and since everything below a generation that is about to be
  created has ended, for good (`CreatedOnEnded`). Both follow from one lemma,
  `AttemptStep`, on what a step can do to the rows of attempts.
* `EndedAttemptStays`, from the same lemma; `LiveAttemptIsWatched`, from it and
  `AlarmStep`; `StatusColumnsAgree` and `CancelledMeansConfirmed`, which are
  inductive with the types.

Its last sections prove of `TeamState`, for any conversations, titles, handlers,
revisions, failed flushes and losses of the isolate:

* `TeamStateTyped`. That a mark is never ahead of the stream needs that an
  answer comes after the request has arrived (`AnswersArrived`). That a snapshot
  is a sequence of events that has all of the open conversations is
  `SnapshotIs`, for any finite set of conversations.
* `RevisionsNameContents`, from `CopiesFollow`: every event, in the outbox or in
  the hands of a handler, is of a conversation that is there, at most at the
  revision of its row, and equal to the row at that revision. It is inductive as
  each mutation raises the revision of what it changes (`MutateIs`).
* `ViewsSettle`, from `SettleInv`. While the first snapshot or an event is on its
  way, no reader sees a state of the rows. What is invariant is that every event
  in hand is of the row as it is (`PendingIsRow`), and that a conversation with
  no event in hand has its row as the last event of the outbox, or is not open
  and has none (`OthersAgree`). This begins when the first snapshot is made, not
  when the publisher row is there; that it holds then needs that there is no
  publisher without an event (`PublisherHasEvents`), and no handler that forgets
  what it has in hand (`NothingLeft`). That the stream shows the last event of the
  outbox is `LastIsShown`: from lemma `ReceiveIs`, a request either brings the
  newest event a conversation has in the stream, or makes it one of `again`.

`MachinePoolProofs`, for any machines, assignments, capacity and delays:

* `TypeCorrect`, which needs `CredentialIsLive`: who can authenticate is neither
  unknown nor revoked, so that the copy a request is suspended with is live.
* `AssignedMeansHeld`, `CapacityKept` (a poll counts after its await, and hands
  out one at most) and `SweepStaysArmed`.

`OutboxProofs`, for any number of rows, flushes, epochs, crashes and failures:

* `MarkedMeansPublished`. A request carries the rows its flush still has as long
  as that flush waits for the answer (`Wired`), so an offset speaks of those
  rows (`OffsetIsTrue`) and a fingerprint of a row in the stream
  (`SeenIsPublished`).
* `StreamIsInOrder`. Of each batch that may still arrive, every older row is in
  the batch or published already (`Closed`).

`SupervisorProofs`, for any attempts, lines, runs, crashes and failures:

* `LinesAreReportedOnce`. What the journal counts is never less than what a tail
  has read of its file (`SavedIsRead`), which is beyond every line that was ever
  accepted (`SavedCovers`) and beyond the lines being posted, none of which was
  accepted (`PostingIsNew`). It is the order of `ReadChunk`, count first, that
  makes a new exec begin behind them; a second run keeps it because it inherits
  the count.
* `NoLineIsSkipped`. Unless something failed or a tail missed its file, a tail
  began at the beginning of the file, since nothing was read for an attempt
  before its only start (`StartsFresh`); so no line is cut, and what it has read
  was accepted or is in the batch it posts (`ReadIsKept`,
  `OnlyPostingHasBatch`).
* `TypeCorrect`, with what the loop awaits something for (`LoopOK`, `Created`).

`SchedulesProofs`, for any schedules, delays, crashes and events:

* `ActiveIsCovered`, which is inductive with the types: a tool that writes a
  schedule does so while a process or the handler is there, and the end of both
  arms the alarm, or its schedule is one of `unarmed`, of which it is said that
  they are left out until something arms. `NextAlarmIsLeast` is the minimum over
  several schedules.
* `EffectsAreOnce`, from `Counted`: an occurrence that is not there had no
  effect; one that is `dispatched` and not being executed was left by a crash.
* `EventsAreKept`, from `MailInv`: no two rows of the inbox have the same event
  (`EventIsKey`), a prune takes rows that were processed only, and a turn marks
  the rows it has handed over. It holds for any limit of the inbox and of a turn.
* `TypeCorrect`.

`CodeModeProofs`, for any capabilities, grants and requirements, any runs,
executions, versions and calls, and any budget:

* `TypeCorrect`. That the count of calls in flight never leaves its bounds needs
  what it counts: the awaited executions and the saves of a program
  (`CallsCounted`), an execution being called by an older one only
  (`CallersFirst`). That a version is the next one needs that there is no gap
  and that a save under way has the version before its own (`VersionsInOrder`).
* `NestedShareOneBudget`: what is left and what was used of a budget make up the
  whole (`BudgetKept`), whoever charges it, and an execution charges that of its
  caller.
* `TestsAreIsolated` and `NestedNeverEscalate`, from `Inherits`: an execution has
  the owner of its caller, is a test if its caller is, and its grant is part of
  its caller's. Depth does not matter, as each step only looks one call up.

Its last section proves of `Delegation`, for any tasks, fan-out and number of
calls that fail:

* `DelegationTyped`.
* `ConfirmedWasStopped`, from `Asking`: nothing is assigned before the submission
  has made it, nothing runs before it is assigned, a supervisor stops or releases
  only what it was asked to, and reports only what it has released. It says that
  a confirmed cancellation was asked for, has ended its attempt and was carried
  out by the supervisor as far as it knows, not that the container is gone: what
  docker answered is swallowed (`docker.ts:104-111`).

`MembershipProofs`, for any users, invitations, tokens and suspended requests:

* `OwnerIsTheCreator`, from `NoTeamYet`: before there is a team nobody has a role,
  so no invitation is under way when the first access makes its user the owner.
* `MembershipIsByInvitation` and `InvitationAdmitsOne`, from the roles and each
  other (`InviteInv`): an accepted invitation never opens again.
* `SecondUseIsAnOverlap`, from `OneEnrollment`: unless two enrollments of a token
  overlapped, the one that revokes it is the only one there was.

`DenialIsFinal`, `QueueServedInOrder`, `JournalAgrees`, `LiveAttemptIsWatched`,
`CancelledMeansConfirmed`, `CapacityKept`, `SweepStaysArmed` and the types of the
proved modules are not checked by a run besides.

The assumptions are those the modules name for their constants; all of them only
say that bounds and delays are numbers and that the null values are no members.

Every invariant and every action property that a run checks is proved. What is
model-checked only is liveness: `StopTakesEffect`, `QueueDrains`,
`ExpiredIsCollected`, `SilentBecomesStale`, `CancelStopsRunner`, `DueIsServed`,
`CancelFreesConversation` and `HalfSubmittedIsFreed`, as fairness and `ENABLED`
are out of the prover's reach. No module declares a `RECURSIVE` operator: what a
recursive definition computes would need an induction over data, so `CodeMode`
looks for callers with a set (`Callers`) and `Schedules` orders its inbox by a
field (`Oldest`).

## Divergences between code and documents

The runs above state what the code does keep. These are the places where it
does something else than a document, a comment, an error or a test says; those
marked (TLC) were found as counterexamples of the models here.

Runs and approvals:

* (TLC) `agent-cell.ts:632` marks a run "completed" when its notification is
  approved though its conversation still streams, and the next message is
  admitted next to it; ARCHITECTURE.md:97 says one conversational run is active
  at a time. `agent-cell.ts:785` then clears the controller of the other run, and
  recovery fails a run that still streams.
* (TLC) `agent-cell.ts:726`: recovery looks at "running" only; a run in
  `cancel_requested` whose isolate is lost never ends and blocks the chat
  (RECOVERY.md:11).
* `runtime.ts:332` writes `completed` after the last fence without looking at
  `cancel_requested`; a stop in between is lost (ARCHITECTURE.md:98).
* `agent-cell.ts:426-439` records and echoes a message before the full queue
  refuses it (COMMANDS.md:35).
* `agent-cell.ts:900` denies through `POST /approvals` without comparing the
  status (COMMANDS.md:39 says CAS).
* `agent-cell.ts:514`: `stop_all` with a stale fence still cancels the delegated
  tasks (COMMANDS.md:55-61).

Schedules and Code Mode:

* The inbox is processed by the alarm only, and no alarm is armed for it
  (ARCHITECTURE.md:22). `POST /schedules/pause` with `paused: false` revives a
  cancelled schedule. The schedule tools do not arm the alarm; the end of the
  run's process does. A snippet invoked by `POST /snippets/invoke`
  (`agent-cell.ts:933-950`), or a nested one that outlived its host call, has
  nothing that does: a schedule it creates or resumes stays due until something
  else arms the alarm. The alarm of an archived chat goes on. A pruned inbox row
  is accepted again.
* Grants are not read again while a program runs (SECURITY.md:29). A nested
  snippet has fresh fuel. A host call that timed out goes on in the host. In test
  mode the tools for snippets, schedules and configuration write live. Two
  concurrent saves of a snippet ask for the same version.

TaskCell and delegation:

* (TLC) `task-cell.ts:400` checks for an active attempt before the hash of the
  token and not after it; two attempts become live (`:390` says "Workspace
  already has an active attempt"). `task-cell.ts:829` moves the one lease alarm on
  every renewal, so one of them puts off the collection of the other.
* `task-cell.ts:430` and `:794` set the status of a cancelled task without a
  condition (`:233` says "Task is already terminal"): a task cancelled between
  its creation and its attempt is revived, and expiry makes it `pending`.
* `task-cell.ts:765` evaluates the fence on the row read before the await; a
  request of an attempt that ended meanwhile renews its lease (`lease.ts:41`).
* TASK-LIFECYCLE.md:24 puts a retried task back to `queued`; the code writes
  `pending`. `POST /task-assignments/:id/cancel` alone stops a runner whose
  `attempt.cancelled` the TaskCell then refuses (TASK-LIFECYCLE.md:42-46).
* A second submission leaves a pending task without an attempt. A running task
  that is cancelled sends no notification to the inbox.

Machines and supervisors:

* (TLC) The status of an assignment never becomes "running", so the sweep gives
  away work whose container runs (`sweep.ts:45` says "not yet running").
* (TLC) Every heartbeat moves the sweep 30 seconds on, so no machine becomes
  stale while another is alive (TASK-LIFECYCLE.md:30).
* (TLC) `team-cell.ts:1116` and `:1127` answer a poll of a machine that drains or
  is full with nothing, its cancels included (TASK-LIFECYCLE.md:37). With the
  default capacity of one workspace a machine that works is full: it learns of no
  cancel at all, while its heartbeats keep the lease alive.
* `team-cell.ts:1402` and `:1266` overwrite `revoked`; `:1116` assigns work to a
  machine the sweep has marked stale; `:1107` enrolls without arming the sweep,
  so a machine that enrolls and sends no heartbeat is looked at only once
  something else arms it.
* `journal-tail.ts:66-97` counts what the exec prints, not what it read of the
  file: stderr of a tail that began before its file was there, frames, and U+FFFD
  for a character two chunks share, which also garbles the line. A new exec then
  begins too far on, and the lines between are lost. The sentinel is written
  twice (`runner/src/main.ts:42-65`), and lines that are unread when the container
  goes stay so.
* `run.ts:113` waits for a tail that notices `stop()` at the next chunk only; a
  silent runner keeps the loop waiting (TASK-LIFECYCLE.md:37), without
  heartbeats. `stopContainer` swallows every failure, and `run.ts:115-130` posts
  `attempt.cancelled` for a container that may run on (`docker.ts:104-111`).
  Attempts that finished or died stay in `activeByAttempt` and are heartbeated
  on. A failed poll ends the process. A crash between `createRunnerContainer`
  and `recordEnvironment` leaves a container nobody tails. `drain.ts` releases
  environments by the id of their container, which matches none. After a second
  run and a restart the first row wins (TASK-LIFECYCLE.md:52), and the second
  run inherits the offset of the first, so its first lines are skipped.

Membership and directory:

* Two overlapping enrollments use one token twice (machine-enrollment.test.ts:33
  tests them one after the other). A role is checked before the hash is awaited,
  so someone removed meanwhile still issues the invitation or the token. An
  existing member who accepts leaves the invitation open. Nobody but the creator
  can ever be owner.
* An archive that overtakes a bootstrap leaves the agent of an archived chat open
  (ARCHITECTURE.md:71, directory-cell.ts:130). `POST /api/agents/:id/bootstrap`
  makes an agent that is in no directory. A failed bootstrap leaves its row, and
  the retry gets 409. A failed archive is answered as done when it is tried
  again. A push with an equal sequence overwrites a newer status
  (ARCHITECTURE.md:70). A message that the full queue refuses, or whose handler
  is lost at an await, is in the chat and in no preview (`agent-cell.ts:426-440`).

Streams:

* (TLC) The epoch is raised only when a sequence number was saved, which a crash
  between append and ack prevents: the next flush reuses the epoch, gets a
  duplicate without an offset and throws, and so does every later one
  (`publisher.ts:109`; STREAMS.md:50 says it reconciles).
* Overlapping flushes append rows twice; one that reconciles or marks late puts
  `epoch` and `last_acked_offset` back (STREAMS.md:43 says "monotonic"). A row
  whose payload equals another's can be marked by that one's fingerprint.
  STREAMS.md:50 and :57 name alarms as retries; the alarm of an AgentCell does
  flush (`agent-cell.ts:140`), but none is armed for rows that wait: it runs only
  when a schedule has set it.
* (TLC) A flush that waits to connect while a newer one publishes appends its
  rows again, after the newer ones and under a higher epoch
  (`publisher.ts:97-111`). The reader of the team's stream applies them last,
  and shows an old title, status or archived flag until the conversation changes
  again (STREAMS.md:70-72).
* (TLC) An archive between a failed first flush of a team and the next publish is
  in no event, as the snapshot of the rows leaves archived ones out: the stream
  shows the conversation open for good (STREAMS.md:70-72, `team-cell.ts:396-400`).
  Events of one conversation may be enqueued in the order opposite to their
  revisions. What a crash leaves between a change and its event is not emitted
  again. These are `blurred` in `TeamState`.

## Not modelled

* Artifacts (`task-cell.ts`, uploads and approval): nothing in the repository
  uploads one, as `exportAndUploadArtifact` has no caller.
* Rename of chats, activation and rollback of snippets (which version is invoked
  is free in `CodeMode`), preferences, profiles.
* The identity cell and the routes, which are stateless over a library, except
  the routes of `Directory`.
* The QuickJS isolate inside (fuel, memory, deadlines: a program may end at any
  time), model adapters, argument policies, formats.
* Batches that the client library of the stream may split: its limits are not
  visible from the repository.
* The UI, scripts and tests.
