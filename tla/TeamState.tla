------------------------------ MODULE TeamState ------------------------------
(***************************************************************************)
(* The conversations of a team, and the stream that shows them to clients  *)
(* (team-cell.ts: create, link, patch, activity, publishTeamState;         *)
(* team/state-outbox.ts, team/activity.ts; ui useTeamState.ts).            *)
(*                                                                         *)
(* A handler changes a row and then publishes: it enqueues one event, or a *)
(* snapshot of all rows if the team has no publisher row yet, waiting for  *)
(* the hash of each event, and flushes.  Handlers interleave at the waits. *)
(* Flushes overlap, are late and repeat rows, as those of Outbox do; which *)
(* of them the epochs refuse is Outbox's, here each of them may arrive.    *)
(* Roles are checked in Membership.                                        *)
(***************************************************************************)
EXTENDS Integers, Sequences, FiniteSets, SequencesExt

CONSTANTS
    Conv,
    Team,        \* stands for the snapshot's controls and its other rows
    Legacy,      \* conversations older than the publisher of the team
    Title,
    Handler,     \* requests and alarms the cell serves at a time
    MaxRev,      \* bound: revisions of a conversation
    MaxEvents,   \* bound: events in the outbox and in hand
    MaxFaults    \* bound: flushes that fail, losses of the isolate

ASSUME ConvAssumption == IsFiniteSet(Conv)
ASSUME LegacyAssumption == Legacy \subseteq Conv
ASSUME TeamAssumption == Team \notin Conv
ASSUME TitleAssumption == Title # {}
ASSUME BoundsAssumption ==
    {MaxRev, MaxEvents, MaxFaults} \subseteq Nat

VARIABLES
    row,         \* conversations
    publisher,   \* the publisher row of the team is there
    outbox,      \* the events, by id
    acked,       \* how many of them, from the first, are marked as published
    published,   \* how many of them the stream has
    latest,      \* the last event of a conversation in the stream, 0 for none
    again,       \* of these, what the stream had before
    pc, todo,    \* handlers: what is left to enqueue
    from, upto,  \* the rows their flush has read, those after from
    late,        \* requests whose flush is gone
    blurred,     \* history: conversations excused by ViewSettles
    faults       \* failed flushes and losses so far

stream == <<published, latest, again>>
flushes == <<from, upto, late>>
teamVars == <<row, publisher, outbox, acked, stream, pc, todo, flushes, blurred, faults>>

Rev == 0 .. MaxRev
Value == [there : BOOLEAN, title : Title, status : {"idle", "running"},
          archived : BOOLEAN, rev : Rev]
Event == [conv : Conv \cup {Team}, value : Value]
AnyTitle == CHOOSE t \in Title : TRUE
Absent == [there |-> FALSE, title |-> AnyTitle, status |-> "idle",
           archived |-> FALSE, rev |-> 0]
NewRow(t) == [Absent EXCEPT !.there = TRUE, !.title = t]

Pcs == {"idle", "enqueueing", "connecting", "sending", "answered"}

\* stateConversationValue: all that clients see of a row.
EventOf(c, value) == [conv |-> c, value |-> value]

TeamInit ==
    /\ \E old \in [Legacy -> BOOLEAN] :
         row = [c \in Conv |-> IF c \in Legacy
                               THEN [NewRow(AnyTitle) EXCEPT !.archived = old[c]]
                               ELSE Absent]
    /\ publisher = FALSE
    /\ outbox = <<>>
    /\ acked = 0
    /\ published = 0 /\ latest = [c \in Conv |-> 0] /\ again = {}
    /\ pc = [h \in Handler |-> "idle"]
    /\ todo = [h \in Handler |-> <<>>]
    /\ from = [h \in Handler |-> 0] /\ upto = from /\ late = {}
    /\ blurred = {}
    /\ faults = 0

------------------------------------------------------------------------------
(* Publishing *)

IsOpen(value) == value.there /\ ~value.archived

\* collectSnapshotRows and emitSnapshot.
Snapshot(rows) ==
    <<EventOf(Team, Absent)>>
      \o SetToSeq({EventOf(c, rows[c]) : c \in {d \in Conv : IsOpen(rows[d])}})

NeedsSnapshot == ~publisher

\* Mutant: only readers of the stream get a snapshot made.
EmissionForReaders(rows, events) ==
    IF NeedsSnapshot /\ events = <<>> THEN Snapshot(rows) ELSE events

Emission(rows, events) == IF NeedsSnapshot THEN Snapshot(rows) ELSE events

InHand == SumFunction([h \in Handler |-> Len(todo[h])])

\* publishTeamState after the mutation, up to its first wait.
Publish(h, rows, events) ==
    /\ Len(outbox) + InHand + Len(Emission(rows, events)) <= MaxEvents
    /\ pc' = [pc EXCEPT ![h] = "enqueueing"]
    /\ todo' = [todo EXCEPT ![h] = Emission(rows, events)]
    /\ UNCHANGED <<publisher, outbox, acked, stream, flushes, faults>>

\* The hash of the next event is there: its row goes into the outbox.
Enqueue(h) ==
    /\ pc[h] = "enqueueing" /\ todo[h] # <<>>
    /\ outbox' = Append(outbox, Head(todo[h]))
    /\ todo' = [todo EXCEPT ![h] = Tail(@)]
    /\ UNCHANGED <<row, publisher, acked, stream, pc, flushes, blurred, faults>>

\* Mutant: a flush counts one row too many.
ReadsBeyond == Len(outbox) + 1

\* pendingRows
Reads == Len(outbox)

\* A flush with nothing to send returns.
StartFlush(h) ==
    IF acked < Len(outbox)
    THEN /\ pc' = [pc EXCEPT ![h] = "connecting"]
         /\ from' = [from EXCEPT ![h] = acked]
         /\ upto' = [upto EXCEPT ![h] = Reads]
    ELSE /\ pc' = [pc EXCEPT ![h] = "idle"]
         /\ UNCHANGED <<from, upto>>

Flush(h) ==
    /\ pc[h] = "enqueueing" /\ todo[h] = <<>>
    /\ StartFlush(h)
    /\ UNCHANGED <<row, publisher, outbox, acked, stream, todo, late, blurred, faults>>

\* connectOrCreate has returned; loadPublisherState inserts the row.
Connect(h) ==
    /\ pc[h] = "connecting"
    /\ pc' = [pc EXCEPT ![h] = "sending"]
    /\ publisher' = TRUE
    /\ UNCHANGED <<row, outbox, acked, stream, todo, flushes, blurred, faults>>

Of(c, sent) == {i \in sent : outbox[i].conv = c}

Larger(m, n) == IF m < n THEN n ELSE m

\* The rows first + 1 .. last arrive as one batch.  Other flushes may have
\* brought some of them to the stream while this one waited: those it brings
\* again, but for what a reconciliation has seen there.
Receive(first, last) ==
    \E seen \in SUBSET {i \in first + 1 .. last : i <= published} :
      LET sent == (first + 1 .. last) \ seen IN
      /\ latest' = [c \in Conv |-> IF Of(c, sent) = {} THEN latest[c]
                                   ELSE Max(Of(c, sent))]
      /\ again' = {c \in Conv : IF Of(c, sent) = {} THEN c \in again
                                 ELSE Max(Of(c, sent)) <= published}
      /\ published' = Larger(published, last)

Arrive(h) ==
    /\ pc[h] = "sending"
    /\ Receive(from[h], upto[h])
    /\ pc' = [pc EXCEPT ![h] = "answered"]
    /\ UNCHANGED <<row, publisher, outbox, acked, todo, flushes, blurred, faults>>

EndFlush(h) ==
    /\ from' = [from EXCEPT ![h] = 0]
    /\ upto' = [upto EXCEPT ![h] = 0]

\* markAcked
MarkAcked(h) ==
    /\ pc[h] = "answered"
    /\ acked' = Larger(acked, upto[h])
    /\ pc' = [pc EXCEPT ![h] = "idle"]
    /\ EndFlush(h)
    /\ UNCHANGED <<row, publisher, outbox, stream, todo, late, blurred, faults>>

Request(h) == [from |-> from[h], upto |-> upto[h]]

\* "delayed", or an error.  The request may have arrived, or arrives later.
FlushFails(h) ==
    /\ faults < MaxFaults
    /\ pc[h] \in {"connecting", "sending", "answered"}
    /\ pc' = [pc EXCEPT ![h] = "idle"]
    /\ late' = IF pc[h] = "sending" THEN late \cup {Request(h)} ELSE late
    /\ EndFlush(h)
    /\ faults' = faults + 1
    /\ UNCHANGED <<row, publisher, outbox, acked, stream, todo, blurred>>

ArriveLate(request) ==
    /\ Receive(request.from, request.upto)
    /\ late' = late \ {request}
    /\ UNCHANGED <<row, publisher, outbox, acked, pc, todo, from, upto, blurred, faults>>

------------------------------------------------------------------------------
(* Mutations *)

Pending(h) == {todo[h][i].conv : i \in DOMAIN todo[h]}

\* What the settling of a conversation is not promised for: a change while an
\* older event of it waits for its hash may be overtaken, and an archived row
\* is in no snapshot.
Blur(c, value) ==
    blurred' = IF \/ \E h \in Handler : c \in Pending(h)
                  \/ NeedsSnapshot /\ value.archived
               THEN blurred \cup {c} ELSE blurred

\* A handler stores the new row and publishes it.
Store(h, c, value) ==
    /\ value.rev \in Rev
    /\ row' = [row EXCEPT ![c] = value]
    /\ Blur(c, value)
    /\ Publish(h, row', <<EventOf(c, value)>>)

\* createConversation; linkLegacyConversation of one that is not linked.
CreateConversation(h, c, t) ==
    /\ pc[h] = "idle" /\ ~row[c].there
    /\ Store(h, c, NewRow(t))

Patched(value, t, archived) ==
    [value EXCEPT !.title = t, !.archived = archived, !.rev = @ + 1]

PatchConversation(h, c, t, archived, expected) ==
    /\ pc[h] = "idle" /\ row[c].there
    /\ expected = row[c].rev
    /\ Store(h, c, Patched(row[c], t, archived))

\* Without expectedActivityRevision nothing is compared.
PatchAnyway(h, c, archived) ==
    /\ pc[h] = "idle" /\ row[c].there
    /\ Store(h, c, Patched(row[c], row[c].title, archived))

\* Mutant: the revision the caller sent.
IncomingRevision(current, incoming) == incoming

NextActivityRevision(current, incoming) ==
    IF incoming > current + 1 THEN incoming ELSE current + 1

Activity(h, c, status, incoming) ==
    /\ pc[h] = "idle" /\ IsOpen(row[c])
    /\ incoming >= row[c].rev
    /\ Store(h, c, [row[c] EXCEPT !.status = status,
                      !.rev = NextActivityRevision(row[c].rev, incoming)])

\* stateStream, and the alarm for a swept team, which emits nothing of its own.
EnsureSnapshot(h) ==
    /\ pc[h] = "idle" /\ NeedsSnapshot
    /\ Publish(h, row, <<>>)
    /\ UNCHANGED <<row, blurred>>

\* What the alarm does of a team with a publisher row, flushPendingStateOutboxes,
\* and the flush that waitUntil holds once one has failed.
FlushPending(h) ==
    /\ pc[h] = "idle" /\ acked < Len(outbox)
    /\ StartFlush(h)
    /\ UNCHANGED <<row, publisher, outbox, acked, stream, todo, late, blurred, faults>>

\* The isolate is lost.
Crash ==
    /\ faults < MaxFaults
    /\ faults' = faults + 1
    /\ pc' = [h \in Handler |-> "idle"]
    /\ todo' = [h \in Handler |-> <<>>]
    /\ from' = [h \in Handler |-> 0] /\ upto' = [h \in Handler |-> 0]
    /\ late' = late \cup {Request(h) : h \in {g \in Handler : pc[g] = "sending"}}
    /\ blurred' = (blurred \cup UNION {Pending(h) : h \in Handler}) \ {Team}
    /\ UNCHANGED <<row, publisher, outbox, acked, stream>>

------------------------------------------------------------------------------
(* Clients *)

\* StreamDB applies the stream in order, repetitions too.
View(c) == IF latest[c] = 0 THEN Absent ELSE outbox[latest[c]].value

\* renameConversation: the revision of the copy the client got, old or new.
Rename(h, c, t) ==
    \E expected \in Rev : PatchConversation(h, c, t, row[c].archived, expected)

------------------------------------------------------------------------------

Mutate(h) ==
    \/ \E c \in Conv, t \in Title : CreateConversation(h, c, t)
    \/ \E c \in Conv, archived \in BOOLEAN : PatchAnyway(h, c, archived)
    \/ \E c \in Conv, status \in {"idle", "running"}, incoming \in Rev :
         Activity(h, c, status, incoming)
    \/ \E c \in Conv, t \in Title : Rename(h, c, t)

TeamNext ==
    \/ \E h \in Handler :
         \/ Mutate(h) \/ EnsureSnapshot(h) \/ FlushPending(h)
         \/ Enqueue(h) \/ Flush(h) \/ Connect(h) \/ Arrive(h) \/ MarkAcked(h)
         \/ FlushFails(h)
    \/ \E request \in late : ArriveLate(request)
    \/ Crash

TeamSpec == TeamInit /\ [][TeamNext]_teamVars

------------------------------------------------------------------------------

\* Every variable has its type.
TeamTypeOK ==
    /\ row \in [Conv -> Value]
    /\ publisher \in BOOLEAN
    /\ outbox \in Seq(Event)
    /\ acked \in 0 .. published /\ published \in 0 .. Len(outbox)
    /\ latest \in [Conv -> 0 .. published] /\ again \subseteq Conv
    /\ pc \in [Handler -> Pcs] /\ todo \in [Handler -> Seq(Event)]
    /\ from \in [Handler -> 0 .. published] /\ upto \in [Handler -> 0 .. Len(outbox)]
    /\ late \subseteq [from : 0 .. published, upto : 0 .. Len(outbox)]
    /\ blurred \subseteq Conv
    /\ faults \in 0 .. MaxFaults

\* A revision names one content of a conversation: whatever copy a client got
\* or is about to get, if its revision is the row's, the copy is the row.  So a
\* rename that is accepted undoes no change its author has not seen
\* (patchConversation, activity, nextActivityRevision).
RevisionNamesContent ==
    \A e \in Range(outbox) \cup UNION {Range(todo[h]) : h \in Handler} :
      e.conv # Team /\ e.value.rev = row[e.conv].rev => e.value = row[e.conv]

Settled(c) ==
    /\ publisher /\ acked = Len(outbox) /\ c \notin again
    /\ \A h \in Handler : c \notin Pending(h)

\* Once all of the outbox is published and nobody is about to enqueue, the
\* stream shows each conversation as the row has it: one snapshot or event too
\* few, or of the wrong row, in any order of handlers, flushes and failed
\* flushes, would leave clients with an old list for good (publishTeamState).
\* One thing does that in the code: a flush that waited while a newer one
\* published brings its rows again, and they are the last (publisher.ts:97-111);
\* Settled excepts the conversations whose last event is such a repetition.
ViewSettles ==
    \A c \in Conv \ blurred : Settled(c) =>
      IF IsOpen(row[c]) THEN View(c) = row[c] ELSE ~IsOpen(View(c))
==============================================================================
