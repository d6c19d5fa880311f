-------------------------------- MODULE Outbox -------------------------------
(***************************************************************************)
(* The outbox of a cell and its publisher (worker/streams/publisher.ts),   *)
(* which copies the rows of the outbox to a durable stream: flushes that   *)
(* overlap, requests that are lost or late, losses of the isolate.         *)
(*                                                                         *)
(* The stream server and its client library are external and modelled from *)
(* what the comments of flush rely on: a flush sends its rows as one batch *)
(* with the sequence number 0 of its epoch; the server appends the batch   *)
(* of a new epoch, answers the second batch of an epoch as a duplicate     *)
(* without an offset, and refuses an older epoch.  The stream is a         *)
(* sequence of batches, the rows of a batch are in the order of their ids, *)
(* and an offset is a number of batches.  Batches are never split, so      *)
(* there are no sequence gaps.                                             *)
(***************************************************************************)
EXTENDS Integers, Sequences, FiniteSets

CONSTANTS
    Body,        \* payloads of rows; the fingerprint of a row is its body
    MaxRows,     \* bound: rows of the outbox
    Flusher,     \* flushes that may be in progress at the same time
    NoFlusher,   \* the sender of a request whose isolate was lost
    MaxEpoch,    \* bound: epochs of the publisher
    MaxCrashes,  \* bound: losses of the isolate
    MaxFailures  \* bound: requests to the server that fail

ASSUME MaxRowsAssumption == MaxRows \in Nat
ASSUME MaxEpochAssumption == MaxEpoch \in Nat
ASSUME MaxCrashesAssumption == MaxCrashes \in Nat
ASSUME MaxFailuresAssumption == MaxFailures \in Nat
ASSUME NoFlusherAssumption == NoFlusher \notin Flusher

VARIABLES
    \* SQLite
    body,         \* outbox.payload of the rows, by id
    acked,        \* the ids of rows with acked_at
    epoch,        \* publisher.epoch
    lastSeq,      \* publisher.last_seq
    lastOffset,   \* publisher.last_acked_offset, 0 for NULL
    \* the flushes in progress
    pc,
    remaining,    \* the rows a flush still has to publish
    mine,         \* its copy of the row of the publisher, and where its tail starts
    answer,       \* what the server answered
    seen,         \* fingerprints it found in the tail of the stream
    \* the stream server and the network to it
    stream,       \* the batches of the stream
    serverEpoch,  \* the epoch the server knows of this producer, -1 for none
    requests,     \* appends on their way
    faults        \* losses of the isolate and failed requests so far

table == <<body, acked, epoch, lastSeq, lastOffset>>
flushing == <<pc, remaining, mine, answer, seen>>
server == <<stream, serverEpoch>>
vars == <<table, flushing, server, requests, faults>>

Row == 1 .. MaxRows
RowId == 1 .. Len(body)
Epoch == 0 .. MaxEpoch
NoAnswer == [result |-> "none", value |-> 0]
NoCopy == [epoch |-> 0, offset |-> 0, tail |-> 0]

\* "none" until an answer arrives; value is an offset or the server's epoch.
Answer == [result : {"none", "appended", "duplicate", "stale"}, value : Nat]
Copy == [epoch : Epoch, offset : Nat, tail : Nat]
Request == [from : Flusher \cup {NoFlusher}, epoch : Epoch, batch : SUBSET Row]
FlushPc == {"idle", "connecting", "sending", "reading", "marking"}

\* Mutant: the rows that another flush is publishing are left to it.
PendingUnclaimed ==
    RowId \ (acked \cup UNION {remaining[f] : f \in Flusher})

\* pendingRows
Pending == RowId \ acked

Init ==
    /\ body = <<>>
    /\ acked = {}
    /\ epoch = 0
    /\ lastSeq = 0
    /\ lastOffset = 0
    /\ pc = [f \in Flusher |-> "idle"]
    /\ remaining = [f \in Flusher |-> {}]
    /\ mine = [f \in Flusher |-> NoCopy]
    /\ answer = [f \in Flusher |-> NoAnswer]
    /\ seen = [f \in Flusher |-> {}]
    /\ stream = <<>>
    /\ serverEpoch = -1
    /\ requests = {}
    /\ faults = [crashes |-> 0, failures |-> 0]

------------------------------------------------------------------------------
(* The row goes in when its fingerprint has been computed. *)
Enqueue(b) ==
    /\ Len(body) < MaxRows
    /\ body' = Append(body, b)
    /\ UNCHANGED <<acked, epoch, lastSeq, lastOffset, flushing, server,
                   requests, faults>>

\* flush up to its first await: the rows it is going to publish.
BeginFlush(f) ==
    /\ pc[f] = "idle"
    /\ Pending # {}
    /\ pc' = [pc EXCEPT ![f] = "connecting"]
    /\ remaining' = [remaining EXCEPT ![f] = Pending]
    /\ UNCHANGED <<table, mine, answer, seen, server, requests, faults>>

\* What a flush forgets when it returns or throws.
EndFlush(f) ==
    /\ pc' = [pc EXCEPT ![f] = "idle"]
    /\ remaining' = [remaining EXCEPT ![f] = {}]
    /\ mine' = [mine EXCEPT ![f] = NoCopy]
    /\ answer' = [answer EXCEPT ![f] = NoAnswer]
    /\ seen' = [seen EXCEPT ![f] = {}]

Failure ==
    /\ faults.failures < MaxFailures
    /\ faults' = [faults EXCEPT !.failures = @ + 1]

ConnectFails(f) ==
    /\ pc[f] = "connecting"
    /\ Failure
    /\ EndFlush(f)
    /\ UNCHANGED <<table, server, requests>>

AppendRequest(f, e, batch) == [from |-> f, epoch |-> e, batch |-> batch]

\* A sequence number of the epoch was used: the next flush needs a new one.
EpochToUse == IF lastSeq > 0 THEN epoch + 1 ELSE epoch

\* connectOrCreate has returned: the row of the publisher is read, the epoch
\* raised, and the batch sent.
Connect(f) ==
    /\ pc[f] = "connecting"
    /\ EpochToUse \in Epoch
    /\ pc' = [pc EXCEPT ![f] = "sending"]
    /\ epoch' = EpochToUse
    /\ lastSeq' = 0
    /\ mine' = [mine EXCEPT ![f].epoch = EpochToUse, ![f].offset = lastOffset]
    /\ requests' = requests \cup {AppendRequest(f, EpochToUse, remaining[f])}
    /\ UNCHANGED <<body, acked, lastOffset, remaining, answer, seen, server,
                   faults>>

(***************************************************************************)
(* The server receives an append, and the answer reaches the flush that    *)
(* sent it if that is still there.  A request or an answer may be lost.    *)
(***************************************************************************)
Reply(r, result, value) ==
    answer' = IF r.from \in Flusher
              THEN [answer EXCEPT ![r.from] = [result |-> result, value |-> value]]
              ELSE answer

Receive(r) ==
    /\ r \in requests
    /\ requests' = requests \ {r}
    /\ \/ /\ r.epoch > serverEpoch
          /\ stream' = Append(stream, r.batch)
          /\ serverEpoch' = r.epoch
          /\ Reply(r, "appended", Len(stream) + 1)
       \/ /\ r.epoch = serverEpoch
          /\ Reply(r, "duplicate", 0)
          /\ UNCHANGED server
       \/ /\ r.epoch < serverEpoch
          /\ Reply(r, "stale", serverEpoch)
          /\ UNCHANGED server
    /\ UNCHANGED <<table, pc, remaining, mine, seen, faults>>

\* The requests when nobody waits for the answers to those of fs any more.
Orphaned(fs) ==
    {IF r.from \in fs THEN [r EXCEPT !.from = NoFlusher] ELSE r : r \in requests}

\* The flush sees a network error: it returns its rows as delayed.
NetworkError(f) ==
    /\ pc[f] = "sending"
    /\ Failure
    /\ EndFlush(f)
    /\ requests' = Orphaned({f})
    /\ UNCHANGED <<table, server>>

\* Mutant: a flush without an offset is taken for a success.
DeliveredAnyway(f) == answer[f].result \in {"appended", "duplicate"}

Delivered(f) == answer[f].result = "appended"

MarkAcked(f) ==
    /\ pc[f] = "sending"
    /\ Delivered(f)
    /\ acked' = acked \cup remaining[f]
    /\ epoch' = mine[f].epoch
    /\ lastSeq' = 1
    /\ lastOffset' = answer[f].value
    /\ EndFlush(f)
    /\ UNCHANGED <<body, server, requests, faults>>

\* "streams producer flush completed without an offset": nothing is acked.
FlushThrows(f) ==
    /\ pc[f] = "sending"
    /\ answer[f].result = "duplicate"
    /\ EndFlush(f)
    /\ UNCHANGED <<table, server, requests, faults>>

(***************************************************************************)
(* StaleEpochError: reconcileFingerprints reads the tail of the stream     *)
(* from the offset that was acked last, or gets nothing when that fails.   *)
(***************************************************************************)
Reconcile(f) ==
    /\ pc[f] = "sending"
    /\ answer[f].result = "stale"
    /\ pc' = [pc EXCEPT ![f] = "reading"]
    /\ mine' = [mine EXCEPT ![f].tail = lastOffset]
    /\ UNCHANGED <<table, remaining, answer, seen, server, requests,
                   faults>>

BodiesAfter(from) == {body[r] : r \in UNION {stream[i] : i \in (from + 1) .. Len(stream)}}

ReadTail(f) ==
    /\ pc[f] = "reading"
    /\ pc' = [pc EXCEPT ![f] = "marking"]
    /\ \E found \in {BodiesAfter(mine[f].tail), {}} : seen' = [seen EXCEPT ![f] = found]
    /\ UNCHANGED <<table, remaining, mine, answer, server, requests, faults>>

Found(f) == {r \in remaining[f] : body[r] \in seen[f]}

MarkAckedByFingerprints(f) ==
    LET left == remaining[f] \ Found(f)
        next == answer[f].value + 1
    IN  /\ pc[f] = "marking"
        /\ acked' = acked \cup Found(f)
        /\ \/ /\ left = {}
              /\ EndFlush(f)
              /\ UNCHANGED <<epoch, lastSeq, lastOffset, requests>>
           \/ /\ left # {}
              /\ next \in Epoch
              /\ epoch' = next
              /\ lastSeq' = 0
              /\ lastOffset' = mine[f].offset
              /\ pc' = [pc EXCEPT ![f] = "sending"]
              /\ remaining' = [remaining EXCEPT ![f] = left]
              /\ mine' = [mine EXCEPT ![f].epoch = next]
              /\ answer' = [answer EXCEPT ![f] = NoAnswer]
              /\ seen' = [seen EXCEPT ![f] = {}]
              /\ requests' = requests \cup {AppendRequest(f, next, left)}
        /\ UNCHANGED <<body, server, faults>>

\* The isolate is lost.  A request that was sent may still arrive.
Crash ==
    /\ faults.crashes < MaxCrashes
    /\ faults' = [faults EXCEPT !.crashes = @ + 1]
    /\ pc' = [f \in Flusher |-> "idle"]
    /\ remaining' = [f \in Flusher |-> {}]
    /\ mine' = [f \in Flusher |-> NoCopy]
    /\ answer' = [f \in Flusher |-> NoAnswer]
    /\ seen' = [f \in Flusher |-> {}]
    /\ requests' = Orphaned(Flusher)
    /\ UNCHANGED <<table, server>>

------------------------------------------------------------------------------
FlushStep(f) ==
    \/ Connect(f)
    \/ MarkAcked(f)
    \/ FlushThrows(f)
    \/ Reconcile(f)
    \/ ReadTail(f)
    \/ MarkAckedByFingerprints(f)

Next ==
    \/ \E b \in Body : Enqueue(b)
    \/ \E f \in Flusher :
         BeginFlush(f) \/ ConnectFails(f) \/ NetworkError(f) \/ FlushStep(f)
    \/ \E r \in requests : Receive(r)
    \/ Crash

Spec == Init /\ [][Next]_vars

------------------------------------------------------------------------------
(* The type of the tables, the flushes and what is under way. *)
TypeOK ==
    /\ body \in Seq(Body) /\ Len(body) <= MaxRows
    /\ acked \subseteq RowId
    /\ epoch \in Epoch
    /\ lastSeq \in {0, 1}
    /\ lastOffset \in Nat
    /\ pc \in [Flusher -> FlushPc]
    /\ remaining \in [Flusher -> SUBSET Row]
    /\ mine \in [Flusher -> Copy]
    /\ answer \in [Flusher -> Answer]
    /\ seen \in [Flusher -> SUBSET Body]
    /\ stream \in Seq(SUBSET Row)
    /\ serverEpoch \in Epoch \cup {-1}
    /\ requests \subseteq Request
    /\ faults \in [crashes : 0 .. MaxCrashes, failures : 0 .. MaxFailures]

Published(b) == \E i \in DOMAIN stream : \E r \in stream[i] : body[r] = b

(***************************************************************************)
(* A row is marked as published only when a payload like its own is in the *)
(* stream: neither duplicates, which come back without an offset, nor a    *)
(* reconciliation whose read failed drop a row that nobody has received.   *)
(***************************************************************************)
AckedIsPublished == \A r \in acked : Published(body[r])

(***************************************************************************)
(* Readers of the stream see the rows in the order in which they were      *)
(* enqueued: whatever is in the stream comes after a copy of every older   *)
(* row, with flushes that overlap, requests that arrive late and rows that *)
(* are sent twice.                                                         *)
(***************************************************************************)
InOrder ==
    \A i \in DOMAIN stream : \A s \in stream[i], r \in Row :
      r < s => \/ r \in stream[i]
               \/ \E j \in 1 .. i - 1 : \E q \in stream[j] : body[q] = body[r]
==============================================================================
