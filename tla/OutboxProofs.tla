------------------------------ MODULE OutboxProofs -----------------------------
(***************************************************************************)
(* Proofs about Outbox, for every number of rows, flushes, epochs, crashes *)
(* and failed requests.                                                    *)
(*                                                                         *)
(* The argument follows a batch: a request carries the rows its flush      *)
(* still has, as long as that flush waits for the answer (Wired), so that  *)
(* an offset speaks of those rows (OffsetIsTrue) and a fingerprint of a    *)
(* row in the stream (SeenIsPublished).  The order of the stream rests on  *)
(* Closed: of a batch that may still arrive every older row is in the      *)
(* batch or published already.                                             *)
(***************************************************************************)
EXTENDS Outbox, TLAPS

\* Everything names rows that exist.
KnownRows ==
    /\ \A i \in DOMAIN stream : stream[i] \subseteq RowId
    /\ \A r \in requests : r.batch \subseteq RowId
    /\ \A f \in Flusher : remaining[f] \subseteq RowId

TypeInv == TypeOK /\ KnownRows

Wired ==
    /\ \A r \in requests :
         r.from \in Flusher =>
           /\ pc[r.from] = "sending"
           /\ answer[r.from] = NoAnswer
           /\ r.batch = remaining[r.from]
    /\ \A q, r \in requests : q.from = r.from /\ r.from \in Flusher => q = r
    /\ \A f \in Flusher : pc[f] \in {"idle", "connecting"} => answer[f] = NoAnswer

OffsetIsTrue ==
    \A f \in Flusher :
      answer[f].result = "appended" => \A r \in remaining[f] : Published(body[r])

SeenIsPublished == \A f \in Flusher : \A b \in seen[f] : Published(b)

PublishInv ==
    TypeInv /\ Wired /\ OffsetIsTrue /\ SeenIsPublished /\ AckedIsPublished

Closed(batch) ==
    \A s \in batch, r \in Row : r < s => r \in batch \/ Published(body[r])

BatchesClosed ==
    /\ \A f \in Flusher : Closed(remaining[f])
    /\ \A q \in requests : Closed(q.batch)

OrderInv == PublishInv /\ BatchesClosed /\ InOrder

USE MaxRowsAssumption, MaxEpochAssumption, MaxCrashesAssumption,
    MaxFailuresAssumption, NoFlusherAssumption
    DEF Row, RowId, Epoch

------------------------------------------------------------------------------
(* Helpers of the actions. *)

(***************************************************************************)
(* Requests nobody waits for keep their batches and are not of those       *)
(* flushes any more; the others are left alone.                            *)
(***************************************************************************)
LEMMA OrphanedStep ==
  ASSUME requests \subseteq Request, NEW fs \in SUBSET Flusher
  PROVE  /\ Orphaned(fs) \subseteq Request
         /\ \A q \in Orphaned(fs) :
              /\ q.from \notin fs
              /\ q.from \in Flusher => q \in requests
              /\ \E r \in requests : q.batch = r.batch
<1> SUFFICES ASSUME NEW q \in Orphaned(fs)
             PROVE  /\ q \in Request /\ q.from \notin fs
                    /\ q.from \in Flusher => q \in requests
                    /\ \E r \in requests : q.batch = r.batch
  OBVIOUS
<1>1. PICK r \in requests :
        q = IF r.from \in fs THEN [r EXCEPT !.from = NoFlusher] ELSE r
  BY DEF Orphaned
<1>2. r \in Request
  OBVIOUS
<1>3. CASE r.from \in fs
  <2>1. q = [r EXCEPT !.from = NoFlusher]
    BY <1>1, <1>3
  <2>2. q \in Request /\ q.from = NoFlusher /\ q.batch = r.batch
    BY <1>2, <2>1 DEF Request
  <2> QED BY <2>2
<1>4. CASE r.from \notin fs
  BY <1>1, <1>2, <1>4
<1> QED BY <1>3, <1>4

(***************************************************************************)
(* A flush that returns or throws leaves nothing behind.                   *)
(***************************************************************************)
LEMMA EndFlushTyped ==
  ASSUME TypeOK, NEW f \in Flusher, EndFlush(f)
  PROVE  /\ pc' \in [Flusher -> FlushPc]
         /\ remaining' \in [Flusher -> SUBSET Row]
         /\ mine' \in [Flusher -> Copy]
         /\ answer' \in [Flusher -> Answer]
         /\ seen' \in [Flusher -> SUBSET Body]
<1>1. "idle" \in FlushPc /\ NoCopy \in Copy /\ NoAnswer \in Answer
  BY DEF FlushPc, NoCopy, Copy, NoAnswer, Answer
<1>2. pc' \in [Flusher -> FlushPc]
  BY <1>1 DEF EndFlush, TypeOK
<1>3. remaining' \in [Flusher -> SUBSET Row]
  BY DEF EndFlush, TypeOK
<1>4. mine' \in [Flusher -> Copy]
  BY <1>1 DEF EndFlush, TypeOK
<1>5. answer' \in [Flusher -> Answer]
  BY <1>1 DEF EndFlush, TypeOK
<1>6. seen' \in [Flusher -> SUBSET Body]
  BY DEF EndFlush, TypeOK
<1> QED BY <1>2, <1>3, <1>4, <1>5, <1>6

(***************************************************************************)
(* A failed request or a crash keeps the type of the counters.             *)
(***************************************************************************)
LEMMA FailureTyped ==
  ASSUME TypeOK, Failure
  PROVE  faults' \in [crashes : 0 .. MaxCrashes, failures : 0 .. MaxFailures]
<1>1. faults \in [crashes : 0 .. MaxCrashes, failures : 0 .. MaxFailures]
  BY DEF TypeOK
<1>2. faults.failures + 1 \in 0 .. MaxFailures
  BY <1>1 DEF Failure
<1>3. faults' = [faults EXCEPT !.failures = faults.failures + 1]
  BY DEF Failure
<1> QED BY <1>1, <1>2, <1>3

(***************************************************************************)
(* What a tail of the stream shows are payloads of rows in the stream.     *)
(***************************************************************************)
LEMMA TailIsPublished ==
  ASSUME TypeInv, NEW n \in Nat
  PROVE  /\ BodiesAfter(n) \subseteq Body
         /\ \A b \in BodiesAfter(n) : Published(b)
<1> SUFFICES ASSUME NEW b \in BodiesAfter(n)
             PROVE  b \in Body /\ Published(b)
  OBVIOUS
<1>1. PICK i \in (n + 1) .. Len(stream) : \E r \in stream[i] : b = body[r]
  BY DEF BodiesAfter
<1> PICK r \in stream[i] : b = body[r]
  BY <1>1
<1>2. i \in DOMAIN stream
  BY DEF TypeInv, TypeOK
<1>3. r \in RowId
  BY <1>2 DEF TypeInv, KnownRows
<1>4. body[r] \in Body
  BY <1>3 DEF TypeInv, TypeOK
<1> QED BY <1>2, <1>4 DEF Published

------------------------------------------------------------------------------
(* Type correctness. *)

(***************************************************************************)
(* Rows are only added, and what names rows is made from what named them.  *)
(***************************************************************************)
LEMMA TypeNext == TypeInv /\ [Next]_vars => TypeInv'
<1> SUFFICES ASSUME TypeInv, [Next]_vars
             PROVE  TypeInv'
  OBVIOUS
<1> USE DEF TypeInv
<1>1. ASSUME NEW b \in Body, Enqueue(b)
      PROVE  TypeInv'
  <2>1. body' \in Seq(Body) /\ Len(body') = Len(body) + 1 /\ Len(body') <= MaxRows
    BY <1>1 DEF Enqueue, TypeOK
  <2>2. RowId \subseteq RowId'
    BY <2>1 DEF TypeOK
  <2>3. KnownRows'
    BY <1>1, <2>2 DEF Enqueue, KnownRows, flushing, server
  <2> QED BY <1>1, <2>1, <2>2, <2>3 DEF Enqueue, TypeOK, flushing, server
<1>2. ASSUME NEW f \in Flusher, BeginFlush(f)
      PROVE  TypeInv'
  <2>1. Pending \subseteq RowId /\ Pending \subseteq Row
    BY DEF Pending, TypeOK
  <2>2. pc' \in [Flusher -> FlushPc] /\ remaining' \in [Flusher -> SUBSET Row]
    BY <1>2, <2>1 DEF BeginFlush, TypeOK, FlushPc
  <2>3. KnownRows'
    BY <1>2, <2>1 DEF BeginFlush, KnownRows, TypeOK, table, server
  <2> QED BY <1>2, <2>2, <2>3 DEF BeginFlush, TypeOK, table, server
<1>3. ASSUME NEW f \in Flusher, EndFlush(f), UNCHANGED <<body, server>>,
             requests' \in SUBSET Request,
             \A q \in requests' : \E r \in requests : q.batch = r.batch
      PROVE  KnownRows'
  <2>1. \A g \in Flusher : remaining'[g] \subseteq RowId
    BY <1>3 DEF EndFlush, KnownRows, TypeOK
  <2>2. \A q \in requests' : q.batch \subseteq RowId
    BY <1>3 DEF KnownRows
  <2> QED BY <1>3, <2>1, <2>2 DEF KnownRows, server
<1>4. ASSUME NEW f \in Flusher, ConnectFails(f)
      PROVE  TypeInv'
  <2>1. KnownRows'
    BY <1>3, <1>4 DEF ConnectFails, TypeOK, table
  <2> QED BY <1>4, <2>1, EndFlushTyped, FailureTyped DEF ConnectFails, TypeOK,
             table, server
<1>5. ASSUME NEW f \in Flusher, NetworkError(f)
      PROVE  TypeInv'
  <2>1. /\ requests' \subseteq Request
        /\ \A q \in requests' : \E r \in requests : q.batch = r.batch
    BY <1>5, OrphanedStep DEF NetworkError, TypeOK
  <2>2. KnownRows'
    BY <1>3, <1>5, <2>1 DEF NetworkError, table
  <2> QED BY <1>5, <2>1, <2>2, EndFlushTyped, FailureTyped
             DEF NetworkError, TypeOK, table, server
<1>6. ASSUME NEW f \in Flusher, Connect(f)
      PROVE  TypeInv'
  <2>1. AppendRequest(f, EpochToUse, remaining[f]) \in Request
    BY <1>6 DEF AppendRequest, Request, Connect, TypeOK
  <2>2. AppendRequest(f, EpochToUse, remaining[f]).batch \subseteq RowId
    BY DEF AppendRequest, KnownRows
  <2>3. KnownRows'
    BY <1>6, <2>2 DEF Connect, KnownRows, server
  <2>4. requests' \subseteq Request
    BY <1>6, <2>1 DEF Connect, TypeOK
  <2>5. pc' \in [Flusher -> FlushPc]
    BY <1>6 DEF Connect, TypeOK, FlushPc
  <2>6. mine' \in [Flusher -> Copy]
    BY <1>6 DEF Connect, TypeOK, Copy
  <2>7. epoch' \in Epoch /\ lastSeq' \in {0, 1}
    BY <1>6 DEF Connect
  <2> QED BY <1>6, <2>3, <2>4, <2>5, <2>6, <2>7 DEF Connect, TypeOK, server
<1>7. ASSUME NEW r \in requests, Receive(r)
      PROVE  TypeInv'
  <2>1. r \in Request /\ r.batch \subseteq Row /\ r.epoch \in Epoch
    BY DEF TypeOK, Request
  <2>2. Len(stream) + 1 \in Nat /\ (r.epoch < serverEpoch => serverEpoch \in Nat)
    BY <2>1 DEF TypeOK
  <2>3. ASSUME NEW result \in {"appended", "duplicate", "stale"},
               NEW value \in Nat, Reply(r, result, value)
        PROVE  answer' \in [Flusher -> Answer]
    <3>1. [result |-> result, value |-> value] \in Answer
      BY DEF Answer
    <3> QED BY <2>3, <3>1 DEF Reply, TypeOK
  <2>4. answer' \in [Flusher -> Answer]
    BY <1>7, <2>2, <2>3 DEF Receive
  <2>5. /\ stream' \in Seq(SUBSET Row) /\ serverEpoch' \in Epoch \cup {-1}
        /\ \A i \in DOMAIN stream' : stream'[i] \subseteq RowId
    <3>1. CASE stream' = Append(stream, r.batch) /\ serverEpoch' = r.epoch
      BY <2>1, <3>1 DEF TypeOK, KnownRows
    <3>2. CASE UNCHANGED server
      BY <3>2 DEF server, TypeOK, KnownRows
    <3> QED BY <1>7, <3>1, <3>2 DEF Receive
  <2>6. KnownRows'
    BY <1>7, <2>5 DEF Receive, KnownRows, table
  <2> QED BY <1>7, <2>4, <2>5, <2>6 DEF Receive, TypeOK, table
<1>8. ASSUME NEW f \in Flusher, MarkAcked(f)
      PROVE  TypeInv'
  <2>1. KnownRows'
    BY <1>3, <1>8 DEF MarkAcked, TypeOK
  <2>2. /\ acked' \subseteq RowId' /\ epoch' \in Epoch /\ lastSeq' \in {0, 1}
        /\ lastOffset' \in Nat
    BY <1>8 DEF MarkAcked, TypeOK, KnownRows, Copy, Answer
  <2> QED BY <1>8, <2>1, <2>2, EndFlushTyped DEF MarkAcked, TypeOK, server
<1>9. ASSUME NEW f \in Flusher, FlushThrows(f)
      PROVE  TypeInv'
  <2>1. KnownRows'
    BY <1>3, <1>9 DEF FlushThrows, TypeOK, table
  <2> QED BY <1>9, <2>1, EndFlushTyped DEF FlushThrows, TypeOK, table, server
<1>10. ASSUME NEW f \in Flusher, Reconcile(f)
       PROVE  TypeInv'
  <2>1. mine' \in [Flusher -> Copy] /\ pc' \in [Flusher -> FlushPc]
    BY <1>10 DEF Reconcile, TypeOK, Copy, FlushPc
  <2> QED BY <1>10, <2>1 DEF Reconcile, TypeOK, KnownRows, table, server
<1>11. ASSUME NEW f \in Flusher, ReadTail(f)
       PROVE  TypeInv'
  <2>1. mine[f].tail \in Nat
    BY DEF TypeOK, Copy
  <2>2. BodiesAfter(mine[f].tail) \subseteq Body
    BY <2>1, TailIsPublished
  <2>3. seen' \in [Flusher -> SUBSET Body]
    BY <1>11, <2>2 DEF ReadTail, TypeOK
  <2>4. pc' \in [Flusher -> FlushPc]
    BY <1>11 DEF ReadTail, TypeOK, FlushPc
  <2> QED BY <1>11, <2>3, <2>4 DEF ReadTail, TypeOK, KnownRows, table, server
<1>12. ASSUME NEW f \in Flusher, MarkAckedByFingerprints(f)
       PROVE  TypeInv'
  <2> DEFINE left == remaining[f] \ Found(f)
             next == answer[f].value + 1
  <2>1. left \subseteq RowId /\ left \subseteq Row
    BY DEF KnownRows, TypeOK
  <2>2. acked' \subseteq RowId
    BY <1>12 DEF MarkAckedByFingerprints, Found, KnownRows, TypeOK
  <2>3. CASE EndFlush(f) /\ UNCHANGED <<epoch, lastSeq, lastOffset, requests>>
    <3>1. KnownRows'
      BY <1>3, <1>12, <2>3 DEF MarkAckedByFingerprints, TypeOK
    <3> QED BY <1>12, <2>2, <2>3, <3>1, EndFlushTyped
            DEF MarkAckedByFingerprints, TypeOK, server
  <2>4. CASE ~(EndFlush(f) /\ UNCHANGED <<epoch, lastSeq, lastOffset, requests>>)
    <3> DEFINE new == AppendRequest(f, next, left)
    <3>1. /\ next \in Epoch
          /\ epoch' = next /\ lastSeq' = 0 /\ lastOffset' = mine[f].offset
          /\ pc' = [pc EXCEPT ![f] = "sending"]
          /\ remaining' = [remaining EXCEPT ![f] = left]
          /\ mine' = [mine EXCEPT ![f].epoch = next]
          /\ answer' = [answer EXCEPT ![f] = NoAnswer]
          /\ seen' = [seen EXCEPT ![f] = {}]
          /\ requests' = requests \cup {new}
      BY <1>12, <2>4 DEF MarkAckedByFingerprints
    <3>2. new \in Request /\ new.batch \subseteq RowId
      BY <2>1, <3>1 DEF AppendRequest, Request
    <3>3. requests' \subseteq Request
      BY <3>1, <3>2 DEF TypeOK
    <3>4. pc' \in [Flusher -> FlushPc] /\ remaining' \in [Flusher -> SUBSET Row]
      BY <2>1, <3>1 DEF TypeOK, FlushPc
    <3>5. mine' \in [Flusher -> Copy] /\ lastOffset' \in Nat
      BY <3>1 DEF TypeOK, Copy
    <3>6. answer' \in [Flusher -> Answer]
      BY <3>1 DEF TypeOK, Answer, NoAnswer
    <3>7. seen' \in [Flusher -> SUBSET Body]
      BY <3>1 DEF TypeOK
    <3>8. UNCHANGED <<body, server, faults>>
      BY <1>12 DEF MarkAckedByFingerprints
    <3>9. \A q \in requests' : q.batch \subseteq RowId
      BY <3>1, <3>2 DEF KnownRows
    <3>10. \A g \in Flusher : remaining'[g] \subseteq RowId
      BY <2>1, <3>1 DEF TypeOK, KnownRows
    <3> HIDE DEF new, next, left
    <3>11. KnownRows'
      BY <3>8, <3>9, <3>10 DEF KnownRows, server
    <3> QED BY <2>2, <3>1, <3>3, <3>4, <3>5, <3>6, <3>7, <3>8, <3>11
            DEF TypeOK, server
  <2> QED BY <2>3, <2>4
<1>13. CASE Crash
  <2>1. "idle" \in FlushPc /\ NoCopy \in Copy /\ NoAnswer \in Answer
    BY DEF FlushPc, NoCopy, Copy, NoAnswer, Answer
  <2>2. /\ pc' \in [Flusher -> FlushPc] /\ remaining' \in [Flusher -> SUBSET Row]
        /\ mine' \in [Flusher -> Copy] /\ answer' \in [Flusher -> Answer]
        /\ seen' \in [Flusher -> SUBSET Body]
    BY <1>13, <2>1 DEF Crash
  <2>3. /\ requests' \subseteq Request
        /\ \A q \in requests' : \E r \in requests : q.batch = r.batch
    BY <1>13, OrphanedStep DEF Crash, TypeOK
  <2>4. faults' \in [crashes : 0 .. MaxCrashes, failures : 0 .. MaxFailures]
    BY <1>13 DEF Crash, TypeOK
  <2>5. KnownRows'
    BY <1>13, <2>3 DEF Crash, KnownRows, table, server
  <2> QED BY <1>13, <2>2, <2>3, <2>4, <2>5 DEF Crash, TypeOK, table, server
<1>14. CASE UNCHANGED vars
  BY <1>14 DEF vars, table, flushing, server, TypeOK, KnownRows
<1> QED BY <1>1, <1>2, <1>4, <1>5, <1>6, <1>7, <1>8, <1>9, <1>10, <1>11, <1>12,
           <1>13, <1>14 DEF Next, FlushStep

(***************************************************************************)
(* An empty outbox has these types.                                        *)
(***************************************************************************)
LEMMA InitTyped == Init => TypeInv
<1> SUFFICES ASSUME Init
             PROVE  TypeInv
  OBVIOUS
<1>1. NoCopy \in Copy /\ NoAnswer \in Answer /\ "idle" \in FlushPc
  BY DEF FlushPc, NoCopy, Copy, NoAnswer, Answer
<1>2. TypeOK
  BY <1>1 DEF Init, TypeOK
<1>3. KnownRows
  BY DEF Init, KnownRows
<1> QED BY <1>2, <1>3 DEF TypeInv

(***************************************************************************)
(* The tables, the flushes and the requests under way keep their types.    *)
(***************************************************************************)
THEOREM TypeCorrect == Spec => []TypeOK
<1>1. TypeInv => TypeOK
  BY DEF TypeInv
<1> QED BY <1>1, InitTyped, TypeNext, PTL DEF Spec

------------------------------------------------------------------------------
(* Rows are marked only when they are in the stream. *)

(***************************************************************************)
(* Rows and batches are only added.                                        *)
(***************************************************************************)
LEMMA GrowStep ==
  ASSUME [Next]_vars
  PROVE  \/ UNCHANGED <<body, stream>>
         \/ \E b \in Body : body' = Append(body, b) /\ stream' = stream
         \/ \E r \in requests : stream' = Append(stream, r.batch) /\ body' = body
<1>1. ASSUME NEW b \in Body, Enqueue(b)
      PROVE  body' = Append(body, b) /\ stream' = stream
  BY <1>1 DEF Enqueue, server
<1>2. ASSUME NEW r \in requests, Receive(r)
      PROVE  /\ body' = body
             /\ stream' = stream \/ stream' = Append(stream, r.batch)
  BY <1>2 DEF Receive, table, server
<1>3. ASSUME NEW f \in Flusher,
             BeginFlush(f) \/ ConnectFails(f) \/ NetworkError(f) \/ FlushStep(f)
      PROVE  UNCHANGED <<body, stream>>
  BY <1>3 DEF BeginFlush, ConnectFails, NetworkError, FlushStep, Connect,
              MarkAcked, FlushThrows, Reconcile, ReadTail,
              MarkAckedByFingerprints, table, server
<1>4. CASE Crash \/ UNCHANGED vars
  BY <1>4 DEF Crash, vars, table, server
<1> QED BY <1>1, <1>2, <1>3, <1>4 DEF Next

(***************************************************************************)
(* What is published stays published, and rows keep their payloads.        *)
(***************************************************************************)
LEMMA PublishedStays ==
  ASSUME TypeInv, [Next]_vars
  PROVE  /\ \A r \in RowId : r \in RowId' /\ body'[r] = body[r]
         /\ \A b : Published(b) => Published(b)'
<1>1. \A r \in RowId : r \in RowId' /\ body'[r] = body[r]
  BY GrowStep DEF TypeInv, TypeOK
<1>2. \A i \in DOMAIN stream : i \in DOMAIN stream' /\ stream'[i] = stream[i]
  <2>1. ASSUME NEW r \in requests, stream' = Append(stream, r.batch)
        PROVE  \A i \in DOMAIN stream : i \in DOMAIN stream' /\ stream'[i] = stream[i]
    <3>1. r.batch \in SUBSET Row
      BY DEF TypeInv, TypeOK, Request
    <3> QED BY <2>1, <3>1 DEF TypeInv, TypeOK
  <2>2. CASE stream' = stream
    BY <2>2
  <2> QED BY <2>1, <2>2, GrowStep
<1> SUFFICES ASSUME NEW b, Published(b)
             PROVE  Published(b)'
  BY <1>1
<1>3. PICK i \in DOMAIN stream : \E r \in stream[i] : body[r] = b
  BY DEF Published
<1>4. \A r \in stream[i] : r \in RowId
  BY DEF TypeInv, KnownRows
<1> QED BY <1>1, <1>2, <1>3, <1>4 DEF Published

(***************************************************************************)
(* A flush that ends leaves no request that waits for it.                  *)
(***************************************************************************)
LEMMA EndFlushWired ==
  ASSUME TypeOK, Wired, NEW f \in Flusher, EndFlush(f),
         \A q \in requests' :
           q.from # f /\ (q.from \in Flusher => q \in requests)
  PROVE  Wired'
<1>1. /\ \A g \in Flusher \ {f} : /\ pc'[g] = pc[g] /\ answer'[g] = answer[g]
                                  /\ remaining'[g] = remaining[g]
      /\ answer'[f] = NoAnswer
  BY DEF EndFlush, TypeOK
<1> QED BY <1>1 DEF Wired

(***************************************************************************)
(* A flush that sends had no request under way and no answer.              *)
(***************************************************************************)
LEMMA SendWired ==
  ASSUME TypeOK, Wired, NEW f \in Flusher, NEW e, NEW batch,
         pc[f] # "sending",
         pc' = [pc EXCEPT ![f] = "sending"],
         requests' = requests \cup {AppendRequest(f, e, batch)},
         remaining'[f] = batch, answer'[f] = NoAnswer,
         \A g \in Flusher \ {f} :
           remaining'[g] = remaining[g] /\ answer'[g] = answer[g]
  PROVE  Wired'
<1>1. /\ \A g \in Flusher \ {f} : pc'[g] = pc[g]
      /\ pc'[f] = "sending"
  BY DEF TypeOK
<1>2. \A r \in requests : r.from # f
  BY DEF Wired
<1> DEFINE new == AppendRequest(f, e, batch)
<1>3. new.from = f /\ new.batch = batch
  BY DEF AppendRequest
<1> HIDE DEF new
<1>4. requests' = requests \cup {new}
  BY DEF new
<1> QED BY <1>1, <1>2, <1>3, <1>4 DEF Wired

(***************************************************************************)
(* An answer reaches the flush that sent the request, and no other.        *)
(***************************************************************************)
LEMMA ReceiveStep ==
  ASSUME TypeInv, Wired, NEW r \in requests, Receive(r)
  PROVE  /\ requests' = requests \ {r}
         /\ \A f \in Flusher :
              /\ f # r.from => answer'[f] = answer[f]
              /\ f = r.from =>
                   /\ pc[f] = "sending" /\ r.batch = remaining[f]
                   /\ answer'[f].result = "appended" =>
                        stream' = Append(stream, r.batch)
<1> DEFINE Effect(result) ==
             \A f \in Flusher :
               /\ f # r.from => answer'[f] = answer[f]
               /\ f = r.from => answer'[f].result = result
<1>1. ASSUME NEW result, NEW value, Reply(r, result, value)
      PROVE  Effect(result)
  BY <1>1 DEF Reply, TypeInv, TypeOK
<1>2. \/ stream' = Append(stream, r.batch) /\ Effect("appended")
      \/ Effect("duplicate")
      \/ Effect("stale")
  BY <1>1 DEF Receive
<1>3. \A f \in Flusher : f = r.from => pc[f] = "sending" /\ r.batch = remaining[f]
  BY DEF Wired
<1>4. requests' = requests \ {r}
  BY DEF Receive
<1> QED BY <1>2, <1>3, <1>4

(***************************************************************************)
(* A request belongs to a flush that waits for its answer, or to nobody.   *)
(***************************************************************************)
LEMMA WiredNext == TypeInv /\ Wired /\ [Next]_vars => Wired'
<1> SUFFICES ASSUME TypeInv, Wired, [Next]_vars
             PROVE  Wired'
  OBVIOUS
<1>1. TypeOK
  BY DEF TypeInv
<1>2. ASSUME NEW b \in Body, Enqueue(b)
      PROVE  Wired'
  BY <1>2 DEF Enqueue, Wired, flushing
<1>3. ASSUME NEW f \in Flusher, BeginFlush(f)
      PROVE  Wired'
  <2>1. \A r \in requests : r.from # f
    BY <1>3 DEF BeginFlush, Wired
  <2>2. \A g \in Flusher \ {f} : pc'[g] = pc[g] /\ remaining'[g] = remaining[g]
    BY <1>1, <1>3 DEF BeginFlush, TypeOK
  <2>3. answer[f] = NoAnswer
    BY <1>3 DEF BeginFlush, Wired
  <2> QED BY <1>3, <2>1, <2>2, <2>3 DEF BeginFlush, Wired
<1>4. ASSUME NEW f \in Flusher, EndFlush(f), requests' = requests,
             pc[f] # "sending" \/ answer[f] # NoAnswer
      PROVE  Wired'
  <2>1. \A r \in requests : r.from # f
    BY <1>4 DEF Wired
  <2> QED BY <1>1, <1>4, <2>1, EndFlushWired
<1>5. ASSUME NEW f \in Flusher, ConnectFails(f)
      PROVE  Wired'
  BY <1>4, <1>5 DEF ConnectFails
<1>6. ASSUME NEW f \in Flusher, NetworkError(f)
      PROVE  Wired'
  <2>1. \A q \in requests' : q.from # f /\ (q.from \in Flusher => q \in requests)
    BY <1>1, <1>6, OrphanedStep DEF NetworkError, TypeOK
  <2> QED BY <1>1, <1>6, <2>1, EndFlushWired DEF NetworkError
<1>7. ASSUME NEW f \in Flusher, Connect(f)
      PROVE  Wired'
  <2>1. answer[f] = NoAnswer /\ pc[f] # "sending"
    BY <1>7 DEF Connect, Wired
  <2> QED BY <1>1, <1>7, <2>1, SendWired DEF Connect
<1>8. ASSUME NEW r \in requests, Receive(r)
      PROVE  Wired'
  <2>1. UNCHANGED <<pc, remaining>>
    BY <1>8 DEF Receive
  <2> QED BY <1>8, <2>1, ReceiveStep DEF Wired
<1>9. ASSUME NEW f \in Flusher, MarkAcked(f) \/ FlushThrows(f)
      PROVE  Wired'
  <2>1. answer[f] # NoAnswer
    BY <1>9 DEF MarkAcked, Delivered, FlushThrows, NoAnswer
  <2> QED BY <1>4, <1>9, <2>1 DEF MarkAcked, FlushThrows
<1>10. ASSUME NEW f \in Flusher, Reconcile(f)
       PROVE  Wired'
  <2>1. answer[f] # NoAnswer
    BY <1>10 DEF Reconcile, NoAnswer
  <2>2. \A g \in Flusher : pc'[g] = IF g = f THEN "reading" ELSE pc[g]
    BY <1>1, <1>10 DEF Reconcile, TypeOK
  <2> QED BY <1>10, <2>1, <2>2 DEF Reconcile, Wired
<1>11. ASSUME NEW f \in Flusher, ReadTail(f)
       PROVE  Wired'
  <2>1. \A g \in Flusher : pc'[g] = IF g = f THEN "marking" ELSE pc[g]
    BY <1>1, <1>11 DEF ReadTail, TypeOK
  <2> QED BY <1>11, <2>1 DEF ReadTail, Wired
<1>12. ASSUME NEW f \in Flusher, MarkAckedByFingerprints(f)
       PROVE  Wired'
  <2>1. CASE EndFlush(f) /\ requests' = requests
    BY <1>4, <1>12, <2>1 DEF MarkAckedByFingerprints
  <2>2. CASE ~(EndFlush(f) /\ requests' = requests)
    <3> DEFINE left == remaining[f] \ Found(f)
               next == answer[f].value + 1
    <3>1. /\ pc[f] = "marking"
          /\ pc' = [pc EXCEPT ![f] = "sending"]
          /\ remaining' = [remaining EXCEPT ![f] = left]
          /\ answer' = [answer EXCEPT ![f] = NoAnswer]
          /\ requests' = requests \cup {AppendRequest(f, next, left)}
      BY <1>12, <2>2 DEF MarkAckedByFingerprints
    <3> HIDE DEF left, next
    <3>2. /\ remaining'[f] = left /\ answer'[f] = NoAnswer
          /\ \A g \in Flusher \ {f} :
               remaining'[g] = remaining[g] /\ answer'[g] = answer[g]
      BY <1>1, <3>1 DEF TypeOK
    <3> QED BY <1>1, <3>1, <3>2, SendWired
  <2> QED BY <2>1, <2>2
<1>13. CASE Crash
  <2>1. \A q \in requests' : q.from \notin Flusher
    BY <1>1, <1>13, OrphanedStep DEF Crash, TypeOK
  <2>2. \A f \in Flusher : answer'[f] = NoAnswer
    BY <1>13 DEF Crash
  <2> QED BY <2>1, <2>2 DEF Wired
<1>14. CASE UNCHANGED vars
  BY <1>14 DEF vars, flushing, Wired
<1> QED BY <1>2, <1>3, <1>5, <1>6, <1>7, <1>8, <1>9, <1>10, <1>11, <1>12, <1>13,
           <1>14 DEF Next, FlushStep

(***************************************************************************)
(* A flush has an offset from before, for the same rows, or because the    *)
(* server has just appended them.                                          *)
(***************************************************************************)
LEMMA OffsetStep ==
  ASSUME TypeInv, Wired, [Next]_vars,
         NEW f \in Flusher, answer'[f].result = "appended"
  PROVE  /\ remaining'[f] = remaining[f]
         /\ answer'[f] = answer[f] \/ stream' = Append(stream, remaining[f])
<1>1. TypeOK /\ NoAnswer.result # "appended"
  BY DEF TypeInv, NoAnswer
<1>2. ASSUME NEW g \in Flusher, EndFlush(g)
      PROVE  remaining'[f] = remaining[f] /\ answer'[f] = answer[f]
  BY <1>1, <1>2 DEF EndFlush, TypeOK
<1>3. ASSUME NEW g \in Flusher, BeginFlush(g)
      PROVE  remaining'[f] = remaining[f] /\ answer'[f] = answer[f]
  BY <1>1, <1>3 DEF BeginFlush, TypeOK, Wired
<1>4. ASSUME NEW r \in requests, Receive(r)
      PROVE  /\ remaining'[f] = remaining[f]
             /\ answer'[f] = answer[f] \/ stream' = Append(stream, remaining[f])
  BY <1>4, ReceiveStep DEF Receive
<1>5. ASSUME NEW g \in Flusher, MarkAckedByFingerprints(g)
      PROVE  remaining'[f] = remaining[f] /\ answer'[f] = answer[f]
  <2>1. CASE EndFlush(g)
    BY <1>2, <2>1
  <2>2. CASE ~EndFlush(g)
    <3> DEFINE left == remaining[g] \ Found(g)
    <3>1. /\ remaining' = [remaining EXCEPT ![g] = left]
          /\ answer' = [answer EXCEPT ![g] = NoAnswer]
      BY <1>5, <2>2 DEF MarkAckedByFingerprints
    <3> HIDE DEF left
    <3> QED BY <1>1, <3>1 DEF TypeOK
  <2> QED BY <2>1, <2>2
<1>6. ASSUME NEW g \in Flusher,
             Connect(g) \/ Reconcile(g) \/ ReadTail(g)
      PROVE  UNCHANGED <<remaining, answer>>
  BY <1>6 DEF Connect, Reconcile, ReadTail
<1>7. ASSUME NEW g \in Flusher,
             ConnectFails(g) \/ NetworkError(g) \/ MarkAcked(g) \/ FlushThrows(g)
      PROVE  EndFlush(g)
  BY <1>7 DEF ConnectFails, NetworkError, MarkAcked, FlushThrows
<1>8. ASSUME NEW b \in Body, Enqueue(b)
      PROVE  UNCHANGED <<remaining, answer>>
  BY <1>8 DEF Enqueue, flushing
<1>9. ~Crash
  BY <1>1 DEF Crash
<1>10. CASE UNCHANGED vars
  BY <1>10 DEF vars, flushing
<1> QED BY <1>2, <1>3, <1>4, <1>5, <1>6, <1>7, <1>8, <1>9, <1>10 DEF Next, FlushStep

(***************************************************************************)
(* A fingerprint a flush knows it knew before, or it is in the stream.     *)
(***************************************************************************)
LEMMA SeenStep ==
  ASSUME TypeInv, [Next]_vars, NEW f \in Flusher, NEW b \in seen'[f]
  PROVE  b \in seen[f] \/ Published(b)
<1>1. TypeOK
  BY DEF TypeInv
<1>2. ASSUME NEW g \in Flusher, EndFlush(g)
      PROVE  b \in seen[f]
  BY <1>1, <1>2 DEF EndFlush, TypeOK
<1>3. ASSUME NEW g \in Flusher, ReadTail(g)
      PROVE  b \in seen[f] \/ Published(b)
  <2>1. mine[g].tail \in Nat
    BY <1>1 DEF TypeOK, Copy
  <2>2. seen' = [seen EXCEPT ![g] = BodiesAfter(mine[g].tail)] \/ seen' = [seen EXCEPT ![g] = {}]
    BY <1>3 DEF ReadTail
  <2>3. CASE f = g
    BY <1>1, <2>1, <2>2, <2>3, TailIsPublished DEF TypeOK
  <2>4. CASE f # g
    BY <1>1, <2>2, <2>4 DEF TypeOK
  <2> QED BY <2>3, <2>4
<1>4. ASSUME NEW g \in Flusher, MarkAckedByFingerprints(g)
      PROVE  b \in seen[f]
  <2>1. seen' = [seen EXCEPT ![g] = {}]
    BY <1>4 DEF MarkAckedByFingerprints, EndFlush
  <2> QED BY <1>1, <2>1 DEF TypeOK
<1>5. ASSUME NEW g \in Flusher, BeginFlush(g) \/ Connect(g) \/ Reconcile(g)
      PROVE  seen' = seen
  BY <1>5 DEF BeginFlush, Connect, Reconcile
<1>6. ASSUME NEW g \in Flusher,
             ConnectFails(g) \/ NetworkError(g) \/ MarkAcked(g) \/ FlushThrows(g)
      PROVE  EndFlush(g)
  BY <1>6 DEF ConnectFails, NetworkError, MarkAcked, FlushThrows
<1>7. ASSUME NEW c \in Body, Enqueue(c)
      PROVE  seen' = seen
  BY <1>7 DEF Enqueue, flushing
<1>8. ASSUME NEW r \in requests, Receive(r)
      PROVE  seen' = seen
  BY <1>8 DEF Receive
<1>9. ~Crash
  BY DEF Crash
<1>10. CASE UNCHANGED vars
  BY <1>10 DEF vars, flushing
<1> QED BY <1>2, <1>3, <1>4, <1>5, <1>6, <1>7, <1>8, <1>9, <1>10 DEF Next, FlushStep

(***************************************************************************)
(* A row is marked by a flush that has it, on an offset or a fingerprint.  *)
(***************************************************************************)
LEMMA AckStep ==
  ASSUME [Next]_vars, NEW r \in acked'
  PROVE  \/ r \in acked
         \/ \E f \in Flusher :
              /\ r \in remaining[f]
              /\ answer[f].result = "appended" \/ body[r] \in seen[f]
<1>1. ASSUME NEW f \in Flusher, MarkAcked(f)
      PROVE  r \in acked \/ (r \in remaining[f] /\ answer[f].result = "appended")
  BY <1>1 DEF MarkAcked, Delivered
<1>2. ASSUME NEW f \in Flusher, MarkAckedByFingerprints(f)
      PROVE  r \in acked \/ (r \in remaining[f] /\ body[r] \in seen[f])
  BY <1>2 DEF MarkAckedByFingerprints, Found
<1>3. ASSUME NEW f \in Flusher,
             \/ BeginFlush(f) \/ ConnectFails(f) \/ NetworkError(f) \/ Connect(f)
             \/ FlushThrows(f) \/ Reconcile(f) \/ ReadTail(f)
      PROVE  acked' = acked
  BY <1>3 DEF BeginFlush, ConnectFails, NetworkError, Connect, FlushThrows,
              Reconcile, ReadTail, table
<1>4. ASSUME NEW b \in Body, Enqueue(b)
      PROVE  acked' = acked
  BY <1>4 DEF Enqueue
<1>5. ASSUME NEW q \in requests, Receive(q)
      PROVE  acked' = acked
  BY <1>5 DEF Receive, table
<1>6. CASE Crash \/ UNCHANGED vars
  BY <1>6 DEF Crash, vars, table
<1> QED BY <1>1, <1>2, <1>3, <1>4, <1>5, <1>6 DEF Next, FlushStep

(***************************************************************************)
(* Offsets and fingerprints speak of rows that are in the stream, so the   *)
(* rows marked on them are.                                                *)
(***************************************************************************)
LEMMA PublishNext == PublishInv /\ [Next]_vars => PublishInv'
<1> SUFFICES ASSUME PublishInv, [Next]_vars
             PROVE  PublishInv'
  OBVIOUS
<1> USE DEF PublishInv
<1>1. TypeInv' /\ Wired'
  BY TypeNext, WiredNext
<1>2. ASSUME NEW r \in RowId, Published(body[r])
      PROVE  Published(body[r])'
  BY <1>2, PublishedStays DEF Published
<1>3. \A f \in Flusher : remaining[f] \subseteq RowId
  BY DEF TypeInv, KnownRows
<1>4. OffsetIsTrue'
  <2> SUFFICES ASSUME NEW f \in Flusher, answer'[f].result = "appended",
                      NEW r \in remaining'[f]
               PROVE  Published(body[r])'
    BY DEF OffsetIsTrue
  <2>1. r \in remaining[f] /\ r \in RowId
    BY <1>3, OffsetStep
  <2>2. CASE answer'[f] = answer[f]
    BY <1>2, <2>1, <2>2 DEF OffsetIsTrue
  <2>3. CASE stream' = Append(stream, remaining[f])
    <3>1. remaining[f] \in SUBSET Row
      BY DEF TypeInv, TypeOK
    <3>2. Len(stream) + 1 \in DOMAIN stream' /\ stream'[Len(stream) + 1] = remaining[f]
      BY <2>3, <3>1 DEF TypeInv, TypeOK
    <3> QED BY <2>1, <3>2 DEF Published
  <2> QED BY <2>2, <2>3, OffsetStep
<1>5. SeenIsPublished'
  BY SeenStep, PublishedStays DEF SeenIsPublished
<1>6. AckedIsPublished'
  <2> SUFFICES ASSUME NEW r \in acked'
               PROVE  Published(body[r])'
    BY DEF AckedIsPublished
  <2>1. r \in RowId /\ Published(body[r])
    BY <1>3, AckStep DEF AckedIsPublished, OffsetIsTrue, SeenIsPublished, TypeInv, TypeOK
  <2> QED BY <1>2, <2>1
<1> QED BY <1>1, <1>4, <1>5, <1>6

(***************************************************************************)
(* Of an empty outbox nothing is under way.                                *)
(***************************************************************************)
LEMMA InitPublish == Init => PublishInv
<1> SUFFICES ASSUME Init
             PROVE  Wired /\ OffsetIsTrue /\ SeenIsPublished /\ AckedIsPublished
  BY InitTyped DEF PublishInv
<1> QED BY DEF Init, Wired, OffsetIsTrue, SeenIsPublished, AckedIsPublished, NoAnswer

(***************************************************************************)
(* A row is marked as published only when its payload is in the stream,    *)
(* whatever flushes overlap, and whatever requests are lost or late.       *)
(***************************************************************************)
THEOREM MarkedMeansPublished == Spec => []AckedIsPublished
<1>1. PublishInv => AckedIsPublished
  BY DEF PublishInv
<1> QED BY <1>1, InitPublish, PublishNext, PTL DEF Spec

------------------------------------------------------------------------------
(* The order of the stream. *)

(***************************************************************************)
(* A step does not open a batch: what is published stays published.        *)
(***************************************************************************)
LEMMA ClosedStays ==
  ASSUME TypeInv, [Next]_vars, NEW batch \in SUBSET RowId, Closed(batch)
  PROVE  Closed(batch)'
<1> SUFFICES ASSUME NEW s \in batch, NEW r \in Row, r < s, r \notin batch
             PROVE  Published(body[r])'
  BY DEF Closed
<1>1. r \in RowId
  BY DEF TypeInv, TypeOK
<1>2. Published(body[r])
  BY DEF Closed
<1> QED BY <1>1, <1>2, PublishedStays DEF Published

(***************************************************************************)
(* The rows a flush begins with, and those that are left when fingerprints *)
(* of some were found: of every row below them, what is not among them is  *)
(* published.                                                              *)
(***************************************************************************)
LEMMA FlushClosed ==
  ASSUME PublishInv
  PROVE  /\ Closed({}) /\ Closed(Pending)
         /\ \A f \in Flusher :
              Closed(remaining[f]) => Closed(remaining[f] \ Found(f))
<1>1. Closed({})
  BY DEF Closed
<1>2. Closed(Pending)
  BY DEF Closed, Pending, PublishInv, AckedIsPublished, TypeInv, TypeOK
<1>3. ASSUME NEW f \in Flusher, Closed(remaining[f])
      PROVE  Closed(remaining[f] \ Found(f))
  BY <1>3 DEF Closed, Found, PublishInv, SeenIsPublished
<1> QED BY <1>1, <1>2, <1>3

(***************************************************************************)
(* Where the rows of a flush come from.                                    *)
(***************************************************************************)
LEMMA RemainingStep ==
  ASSUME TypeOK, [Next]_vars, NEW f \in Flusher
  PROVE  remaining'[f] \in
           {remaining[f], {}, Pending, remaining[f] \ Found(f)}
<1>1. ASSUME NEW g \in Flusher, EndFlush(g)
      PROVE  remaining'[f] \in {remaining[f], {}}
  BY <1>1 DEF EndFlush, TypeOK
<1>2. ASSUME NEW g \in Flusher, BeginFlush(g)
      PROVE  remaining'[f] \in {remaining[f], Pending}
  BY <1>2 DEF BeginFlush, TypeOK
<1>3. ASSUME NEW g \in Flusher, MarkAckedByFingerprints(g)
      PROVE  remaining'[f] \in {remaining[f], {}, remaining[f] \ Found(f)}
  <2> DEFINE left == remaining[g] \ Found(g)
  <2>1. EndFlush(g) \/ remaining' = [remaining EXCEPT ![g] = left]
    BY <1>3 DEF MarkAckedByFingerprints
  <2>2. CASE remaining' = [remaining EXCEPT ![g] = left]
    <3>1. remaining'[f] = IF f = g THEN left ELSE remaining[f]
      BY <2>2 DEF TypeOK
    <3> QED BY <3>1
  <2> QED BY <1>1, <2>1, <2>2
<1>4. ASSUME NEW g \in Flusher,
             ConnectFails(g) \/ NetworkError(g) \/ MarkAcked(g) \/ FlushThrows(g)
      PROVE  EndFlush(g)
  BY <1>4 DEF ConnectFails, NetworkError, MarkAcked, FlushThrows
<1>5. ASSUME NEW g \in Flusher, Connect(g) \/ Reconcile(g) \/ ReadTail(g)
      PROVE  remaining' = remaining
  BY <1>5 DEF Connect, Reconcile, ReadTail
<1>6. ASSUME NEW b \in Body, Enqueue(b)
      PROVE  remaining' = remaining
  BY <1>6 DEF Enqueue, flushing
<1>7. ASSUME NEW r \in requests, Receive(r)
      PROVE  remaining' = remaining
  BY <1>7 DEF Receive
<1>8. CASE Crash
  BY <1>8 DEF Crash
<1>9. CASE UNCHANGED vars
  BY <1>9 DEF vars, flushing
<1> QED BY <1>1, <1>2, <1>3, <1>4, <1>5, <1>6, <1>7, <1>8, <1>9 DEF Next, FlushStep

(***************************************************************************)
(* Where the batch of a request comes from.                                *)
(***************************************************************************)
LEMMA RequestStep ==
  ASSUME TypeOK, [Next]_vars, NEW q \in requests'
  PROVE  \/ \E r \in requests : q.batch = r.batch
         \/ \E f \in Flusher : q.batch \in {remaining[f], remaining[f] \ Found(f)}
<1>1. ASSUME NEW f, NEW e, NEW batch,
             requests' = requests \cup {AppendRequest(f, e, batch)}
      PROVE  q \in requests \/ q.batch = batch
  BY <1>1 DEF AppendRequest
<1>2. ASSUME NEW f \in Flusher, Connect(f)
      PROVE  q \in requests \/ q.batch = remaining[f]
  BY <1>1, <1>2 DEF Connect
<1>3. ASSUME NEW f \in Flusher, MarkAckedByFingerprints(f)
      PROVE  q \in requests \/ q.batch = remaining[f] \ Found(f)
  <2> DEFINE left == remaining[f] \ Found(f)
             next == answer[f].value + 1
  <2>1. \/ requests' = requests
        \/ requests' = requests \cup {AppendRequest(f, next, left)}
    BY <1>3 DEF MarkAckedByFingerprints
  <2> QED BY <1>1, <2>1
<1>4. ASSUME NEW f \in Flusher, NetworkError(f)
      PROVE  \E r \in requests : q.batch = r.batch
  BY <1>4, OrphanedStep DEF NetworkError, TypeOK
<1>5. CASE Crash
  BY <1>5, OrphanedStep DEF Crash, TypeOK
<1>6. ASSUME NEW f \in Flusher,
             \/ BeginFlush(f) \/ ConnectFails(f) \/ MarkAcked(f) \/ FlushThrows(f)
             \/ Reconcile(f) \/ ReadTail(f)
      PROVE  requests' = requests
  BY <1>6 DEF BeginFlush, ConnectFails, MarkAcked, FlushThrows, Reconcile, ReadTail
<1>7. ASSUME NEW b \in Body, Enqueue(b)
      PROVE  requests' = requests
  BY <1>7 DEF Enqueue
<1>8. ASSUME NEW r \in requests, Receive(r)
      PROVE  q \in requests
  BY <1>8 DEF Receive
<1>9. CASE UNCHANGED vars
  BY <1>9 DEF vars
<1> QED BY <1>2, <1>3, <1>4, <1>5, <1>6, <1>7, <1>8, <1>9 DEF Next, FlushStep

(***************************************************************************)
(* A batch that arrives, however late, comes after the rows it skips.      *)
(***************************************************************************)
LEMMA OrderNext == OrderInv /\ [Next]_vars => OrderInv'
<1> SUFFICES ASSUME OrderInv, [Next]_vars
             PROVE  BatchesClosed' /\ InOrder'
  BY PublishNext DEF OrderInv
<1> USE DEF OrderInv
<1>1. TypeInv /\ TypeOK /\ KnownRows
  BY DEF PublishInv, TypeInv
<1>2. \A f \in Flusher : /\ Closed(remaining[f])
                         /\ Closed(remaining[f] \ Found(f))
  BY FlushClosed DEF BatchesClosed
<1>3. ASSUME NEW f \in Flusher
      PROVE  Closed(remaining[f])'
  <2>1. PICK batch : batch = remaining'[f]
    OBVIOUS
  <2>2. batch \in SUBSET RowId /\ Closed(batch)
    <3>1. batch \in {remaining[f], {}, Pending, remaining[f] \ Found(f)}
      BY <1>1, <2>1, RemainingStep
    <3> QED BY <1>1, <1>2, <3>1, FlushClosed DEF KnownRows, Pending
  <2>3. Closed(batch)'
    BY <1>1, <2>2, ClosedStays
  <2> QED BY <2>1, <2>3 DEF Closed
<1>4. ASSUME NEW q \in requests'
      PROVE  Closed(q.batch)'
  <2>1. q.batch \in SUBSET RowId /\ Closed(q.batch)
    BY <1>1, <1>2, RequestStep DEF KnownRows, BatchesClosed
  <2> QED BY <1>1, <2>1, ClosedStays
<1>5. InOrder'
  <2> SUFFICES ASSUME NEW i \in DOMAIN stream', NEW s \in stream'[i],
                      NEW r \in Row, r < s, r \notin stream'[i]
               PROVE  \E j \in 1 .. i - 1 : \E q \in stream'[j] : body'[q] = body'[r]
    BY DEF InOrder
  <2>1. CASE i \in DOMAIN stream
    <3>1. /\ \A j \in DOMAIN stream : stream'[j] = stream[j]
          /\ i \in Nat /\ 1 .. i - 1 \subseteq DOMAIN stream
      <4>1. ASSUME NEW q \in requests, stream' = Append(stream, q.batch)
            PROVE  \A j \in DOMAIN stream : stream'[j] = stream[j]
        <5>1. q.batch \in SUBSET Row
          BY <1>1 DEF TypeOK, Request
        <5> QED BY <1>1, <4>1, <5>1 DEF TypeOK
      <4>2. \A j \in DOMAIN stream : stream'[j] = stream[j]
        BY <4>1, GrowStep
      <4> QED BY <1>1, <2>1, <4>2 DEF TypeOK
    <3>2. PICK j \in 1 .. i - 1 : \E q \in stream[j] : body[q] = body[r]
      BY <2>1, <3>1 DEF InOrder
    <3>3. s \in RowId /\ r \in RowId
      BY <1>1, <2>1, <3>1 DEF KnownRows, TypeOK
    <3>4. stream[j] \subseteq RowId /\ stream'[j] = stream[j]
      BY <1>1, <3>1, <3>2 DEF KnownRows
    <3> QED BY <1>1, <3>2, <3>3, <3>4, PublishedStays
  <2>2. CASE i \notin DOMAIN stream
    <3>1. PICK q \in requests : stream' = Append(stream, q.batch) /\ body' = body
      BY <2>2, GrowStep
    <3>2. q.batch \in SUBSET Row
      BY <1>1 DEF TypeOK, Request
    <3>3. /\ i = Len(stream) + 1 /\ stream'[i] = q.batch
          /\ \A j \in DOMAIN stream : stream'[j] = stream[j]
          /\ DOMAIN stream = 1 .. i - 1
      BY <1>1, <2>2, <3>1, <3>2 DEF TypeOK
    <3>4. Published(body[r])
      BY <3>3 DEF BatchesClosed, Closed
    <3> QED BY <3>1, <3>3, <3>4 DEF Published
  <2> QED BY <2>1, <2>2
<1> QED BY <1>3, <1>4, <1>5 DEF BatchesClosed

(***************************************************************************)
(* Readers of the stream see rows in the order in which they were          *)
(* enqueued, but for repetitions.                                          *)
(***************************************************************************)
THEOREM StreamIsInOrder == Spec => []InOrder
<1>1. Init => OrderInv
  BY InitPublish DEF Init, OrderInv, BatchesClosed, Closed, InOrder
<1>2. OrderInv => InOrder
  BY DEF OrderInv
<1> QED BY <1>1, <1>2, OrderNext, PTL DEF Spec
==============================================================================
