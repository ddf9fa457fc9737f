----------------------- MODULE DeliveryContractProofs -----------------------
(***************************************************************************)
(* DeliveryPipeline implements DeliveryContract: every step of the         *)
(* pipeline is a step of the contract on the books, or leaves them.        *)
(***************************************************************************)
EXTENDS DeliveryPipelineProofs

books == [r \in Requests |-> Book(r)]
opens == [r \in Requests |-> {w \in Calls : <<w, r>> \in replaying}]

\* What a step of the pipeline is to the contract.
Keeps == [Contract!Next]_<<books, opens, reached>>

-----------------------------------------------------------------------------
(* What the books say of one request *)

\* A record stands in the books by its status while it is in the store.
LEMMA Recorded ==
    ASSUME TypeOK, RecordsBehind, NEW q \in Requests, HasRecord(q)
    PROVE  /\ Book(q) = IF dlq[q].stored THEN dlq[q].status ELSE "expired"
           /\ Book(q) \in Contract!OnRecord <=> dlq[q].stored
           /\ ~dlq[q].stored <=> Book(q) = "expired"
<1>1. /\ pc[q] \in {"sent", "failed"}
      /\ dlq[q].status \in {"failed", "dead_letter", "delivered"}
      /\ dlq[q].stored \in BOOLEAN
  BY DEF RecordsBehind, RecordBehind, TypeOK, HasRecord
<1> QED
  BY <1>1 DEF Book, Contract!OnRecord

\* A request whose place and record stay keeps its entry.
LEMMA SameBook ==
    ASSUME NEW q \in Requests, pc'[q] = pc[q], dlq'[q].status = dlq[q].status,
           dlq'[q].stored = dlq[q].stored
    PROVE  Book(q)' = Book(q)
  BY DEF Book

LEMMA NothingMoves ==
    ASSUME UNCHANGED <<replaying, reached>>, \A q \in Requests : Book(q)' = Book(q)
    PROVE  Keeps
<1>1. books' = books
  BY DEF books
<1>2. opens' = opens
  BY DEF opens
<1> QED
  BY <1>1, <1>2 DEF Keeps

-----------------------------------------------------------------------------
(* The steps *)

LEMMA IngestKeeps ==
    ASSUME TypeOK, RecordsBehind, NEW r \in Requests, Ingest(r)
    PROVE  Keeps
<1>1. /\ pc[r] = "new"
      /\ pc'[r] \in {"rejected", "ignored", "sending"}
      /\ \A q \in Requests \ {r} : pc'[q] = pc[q]
      /\ UNCHANGED <<dlq, reached, replaying>>
  BY IngestEffect DEF replayVars
<1>2. Book(r) = "new" /\ Book(r)' \in {"refused", "sending"}
  BY <1>1 DEF Book
<1>3. \A q \in Requests \ {r} : Book(q)' = Book(q)
  BY <1>1, SameBook
<1>4. books' = [books EXCEPT ![r] = Book(r)'] /\ books[r] = "new"
  BY <1>2, <1>3 DEF books
<1>5. opens' = opens
  BY <1>1 DEF opens
<1>6. Contract!Ingest(r)
  BY <1>1, <1>2, <1>4, <1>5 DEF Contract!Ingest, books, opens
<1> QED
  BY <1>6 DEF Keeps, Contract!Next

LEMMA SettleKeeps ==
    ASSUME TypeOK, RecordsBehind, NEW r \in Requests, NEW res \in Results, Settle(r, res)
    PROVE  Keeps
<1>1. /\ pc[r] = "sending"
      /\ pc'[r] \in {"sent", "failed"}
      /\ "failed" \notin res => pc'[r] = "sent"
      /\ \A q \in Requests \ {r} : pc'[q] = pc[q]
      /\ reached' \in {reached, reached \union {r}}
      /\ UNCHANGED replaying
  BY DEF Settle, replayVars, TypeOK
<1>2. ~HasRecord(r) /\ ~dlq[r].stored
  BY <1>1 DEF RecordsBehind, RecordBehind
<1>3. Book(r) = "sending"
  BY <1>1 DEF Book
<1>4. opens' = opens
  BY <1>1 DEF opens
<1>5. CASE "failed" \notin res
  <2>1. dlq' = dlq
    BY <1>5 DEF Settle
  <2>2. Book(r)' = "settled"
    BY <1>1, <1>2, <1>5, <2>1 DEF Book, HasRecord
  <2>3. \A q \in Requests \ {r} : Book(q)' = Book(q)
    BY <1>1, <2>1, SameBook
  <2>4. books' = [books EXCEPT ![r] = "settled"] /\ books[r] = "sending"
    BY <1>3, <2>2, <2>3 DEF books
  <2>5. Contract!Settle(r)
    BY <1>1, <1>4, <2>4 DEF Contract!Settle, books, opens
  <2> QED
    BY <2>5 DEF Keeps, Contract!Next
<1>6. CASE "failed" \in res
  <2>1. dlq' = Stored(r)
    BY <1>6 DEF Settle
  <2>2. /\ dlq'[r] = NewRecord
        /\ \A q \in Requests \ {r} : /\ dlq'[q].status = dlq[q].status
                                     /\ dlq'[q].stored \in {dlq[q].stored, FALSE}
    BY <2>1, StoredRecords
  <2>3. Book(r)' = "failed"
    BY <1>1, <2>2 DEF Book, NewRecord
  <2> DEFINE gone == {q \in Requests \ {r} : dlq[q].stored /\ ~dlq'[q].stored}
  <2>4. \A q \in gone : books[q] \in Contract!OnRecord
    <3> SUFFICES ASSUME NEW q \in gone PROVE books[q] \in Contract!OnRecord
      OBVIOUS
    <3>1. HasRecord(q) /\ dlq[q].stored
      BY DEF RecordsBehind, RecordBehind
    <3>2. Book(q) \in Contract!OnRecord
      BY <3>1, Recorded
    <3> QED
      BY <3>2 DEF books
  <2>5. \A q \in gone : Book(q)' = "expired"
    <3> SUFFICES ASSUME NEW q \in gone PROVE Book(q)' = "expired"
      OBVIOUS
    <3>1. HasRecord(q) /\ pc[q] \in {"sent", "failed"}
      BY DEF RecordsBehind, RecordBehind
    <3> QED
      BY <1>1, <2>2, <3>1 DEF Book, HasRecord
  <2>6. \A q \in Requests \ {r} : q \notin gone => Book(q)' = Book(q)
    <3> SUFFICES ASSUME NEW q \in Requests \ {r}, q \notin gone PROVE Book(q)' = Book(q)
      OBVIOUS
    <3>1. dlq'[q].stored = dlq[q].stored
      BY <2>2 DEF TypeOK
    <3> QED
      BY <1>1, <2>2, <3>1, SameBook
  <2>7. books' = [q \in Requests |-> IF q = r THEN "failed"
                                      ELSE IF q \in gone THEN "expired" ELSE books[q]]
    BY <2>3, <2>5, <2>6 DEF books
  <2>8. gone \in SUBSET {q \in Requests : books[q] \in Contract!OnRecord}
    BY <2>4
  <2>9. books[r] = "sending"
    BY <1>3 DEF books
  <2> HIDE DEF gone
  <2>10. Contract!Record(r)
    BY <1>1, <1>4, <2>7, <2>8, <2>9 DEF Contract!Record, books, opens
  <2> QED
    BY <2>10 DEF Keeps, Contract!Next
<1> QED
  BY <1>5, <1>6

LEMMA ReplayKeeps ==
    ASSUME TypeOK, RecordsBehind, NEW w \in Calls, NEW r \in Requests,
           NEW override \in BOOLEAN, Replay(w, r, override), HasRecord(r),
           UNCHANGED <<pc, reached>>
    PROVE  Keeps
<1>1. /\ \A q \in Requests \ {r} : dlq'[q] = dlq[q]
      /\ dlq'[r].stored = dlq[r].stored
  BY ReplayEffect
<1>2. \A q \in Requests \ {r} : Book(q)' = Book(q)
  BY <1>1, SameBook
<1>3. CASE dlq'[r].status = dlq[r].status /\ replaying' = replaying
  BY <1>1, <1>2, <1>3, SameBook, NothingMoves
<1>4. CASE dlq'[r].status = "dead_letter" /\ replaying' = replaying
  <2>1. CASE ~dlq[r].stored
    <3>1. Book(r)' = Book(r)
      BY <1>1, <1>4, <2>1 DEF Book, HasRecord
    <3> QED
      BY <1>2, <1>4, <3>1, NothingMoves
  <2>2. CASE dlq[r].stored
    <3>1. Book(r) \in Contract!OnRecord
      BY <2>2, Recorded
    <3>2. pc[r] \in {"sent", "failed"}
      BY DEF RecordsBehind, RecordBehind
    <3>3. Book(r)' = "dead_letter"
      BY <1>1, <1>4, <2>2, <3>2 DEF Book
    <3>4. books' = [books EXCEPT ![r] = "dead_letter"] /\ books[r] \in Contract!OnRecord
      BY <1>2, <3>1, <3>3 DEF books
    <3>5. opens' = opens
      BY <1>4 DEF opens
    <3>6. Contract!GiveUp(r)
      BY <3>4, <3>5 DEF Contract!GiveUp, books, opens
    <3> QED
      BY <3>6 DEF Keeps, Contract!Next
  <2> QED
    BY <2>1, <2>2 DEF TypeOK
<1>5. CASE dlq'[r].status = dlq[r].status /\ replaying' = replaying \union {<<w, r>>}
  <2>1. books' = books
    BY <1>1, <1>2, <1>5, SameBook DEF books
  <2>2. books[r] \in Contract!OnRecord \union {"expired"}
    BY Recorded DEF books, TypeOK
  <2>3. opens' = [opens EXCEPT ![r] = @ \union {w}]
    BY <1>5 DEF opens
  <2>4. Contract!Open(w, r)
    BY <2>1, <2>2, <2>3 DEF Contract!Open, books, opens
  <2> QED
    BY <2>4 DEF Keeps, Contract!Next
<1> QED
  BY <1>3, <1>4, <1>5, ReplayEffect

\* The failure of a replay turns no dead letter into a plain failure: a record is one only when its
\* attempts are used up.
LEMMA EndReplayKeeps ==
    ASSUME TypeOK, RecordsBehind, RecordBooks, NEW w \in Calls, NEW r \in Requests,
           EndReplay(w, r)
    PROVE  Keeps
<1>1. /\ <<w, r>> \in replaying
      /\ replaying' = replaying \ {<<w, r>>}
      /\ \A q \in Requests \ {r} : dlq'[q] = dlq[q]
      /\ dlq'[r].stored = dlq[r].stored
      /\ ~dlq[r].stored => dlq'[r].status = dlq[r].status
      /\ UNCHANGED pc
  BY EndReplayEffect DEF requestVars
<1>2. /\ HasRecord(r)
      /\ pc[r] \in {"sent", "failed"}
  BY <1>1 DEF RecordsBehind, RecordBehind
<1>3. \A q \in Requests \ {r} : Book(q)' = Book(q)
  BY <1>1, SameBook
<1>4. books' = [books EXCEPT ![r] = Book(r)'] /\ books[r] = Book(r)
  BY <1>3 DEF books
<1>5. w \in opens[r] /\ opens' = [opens EXCEPT ![r] = @ \ {w}]
  BY <1>1 DEF opens
<1>6. ~dlq[r].stored => Book(r) = "expired" /\ books' = books
  <2>1. ~dlq[r].stored => Book(r)' = Book(r)
    BY <1>1, SameBook
  <2> QED
    BY <1>4, <2>1, <1>2, Recorded DEF books
<1>7. CASE /\ reached' = reached \union {r}
           /\ dlq[r].stored => dlq'[r].status = "delivered"
  <2>1. dlq[r].stored => Book(r) \in Contract!OnRecord /\ Book(r)' = "delivered"
    BY <1>1, <1>2, <1>7, Recorded DEF Book
  <2>2. ~dlq[r].stored => Book(r) \notin Contract!OnRecord
    BY <1>2, Recorded
  <2>3. Contract!Deliver(w, r)
    BY <1>4, <1>5, <1>6, <1>7, <2>1, <2>2 DEF Contract!Deliver, books, opens, TypeOK
  <2> QED
    BY <2>3 DEF Keeps, Contract!Next
<1>8. CASE /\ reached' = reached
           /\ dlq[r].stored => dlq'[r].status = FailedStatus(r)
  <2>1. CASE ~dlq[r].stored
    BY <1>4, <1>5, <1>6, <1>8, <2>1 DEF Contract!Fail, books, opens, Keeps, Contract!Next
  <2>2. CASE dlq[r].stored /\ Exhausted(r)
    <3>1. Book(r) \in Contract!OnRecord /\ Book(r)' = "dead_letter"
      BY <1>1, <1>2, <1>8, <2>2, Recorded DEF Book, FailedStatus
    <3>2. Contract!Fail(w, r)
      BY <1>4, <1>5, <1>8, <3>1 DEF Contract!Fail, books, opens
    <3> QED
      BY <3>2 DEF Keeps, Contract!Next
  <2>3. CASE dlq[r].stored /\ ~Exhausted(r)
    <3>1. dlq[r].status \in {"failed", "delivered"}
      BY <1>2, <2>3 DEF RecordBooks, RecordBook, HasRecord, Exhausted, TypeOK
    <3>2. Book(r) \in {"failed", "delivered"} /\ Book(r)' = "failed"
      BY <1>1, <1>2, <1>8, <2>3, <3>1 DEF Book, FailedStatus
    <3>3. Contract!Fail(w, r)
      BY <1>4, <1>5, <1>8, <3>2 DEF Contract!Fail, books, opens
    <3> QED
      BY <3>3 DEF Keeps, Contract!Next
  <2> QED
    BY <2>1, <2>2, <2>3 DEF TypeOK
<1> QED
  BY <1>7, <1>8, EndReplayEffect

LEMMA RestKeeps ==
    ASSUME UNCHANGED <<pc, dlq, replaying, reached>>
    PROVE  Keeps
  BY SameBook, NothingMoves

-----------------------------------------------------------------------------
(* The refinement *)

LEMMA BooksOfInit == Init => Contract!Init
  BY DEF Init, Contract!Init, Book

LEMMA BooksOfStep ==
    TypeOK /\ RecordsBehind /\ RecordBooks /\ [Next]_vars => Keeps
<1> SUFFICES ASSUME TypeOK, RecordsBehind, RecordBooks, [Next]_vars PROVE Keeps
  OBVIOUS
<1>1. ASSUME NEW r \in Requests, Ingest(r) PROVE Keeps
  BY <1>1, IngestKeeps
<1>2. ASSUME NEW r \in Requests, NEW res \in Results, Settle(r, res) PROVE Keeps
  BY <1>2, SettleKeeps
<1>3. ASSUME NEW s \in Singles, NEW r \in Requests, NEW override \in BOOLEAN, NEW k,
             ReplaySingle(s, r, override, k)
      PROVE  Keeps
  <2>1. /\ s \in Calls /\ Replay(s, r, override) /\ HasRecord(r)
        /\ UNCHANGED <<pc, reached>>
    BY <1>3 DEF ReplaySingle, Calls, RecordsBehind, RecordBehind, requestVars
  <2> QED
    BY <2>1, ReplayKeeps
<1>4. ASSUME NEW b \in Batches, NEW r \in Requests, BatchStep(b, r) PROVE Keeps
  <2>1. /\ b \in Calls /\ (b \in forced) \in BOOLEAN /\ Replay(b, r, b \in forced)
        /\ HasRecord(r) /\ UNCHANGED <<pc, reached>>
    BY <1>4 DEF BatchStep, Calls, RecordsBehind, RecordBehind, requestVars
  <2> QED
    BY <2>1, ReplayKeeps
<1>5. ASSUME NEW w \in Calls, NEW r \in Requests, EndReplay(w, r) PROVE Keeps
  BY <1>5, EndReplayKeeps
<1>6. ASSUME NEW r \in Requests, CooldownEnds(r) \/ RecordAges(r) PROVE Keeps
  <2>1. /\ UNCHANGED <<pc, replaying, reached>>
        /\ \A q \in Requests : /\ dlq'[q].status = dlq[q].status
                               /\ dlq'[q].stored = dlq[q].stored
    BY <1>6, ClockEffect DEF requestVars, replayVars
  <2> QED
    BY <2>1, SameBook, NothingMoves
<1>7. ASSUME NEW s, NEW r, NEW override, NEW k, RefuseSingle(s, r, override, k)
      PROVE  Keeps
  BY <1>7, RestKeeps DEF RefuseSingle, requestVars
<1>8. ASSUME NEW b, NEW override, NEW k, ReplayAll(b, override, k) PROVE Keeps
  BY <1>8, RestKeeps DEF ReplayAll, requestVars
<1>9. ASSUME NEW d, IdExpires(d) \/ KeyExpires(d) PROVE Keeps
  BY <1>9, RestKeeps DEF IdExpires, KeyExpires, requestVars, replayVars
<1>10. CASE UNCHANGED vars
  BY <1>10, RestKeeps DEF vars
<1> QED
  BY <1>1, <1>2, <1>3, <1>4, <1>5, <1>6, <1>7, <1>8, <1>9, <1>10
     DEF Next, Dispatch, Admin, AdminAll, Clock

\* Whatever redeliveries, replays, batches and prunings overlap, the store and
\* the endpoints write the books as the contract says: a delivered record goes
\* back to failed only by a replay that was open, a dead letter never, nothing
\* dropped comes back, and a record becomes delivered only with a delivery.
THEOREM ContractKept == SafetySpec => KeepsContract
<1>1. TypeOK /\ RecordsBehind /\ RecordBooks /\ [Next]_vars => [Contract!Next]_(Contract!vars)
  BY BooksOfStep DEF Keeps, Contract!vars, books, opens
<1> QED
  BY <1>1, Books, BooksOfInit, PTL DEF SafetySpec, KeepsContract, Contract!SafetySpec
=============================================================================
