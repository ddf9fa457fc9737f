----------------------- MODULE DeliveryPipelineProofs -----------------------
(***************************************************************************)
(* What DeliveryPipeline guarantees for every set of requests, delivery    *)
(* ids, payloads and replay calls, and every limit.                        *)
(***************************************************************************)
EXTENDS DeliveryPipeline, TLAPS

-----------------------------------------------------------------------------
(* The store operations *)

Statuses == {"received", "duplicate", "delivered", "failed"}

LedgerType == [Ids \union Requests ->
                 [status : {"none"} \union Statuses, hash : Bodies \union {NoBody}]]

\* An upsert writes one key; a key that has an entry keeps its hash.
LEMMA UpsertedEntry ==
    ASSUME TypeOK, NEW k \in Ids \union Requests, NEW b \in Bodies \union {NoBody},
           NEW s \in Statuses
    PROVE  LET new == Upserted(k, b, s) IN
             /\ new \in LedgerType
             /\ new[k].status = s
             /\ ledger[k].status = "none" => new[k].hash = b
             /\ \A j \in Ids \union Requests :
                   /\ j # k => new[j] = ledger[j]
                   /\ ledger[j].status # "none" => /\ new[j].hash = ledger[j].hash
                                                   /\ new[j].status # "none"
  BY DEF TypeOK, Upserted, Statuses, LedgerType

RecordType == [status : {"none", "failed", "dead_letter", "delivered"},
               attempts : Nat, cooling : BOOLEAN, stored : BOOLEAN, old : BOOLEAN]

\* Storing a failure writes the record of its own request and at most takes
\* old ones out of the store.
LEMMA StoredRecords ==
    ASSUME TypeOK, NEW r \in Requests, dlq' = Stored(r)
    PROVE  /\ dlq' \in [Requests -> RecordType]
           /\ dlq'[r] = NewRecord
           /\ \A q \in Requests \ {r} :
                 /\ dlq'[q].status = dlq[q].status
                 /\ dlq'[q].attempts = dlq[q].attempts
                 /\ dlq'[q].old = dlq[q].old
                 /\ dlq'[q].stored \in {dlq[q].stored, FALSE}
                 /\ ~dlq[q].old => dlq'[q].stored = dlq[q].stored
<1> DEFINE out(q) == [dlq[q] EXCEPT !.stored = FALSE]
<1>1. NewRecord \in RecordType
  BY DEF NewRecord, RecordType
<1>2. dlq \in [Requests -> RecordType]
  BY DEF TypeOK, RecordType
<1>3. \A q \in Requests : /\ out(q) \in RecordType
                           /\ out(q).status = dlq[q].status
                           /\ out(q).attempts = dlq[q].attempts
                           /\ out(q).old = dlq[q].old
                           /\ out(q).stored = FALSE
  BY <1>2 DEF RecordType
<1>4. dlq' = [q \in Requests |->
          IF q = r THEN NewRecord ELSE IF q \in Expired THEN out(q) ELSE dlq[q]]
  BY DEF Stored
<1>5. \A q \in Expired : dlq[q].old
  BY DEF Expired
<1> HIDE DEF out
<1> QED
  BY <1>1, <1>2, <1>3, <1>4, <1>5

\* An update writes one record, unless it was dropped.
LEMMA UpdatedRecords ==
    ASSUME TypeOK, NEW r \in Requests, NEW rec \in RecordType
    PROVE  LET new == Updated(r, rec) IN
             /\ new \in [Requests -> RecordType]
             /\ \A q \in Requests \ {r} : new[q] = dlq[q]
             /\ dlq[r].stored => new[r] = rec
             /\ ~dlq[r].stored => new[r] = dlq[r]
  BY DEF TypeOK, Updated, RecordType

\* A replay that is refused or begun reads the record only; beginning it
\* counts an attempt, escalating it writes dead_letter.
LEMMA ReplayEffect ==
    ASSUME TypeOK, NEW w \in Calls, NEW r \in Requests, NEW override \in BOOLEAN,
           Replay(w, r, override)
    PROVE  /\ dlq' \in [Requests -> RecordType]
           /\ replaying' \subseteq Calls \X Requests
           /\ auto' \in [Requests -> Nat]
           /\ \A q \in Requests \ {r} : dlq'[q] = dlq[q] /\ auto'[q] = auto[q]
           /\ dlq'[r].stored = dlq[r].stored
           /\ dlq'[r].old = dlq[r].old
           /\ replaying' \in {replaying, replaying \union {<<w, r>>}}
           /\ \/ /\ dlq'[r].status = dlq[r].status
                 /\ dlq'[r].attempts = dlq[r].attempts
                 /\ auto'[r] = auto[r]
                 /\ replaying' = replaying
              \/ /\ dlq'[r].status = "dead_letter"
                 /\ dlq'[r].attempts = dlq[r].attempts
                 /\ dlq[r].attempts >= MaxAttempts
                 /\ auto'[r] = auto[r]
                 /\ replaying' = replaying
              \/ /\ dlq'[r].status = dlq[r].status
                 /\ dlq[r].stored => dlq'[r].attempts = dlq[r].attempts + 1
                 /\ ~dlq[r].stored => dlq'[r].attempts = dlq[r].attempts
                 /\ auto'[r] = auto[r]
                       \/ (auto'[r] = auto[r] + 1 /\ dlq[r].attempts < MaxAttempts)
                 /\ replaying' = replaying \union {<<w, r>>}
<1>t. /\ dlq \in [Requests -> RecordType]
      /\ replaying \subseteq Calls \X Requests
      /\ auto \in [Requests -> Nat]
      /\ MaxAttempts \in Nat
  BY MaxAttemptsAssumption DEF TypeOK, RecordType
<1>1. CASE Escalate(r, override)
  <2> DEFINE rec == [dlq[r] EXCEPT !.status = "dead_letter", !.cooling = TRUE]
  <2>1. /\ rec \in RecordType
        /\ rec.status = "dead_letter"
        /\ rec.attempts = dlq[r].attempts
        /\ rec.stored = dlq[r].stored
        /\ rec.old = dlq[r].old
    BY <1>t DEF RecordType
  <2>2. dlq' = Updated(r, rec) /\ UNCHANGED <<replaying, auto>>
        /\ dlq[r].attempts >= MaxAttempts
    BY <1>1 DEF Escalate, Exhausted
  <2> HIDE DEF rec
  <2> QED
    BY <1>t, <2>1, <2>2, UpdatedRecords
<1>2. CASE CoolingDown(r, override)
  BY <1>t, <1>2 DEF CoolingDown
<1>3. CASE BeginReplay(w, r, override)
  <2> DEFINE rec == [dlq[r] EXCEPT !.attempts = @ + 1, !.cooling = TRUE]
  <2>1. /\ rec \in RecordType
        /\ rec.status = dlq[r].status
        /\ rec.attempts = dlq[r].attempts + 1
        /\ rec.stored = dlq[r].stored
        /\ rec.old = dlq[r].old
    <3>1. dlq[r] \in RecordType
      BY <1>t
    <3>2. dlq[r].attempts + 1 \in Nat
      BY <3>1 DEF RecordType
    <3> QED
      BY <3>1, <3>2 DEF RecordType
  <2>2. dlq' = Updated(r, rec)
    BY <1>3 DEF BeginReplay
  <2>3. /\ replaying' = replaying \union {<<w, r>>}
        /\ auto' \in [Requests -> Nat]
        /\ \A q \in Requests \ {r} : auto'[q] = auto[q]
        /\ auto'[r] = auto[r] \/ (auto'[r] = auto[r] + 1 /\ dlq[r].attempts < MaxAttempts)
    <3>1. override \/ dlq[r].attempts < MaxAttempts
      BY <1>3, <1>t DEF BeginReplay, Exhausted, RecordType
    <3> QED
      BY <1>3, <1>t, <3>1 DEF BeginReplay
  <2> HIDE DEF rec
  <2>4. /\ dlq' \in [Requests -> RecordType]
        /\ \A q \in Requests \ {r} : dlq'[q] = dlq[q]
        /\ dlq'[r].stored = dlq[r].stored
        /\ dlq'[r].old = dlq[r].old
        /\ dlq'[r].status = dlq[r].status
        /\ dlq[r].stored => dlq'[r].attempts = dlq[r].attempts + 1
        /\ ~dlq[r].stored => dlq'[r].attempts = dlq[r].attempts
    BY <2>1, <2>2, UpdatedRecords
  <2>5. replaying' \subseteq Calls \X Requests
    BY <1>t, <2>3
  <2> QED
    BY <2>3, <2>4, <2>5
<1> QED
  BY <1>1, <1>2, <1>3 DEF Replay

-----------------------------------------------------------------------------
(* Type correctness *)

LEMMA TypeInit == Init => TypeOK
  BY DEF Init, TypeOK, NoEntry, NoRecord

\* The records, as the lemmas above type them.
LEMMA RecordsTyped == TypeOK => dlq \in [Requests -> RecordType]
  BY DEF TypeOK, RecordType

\* Time leaves everything of a record but its cooldown and its age.
LEMMA ClockEffect ==
    ASSUME TypeOK, NEW r \in Requests, CooldownEnds(r) \/ RecordAges(r)
    PROVE  /\ dlq' \in [Requests -> RecordType]
           /\ \A q \in Requests : /\ dlq'[q].status = dlq[q].status
                                  /\ dlq'[q].attempts = dlq[q].attempts
                                  /\ dlq'[q].stored = dlq[q].stored
                                  /\ dlq[q].old => dlq'[q].old
           /\ UNCHANGED <<requestVars, ledger, reached, replayVars>>
<1>t. dlq \in [Requests -> RecordType]
  BY RecordsTyped
<1> DEFINE rec == IF CooldownEnds(r) THEN [dlq[r] EXCEPT !.cooling = FALSE]
                                     ELSE [dlq[r] EXCEPT !.old = TRUE]
<1>1. /\ rec \in RecordType
      /\ rec.status = dlq[r].status
      /\ rec.attempts = dlq[r].attempts
      /\ rec.stored = dlq[r].stored
      /\ dlq[r].old => rec.old
  BY <1>t DEF RecordType
<1>2. dlq' = [dlq EXCEPT ![r] = rec]
  BY DEF CooldownEnds, RecordAges
<1> HIDE DEF rec
<1>3. UNCHANGED <<requestVars, ledger, reached, replayVars>>
  BY DEF CooldownEnds, RecordAges
<1> QED
  BY <1>t, <1>1, <1>2, <1>3

LEMMA TypeStep == TypeOK /\ [Next]_vars => TypeOK'
<1> SUFFICES ASSUME TypeOK, [Next]_vars PROVE TypeOK'
  OBVIOUS
<1>1. ASSUME NEW r \in Requests, NEW d \in GithubIds, NEW b \in Bodies,
             RejectMismatch(r, d, b)
      PROVE  TypeOK'
  BY <1>1 DEF RejectMismatch, Arrives, replayVars, TypeOK, Ids
<1>2. ASSUME NEW r \in Requests, NEW d \in GithubIds, NEW b \in Bodies,
             RejectDuplicate(r, d, b)
      PROVE  TypeOK'
  <2>1. ledger' \in LedgerType
    BY <1>2, UpsertedEntry DEF RejectDuplicate, Ids, Statuses
  <2> QED
    BY <1>2, <2>1 DEF RejectDuplicate, Arrives, replayVars, TypeOK, Ids, Statuses, LedgerType
<1>3. ASSUME NEW r \in Requests, NEW d \in GithubIds, NEW b \in Bodies,
             NEW next \in {"ignored", "sending"}, AcceptGithub(r, d, b, next)
      PROVE  TypeOK'
  <2>1. ledger' \in LedgerType
    BY <1>3, UpsertedEntry DEF AcceptGithub, Ids, Statuses
  <2> QED
    BY <1>3, <2>1 DEF AcceptGithub, Arrives, replayVars, TypeOK, Ids, Statuses, LedgerType
<1>4. ASSUME NEW r \in Requests, NEW b \in Bodies,
             NEW next \in {"ignored", "sending"}, AcceptAnonymous(r, b, next)
      PROVE  TypeOK'
  BY <1>4 DEF AcceptAnonymous, Arrives, replayVars, TypeOK
<1>5. ASSUME NEW r \in Requests, NEW g \in GenericIds, NEW b \in Bodies,
             AcceptGeneric(r, g, b)
      PROVE  TypeOK'
  <2>1. ledger' \in LedgerType
    BY <1>5, UpsertedEntry DEF AcceptGeneric, Ids, Statuses
  <2> QED
    BY <1>5, <2>1 DEF AcceptGeneric, Arrives, replayVars, TypeOK, Ids, Statuses, LedgerType
<1>6. ASSUME NEW r \in Requests, NEW res \in Results, Settle(r, res) PROVE TypeOK'
  <2>1. ledger' \in LedgerType
    <3>1. /\ ledger \in LedgerType
          /\ id[r] # NoId => id[r] \in Ids
          /\ body[r] \in Bodies \union {NoBody}
      BY DEF TypeOK, LedgerType, Statuses
    <3> QED
      BY <1>6, <3>1, UpsertedEntry DEF Settle, SettledLedger, Statuses
  <2>2. dlq' \in [Requests -> RecordType]
    BY <1>6, StoredRecords, RecordsTyped DEF Settle
  <2> QED
    BY <1>6, <2>1, <2>2 DEF Settle, replayVars, TypeOK, Statuses, RecordType, LedgerType
<1>7. ASSUME NEW s \in Singles, NEW r \in Requests, NEW override \in BOOLEAN, NEW k,
             RefuseSingle(s, r, override, k)
      PROVE  TypeOK'
  BY <1>7 DEF RefuseSingle, requestVars, TypeOK, Calls
<1>8. ASSUME NEW s \in Singles, NEW r \in Requests, NEW override \in BOOLEAN, NEW k,
             ReplaySingle(s, r, override, k)
      PROVE  TypeOK'
  <2>1. s \in Calls
    BY DEF Calls
  <2> QED
    BY <1>8, <2>1, ReplayEffect DEF ReplaySingle, requestVars, TypeOK, RecordType
<1>9. ASSUME NEW b \in Batches, NEW override \in BOOLEAN, NEW k,
             ReplayAll(b, override, k)
      PROVE  TypeOK'
  BY <1>9 DEF ReplayAll, requestVars, TypeOK, Calls
<1>10. ASSUME NEW b \in Batches, NEW r \in Requests, BatchStep(b, r) PROVE TypeOK'
  <2>1. b \in Calls /\ (b \in forced) \in BOOLEAN
    BY DEF Calls
  <2>2. Replay(b, r, b \in forced)
    BY <1>10 DEF BatchStep
  <2>3. /\ dlq' \in [Requests -> RecordType]
        /\ replaying' \subseteq Calls \X Requests
        /\ auto' \in [Requests -> Nat]
    BY <2>1, <2>2, ReplayEffect
  <2> QED
    BY <1>10, <2>3 DEF BatchStep, requestVars, TypeOK, RecordType
<1>11. ASSUME NEW w \in Calls, NEW r \in Requests, EndReplay(w, r) PROVE TypeOK'
  <2>1. LedgerKey(r) \in Ids \union Requests /\ body[r] \in Bodies \union {NoBody}
    BY DEF LedgerKey, TypeOK
  <2>2. ledger' \in LedgerType
    BY <1>11, <2>1, UpsertedEntry DEF EndReplay, ReplaySent, ReplayFailed, Statuses
  <2>3. dlq' \in [Requests -> RecordType]
    <3>1. /\ [dlq[r] EXCEPT !.status = "delivered"] \in RecordType
          /\ [dlq[r] EXCEPT !.status = FailedStatus(r)] \in RecordType
      BY RecordsTyped DEF RecordType, FailedStatus
    <3> QED
      BY <1>11, <3>1, UpdatedRecords DEF EndReplay, ReplaySent, ReplayFailed
  <2> QED
    BY <1>11, <2>2, <2>3 DEF EndReplay, ReplaySent, ReplayFailed, requestVars, TypeOK,
                             Statuses, RecordType, LedgerType
<1>12. ASSUME NEW d \in GithubIds, IdExpires(d) PROVE TypeOK'
  BY <1>12 DEF IdExpires, replayVars, TypeOK
<1>13. ASSUME NEW key, KeyExpires(key) PROVE TypeOK'
  BY <1>13 DEF KeyExpires, requestVars, TypeOK
<1>14. ASSUME NEW r \in Requests, CooldownEnds(r) \/ RecordAges(r) PROVE TypeOK'
  BY <1>14, ClockEffect DEF requestVars, replayVars, TypeOK, RecordType
<1>15. CASE UNCHANGED vars
  BY <1>15 DEF vars, TypeOK
<1> QED
  BY <1>1, <1>2, <1>3, <1>4, <1>5, <1>6, <1>7, <1>8, <1>9, <1>10, <1>11, <1>12, <1>13,
     <1>14, <1>15
     DEF Next, Ingest, Dispatch, Admin, AdminAll, Clock

\* Every variable keeps to its values, and the writes of ingest, dispatch and
\* replays to one ledger entry and one record never mix their kinds.
THEOREM TypeCorrect == SafetySpec => []TypeOK
  BY TypeInit, TypeStep, PTL DEF SafetySpec

-----------------------------------------------------------------------------
(* What the steps do to requests and records *)

\* The endpoints touch no record and no request but their own.
LEMMA IngestEffect ==
    ASSUME TypeOK, NEW r \in Requests, Ingest(r)
    PROVE  /\ pc[r] = "new"
           /\ pc'[r] \in {"rejected", "ignored", "sending"}
           /\ \A q \in Requests \ {r} : pc'[q] = pc[q] /\ id'[q] = id[q] /\ body'[q] = body[q]
           /\ UNCHANGED <<dlq, reached, replayVars>>
<1> USE DEF Arrives, TypeOK
<1>1. ASSUME NEW d \in GithubIds, NEW b \in Bodies,
             RejectMismatch(r, d, b) \/ RejectDuplicate(r, d, b)
      PROVE  /\ pc[r] = "new" /\ pc' = [pc EXCEPT ![r] = "rejected"]
             /\ id' = [id EXCEPT ![r] = d] /\ body' = [body EXCEPT ![r] = b]
             /\ UNCHANGED <<dlq, reached, replayVars>>
  BY <1>1 DEF RejectMismatch, RejectDuplicate
<1>2. ASSUME NEW d \in GithubIds, NEW b \in Bodies, NEW next \in {"ignored", "sending"},
             AcceptGithub(r, d, b, next)
      PROVE  /\ pc[r] = "new" /\ pc' = [pc EXCEPT ![r] = next]
             /\ id' = [id EXCEPT ![r] = d] /\ body' = [body EXCEPT ![r] = b]
             /\ UNCHANGED <<dlq, reached, replayVars>>
  BY <1>2 DEF AcceptGithub
<1>3. ASSUME NEW b \in Bodies, NEW next \in {"ignored", "sending"},
             AcceptAnonymous(r, b, next)
      PROVE  /\ pc[r] = "new" /\ pc' = [pc EXCEPT ![r] = next]
             /\ id' = [id EXCEPT ![r] = NoId] /\ body' = [body EXCEPT ![r] = b]
             /\ UNCHANGED <<dlq, reached, replayVars>>
  BY <1>3 DEF AcceptAnonymous
<1>4. ASSUME NEW g \in GenericIds, NEW b \in Bodies, AcceptGeneric(r, g, b)
      PROVE  /\ pc[r] = "new" /\ pc' = [pc EXCEPT ![r] = "sending"]
             /\ id' = [id EXCEPT ![r] = g] /\ body' = [body EXCEPT ![r] = b]
             /\ UNCHANGED <<dlq, reached, replayVars>>
  BY <1>4 DEF AcceptGeneric
<1>5. PICK next \in {"rejected", "ignored", "sending"}, d \in Ids \union {NoId}, b \in Bodies :
           /\ pc[r] = "new" /\ pc' = [pc EXCEPT ![r] = next]
           /\ id' = [id EXCEPT ![r] = d] /\ body' = [body EXCEPT ![r] = b]
           /\ UNCHANGED <<dlq, reached, replayVars>>
  BY <1>1, <1>2, <1>3, <1>4 DEF Ingest, Ids
<1> QED
  BY <1>5

\* A replay that comes back writes the status of its record and nothing else
\* of any record.
LEMMA EndReplayEffect ==
    ASSUME TypeOK, NEW w \in Calls, NEW r \in Requests, EndReplay(w, r)
    PROVE  /\ <<w, r>> \in replaying
           /\ replaying' = replaying \ {<<w, r>>}
           /\ dlq' \in [Requests -> RecordType]
           /\ \A q \in Requests \ {r} : dlq'[q] = dlq[q]
           /\ dlq'[r].attempts = dlq[r].attempts
           /\ dlq'[r].stored = dlq[r].stored
           /\ dlq'[r].old = dlq[r].old
           /\ ~dlq[r].stored => dlq'[r].status = dlq[r].status
           /\ reached' \in {reached, reached \union {r}}
           /\ dlq[r].stored => \/ dlq'[r].status = "delivered" /\ r \in reached'
                               \/ dlq'[r].status = FailedStatus(r)
           /\ \/ /\ reached' = reached \union {r}
                 /\ dlq[r].stored => dlq'[r].status = "delivered"
              \/ /\ reached' = reached
                 /\ dlq[r].stored => dlq'[r].status = FailedStatus(r)
           /\ UNCHANGED <<requestVars, called, opKeys, waiting, forced, auto>>
<1>t. dlq \in [Requests -> RecordType]
  BY RecordsTyped
<1>1. ASSUME NEW s \in {"delivered", "failed", "dead_letter"},
             dlq' = Updated(r, [dlq[r] EXCEPT !.status = s])
      PROVE  /\ dlq' \in [Requests -> RecordType]
             /\ \A q \in Requests \ {r} : dlq'[q] = dlq[q]
             /\ dlq'[r].attempts = dlq[r].attempts
             /\ dlq'[r].stored = dlq[r].stored
             /\ dlq'[r].old = dlq[r].old
             /\ ~dlq[r].stored => dlq'[r].status = dlq[r].status
             /\ dlq[r].stored => dlq'[r].status = s
  <2> DEFINE rec == [dlq[r] EXCEPT !.status = s]
  <2>1. /\ rec \in RecordType /\ rec.status = s
        /\ rec.attempts = dlq[r].attempts /\ rec.stored = dlq[r].stored
        /\ rec.old = dlq[r].old
    BY <1>t DEF RecordType
  <2>2. dlq' = Updated(r, rec)
    BY <1>1
  <2> HIDE DEF rec
  <2> QED
    BY <2>1, <2>2, UpdatedRecords
<1>2. CASE ReplaySent(w, r)
  BY <1>1, <1>2 DEF ReplaySent
<1>3. CASE ReplayFailed(w, r)
  <2>1. FailedStatus(r) \in {"delivered", "failed", "dead_letter"}
    BY DEF FailedStatus
  <2> QED
    BY <1>1, <1>3, <2>1 DEF ReplayFailed
<1> QED
  BY <1>2, <1>3 DEF EndReplay

HasRecord(r) == dlq[r].status # "none"

\* Records belong to requests that were answered, a request answered with 502
\* has one, one that is not old is in the store, and whatever is listed,
\* replayed or counted is a record.
RecordBehind(r) ==
    /\ dlq[r].stored => HasRecord(r)
    /\ HasRecord(r) /\ ~dlq[r].old => dlq[r].stored
    /\ HasRecord(r) => pc[r] \in {"sent", "failed"}
    /\ HasRecord(r) /\ pc[r] = "sent" => r \in reached
    /\ pc[r] = "failed" => HasRecord(r)
    /\ r \in reached => pc[r] \in {"sent", "failed"}
    /\ auto[r] # 0 => HasRecord(r)
    /\ \A b \in Batches : r \in waiting[b] => HasRecord(r)
    /\ \A w \in Calls : <<w, r>> \in replaying => HasRecord(r)

RecordsBehind == \A r \in Requests : RecordBehind(r)

LEMMA RecordsBehindInit == Init => RecordsBehind
  BY DEF Init, RecordsBehind, RecordBehind, HasRecord, NoRecord

LEMMA RecordsBehindStep == TypeOK /\ RecordsBehind /\ [Next]_vars => RecordsBehind'
<1> SUFFICES ASSUME TypeOK, RecordsBehind, [Next]_vars, NEW q \in Requests
             PROVE  RecordBehind(q)'
  BY DEF RecordsBehind
<1>q. RecordBehind(q)
  BY DEF RecordsBehind
<1>1. ASSUME NEW r \in Requests, Ingest(r) PROVE RecordBehind(q)'
  <2>1. RecordBehind(r)
    BY DEF RecordsBehind
  <2>2. /\ pc[r] = "new" /\ UNCHANGED <<dlq, reached, waiting, replaying, auto>>
        /\ pc'[r] \in {"rejected", "ignored", "sending"}
        /\ q # r => pc'[q] = pc[q]
    BY <1>1, IngestEffect DEF replayVars
  <2> QED
    BY <1>q, <2>1, <2>2 DEF RecordBehind, HasRecord
<1>2. ASSUME NEW r \in Requests, NEW res \in Results, Settle(r, res)
      PROVE  RecordBehind(q)'
  <2>1. /\ RecordBehind(r) /\ pc[r] = "sending" /\ UNCHANGED <<waiting, replaying, auto>>
        /\ "sent" \in res => r \in reached'
        /\ r \in reached' => "sent" \in res \/ r \in reached
        /\ pc'[r] = IF "failed" \in res /\ "sent" \notin res THEN "failed" ELSE "sent"
        /\ q # r => pc'[q] = pc[q] /\ (q \in reached' <=> q \in reached)
    BY <1>2 DEF Settle, RecordsBehind, replayVars, TypeOK
  <2>2. CASE "failed" \in res
    <3>1. dlq' = Stored(r)
      BY <1>2, <2>2 DEF Settle
    <3>2. /\ dlq'[r] = NewRecord
          /\ \A p \in Requests \ {r} : /\ dlq'[p].status = dlq[p].status
                                       /\ dlq'[p].attempts = dlq[p].attempts
                                       /\ dlq'[p].old = dlq[p].old
                                       /\ dlq'[p].stored \in {dlq[p].stored, FALSE}
                                       /\ ~dlq[p].old => dlq'[p].stored = dlq[p].stored
      BY <3>1, StoredRecords
    <3>3. CASE q = r
      BY <2>1, <2>2, <3>2, <3>3 DEF RecordBehind, HasRecord, NewRecord
    <3>4. CASE q # r
      BY <1>q, <2>1, <3>2, <3>4 DEF RecordBehind, HasRecord
    <3> QED
      BY <3>3, <3>4
  <2>3. CASE "failed" \notin res
    <3>1. dlq' = dlq
      BY <1>2, <2>3 DEF Settle
    <3> QED
      BY <1>q, <2>1, <2>3, <3>1 DEF RecordBehind, HasRecord
  <2> QED
    BY <2>2, <2>3
<1>3. ASSUME NEW w \in Calls, NEW r \in Requests, NEW override \in BOOLEAN,
             Replay(w, r, override), HasRecord(r), UNCHANGED <<pc, reached>>,
             \A b \in Batches : waiting'[b] \subseteq waiting[b]
      PROVE  RecordBehind(q)'
  <2>1. /\ dlq'[r].stored = dlq[r].stored /\ dlq'[r].old = dlq[r].old
        /\ dlq'[r].status \in {dlq[r].status, "dead_letter"}
        /\ q # r => dlq'[q] = dlq[q] /\ auto'[q] = auto[q]
        /\ replaying' \in {replaying, replaying \union {<<w, r>>}}
    BY <1>3, ReplayEffect
  <2>2. RecordBehind(r)
    BY DEF RecordsBehind
  <2>3. CASE q = r
    BY <1>3, <2>1, <2>2, <2>3 DEF RecordBehind, HasRecord
  <2>4. CASE q # r
    BY <1>3, <1>q, <2>1, <2>4 DEF RecordBehind, HasRecord
  <2> QED
    BY <2>3, <2>4
<1>4. ASSUME NEW s \in Singles, NEW r \in Requests, NEW override \in BOOLEAN, NEW k,
             ReplaySingle(s, r, override, k)
      PROVE  RecordBehind(q)'
  <2>1. s \in Calls /\ Replay(s, r, override) /\ HasRecord(r)
        /\ UNCHANGED <<pc, reached, waiting>>
    BY <1>4 DEF ReplaySingle, Calls, RecordsBehind, RecordBehind, requestVars
  <2> QED
    BY <1>3, <2>1
<1>5. ASSUME NEW b \in Batches, NEW r \in Requests, BatchStep(b, r)
      PROVE  RecordBehind(q)'
  <2>1. b \in Calls /\ (b \in forced) \in BOOLEAN /\ Replay(b, r, b \in forced)
        /\ HasRecord(r) /\ UNCHANGED <<pc, reached>>
        /\ waiting' = [waiting EXCEPT ![b] = @ \ {r}]
    BY <1>5 DEF BatchStep, Calls, RecordsBehind, RecordBehind, requestVars
  <2>2. \A a \in Batches : waiting'[a] \subseteq waiting[a]
    BY <2>1 DEF TypeOK
  <2> QED
    BY <1>3, <2>1, <2>2
<1>6. ASSUME NEW b \in Batches, NEW override \in BOOLEAN, NEW k,
             ReplayAll(b, override, k)
      PROVE  RecordBehind(q)'
  <2>1. /\ UNCHANGED <<pc, dlq, reached, replaying, auto>>
        /\ \A a \in Batches : q \in waiting'[a] => q \in waiting[a] \/ dlq[q].stored
    BY <1>6 DEF ReplayAll, requestVars, TypeOK
  <2> QED
    BY <1>q, <2>1 DEF RecordBehind, HasRecord
<1>7. ASSUME NEW w \in Calls, NEW r \in Requests, EndReplay(w, r)
      PROVE  RecordBehind(q)'
  <2>1. /\ <<w, r>> \in replaying /\ replaying' \subseteq replaying
        /\ q # r => dlq'[q] = dlq[q]
        /\ dlq'[r].stored = dlq[r].stored /\ dlq'[r].old = dlq[r].old
        /\ dlq'[r].status \in {dlq[r].status, "delivered", "failed", "dead_letter"}
        /\ reached' \in {reached, reached \union {r}}
        /\ UNCHANGED <<pc, waiting, auto>>
    BY <1>7, EndReplayEffect DEF FailedStatus, requestVars
  <2>2. RecordBehind(r) /\ HasRecord(r)
    BY <2>1 DEF RecordsBehind, RecordBehind
  <2>3. CASE q = r
    BY <2>1, <2>2, <2>3 DEF RecordBehind, HasRecord
  <2>4. CASE q # r
    BY <1>q, <2>1, <2>4 DEF RecordBehind, HasRecord
  <2> QED
    BY <2>3, <2>4
<1>8. ASSUME NEW r \in Requests, CooldownEnds(r) \/ RecordAges(r) PROVE RecordBehind(q)'
  <2>1. /\ dlq'[q].stored = dlq[q].stored /\ dlq'[q].status = dlq[q].status
        /\ dlq[q].old => dlq'[q].old
        /\ UNCHANGED <<pc, reached, waiting, replaying, auto>>
    BY <1>8, ClockEffect DEF requestVars, replayVars
  <2> QED
    BY <1>q, <2>1 DEF RecordBehind, HasRecord
<1>9. ASSUME UNCHANGED <<pc, dlq, reached, waiting, replaying, auto>> PROVE RecordBehind(q)'
  BY <1>9, <1>q DEF RecordBehind, HasRecord
<1>10. ASSUME NEW s, NEW r, NEW override, NEW k, RefuseSingle(s, r, override, k)
       PROVE  RecordBehind(q)'
  BY <1>9, <1>10 DEF RefuseSingle, requestVars
<1>11. ASSUME NEW d, IdExpires(d) \/ KeyExpires(d) PROVE RecordBehind(q)'
  BY <1>9, <1>11 DEF IdExpires, KeyExpires, requestVars, replayVars
<1>12. CASE UNCHANGED vars
  BY <1>9, <1>12 DEF vars
<1> QED
  BY <1>1, <1>2, <1>4, <1>5, <1>6, <1>7, <1>8, <1>10, <1>11, <1>12
     DEF Next, Dispatch, Admin, AdminAll, Clock

-----------------------------------------------------------------------------
(* The budget and the outcome of replays *)

\* The properties of one record that the runs state for all.
RecordBook(r) ==
    /\ dlq[r].status = "delivered" => r \in reached
    /\ dlq[r].stored => auto[r] <= MaxAttempts /\ auto[r] <= dlq[r].attempts
    /\ dlq[r].status = "dead_letter" => dlq[r].attempts >= MaxAttempts
    /\ dlq[r].stored /\ dlq[r].attempts > 0 /\ dlq[r].attempts >= MaxAttempts
          => \/ dlq[r].status \in {"dead_letter", "delivered"}
             \/ \E w \in Calls : <<w, r>> \in replaying

RecordBooks == \A r \in Requests : RecordBook(r)

LEMMA RecordBooksInit == Init => RecordBooks
  BY MaxAttemptsAssumption DEF Init, RecordBooks, RecordBook, NoRecord

LEMMA RecordBooksStep ==
    TypeOK /\ RecordsBehind /\ RecordBooks /\ [Next]_vars => RecordBooks'
<1> SUFFICES ASSUME TypeOK, RecordsBehind, RecordBooks, [Next]_vars, NEW q \in Requests
             PROVE  RecordBook(q)'
  BY DEF RecordBooks
<1>q. RecordBook(q) /\ RecordBehind(q)
  BY DEF RecordBooks, RecordsBehind
<1>t. /\ MaxAttempts \in Nat
      /\ \A r \in Requests : /\ dlq[r].attempts \in Nat
                             /\ dlq[r].stored \in BOOLEAN
                             /\ auto[r] \in Nat
  BY MaxAttemptsAssumption DEF TypeOK
<1>1. ASSUME UNCHANGED <<dlq, reached, replaying, auto>> PROVE RecordBook(q)'
  BY <1>1, <1>q DEF RecordBook
<1>2. ASSUME NEW r \in Requests, NEW res \in Results, Settle(r, res)
      PROVE  RecordBook(q)'
  <2>1. /\ pc[r] = "sending" /\ UNCHANGED <<replaying, auto>>
        /\ \A p \in reached : p \in reached'
    BY <1>2 DEF Settle, replayVars
  <2>2. CASE "failed" \in res
    <3>1. dlq' = Stored(r)
      BY <1>2, <2>2 DEF Settle
    <3>2. /\ dlq'[r] = NewRecord
          /\ \A p \in Requests \ {r} : /\ dlq'[p].status = dlq[p].status
                                       /\ dlq'[p].attempts = dlq[p].attempts
                                       /\ dlq'[p].stored \in {dlq[p].stored, FALSE}
      BY <3>1, StoredRecords
    <3>3. CASE q = r
      <4>1. auto[r] = 0
        BY <2>1, <1>q, <3>3 DEF RecordBehind
      <4> QED
        BY <1>t, <2>1, <3>2, <3>3, <4>1 DEF RecordBook, NewRecord
    <3>4. CASE q # r
      BY <1>q, <2>1, <3>2, <3>4 DEF RecordBook
    <3> QED
      BY <3>3, <3>4
  <2>3. CASE "failed" \notin res
    <3>1. dlq' = dlq
      BY <1>2, <2>3 DEF Settle
    <3> QED
      BY <1>q, <2>1, <3>1 DEF RecordBook
  <2> QED
    BY <2>2, <2>3
<1>3. ASSUME NEW w \in Calls, NEW r \in Requests, NEW override \in BOOLEAN,
             Replay(w, r, override), UNCHANGED reached
      PROVE  RecordBook(q)'
  <2>1. /\ dlq'[r].stored = dlq[r].stored
        /\ q # r => dlq'[q] = dlq[q] /\ auto'[q] = auto[q]
        /\ \A v \in Calls : <<v, q>> \in replaying => <<v, q>> \in replaying'
    BY <1>3, ReplayEffect
  <2>2. CASE q = r
    <3>1. CASE /\ dlq'[r].status \in {dlq[r].status, "dead_letter"}
               /\ dlq'[r].attempts = dlq[r].attempts
               /\ dlq'[r].status # dlq[r].status => dlq[r].attempts >= MaxAttempts
               /\ auto'[r] = auto[r]
      BY <1>3, <1>q, <2>1, <2>2, <3>1 DEF RecordBook
    <3>2. CASE /\ dlq'[r].status = dlq[r].status
               /\ dlq[r].stored => dlq'[r].attempts = dlq[r].attempts + 1
               /\ ~dlq[r].stored => dlq'[r].attempts = dlq[r].attempts
               /\ auto'[r] = auto[r]
                     \/ (auto'[r] = auto[r] + 1 /\ dlq[r].attempts < MaxAttempts)
               /\ replaying' = replaying \union {<<w, r>>}
      BY <1>3, <1>t, <1>q, <2>1, <2>2, <3>2 DEF RecordBook
    <3> QED
      BY <1>3, <3>1, <3>2, ReplayEffect
  <2>3. CASE q # r
    BY <1>3, <1>q, <2>1, <2>3 DEF RecordBook
  <2> QED
    BY <2>2, <2>3
<1>4. ASSUME NEW w \in Calls, NEW r \in Requests, EndReplay(w, r)
      PROVE  RecordBook(q)'
  <2>1. /\ replaying' = replaying \ {<<w, r>>}
        /\ q # r => dlq'[q] = dlq[q]
        /\ dlq'[r].attempts = dlq[r].attempts
        /\ dlq'[r].stored = dlq[r].stored
        /\ ~dlq[r].stored => dlq'[r].status = dlq[r].status
        /\ \A p \in reached : p \in reached'
        /\ dlq[r].stored => \/ dlq'[r].status = "delivered" /\ r \in reached'
                            \/ dlq'[r].status = FailedStatus(r)
        /\ UNCHANGED auto
    BY <1>4, EndReplayEffect
  <2>2. CASE q = r
    BY <1>t, <1>q, <2>1, <2>2 DEF RecordBook, FailedStatus, Exhausted
  <2>3. CASE q # r
    <3>1. \A v \in Calls : <<v, q>> \in replaying => <<v, q>> \in replaying'
      BY <2>1, <2>3
    <3> QED
      BY <1>q, <2>1, <2>3, <3>1 DEF RecordBook
  <2> QED
    BY <2>2, <2>3
<1>5. ASSUME NEW r \in Requests, CooldownEnds(r) \/ RecordAges(r) PROVE RecordBook(q)'
  <2>1. /\ dlq'[q].stored = dlq[q].stored /\ dlq'[q].status = dlq[q].status
        /\ dlq'[q].attempts = dlq[q].attempts
        /\ UNCHANGED <<reached, replaying, auto>>
    BY <1>5, ClockEffect DEF replayVars
  <2> QED
    BY <1>q, <2>1 DEF RecordBook
<1>6. ASSUME NEW r \in Requests, Ingest(r) PROVE RecordBook(q)'
  BY <1>1, <1>6, IngestEffect DEF replayVars
<1>7. ASSUME NEW s \in Singles, NEW r \in Requests, NEW override \in BOOLEAN, NEW k,
             RefuseSingle(s, r, override, k) \/ ReplaySingle(s, r, override, k)
      PROVE  RecordBook(q)'
  BY <1>1, <1>3, <1>7 DEF RefuseSingle, ReplaySingle, Calls
<1>8. ASSUME NEW b \in Batches, NEW r \in Requests, BatchStep(b, r) PROVE RecordBook(q)'
  <2>1. b \in Calls /\ (b \in forced) \in BOOLEAN
    BY DEF Calls
  <2> QED
    BY <1>3, <1>8, <2>1 DEF BatchStep
<1>9. ASSUME NEW b, NEW override, NEW k, ReplayAll(b, override, k) PROVE RecordBook(q)'
  BY <1>1, <1>9 DEF ReplayAll
<1>10. ASSUME NEW d, IdExpires(d) \/ KeyExpires(d) PROVE RecordBook(q)'
  BY <1>1, <1>10 DEF IdExpires, KeyExpires, replayVars
<1>11. CASE UNCHANGED vars
  BY <1>1, <1>11 DEF vars
<1> QED
  BY <1>2, <1>4, <1>5, <1>6, <1>7, <1>8, <1>9, <1>10, <1>11
     DEF Next, Dispatch, Admin, AdminAll, Clock

LEMMA Books == SafetySpec => [](TypeOK /\ RecordsBehind /\ RecordBooks)
  BY TypeInit, TypeStep, RecordsBehindInit, RecordsBehindStep, RecordBooksInit,
     RecordBooksStep, PTL DEF SafetySpec

\* However redeliveries, replays, batches and prunings overlap, the record of
\* an event answered with 502 stays in the store until it is past retention,
\* as failed or dead-lettered unless the event got through.
THEOREM NothingIsLost == SafetySpec => []NothingLost
<1>1. TypeOK /\ RecordsBehind /\ RecordBooks => NothingLost
  <2> SUFFICES ASSUME TypeOK, RecordsBehind, RecordBooks, NEW r \in Requests,
                      pc[r] = "failed", ~dlq[r].old
               PROVE  /\ dlq[r].stored
                      /\ dlq[r].status \in {"failed", "dead_letter"} \/ r \in reached
    BY DEF NothingLost
  <2>1. HasRecord(r) /\ dlq[r].stored
    BY DEF RecordsBehind, RecordBehind
  <2> QED
    BY <2>1 DEF TypeOK, HasRecord, RecordBooks, RecordBook
<1> QED
  BY <1>1, Books, PTL

\* Replays that nobody forced stay within max_replay_attempts, and none of
\* them is missing from replay_attempts.
THEOREM BudgetIsKept == SafetySpec => []ReplayBudget
<1>1. RecordBooks => ReplayBudget
  BY DEF RecordBooks, RecordBook, ReplayBudget
<1> QED
  BY <1>1, Books, PTL

\* No interleaving of replays leaves an exhausted record among the failed
\* ones that replay-all lists.
THEOREM ExhaustedSettles == SafetySpec => []ExhaustedIsSettled
<1>1. RecordBooks => ExhaustedIsSettled
  BY DEF RecordBooks, RecordBook, ExhaustedIsSettled
<1> QED
  BY <1>1, Books, PTL

\* A dead-lettered record becomes a failed one in no step: not by a replay
\* that was under way when it was given up, not by a new failure.
THEOREM DeadLetterStays == SafetySpec => DeadLetterIsFinal
<1> DEFINE Stays == \A r \in Requests : dlq[r].status = "dead_letter" =>
                        dlq'[r].status \in {"dead_letter", "delivered"}
<1>1. ASSUME TypeOK, RecordsBehind, RecordBooks, Next PROVE Stays
  <2> SUFFICES ASSUME NEW q \in Requests, dlq[q].status = "dead_letter"
               PROVE  dlq'[q].status \in {"dead_letter", "delivered"}
    OBVIOUS
  <2>q. /\ pc[q] \in {"sent", "failed"}
        /\ dlq[q].attempts >= MaxAttempts
    BY <1>1 DEF RecordsBehind, RecordBehind, HasRecord, RecordBooks, RecordBook
  <2>1. ASSUME NEW r \in Requests, Ingest(r) PROVE dlq' = dlq
    BY <1>1, <2>1, IngestEffect
  <2>2. ASSUME NEW r \in Requests, NEW res \in Results, Settle(r, res)
        PROVE  dlq'[q].status = dlq[q].status
    <3>1. q # r
      BY <2>2, <2>q DEF Settle
    <3>2. CASE "failed" \in res
      <4>1. dlq' = Stored(r)
        BY <2>2, <3>2 DEF Settle
      <4> QED
        BY <1>1, <3>1, <4>1, StoredRecords
    <3>3. CASE "failed" \notin res
      BY <2>2, <3>3 DEF Settle
    <3> QED
      BY <3>2, <3>3
  <2>3. ASSUME NEW w \in Calls, NEW r \in Requests, NEW override \in BOOLEAN,
               Replay(w, r, override)
        PROVE  dlq'[q].status \in {dlq[q].status, "dead_letter"}
    <3>1. /\ q # r => dlq'[q] = dlq[q]
          /\ dlq'[r].status \in {dlq[r].status, "dead_letter"}
      BY <1>1, <2>3, ReplayEffect
    <3> QED
      BY <3>1
  <2>4. ASSUME NEW s \in Singles, NEW r \in Requests, NEW override \in BOOLEAN, NEW k,
               RefuseSingle(s, r, override, k) \/ ReplaySingle(s, r, override, k)
        PROVE  dlq'[q].status \in {dlq[q].status, "dead_letter"}
    BY <2>3, <2>4 DEF RefuseSingle, ReplaySingle, Calls
  <2>5. ASSUME NEW b \in Batches, NEW r \in Requests, BatchStep(b, r)
        PROVE  dlq'[q].status \in {dlq[q].status, "dead_letter"}
    <3>1. b \in Calls /\ (b \in forced) \in BOOLEAN
      BY DEF Calls
    <3> QED
      BY <2>3, <2>5, <3>1 DEF BatchStep
  <2>6. ASSUME NEW w \in Calls, NEW r \in Requests, EndReplay(w, r)
        PROVE  dlq'[q].status \in {"dead_letter", "delivered"}
    <3>1. CASE q = r
      <4>1. /\ ~dlq[r].stored => dlq'[r].status = dlq[r].status
            /\ dlq[r].stored => dlq'[r].status \in {"delivered", FailedStatus(r)}
        BY <1>1, <2>6, EndReplayEffect
      <4>2. FailedStatus(r) = "dead_letter"
        BY <2>q, <3>1 DEF FailedStatus, Exhausted
      <4> QED
        BY <3>1, <4>1, <4>2
    <3>2. CASE q # r
      BY <1>1, <2>6, <3>2, EndReplayEffect
    <3> QED
      BY <3>1, <3>2
  <2>7. ASSUME NEW r \in Requests, CooldownEnds(r) \/ RecordAges(r)
        PROVE  dlq'[q].status = dlq[q].status
    BY <1>1, <2>7, ClockEffect
  <2>8. ASSUME NEW b, NEW override, NEW k, ReplayAll(b, override, k) PROVE dlq' = dlq
    BY <2>8 DEF ReplayAll
  <2>9. ASSUME NEW d, IdExpires(d) \/ KeyExpires(d) PROVE dlq' = dlq
    BY <2>9 DEF IdExpires, KeyExpires
  <2> QED
    BY <1>1, <2>1, <2>2, <2>4, <2>5, <2>6, <2>7, <2>8, <2>9
       DEF Next, Dispatch, Admin, AdminAll, Clock
<1>2. TypeOK /\ RecordsBehind /\ RecordBooks /\ [Next]_vars => [Stays]_vars
  BY <1>1
<1> QED
  BY <1>2, Books, PTL DEF SafetySpec, DeadLetterIsFinal
=============================================================================
