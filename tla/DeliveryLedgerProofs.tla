------------------------ MODULE DeliveryLedgerProofs ------------------------
(***************************************************************************)
(* What the delivery ledger and the idempotency keys of DeliveryPipeline   *)
(* guarantee for every set of requests, ids and payloads.                  *)
(***************************************************************************)
EXTENDS DeliveryPipelineProofs

-----------------------------------------------------------------------------
(* Every write of the ledger *)

\* What a step may do to the ledger: nothing, or one upsert.
Upsert(k, b, s) ==
    /\ k \in Ids \union Requests
    /\ b \in Bodies \union {NoBody}
    /\ s \in Statuses
    /\ ledger' = Upserted(k, b, s)

\* An upsert keeps the hash of every entry, and the status of all but one.
LEMMA UpsertEffect ==
    ASSUME TypeOK, NEW k, NEW b, NEW s, Upsert(k, b, s)
    PROVE  /\ ledger'[k].status = s
           /\ ledger[k].status = "none" => ledger'[k].hash = b
           /\ \A j \in Ids \union Requests :
                 /\ j # k => ledger'[j] = ledger[j]
                 /\ ledger[j].status # "none" => /\ ledger'[j].hash = ledger[j].hash
                                                 /\ ledger'[j].status # "none"
  BY UpsertedEntry DEF Upsert

\* An endpoint writes the entry of its request's id only: none if it refused
\* the request for its hash or has no id, and never delivered.
LEMMA IngestUpserts ==
    ASSUME TypeOK, NEW r \in Requests, Ingest(r)
    PROVE  \E d \in Ids \union {NoId}, b \in Bodies :
             /\ id' = [id EXCEPT ![r] = d]
             /\ body' = [body EXCEPT ![r] = b]
             /\ \/ ledger' = ledger /\ (pc'[r] = "rejected" \/ d = NoId)
                \/ /\ \E s \in {"received", "duplicate"} : Upsert(d, b, s)
                   /\ d \in GithubIds => ~Mismatch(d, b)
<1>t. /\ pc \in [Requests -> {"new", "rejected", "ignored", "sending", "sent", "failed"}]
      /\ {"received", "duplicate"} \subseteq Statuses
      /\ GithubIds \subseteq Ids /\ GenericIds \subseteq Ids
      /\ GithubIds \intersect GenericIds = {}
  BY NamesAssumption DEF TypeOK, Statuses, Ids
<1>1. ASSUME NEW d \in GithubIds, NEW b \in Bodies, RejectMismatch(r, d, b)
      PROVE  /\ d \in Ids /\ id' = [id EXCEPT ![r] = d] /\ body' = [body EXCEPT ![r] = b]
             /\ ledger' = ledger /\ pc'[r] = "rejected"
  BY <1>t, <1>1 DEF RejectMismatch, Arrives
<1>2. ASSUME NEW d \in GithubIds, NEW b \in Bodies, RejectDuplicate(r, d, b)
      PROVE  /\ d \in Ids /\ id' = [id EXCEPT ![r] = d] /\ body' = [body EXCEPT ![r] = b]
             /\ Upsert(d, b, "duplicate") /\ ~Mismatch(d, b)
  BY <1>t, <1>2 DEF RejectDuplicate, Arrives, Upsert
<1>3. ASSUME NEW d \in GithubIds, NEW b \in Bodies, NEW next \in {"ignored", "sending"},
             AcceptGithub(r, d, b, next)
      PROVE  /\ d \in Ids /\ id' = [id EXCEPT ![r] = d] /\ body' = [body EXCEPT ![r] = b]
             /\ Upsert(d, b, "received") /\ ~Mismatch(d, b)
  BY <1>t, <1>3 DEF AcceptGithub, Arrives, Upsert
<1>4. ASSUME NEW b \in Bodies, NEW next \in {"ignored", "sending"},
             AcceptAnonymous(r, b, next)
      PROVE  /\ id' = [id EXCEPT ![r] = NoId] /\ body' = [body EXCEPT ![r] = b]
             /\ ledger' = ledger
  BY <1>4 DEF AcceptAnonymous, Arrives
<1>5. ASSUME NEW g \in GenericIds, NEW b \in Bodies, AcceptGeneric(r, g, b)
      PROVE  /\ g \in Ids \ GithubIds
             /\ id' = [id EXCEPT ![r] = g] /\ body' = [body EXCEPT ![r] = b]
             /\ Upsert(g, b, "received")
  BY <1>t, <1>5 DEF AcceptGeneric, Arrives, Upsert
<1> QED
  BY <1>1, <1>2, <1>3, <1>4, <1>5 DEF Ingest

\* Dispatch writes the entry of its request, and writes delivered only for
\* one that was sent.
LEMMA SettleUpserts ==
    ASSUME TypeOK, NEW r \in Requests, NEW res \in Results, Settle(r, res)
    PROVE  \/ ledger' = ledger
           \/ /\ id[r] # NoId
              /\ \/ Upsert(id[r], body[r], "failed")
                 \/ Upsert(id[r], body[r], "delivered") /\ r \in reached'
<1>1. /\ id[r] \in Ids \union {NoId}
      /\ body[r] \in Bodies \union {NoBody}
      /\ {"failed", "delivered"} \subseteq Statuses
  BY DEF TypeOK, Statuses
<1>2. ledger' = SettledLedger(r, res) /\ ("sent" \in res => r \in reached')
  BY DEF Settle
<1> QED
  BY <1>1, <1>2 DEF SettledLedger, Upsert

\* A replay writes the entry of its record, and writes delivered only for a
\* record that was sent.
LEMMA EndReplayUpserts ==
    ASSUME TypeOK, NEW w \in Calls, NEW r \in Requests, EndReplay(w, r)
    PROVE  /\ \/ Upsert(LedgerKey(r), body[r], "failed")
              \/ Upsert(LedgerKey(r), body[r], "delivered") /\ r \in reached'
           /\ \A p \in reached : p \in reached'
<1>1. /\ LedgerKey(r) \in Ids \union Requests
      /\ body[r] \in Bodies \union {NoBody}
      /\ {"failed", "delivered"} \subseteq Statuses
  BY DEF TypeOK, Statuses, LedgerKey
<1>2. CASE ReplaySent(w, r)
  BY <1>1, <1>2 DEF ReplaySent, Upsert
<1>3. CASE ReplayFailed(w, r)
  BY <1>1, <1>3 DEF ReplayFailed, Upsert
<1> QED
  BY <1>2, <1>3 DEF EndReplay

-----------------------------------------------------------------------------
(* A ledger entry that says delivered *)

LedgerTrue ==
    \A k \in Ids \union Requests :
        ledger[k].status = "delivered" => \E r \in reached : LedgerKey(r) = k

LEMMA LedgerTrueInit == Init => LedgerTrue
  BY DEF Init, LedgerTrue, NoEntry

LEMMA LedgerTrueStep == TypeOK /\ RecordsBehind /\ LedgerTrue /\ [Next]_vars => LedgerTrue'
<1> SUFFICES ASSUME TypeOK, RecordsBehind, LedgerTrue, [Next]_vars,
                    NEW k \in Ids \union Requests, ledger'[k].status = "delivered"
             PROVE  \E r \in reached' : LedgerKey(r)' = k
  BY DEF LedgerTrue
<1>1. ASSUME ledger'[k].status = ledger[k].status,
             \A r \in reached : r \in reached' /\ id'[r] = id[r]
      PROVE  \E r \in reached' : LedgerKey(r)' = k
  <2>1. PICK r \in reached : LedgerKey(r) = k
    BY <1>1 DEF LedgerTrue
  <2> QED
    BY <1>1, <2>1 DEF LedgerKey
\* A write that says delivered is that of a request that reached its chat.
<1>2. ASSUME NEW r \in Requests, UNCHANGED id, \A p \in reached : p \in reached',
             \/ Upsert(LedgerKey(r), body[r], "failed")
             \/ Upsert(LedgerKey(r), body[r], "delivered") /\ r \in reached'
      PROVE  \E p \in reached' : LedgerKey(p)' = k
  <2>1. CASE k # LedgerKey(r)
    BY <1>1, <1>2, <2>1, UpsertEffect DEF Upsert
  <2>2. CASE k = LedgerKey(r)
    <3>1. r \in reached'
      BY <1>2, <2>2, UpsertEffect
    <3> QED
      BY <1>2, <2>2, <3>1 DEF LedgerKey
  <2> QED
    BY <2>1, <2>2
<1>3. ASSUME NEW r \in Requests, Ingest(r) PROVE \E p \in reached' : LedgerKey(p)' = k
  <2>1. PICK d \in Ids \union {NoId}, b \in Bodies :
             \/ ledger' = ledger
             \/ \E s \in {"received", "duplicate"} : Upsert(d, b, s)
    BY <1>3, IngestUpserts
  <2>2. ledger'[k].status = ledger[k].status
    BY <2>1, UpsertEffect
  <2>3. /\ r \notin reached /\ reached' = reached
        /\ \A q \in Requests \ {r} : id'[q] = id[q]
    BY <1>3, IngestEffect DEF RecordsBehind, RecordBehind
  <2>4. \A p \in reached : p \in reached' /\ id'[p] = id[p]
    BY <2>3 DEF TypeOK
  <2> QED
    BY <1>1, <2>2, <2>4
<1>4. ASSUME NEW r \in Requests, NEW res \in Results, Settle(r, res)
      PROVE  \E p \in reached' : LedgerKey(p)' = k
  <2>1. UNCHANGED id /\ \A p \in reached : p \in reached'
    BY <1>4 DEF Settle
  <2>2. CASE ledger' = ledger
    BY <1>1, <2>1, <2>2
  <2>3. CASE ledger' # ledger
    <3>1. /\ LedgerKey(r) = id[r]
          /\ \/ Upsert(id[r], body[r], "failed")
             \/ Upsert(id[r], body[r], "delivered") /\ r \in reached'
      BY <1>4, <2>3, SettleUpserts DEF LedgerKey
    <3> QED
      BY <1>2, <2>1, <3>1
  <2> QED
    BY <2>2, <2>3
<1>5. ASSUME NEW w \in Calls, NEW r \in Requests, EndReplay(w, r)
      PROVE  \E p \in reached' : LedgerKey(p)' = k
  <2>1. UNCHANGED id
    BY <1>5, EndReplayEffect DEF requestVars
  <2> QED
    BY <1>2, <1>5, <2>1, EndReplayUpserts
<1>6. ASSUME UNCHANGED <<id, ledger, reached>> PROVE \E p \in reached' : LedgerKey(p)' = k
  BY <1>1, <1>6
<1>7. ASSUME NEW s, NEW r, NEW override, NEW j,
             RefuseSingle(s, r, override, j) \/ ReplaySingle(s, r, override, j)
      PROVE  UNCHANGED <<id, ledger, reached>>
  BY <1>7 DEF RefuseSingle, ReplaySingle, requestVars
<1>8. ASSUME NEW b, NEW r, NEW override, NEW j, ReplayAll(b, override, j) \/ BatchStep(b, r)
      PROVE  UNCHANGED <<id, ledger, reached>>
  BY <1>8 DEF ReplayAll, BatchStep, requestVars
<1>9. ASSUME NEW d, IdExpires(d) \/ KeyExpires(d) \/ CooldownEnds(d) \/ RecordAges(d)
      PROVE  UNCHANGED <<id, ledger, reached>>
  BY <1>9 DEF IdExpires, KeyExpires, CooldownEnds, RecordAges, requestVars
<1>10. UNCHANGED vars => UNCHANGED <<id, ledger, reached>>
  BY DEF vars
<1> QED
  BY <1>3, <1>4, <1>5, <1>6, <1>7, <1>8, <1>9, <1>10
     DEF Next, Dispatch, Admin, AdminAll, Clock

\* An event the ledger or its record calls delivered did get to a destination.
THEOREM DeliveredHolds == SafetySpec => []DeliveredIsTrue
<1>1. RecordBooks /\ LedgerTrue => DeliveredIsTrue
  BY DEF RecordBooks, RecordBook, LedgerTrue, DeliveredIsTrue
<1> QED
  BY <1>1, Books, LedgerTrueInit, LedgerTrueStep, PTL DEF SafetySpec

-----------------------------------------------------------------------------
(* One body per delivery id *)

\* The entry of a dispatched GitHub delivery holds the hash of its body.
BodyOfEntry ==
    \A r \in Requests :
        Dispatched(r) /\ id[r] \in GithubIds
            => ledger[id[r]].status # "none" /\ ledger[id[r]].hash = body[r]

LEMMA BodyOfEntryInit == Init => BodyOfEntry
  BY DEF Init, BodyOfEntry, Dispatched

LEMMA BodyOfEntryStep == TypeOK /\ BodyOfEntry /\ [Next]_vars => BodyOfEntry'
<1> SUFFICES ASSUME TypeOK, BodyOfEntry, [Next]_vars,
                    NEW q \in Requests, Dispatched(q)', id'[q] \in GithubIds
             PROVE  ledger'[id'[q]].status # "none" /\ ledger'[id'[q]].hash = body'[q]
  BY DEF BodyOfEntry
<1>t. GithubIds \subseteq Ids \union Requests /\ NoId \notin GithubIds
  BY NamesAssumption DEF Ids
\* What was recorded stays: no write changes the hash of an entry.
<1>1. ASSUME Dispatched(q), id'[q] = id[q], body'[q] = body[q],
             ledger' = ledger \/ \E k, b, s : Upsert(k, b, s)
      PROVE  ledger'[id'[q]].status # "none" /\ ledger'[id'[q]].hash = body'[q]
  <2>1. ledger[id[q]].status # "none" /\ ledger[id[q]].hash = body[q]
    BY <1>1 DEF BodyOfEntry
  <2>2. id[q] \in Ids \union Requests
    BY <1>1, <1>t
  <2> QED
    BY <1>1, <2>1, <2>2, UpsertEffect
<1>2. ASSUME NEW r \in Requests, Ingest(r)
      PROVE  ledger'[id'[q]].status # "none" /\ ledger'[id'[q]].hash = body'[q]
  <2>1. PICK d \in Ids \union {NoId}, b \in Bodies :
             /\ id' = [id EXCEPT ![r] = d]
             /\ body' = [body EXCEPT ![r] = b]
             /\ \/ ledger' = ledger /\ (pc'[r] = "rejected" \/ d = NoId)
                \/ /\ \E s \in {"received", "duplicate"} : Upsert(d, b, s)
                   /\ d \in GithubIds => ~Mismatch(d, b)
    BY <1>2, IngestUpserts
  <2>2. CASE q = r
    <3>1. /\ id'[q] = d /\ body'[q] = b /\ d \in GithubIds
          /\ pc'[q] # "rejected"
      BY <2>1, <2>2 DEF TypeOK, Dispatched
    <3>2. PICK s \in {"received", "duplicate"} : Upsert(d, b, s)
      BY <1>t, <2>1, <2>2, <3>1
    <3>3. ledger[d].status = "none" \/ ledger[d].hash = b
      BY <1>t, <2>1, <2>2, <3>1 DEF Mismatch
    <3> QED
      BY <1>t, <3>1, <3>2, <3>3, UpsertEffect
  <2>3. CASE q # r
    <3>1. Dispatched(q)
      BY <1>2, <2>3, IngestEffect DEF Dispatched
    <3>2. id'[q] = id[q] /\ body'[q] = body[q]
      BY <1>2, <2>3, IngestEffect
    <3> QED
      BY <1>1, <2>1, <3>1, <3>2
  <2> QED
    BY <2>2, <2>3
<1>3. ASSUME NEW r \in Requests, NEW res \in Results, Settle(r, res)
      PROVE  ledger'[id'[q]].status # "none" /\ ledger'[id'[q]].hash = body'[q]
  <2>1. UNCHANGED <<id, body>> /\ Dispatched(q)
    BY <1>3 DEF Settle, Dispatched, TypeOK
  <2>2. ledger' = ledger \/ \E k, b, s : Upsert(k, b, s)
    BY <1>3, SettleUpserts
  <2> QED
    BY <1>1, <2>1, <2>2
<1>4. ASSUME NEW w \in Calls, NEW r \in Requests, EndReplay(w, r)
      PROVE  ledger'[id'[q]].status # "none" /\ ledger'[id'[q]].hash = body'[q]
  <2>1. UNCHANGED <<pc, id, body>>
    BY <1>4, EndReplayEffect DEF requestVars
  <2>2. \E k, b, s : Upsert(k, b, s)
    BY <1>4, EndReplayUpserts
  <2> QED
    BY <1>1, <2>1, <2>2 DEF Dispatched
<1>5. ASSUME UNCHANGED <<pc, id, body, ledger>>
      PROVE  ledger'[id'[q]].status # "none" /\ ledger'[id'[q]].hash = body'[q]
  BY <1>1, <1>5 DEF Dispatched
<1>6. ASSUME NEW s, NEW r, NEW override, NEW k,
             RefuseSingle(s, r, override, k) \/ ReplaySingle(s, r, override, k)
      PROVE  UNCHANGED <<pc, id, body, ledger>>
  BY <1>6 DEF RefuseSingle, ReplaySingle, requestVars
<1>7. ASSUME NEW b, NEW r, NEW override, NEW k, ReplayAll(b, override, k) \/ BatchStep(b, r)
      PROVE  UNCHANGED <<pc, id, body, ledger>>
  BY <1>7 DEF ReplayAll, BatchStep, requestVars
<1>8. ASSUME NEW d, IdExpires(d) \/ KeyExpires(d) \/ CooldownEnds(d) \/ RecordAges(d)
      PROVE  UNCHANGED <<pc, id, body, ledger>>
  BY <1>8 DEF IdExpires, KeyExpires, CooldownEnds, RecordAges, requestVars
<1>9. UNCHANGED vars => UNCHANGED <<pc, id, body, ledger>>
  BY DEF vars
<1> QED
  BY <1>2, <1>3, <1>4, <1>5, <1>6, <1>7, <1>8, <1>9
     DEF Next, Dispatch, Admin, AdminAll, Clock

\* All the events dispatched under one GitHub delivery id have one body.
THEOREM OneBodyHolds == SafetySpec => []OneBodyPerDelivery
<1>1. BodyOfEntry => OneBodyPerDelivery
  BY DEF BodyOfEntry, OneBodyPerDelivery
<1> QED
  BY <1>1, TypeInit, TypeStep, BodyOfEntryInit, BodyOfEntryStep, PTL DEF SafetySpec

-----------------------------------------------------------------------------
(* One dispatch per idempotency window *)

\* The id of a request dispatched in its TTL is one that was seen.
WindowsOpen == \A r \in inWindow : id[r] \in seen /\ pc[r] # "new"

LEMMA WindowInit == Init => WindowsOpen /\ OneDispatchPerWindow
  BY DEF Init, WindowsOpen, OneDispatchPerWindow

LEMMA WindowStep ==
    TypeOK /\ WindowsOpen /\ OneDispatchPerWindow /\ [Next]_vars
        => WindowsOpen' /\ OneDispatchPerWindow'
<1> SUFFICES ASSUME TypeOK, WindowsOpen, OneDispatchPerWindow, [Next]_vars
             PROVE  WindowsOpen' /\ OneDispatchPerWindow'
  OBVIOUS
<1> USE DEF WindowsOpen, OneDispatchPerWindow
<1>1. ASSUME NEW r \in Requests, pc[r] = "new", UNCHANGED <<seen, inWindow>>,
             pc'[r] # "new",
             \A q \in Requests \ {r} : pc'[q] = pc[q] /\ id'[q] = id[q]
      PROVE  WindowsOpen' /\ OneDispatchPerWindow'
  BY <1>1 DEF TypeOK
<1>2. ASSUME NEW r \in Requests, Ingest(r) PROVE WindowsOpen' /\ OneDispatchPerWindow'
  <2>1. /\ pc[r] = "new" /\ pc'[r] # "new"
        /\ \A q \in Requests \ {r} : pc'[q] = pc[q] /\ id'[q] = id[q]
    BY <1>2, IngestEffect
  <2>2. CASE UNCHANGED <<seen, inWindow>>
    BY <1>1, <2>1, <2>2
  <2>3. ASSUME NEW d \in GithubIds, NEW b \in Bodies, NEW next \in {"ignored", "sending"},
               AcceptGithub(r, d, b, next)
        PROVE  WindowsOpen' /\ OneDispatchPerWindow'
    <3>1. /\ d \notin seen /\ id'[r] = d
          /\ seen' = seen \union {d}
          /\ inWindow' \subseteq inWindow \union {r}
      BY <2>3 DEF AcceptGithub, Arrives, Duplicate, TypeOK
    <3>2. \A q \in inWindow : q # r /\ q \in Requests /\ id'[q] = id[q] /\ id[q] # d
      BY <2>1, <3>1 DEF TypeOK
    <3> QED
      BY <2>1, <3>1, <3>2
  <2> QED
    BY <1>2, <2>2, <2>3
       DEF Ingest, RejectMismatch, RejectDuplicate, AcceptAnonymous, AcceptGeneric
<1>3. ASSUME NEW d, IdExpires(d) PROVE WindowsOpen' /\ OneDispatchPerWindow'
  BY <1>3 DEF IdExpires
<1>4. ASSUME UNCHANGED <<id, seen, inWindow>>, \A r \in Requests : pc[r] # "new" => pc'[r] # "new"
      PROVE  WindowsOpen' /\ OneDispatchPerWindow'
  BY <1>4 DEF TypeOK
<1>5. ASSUME NEW r \in Requests, NEW res, Settle(r, res)
      PROVE  WindowsOpen' /\ OneDispatchPerWindow'
  BY <1>4, <1>5 DEF Settle, TypeOK
<1>6. ASSUME UNCHANGED requestVars PROVE WindowsOpen' /\ OneDispatchPerWindow'
  BY <1>4, <1>6 DEF requestVars
<1>7. ASSUME NEW s, NEW r, NEW override, NEW k,
             RefuseSingle(s, r, override, k) \/ ReplaySingle(s, r, override, k)
      PROVE  UNCHANGED requestVars
  BY <1>7 DEF RefuseSingle, ReplaySingle
<1>8. ASSUME NEW b, NEW r, NEW override, NEW k, ReplayAll(b, override, k) \/ BatchStep(b, r)
      PROVE  UNCHANGED requestVars
  BY <1>8 DEF ReplayAll, BatchStep
<1>9. ASSUME NEW d, KeyExpires(d) \/ CooldownEnds(d) \/ RecordAges(d) PROVE UNCHANGED requestVars
  BY <1>9 DEF KeyExpires, CooldownEnds, RecordAges
<1>10. ASSUME NEW w, NEW r, EndReplay(w, r) PROVE UNCHANGED requestVars
  BY <1>10 DEF EndReplay, ReplaySent, ReplayFailed
<1>11. UNCHANGED vars => UNCHANGED requestVars
  BY DEF vars, requestVars
<1> QED
  BY <1>2, <1>3, <1>5, <1>6, <1>7, <1>8, <1>9, <1>10, <1>11
     DEF Next, Dispatch, Admin, AdminAll, Clock

\* Within one TTL a GitHub delivery is dispatched once.
THEOREM OneDispatchHolds == SafetySpec => []OneDispatchPerWindow
  BY TypeInit, TypeStep, WindowInit, WindowStep, PTL DEF SafetySpec
=============================================================================
