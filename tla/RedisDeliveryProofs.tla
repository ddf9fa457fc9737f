------------------------- MODULE RedisDeliveryProofs -------------------------
(***************************************************************************)
(* What the handlers keep of their promises over Redis and its fallback,   *)
(* command by command, for every set of requests, ids, payloads and replay *)
(* calls, every limit, and any number of errors and restarts.              *)
(***************************************************************************)
EXTENDS RedisDelivery, TLAPS

-----------------------------------------------------------------------------
(* Types, by the variables that change together *)

Hashes == {"raw", "parsed"} \X (Bodies \union {NoBody})
Entry == [status : {"none", "received", "duplicate", "delivered", "failed"}, hash : Hashes]
Data == [ledger : [Ids -> Entry], claims : SUBSET Ids, records : [Requests -> Record],
         index : SUBSET Requests]
Job == [pc : Updates \union {"idle", "check", "queued", "send", "reread", "confirm", "condemn"},
        copy : Record, held : Record, override : BOOLEAN, verdict : {"failed", "dead_letter"}]

RequestTypes ==
    /\ pc \in [Requests -> InFlight \union
                 {"new", "mismatch", "rejected", "ignored", "sent", "failed", "killed"}]
    /\ id \in [Requests -> Ids \union {NoId}]
    /\ body \in [Requests -> Bodies \union {NoBody}]
    /\ window \in [Backends -> SUBSET Requests]

StoreTypes == store \in [Backends -> Data]

JobTypes ==
    /\ job \in [Calls \X FailedIds -> Job]
    /\ begun \in [FailedIds -> Nat]
    /\ auto \in [FailedIds -> Nat]
    /\ disturbed \subseteq FailedIds

CountTypes ==
    /\ fallbackActive \in BOOLEAN
    /\ errors \in 0 .. MaxErrors
    /\ restarts \in 0 .. MaxRestarts

HistoryTypes ==
    /\ made \in 0 .. MaxHandlers
    /\ reached \subseteq Requests
    /\ forgotten \subseteq Requests

LEMMA TypeParts ==
    TypeOK <=> RequestTypes /\ StoreTypes /\ JobTypes /\ CountTypes /\ HistoryTypes
  BY DEF TypeOK, RequestTypes, StoreTypes, JobTypes, CountTypes, HistoryTypes, Hashes, Entry,
         Data, Job

\* What has come has an id: what a request claims is the id of a delivery.
Identified == \A r \in Requests : pc[r] # "new" => id[r] \in Ids /\ body[r] \in Bodies

-----------------------------------------------------------------------------
(* The store operations *)

\* A handler's storage call that fails moves on to the memory backend, and
\* Redis may have carried the command out; one that succeeds changes Redis.
LEMMA WritesEffect ==
    ASSUME StoreTypes, CountTypes, NEW redis, NEW memory, Writes(redis, memory)
    PROVE  /\ DOMAIN store' = Backends
           /\ store'["redis"] \in {store["redis"], redis}
           /\ store'["memory"] \in {store["memory"], memory}
           /\ errors' = errors => /\ store'["redis"] = redis
                                  /\ store'["memory"] = store["memory"]
                                  /\ fallbackActive' = fallbackActive
           /\ errors' # errors => /\ store'["memory"] = memory
                                  /\ fallbackActive' = TRUE
           /\ fallbackActive => fallbackActive'
           /\ CountTypes'
<1>0. errors \in Nat /\ MaxErrors \in Nat
  BY BoundsAssumption DEF CountTypes
<1> USE DEF Backends, environment
<1>1. CASE Answers /\ store' = [store EXCEPT !["redis"] = redis]
  BY <1>0, <1>1 DEF Answers, StoreTypes, CountTypes
<1>2. CASE Raises /\ \E applied \in {store["redis"], redis} :
             store' = [s \in Backends |-> IF s = "redis" THEN applied ELSE memory]
  <2>1. /\ DOMAIN store' = Backends /\ store'["redis"] \in {store["redis"], redis}
        /\ store'["memory"] = memory
    BY <1>2
  <2>2. errors' = errors + 1 /\ fallbackActive' = TRUE /\ CountTypes'
    BY <1>0, <1>2 DEF Raises, CountTypes
  <2>3. errors' # errors
    BY <1>0, <2>2
  <2> QED
    BY <2>1, <2>2, <2>3
<1> QED
  BY <1>1, <1>2 DEF Writes

LEMMA WritesTypes ==
    ASSUME StoreTypes, CountTypes, NEW redis \in Data, NEW memory \in Data, Writes(redis, memory)
    PROVE  StoreTypes' /\ CountTypes'
<1>1. /\ CountTypes' /\ store'["redis"] \in Data /\ store'["memory"] \in Data
  BY WritesEffect DEF StoreTypes, Backends
<1>2. store' = [s \in Backends |-> store'[s]]
  BY DEF Writes, StoreTypes
<1> QED
  BY <1>1, <1>2 DEF StoreTypes, Backends

LEMMA ReadsEffect ==
    ASSUME CountTypes, NEW s \in Backends, ReadsFrom(s)
    PROVE  /\ store' = store
           /\ fallbackActive => fallbackActive'
           /\ CountTypes'
<1>1. errors \in Nat /\ MaxErrors \in Nat
  BY BoundsAssumption DEF CountTypes
<1>2. CASE Answers
  BY <1>2 DEF ReadsFrom, Answers, CountTypes, environment
<1>3. CASE Raises
  BY <1>1, <1>3 DEF ReadsFrom, Raises, CountTypes
<1> QED
  BY <1>2, <1>3 DEF ReadsFrom

LEMMA UpsertTypes ==
    ASSUME StoreTypes, NEW k, NEW h \in Hashes,
           NEW s \in {"received", "duplicate", "delivered", "failed"}
    PROVE  /\ RedisUpserted(k, h, s) \in Data
           /\ MemoryUpserted(k, h, s) \in Data
<1>1. store["redis"] \in Data /\ store["memory"] \in Data
  BY DEF StoreTypes, Backends
<1>2. [status |-> s, hash |-> h] \in Entry
  BY DEF Entry
<1>3. RedisUpserted(k, h, s) \in Data
  BY <1>1, <1>2 DEF RedisUpserted, Data
<1>4. ASSUME k \in Ids
      PROVE  [status |-> s, hash |-> IF store["memory"].ledger[k].status = "none" THEN h
                                     ELSE store["memory"].ledger[k].hash] \in Entry
  BY <1>1, <1>4 DEF Data, Entry
<1>5. MemoryUpserted(k, h, s) \in Data
  BY <1>1, <1>4 DEF MemoryUpserted, Data
<1> QED
  BY <1>3, <1>5

LEMMA ClaimTypes ==
    ASSUME StoreTypes, NEW d \in Ids, NEW s \in Backends
    PROVE  Claimed(s, d) \in Data
  BY DEF StoreTypes, Claimed, Data

LEMMA NewRecords == NoRecord \in Record /\ NewRecord \in Record /\ EmptyStore \in Data
  BY DEF NoRecord, NewRecord, Record, EmptyStore, NoEntry, Hash, Data, Entry, Hashes

LEMMA WrittenTypes ==
    ASSUME StoreTypes, NEW r \in Requests, NEW rec \in Record
    PROVE  /\ RedisWritten(r, rec) \in Data
           /\ RedisIndexed(r) \in Data
           /\ MemoryStored(r) \in Data
  BY NewRecords DEF StoreTypes, Backends, RedisWritten, RedisIndexed, MemoryStored, Data

Fields == {"status", "attempts", "replayed"}

\* dict.update writes the fields it is given.
LEMMA UpdatedRecord ==
    ASSUME NEW rec \in Record, NEW changes, DOMAIN changes \subseteq Fields,
           "status" \in DOMAIN changes => changes["status"] \in {"failed", "dead_letter", "delivered"},
           "attempts" \in DOMAIN changes => changes["attempts"] \in Nat,
           "replayed" \in DOMAIN changes => changes["replayed"] \in BOOLEAN
    PROVE  /\ Updated(rec, changes) \in Record
           /\ Updated(rec, changes).status =
                 IF "status" \in DOMAIN changes THEN changes["status"] ELSE rec.status
           /\ Updated(rec, changes).attempts =
                 IF "attempts" \in DOMAIN changes THEN changes["attempts"] ELSE rec.attempts
<1>1. Updated(rec, changes) =
          [f \in Fields |-> IF f \in DOMAIN changes THEN changes[f] ELSE rec[f]]
  BY DEF Updated, Record, Fields
<1>2. Updated(rec, changes) =
          [status |-> IF "status" \in DOMAIN changes THEN changes["status"] ELSE rec["status"],
           attempts |-> IF "attempts" \in DOMAIN changes THEN changes["attempts"] ELSE rec["attempts"],
           replayed |-> IF "replayed" \in DOMAIN changes THEN changes["replayed"] ELSE rec["replayed"]]
  BY <1>1 DEF Fields
<1> QED
  BY <1>2 DEF Record

\* What each update of a replay leaves of a record.
LEMMA UpdatedEffect ==
    ASSUME JobTypes, NEW j \in Calls \X FailedIds, job[j].pc \in Updates, NEW rec \in Record
    PROVE  LET new == Updated(rec, Changes(j)) IN
             /\ new \in Record
             /\ new.status = IF job[j].pc = "count" THEN rec.status
                             ELSE IF job[j].pc = "escalate" THEN "dead_letter"
                             ELSE IF job[j].pc = "deliver" THEN "delivered"
                             ELSE job[j].verdict
             /\ new.attempts = IF job[j].pc = "count" THEN job[j].copy.attempts + 1
                               ELSE rec.attempts
<1>1. /\ job[j].copy.attempts \in Nat /\ job[j].verdict \in {"failed", "dead_letter"}
      /\ job[j].pc \in Updates
  BY DEF JobTypes, Job, Record
<1>2. CASE job[j].pc = "escalate"
  <2>1. Changes(j) = [status |-> "dead_letter", replayed |-> TRUE]
    BY <1>2 DEF Changes
  <2>2. /\ DOMAIN Changes(j) = {"status", "replayed"}
        /\ Changes(j)["status"] = "dead_letter" /\ Changes(j)["replayed"] = TRUE
    BY <2>1
  <2> QED
    BY <1>2, <2>2, UpdatedRecord DEF Fields
<1>3. CASE job[j].pc = "count"
  <2>1. Changes(j) = [attempts |-> job[j].copy.attempts + 1, replayed |-> TRUE]
    BY <1>3 DEF Changes
  <2>2. /\ DOMAIN Changes(j) = {"attempts", "replayed"}
        /\ Changes(j)["attempts"] = job[j].copy.attempts + 1 /\ Changes(j)["replayed"] = TRUE
        /\ job[j].copy.attempts + 1 \in Nat
    BY <1>1, <2>1
  <2> QED
    BY <1>3, <2>2, UpdatedRecord DEF Fields
<1>4. CASE job[j].pc = "deliver"
  <2>1. Changes(j) = [status |-> "delivered"]
    BY <1>4 DEF Changes
  <2> QED
    BY <1>4, <2>1, UpdatedRecord DEF Fields
<1>5. CASE job[j].pc = "settle"
  <2>1. Changes(j) = [status |-> job[j].verdict]
    BY <1>5 DEF Changes
  <2> QED
    BY <1>1, <1>5, <2>1, UpdatedRecord DEF Fields
<1> QED
  BY <1>1, <1>2, <1>3, <1>4, <1>5 DEF Updates

LEMMA MemoryUpdatedTypes ==
    ASSUME StoreTypes, JobTypes, NEW j \in Calls \X FailedIds, job[j].pc \in Updates
    PROVE  MemoryUpdated(j[2], Changes(j)) \in Data
<1>1. /\ store["memory"] \in Data /\ RequestOf(j[2]) \in Requests
      /\ store["memory"].records[RequestOf(j[2])] \in Record
  BY DEF StoreTypes, Backends, FailedIds, RequestOf, Data
<1>2. Updated(store["memory"].records[RequestOf(j[2])], Changes(j)) \in Record
  BY <1>1, UpdatedEffect
<1> QED
  BY <1>1, <1>2 DEF MemoryUpdated, Data

\* The end of an update: the replay goes on, and one that comes to its send is
\* counted by the histories.
LEMMA UpdateEndsEffect ==
    ASSUME JobTypes, NEW j \in Calls \X FailedIds, job[j].pc \in Updates, UpdateEnds(j)
    PROVE  /\ job' \in [Calls \X FailedIds -> Job]
           /\ \A i \in Calls \X FailedIds : i # j => job'[i] = job[i]
           /\ job[j].pc = "escalate" => job'[j] = NoJob
           /\ job[j].pc # "escalate" =>
                 /\ job'[j].pc = IF job[j].pc = "count" THEN "send"
                                 ELSE IF job[j].pc = "deliver" THEN "confirm" ELSE "condemn"
                 /\ job'[j].copy = job[j].copy
                 /\ job'[j].held = NoRecord
                 /\ job'[j].verdict = job[j].verdict
           /\ begun' = IF job[j].pc = "count" THEN [begun EXCEPT ![j[2]] = @ + 1] ELSE begun
           /\ auto' = IF job[j].pc = "count" /\ ~job[j].override
                      THEN [auto EXCEPT ![j[2]] = @ + 1] ELSE auto
           /\ begun' \in [FailedIds -> Nat]
           /\ auto' \in [FailedIds -> Nat]
<1> DEFINE next == After[job[j].pc]
           ended == [job[j] EXCEPT !.pc = next, !.held = NoRecord, !.override = FALSE]
<1>1. next = IF job[j].pc = "count" THEN "send" ELSE IF job[j].pc = "deliver" THEN "confirm"
             ELSE IF job[j].pc = "settle" THEN "condemn" ELSE "idle"
  BY DEF After, Updates
<1>2. job[j] \in Job /\ j[2] \in FailedIds
  BY DEF JobTypes
<1>3. NoJob \in Job
  BY NewRecords DEF NoJob, Job
<1>4. ended \in Job
  BY <1>1, <1>2, NewRecords DEF Job
<1>5. job' = [job EXCEPT ![j] = IF next = "idle" THEN NoJob ELSE ended]
  BY DEF UpdateEnds
<1>6. /\ begun' = IF job[j].pc = "count" THEN [begun EXCEPT ![j[2]] = @ + 1] ELSE begun
      /\ auto' = IF job[j].pc = "count" /\ ~job[j].override
                 THEN [auto EXCEPT ![j[2]] = @ + 1] ELSE auto
  BY <1>1 DEF UpdateEnds
<1>7. begun' \in [FailedIds -> Nat] /\ auto' \in [FailedIds -> Nat]
  BY <1>6 DEF JobTypes
<1>8. /\ ended.pc = next /\ ended.copy = job[j].copy /\ ended.held = NoRecord
      /\ ended.verdict = job[j].verdict
  BY <1>2 DEF Job
<1>9. /\ job' \in [Calls \X FailedIds -> Job]
      /\ \A i \in Calls \X FailedIds : i # j => job'[i] = job[i]
      /\ job'[j] = IF next = "idle" THEN NoJob ELSE ended
  <2> HIDE DEF ended, next
  <2> QED
    BY <1>3, <1>4, <1>5 DEF JobTypes
<1> HIDE DEF ended
<1> QED
  BY <1>1, <1>6, <1>7, <1>8, <1>9 DEF Updates

\* What a backend returns for an id, and what a handler sees of a record.
LEMMA FetchedTypes ==
    ASSUME StoreTypes, JobTypes
    PROVE  /\ \A s \in Backends, f \in FailedIds : Fetched(s, f) \in Record
           /\ \A j \in Calls \X FailedIds : Seen(j) \in Record
  BY NewRecords DEF StoreTypes, JobTypes, Data, Job, Fetched, Seen, FailedIds, Home, RequestOf,
                    Backends

\* The checks end a replay, or let it go on with the attempts it saw.
LEMMA ChecksEffect ==
    ASSUME StoreTypes, JobTypes, NEW j \in Calls \X FailedIds, Checks(j)
    PROVE  /\ job' \in [Calls \X FailedIds -> Job]
           /\ \A i \in Calls \X FailedIds : i # j => job'[i] = job[i]
           /\ \/ job'[j] = NoJob
              \/ /\ job'[j].pc = "escalate"
                 /\ job'[j].held = job[j].held
                 /\ Seen(j).attempts >= MaxAttempts
              \/ /\ job'[j].pc = "count"
                 /\ job'[j].held = job[j].held
                 /\ job'[j].copy.attempts = Seen(j).attempts
                 /\ job'[j].override = job[j].override
                 /\ job[j].override \/ ~(Seen(j).attempts >= MaxAttempts)
<1> DEFINE seen == Seen(j).attempts
           escalated == [job[j] EXCEPT !.pc = "escalate"]
           counted == [job[j] EXCEPT !.pc = "count", !.copy = [NoRecord EXCEPT !.attempts = seen]]
<1>1. job[j] \in Job /\ NoJob \in Job /\ seen \in Nat
  BY NewRecords, FetchedTypes DEF JobTypes, NoJob, Job, Record
<1>2. /\ escalated \in Job
      /\ escalated.pc = "escalate" /\ escalated.held = job[j].held
  BY <1>1 DEF Job, Updates
<1>3. [NoRecord EXCEPT !.attempts = seen] \in Record /\ [NoRecord EXCEPT !.attempts = seen].attempts = seen
  BY <1>1, NewRecords DEF Record
<1>4. /\ counted \in Job
      /\ counted.pc = "count" /\ counted.held = job[j].held /\ counted.copy.attempts = seen
      /\ counted.override = job[j].override
  BY <1>1, <1>3 DEF Job, Updates
<1>5. CASE job' = [job EXCEPT ![j].pc = "escalate"] /\ Exhausted(seen)
  <2>1. job' = [job EXCEPT ![j] = escalated]
    BY <1>5 DEF JobTypes
  <2> HIDE DEF escalated
  <2> QED
    BY <1>2, <1>5, <2>1 DEF JobTypes, Exhausted
<1>6. CASE job' = [job EXCEPT ![j] = NoJob]
  BY <1>1, <1>6 DEF JobTypes
<1>7. CASE /\ job[j].override \/ ~Exhausted(seen)
           /\ job' = [job EXCEPT ![j].pc = "count",
                                 ![j].copy = [NoRecord EXCEPT !.attempts = seen]]
  <2>1. job' = [job EXCEPT ![j] = counted]
    BY <1>7 DEF JobTypes, Job
  <2> HIDE DEF counted
  <2> QED
    BY <1>4, <1>7, <2>1 DEF JobTypes, Exhausted
<1> QED
  BY <1>5, <1>6, <1>7 DEF Checks

-----------------------------------------------------------------------------
(* Types *)

TypeInv == TypeOK /\ Identified

LEMMA Bounds ==
    MaxAttempts \in Nat /\ MaxHandlers \in Nat /\ MaxErrors \in Nat /\ MaxRestarts \in Nat
  BY BoundsAssumption

LEMMA TypeInit == Init => TypeInv
<1> SUFFICES ASSUME NEW ids \in [Backlog -> Ids], NEW sent \in [Ids -> Bodies],
                    NEW tries \in [Backlog -> 0 .. MaxAttempts], InitFrom(ids, sent, tries)
             PROVE  TypeInv
  BY DEF Init
<1>1. Backlog \subseteq Requests
  BY NamesAssumption
<1>2. RequestTypes /\ Identified
  <2>1. \A r \in Backlog : ids[r] \in Ids /\ sent[ids[r]] \in Bodies
    OBVIOUS
  <2>2. RequestTypes
    BY <2>1 DEF InitFrom, RequestTypes
  <2>3. Identified
    BY <1>1, <2>1 DEF InitFrom, Identified
  <2> QED
    BY <2>2, <2>3
<1>3. StoreTypes
  <2> DEFINE entry(k) ==
              IF \A r \in Backlog : ids[r] # k THEN NoEntry
              ELSE [status |-> "failed",
                    hash |-> Hash(IF \A r \in Backlog : ids[r] = k => tries[r] = 0
                                  THEN "raw" ELSE "parsed", sent[k])]
             record(r) ==
              IF r \notin Backlog THEN NoRecord
              ELSE [status |-> "failed", attempts |-> tries[r], replayed |-> tries[r] > 0]
  <2>1. \A k \in Ids : entry(k) \in Entry
    BY DEF Entry, NoEntry, Hash, Hashes
  <2>2. \A r \in Requests : record(r) \in Record
    BY Bounds, NewRecords DEF Record
  <2>3. Left(ids, sent, tries) = [ledger |-> [k \in Ids |-> entry(k)], claims |-> {},
                                  records |-> [r \in Requests |-> record(r)], index |-> Backlog]
    BY DEF Left
  <2>4. Left(ids, sent, tries) \in Data
    <3> HIDE DEF entry, record
    <3> QED
      BY <1>1, <2>1, <2>2, <2>3 DEF Data
  <2> QED
    BY <2>4, NewRecords DEF InitFrom, StoreTypes, Backends
<1>4. JobTypes
  <2>1. NoJob \in Job
    BY NewRecords DEF NoJob, Job
  <2>2. \A f \in FailedIds : f \in {"redis"} \X Backlog => RequestOf(f) \in Backlog
    BY DEF RequestOf
  <2>3. begun \in [FailedIds -> Nat]
    BY <2>2, Bounds DEF InitFrom
  <2> QED
    BY <2>1, <2>3 DEF InitFrom, JobTypes
<1>5. CountTypes /\ HistoryTypes
  <2>1. /\ fallbackActive = FALSE /\ made = 0 /\ errors = 0 /\ restarts = 0
        /\ reached = {} /\ forgotten = {}
    BY DEF InitFrom
  <2>2. CountTypes
    <3>1. fallbackActive \in BOOLEAN
      BY <2>1
    <3>2. errors \in 0 .. MaxErrors /\ restarts \in 0 .. MaxRestarts
      BY <2>1, Bounds
    <3> QED
      BY <3>1, <3>2 DEF CountTypes
  <2>3. HistoryTypes
    BY <2>1, Bounds DEF HistoryTypes
  <2> QED
    BY <2>2, <2>3
<1> QED
  BY <1>2, <1>3, <1>4, <1>5, TypeParts DEF TypeInv

\* The steps of a request keep the types.
LEMMA TypeRequest ==
    ASSUME TypeInv, NEW r \in Requests, Request(r)
    PROVE  TypeInv'
<1>1. RequestTypes /\ StoreTypes /\ JobTypes /\ CountTypes /\ HistoryTypes /\ Identified
  BY TypeParts DEF TypeInv
<1> SUFFICES (RequestTypes /\ StoreTypes /\ JobTypes /\ CountTypes /\ HistoryTypes /\ Identified)'
  BY TypeParts DEF TypeInv, TypeOK, RequestTypes, StoreTypes, JobTypes, CountTypes, HistoryTypes,
                   Hashes, Entry, Data, Job
<1> USE <1>1
<1>2. Hash("raw", body[r]) \in Hashes /\ store["redis"] \in Data /\ store["memory"] \in Data
  BY DEF Hash, Hashes, RequestTypes, StoreTypes, Backends
<1>3. ASSUME NEW d \in Ids, NEW b \in Bodies, Arrive(r, d, b)
      PROVE  (RequestTypes /\ StoreTypes /\ JobTypes /\ CountTypes /\ HistoryTypes /\ Identified)'
  <2>1. StoreTypes' /\ CountTypes'
    BY <1>3, ReadsEffect DEF Arrive, StoreTypes
  <2>2. JobTypes' /\ HistoryTypes'
    BY <1>3, Bounds DEF Arrive, Starts, JobTypes, HistoryTypes, replayVars
  <2>3. RequestTypes' /\ Identified'
    BY <1>3 DEF Arrive, Goes, RequestTypes, Identified, InFlight
  <2> QED
    BY <2>1, <2>2, <2>3
<1>4. CASE UpsertLedger(r)
  <2>1. PICK call \in LedgerCalls :
            /\ pc[r] = call[1] /\ Upserts(r, call[2]) /\ Goes(r, call[3])
            /\ UNCHANGED <<id, body, window, replayVars, made, reached, forgotten>>
    BY <1>4 DEF UpsertLedger
  <2>2. /\ call[1] # "new" /\ call[2] \in {"received", "duplicate", "delivered", "failed"}
        /\ call[3] \in {"claim", "rejected", "sent", "failed"}
    BY DEF LedgerCalls
  <2>3. StoreTypes' /\ CountTypes'
    BY <1>2, <2>1, <2>2, UpsertTypes, WritesTypes DEF Upserts
  <2>4. JobTypes' /\ HistoryTypes'
    BY <2>1 DEF JobTypes, HistoryTypes, replayVars
  <2>5. RequestTypes' /\ Identified'
    BY <2>1, <2>2 DEF Goes, RequestTypes, Identified, InFlight
  <2> QED
    BY <2>3, <2>4, <2>5
<1>5. CASE Claim(r)
  <2>1. id[r] \in Ids
    BY <1>5 DEF Claim, Identified
  <2>2. StoreTypes' /\ CountTypes'
    BY <1>5, <2>1, ClaimTypes, WritesTypes DEF Claim, Backends
  <2>3. JobTypes' /\ HistoryTypes'
    BY <1>5 DEF Claim, JobTypes, HistoryTypes, replayVars
  <2>4. /\ pc[r] = "claim" /\ \E next \in {"duplicate", "ignored", "send"} : Goes(r, next)
        /\ UNCHANGED <<id, body>>
        /\ \/ window' = window
           \/ \E s \in Backends : window' = [window EXCEPT ![s] = @ \union {r}]
    BY <1>5 DEF Claim, Backends
  <2>5. RequestTypes' /\ Identified'
    BY <2>4 DEF Goes, RequestTypes, Identified, InFlight
  <2> QED
    BY <2>2, <2>3, <2>5
<1>6. CASE Send(r)
  <2>1. StoreTypes' /\ CountTypes' /\ JobTypes' /\ HistoryTypes'
    BY <1>6 DEF Send, StoreTypes, CountTypes, JobTypes, HistoryTypes, replayVars, environment
  <2>2. RequestTypes' /\ Identified'
    BY <1>6 DEF Send, Goes, RequestTypes, Identified, InFlight
  <2> QED
    BY <2>1, <2>2
<1>7. CASE Park(r)
  <2>1. StoreTypes' /\ CountTypes'
    BY <1>7, NewRecords, WrittenTypes, WritesTypes DEF Park
  <2>2. JobTypes' /\ HistoryTypes'
    BY <1>7 DEF Park, JobTypes, HistoryTypes, replayVars
  <2>3. RequestTypes' /\ Identified'
    BY <1>7 DEF Park, Goes, RequestTypes, Identified, InFlight
  <2> QED
    BY <2>1, <2>2, <2>3
<1>8. CASE Index(r)
  <2>1. StoreTypes' /\ CountTypes'
    BY <1>8, NewRecords, WrittenTypes, WritesTypes DEF Index
  <2>2. JobTypes' /\ HistoryTypes'
    BY <1>8 DEF Index, JobTypes, HistoryTypes, replayVars
  <2>3. RequestTypes' /\ Identified'
    BY <1>8 DEF Index, Goes, RequestTypes, Identified, InFlight
  <2> QED
    BY <2>1, <2>2, <2>3
<1> QED
  BY <1>3, <1>4, <1>5, <1>6, <1>7, <1>8 DEF Request

\* The steps of a replay keep the types.
LEMMA TypeReplay ==
    ASSUME TypeInv, NEW j \in Calls \X FailedIds, Replay(j)
    PROVE  TypeInv'
<1>1. RequestTypes /\ StoreTypes /\ JobTypes /\ CountTypes /\ HistoryTypes /\ Identified
  BY TypeParts DEF TypeInv
<1>2. RequestTypes' /\ Identified'
  BY <1>1 DEF Replay, CheckLedger, Start, UpdateReads, UpdateWrites, Resend, Reread, ReportReplay,
              requestVars, RequestTypes, Identified
<1>3. /\ job[j] \in Job /\ NoJob \in Job /\ j[2] \in FailedIds /\ RequestOf(j[2]) \in Requests
      /\ store["redis"] \in Data /\ store["memory"] \in Data
  BY <1>1, NewRecords DEF JobTypes, StoreTypes, NoJob, Job, FailedIds, RequestOf, Backends
<1>4. HistoryTypes'
  BY <1>1, <1>3 DEF Replay, CheckLedger, Start, UpdateReads, UpdateWrites, Resend, Reread,
                    ReportReplay, HistoryTypes
<1>5. StoreTypes' /\ CountTypes' /\ JobTypes'
  <2> USE <1>1
  <2>1. CASE CheckLedger(j)
    <3>1. StoreTypes' /\ CountTypes'
      BY <2>1, ReadsEffect DEF CheckLedger, StoreTypes
    <3>2. job' = [job EXCEPT ![j] = NoJob] \/ Checks(j)
      BY <2>1 DEF CheckLedger
    <3>3. job' \in [Calls \X FailedIds -> Job]
      BY <1>3, <3>2, ChecksEffect DEF JobTypes
    <3> QED
      BY <2>1, <3>1, <3>3 DEF CheckLedger, JobTypes
  <2>2. CASE Start(j)
    BY <2>2, ChecksEffect DEF Start, StoreTypes, CountTypes, JobTypes, environment
  <2>3. CASE UpdateReads(j)
    <3>1. job[j].pc \in Updates
      BY <2>3 DEF UpdateReads
    <3>2. CASE /\ ReadsFrom("redis")
               /\ IF Fetched("redis", j[2]) = NoRecord
                  THEN UpdateEnds(j)
                  ELSE /\ job' = [job EXCEPT ![j].held = Fetched("redis", j[2])]
                       /\ UNCHANGED <<begun, auto>>
               /\ UNCHANGED disturbed
      <4>1. StoreTypes' /\ CountTypes'
        BY <3>2, ReadsEffect DEF StoreTypes, Backends
      <4>2. CASE UpdateEnds(j)
        BY <3>1, <3>2, <4>1, <4>2, UpdateEndsEffect DEF JobTypes
      <4>3. CASE /\ job' = [job EXCEPT ![j].held = Fetched("redis", j[2])]
                 /\ UNCHANGED <<begun, auto>>
        <5>1. [job[j] EXCEPT !.held = Fetched("redis", j[2])] \in Job
          BY <1>3, FetchedTypes DEF Job, Backends
        <5>2. job' \in [Calls \X FailedIds -> Job]
          BY <4>3, <5>1 DEF JobTypes
        <5> QED
          BY <3>2, <4>1, <4>3, <5>2 DEF JobTypes
      <4> QED
        BY <3>2, <4>2, <4>3
    <3>3. CASE /\ Raises
               /\ store' = [store EXCEPT !["memory"] = MemoryUpdated(j[2], Changes(j))]
               /\ UpdateEnds(j)
               /\ disturbed' = disturbed \union {j[2]}
      <4>1. StoreTypes'
        BY <3>1, <3>3, MemoryUpdatedTypes DEF StoreTypes
      <4>2. CountTypes'
        BY <3>3, Bounds DEF Raises, CountTypes
      <4>3. JobTypes'
        BY <1>3, <3>1, <3>3, UpdateEndsEffect DEF JobTypes
      <4> QED
        BY <4>1, <4>2, <4>3
    <3> QED
      BY <2>3, <3>2, <3>3 DEF UpdateReads
  <2>4. CASE UpdateWrites(j)
    <3>1. job[j].pc \in Updates /\ UpdateEnds(j)
      BY <2>4 DEF UpdateWrites
    <3>2. Updated(job[j].held, Changes(j)) \in Record
      BY <1>3, <3>1, UpdatedEffect DEF Job
    <3>3. StoreTypes' /\ CountTypes'
      BY <1>3, <2>4, <3>1, <3>2, WrittenTypes, MemoryUpdatedTypes, WritesTypes DEF UpdateWrites
    <3>4. disturbed' \subseteq FailedIds
      BY <1>3, <2>4 DEF UpdateWrites, JobTypes
    <3> QED
      BY <3>1, <3>3, <3>4, UpdateEndsEffect DEF JobTypes
  <2>5. CASE Resend(j)
    <3>1. [job[j] EXCEPT !.pc = "deliver"] \in Job /\ [job[j] EXCEPT !.pc = "reread"] \in Job
      BY <1>3 DEF Job, Updates
    <3>2. job' \in [Calls \X FailedIds -> Job]
      BY <2>5, <3>1 DEF Resend, JobTypes
    <3> QED
      BY <2>5, <3>2 DEF Resend, StoreTypes, CountTypes, JobTypes, environment
  <2>6. CASE Reread(j)
    <3>1. PICK s \in Backends :
              /\ ReadsFrom(s)
              /\ job' = [job EXCEPT ![j].pc = "settle",
                                    ![j].verdict =
                    IF Exhausted(Attempts(Fetched(s, j[2]), job[j].copy))
                    THEN "dead_letter" ELSE "failed"]
      BY <2>6 DEF Reread
    <3>2. StoreTypes' /\ CountTypes'
      BY <3>1, ReadsEffect DEF StoreTypes
    <3>3. job' \in [Calls \X FailedIds -> Job]
      <4>1. PICK verdict \in {"failed", "dead_letter"} :
                job' = [job EXCEPT ![j] = [@ EXCEPT !.pc = "settle", !.verdict = verdict]]
        BY <3>1 DEF JobTypes, Job
      <4>2. [job[j] EXCEPT !.pc = "settle", !.verdict = verdict] \in Job
        BY <1>3 DEF Job, Updates
      <4> QED
        BY <4>1, <4>2 DEF JobTypes
    <3> QED
      BY <2>6, <3>2, <3>3 DEF Reread, JobTypes
  <2>7. CASE ReportReplay(j)
    <3>1. PICK status \in {"delivered", "failed"} :
              Writes(RedisUpserted(id[RequestOf(j[2])], Hash("parsed", body[RequestOf(j[2])]), status),
                     MemoryUpserted(id[RequestOf(j[2])], Hash("parsed", body[RequestOf(j[2])]), status))
      BY <2>7 DEF ReportReplay
    <3>2. Hash("parsed", body[RequestOf(j[2])]) \in Hashes
      BY <1>3 DEF Hash, Hashes, RequestTypes
    <3>3. StoreTypes' /\ CountTypes'
      BY <3>1, <3>2, UpsertTypes, WritesTypes
    <3> QED
      BY <1>3, <2>7, <3>3 DEF ReportReplay, JobTypes
  <2> QED
    BY <2>1, <2>2, <2>3, <2>4, <2>5, <2>6, <2>7 DEF Replay
<1> QED
  BY <1>2, <1>4, <1>5, TypeParts DEF TypeInv, TypeOK, RequestTypes, StoreTypes, JobTypes,
     CountTypes, HistoryTypes, Hashes, Entry, Data, Job

LEMMA TypeAdmin ==
    ASSUME TypeInv, NEW override \in BOOLEAN, Admin(override)
    PROVE  TypeInv'
<1>1. RequestTypes /\ StoreTypes /\ JobTypes /\ CountTypes /\ HistoryTypes /\ Identified
  BY TypeParts DEF TypeInv
<1>2. NoJob \in Job
  BY NewRecords DEF NoJob, Job
<1>3. \A status \in {"check", "queued"}, rec \in Record :
          [NoJob EXCEPT !.pc = status, !.copy = rec, !.override = override] \in Job
  BY <1>2 DEF Job
<1>4. /\ UNCHANGED <<requestVars, begun, auto, reached, forgotten>> /\ Starts
  BY DEF Admin, Fetch, List
<1>5. RequestTypes' /\ Identified'
  BY <1>1, <1>4 DEF requestVars, RequestTypes, Identified
<1>6. HistoryTypes'
  BY <1>1, <1>4, Bounds DEF Starts, HistoryTypes
<1>7. StoreTypes' /\ CountTypes'
  BY <1>1, ReadsEffect DEF Admin, Fetch, List, StoreTypes
<1>8. job' \in [Calls \X FailedIds -> Job] /\ disturbed' \subseteq FailedIds
  <2>1. ASSUME NEW s \in Singles, NEW f \in FailedIds, Fetch(s, f, override)
        PROVE  job' \in [Calls \X FailedIds -> Job] /\ disturbed' \subseteq FailedIds
    <3>1. PICK b \in Backends :
              IF Fetched(b, f) = NoRecord
              THEN UNCHANGED <<job, disturbed>>
              ELSE /\ job' = [job EXCEPT ![<<s, f>>] =
                         [NoJob EXCEPT !.pc = "check", !.copy = Fetched(b, f),
                                       !.override = override]]
                   /\ disturbed' = disturbed \union (IF Active(f) THEN {f} ELSE {})
      BY <2>1 DEF Fetch
    <3>2. Fetched(b, f) \in Record
      BY <1>1, FetchedTypes
    <3> QED
      BY <1>1, <1>3, <3>1, <3>2 DEF JobTypes
  <2>2. ASSUME NEW b \in Batches, List(b, override)
        PROVE  job' \in [Calls \X FailedIds -> Job] /\ disturbed' \subseteq FailedIds
    <3>1. PICK s \in Backends :
              /\ job' = [j \in Calls \X FailedIds |->
                            IF j[1] = b /\ j[2] \in ListedFailed(s)
                            THEN [NoJob EXCEPT !.pc = "queued", !.copy = Fetched(s, j[2]),
                                               !.override = override]
                            ELSE job[j]]
              /\ disturbed' = disturbed \union {f \in ListedFailed(s) : Active(f)}
      BY <2>2 DEF List
    <3>2. ListedFailed(s) \subseteq FailedIds
      BY <1>1 DEF ListedFailed, Listed, FailedIds, StoreTypes, Data
    <3>3. ASSUME NEW j \in Calls \X FailedIds
          PROVE  [NoJob EXCEPT !.pc = "queued", !.copy = Fetched(s, j[2]),
                               !.override = override] \in Job
      BY <1>1, <1>3, FetchedTypes
    <3> QED
      BY <1>1, <3>1, <3>2, <3>3 DEF JobTypes
  <2> QED
    BY <2>1, <2>2 DEF Admin
<1> QED
  BY <1>1, <1>4, <1>5, <1>6, <1>7, <1>8 DEF TypeInv, TypeOK, RequestTypes, StoreTypes, JobTypes,
     CountTypes, HistoryTypes, Hashes, Entry, Data, Job

LEMMA TypeEnvironment ==
    ASSUME TypeInv, Restart \/ \E s \in Backends, d \in Ids : ClaimExpires(s, d)
    PROVE  TypeInv'
<1>1. RequestTypes /\ StoreTypes /\ JobTypes /\ CountTypes /\ HistoryTypes /\ Identified
  BY TypeParts DEF TypeInv
<1> SUFFICES (RequestTypes /\ StoreTypes /\ JobTypes /\ CountTypes /\ HistoryTypes /\ Identified)'
  BY TypeParts DEF TypeInv, TypeOK, RequestTypes, StoreTypes, JobTypes, CountTypes, HistoryTypes,
                   Hashes, Entry, Data, Job
<1> USE <1>1
<1>2. CASE Restart
  <2>1. RequestTypes' /\ Identified'
    BY <1>2 DEF Restart, RequestTypes, Identified, Backends, InFlight
  <2>2. StoreTypes'
    BY <1>2, NewRecords DEF Restart, StoreTypes, Backends
  <2>3. NoJob \in Job
    BY NewRecords DEF NoJob, Job
  <2>4. JobTypes'
    BY <1>2, <2>3 DEF Restart, JobTypes
  <2>5. CountTypes'
    <3>1. fallbackActive' \in BOOLEAN
      BY <1>2 DEF Restart
    <3>2. errors' \in 0 .. MaxErrors /\ restarts' \in 0 .. MaxRestarts
      BY <1>2, Bounds DEF Restart, CountTypes
    <3> QED
      BY <3>1, <3>2 DEF CountTypes
  <2>6. HistoryTypes'
    BY <1>2 DEF Restart, HistoryTypes, Listed
  <2> QED
    BY <2>1, <2>2, <2>4, <2>5, <2>6
<1>3. ASSUME NEW s \in Backends, NEW d \in Ids, ClaimExpires(s, d)
      PROVE  (RequestTypes /\ StoreTypes /\ JobTypes /\ CountTypes /\ HistoryTypes /\ Identified)'
  <2>1. RequestTypes' /\ Identified'
    BY <1>3 DEF ClaimExpires, RequestTypes, Identified
  <2>2. StoreTypes'
    <3>1. [store[s] EXCEPT !.claims = @ \ {d}] \in Data
      BY DEF StoreTypes, Data
    <3>2. store' = [store EXCEPT ![s] = [store[s] EXCEPT !.claims = @ \ {d}]]
      BY <1>3 DEF ClaimExpires, StoreTypes
    <3> QED
      BY <3>1, <3>2 DEF StoreTypes
  <2>3. JobTypes' /\ CountTypes' /\ HistoryTypes'
    BY <1>3 DEF ClaimExpires, JobTypes, CountTypes, HistoryTypes, replayVars, environment
  <2> QED
    BY <2>1, <2>2, <2>3
<1> QED
  BY <1>2, <1>3

LEMMA TypeNext == TypeInv /\ [Next]_vars => TypeInv'
<1> SUFFICES ASSUME TypeInv, [Next]_vars PROVE TypeInv'
  OBVIOUS
<1>1. CASE UNCHANGED vars
  BY <1>1 DEF vars, requestVars, replayVars, environment, TypeInv, TypeOK, Identified
<1> QED
  BY <1>1, TypeRequest, TypeReplay, TypeAdmin, TypeEnvironment DEF Next

\* The values every variable takes, whatever fails and wherever the process is
\* restarted.
THEOREM TypeCorrect == Spec => []TypeOK
<1>1. TypeInv => TypeOK
  BY DEF TypeInv
<1> QED
  BY <1>1, TypeInit, TypeNext, PTL DEF Spec

-----------------------------------------------------------------------------
(* What each step makes of the data of the two backends *)

Jobs == Calls \X FailedIds

\* The record of an id, in the backend that gave it.
Rec(f) == store[Home(f)].records[RequestOf(f)]

LedgerKept == \A s \in Backends : store'[s].ledger = store[s].ledger
ClaimsKept == \A s \in Backends : store'[s].claims = store[s].claims
IndexKept == \A s \in Backends : store'[s].index = store[s].index
RecordsKept == \A s \in Backends : store'[s].records = store[s].records
OthersKept(r) == \A s \in Backends, q \in Requests \ {r} :
                     store'[s].records[q] = store[s].records[q]

LEMMA Names ==
    \A f \in FailedIds : /\ f = <<Home(f), RequestOf(f)>>
                         /\ Home(f) \in Backends /\ RequestOf(f) \in Requests
  BY DEF FailedIds, Home, RequestOf

LEMMA TypeFacts ==
    TypeInv <=> /\ RequestTypes /\ StoreTypes /\ JobTypes /\ CountTypes /\ HistoryTypes
                /\ Identified
  BY TypeParts DEF TypeInv

\* An upsert leaves everything but the ledger alone, and on each backend that
\* but for one entry.
LEMMA UpsertEffect ==
    ASSUME StoreTypes, CountTypes, NEW k, NEW h \in Hashes,
           NEW status \in {"received", "duplicate", "delivered", "failed"},
           Writes(RedisUpserted(k, h, status), MemoryUpserted(k, h, status))
    PROVE  /\ ClaimsKept /\ IndexKept /\ RecordsKept
           /\ \A s \in Backends, i \in Ids :
                 \/ store'[s].ledger[i].status = store[s].ledger[i].status
                 \/ i = k /\ store'[s].ledger[i].status = status
           /\ fallbackActive => fallbackActive'
<1>1. /\ store'["redis"] \in {store["redis"], RedisUpserted(k, h, status)}
      /\ store'["memory"] \in {store["memory"], MemoryUpserted(k, h, status)}
      /\ fallbackActive => fallbackActive'
  BY WritesEffect
<1>2. store["redis"] \in Data /\ store["memory"] \in Data
  BY DEF StoreTypes, Backends
<1>3. /\ RedisUpserted(k, h, status).claims = store["redis"].claims
      /\ RedisUpserted(k, h, status).index = store["redis"].index
      /\ RedisUpserted(k, h, status).records = store["redis"].records
      /\ RedisUpserted(k, h, status).ledger =
             [store["redis"].ledger EXCEPT ![k] = [status |-> status, hash |-> h]]
  BY <1>2 DEF RedisUpserted, Data
<1>4. /\ MemoryUpserted(k, h, status).claims = store["memory"].claims
      /\ MemoryUpserted(k, h, status).index = store["memory"].index
      /\ MemoryUpserted(k, h, status).records = store["memory"].records
      /\ MemoryUpserted(k, h, status).ledger =
             [store["memory"].ledger EXCEPT ![k] =
                 [status |-> status, hash |-> IF @.status = "none" THEN h ELSE @.hash]]
  BY <1>2 DEF MemoryUpserted, Data
<1>5. ClaimsKept /\ IndexKept /\ RecordsKept
  BY <1>1, <1>3, <1>4 DEF ClaimsKept, IndexKept, RecordsKept, Backends
<1>6. ASSUME NEW i \in Ids
      PROVE  /\ RedisUpserted(k, h, status).ledger[i].status =
                    IF i = k THEN status ELSE store["redis"].ledger[i].status
             /\ MemoryUpserted(k, h, status).ledger[i].status =
                    IF i = k THEN status ELSE store["memory"].ledger[i].status
  BY <1>2, <1>3, <1>4 DEF Data
<1>7. ASSUME NEW s \in Backends, NEW i \in Ids
      PROVE  \/ store'[s].ledger[i].status = store[s].ledger[i].status
             \/ i = k /\ store'[s].ledger[i].status = status
  BY <1>1, <1>6 DEF Backends
<1> QED
  BY <1>1, <1>5, <1>7

LEMMA LedgerStep ==
    ASSUME TypeInv, NEW r \in Requests, UpsertLedger(r)
    PROVE  /\ ClaimsKept /\ IndexKept /\ RecordsKept
           /\ \A s \in Backends, i \in Ids :
                 \/ store'[s].ledger[i].status = store[s].ledger[i].status
                 \/ i = id[r] /\ (store'[s].ledger[i].status = "delivered" => pc[r] = "confirm")
           /\ fallbackActive => fallbackActive'
<1>1. StoreTypes /\ CountTypes /\ Hash("raw", body[r]) \in Hashes
  BY TypeFacts DEF RequestTypes, Hash, Hashes
<1>2. PICK status \in {"received", "duplicate", "delivered", "failed"} :
          Upserts(r, status) /\ (status = "delivered" => pc[r] = "confirm")
  BY DEF UpsertLedger, LedgerCalls
<1> QED
  BY <1>1, <1>2, UpsertEffect DEF Upserts

LEMMA ClaimEffect ==
    ASSUME TypeInv, NEW r \in Requests, Claim(r)
    PROVE  /\ LedgerKept /\ IndexKept /\ RecordsKept
           /\ \A s \in Backends : store[s].claims \subseteq store'[s].claims
           /\ fallbackActive => fallbackActive'
           /\ \/ UNCHANGED window
              \/ \E s \in Backends : /\ id[r] \notin store[s].claims
                                     /\ id[r] \in store'[s].claims
                                     /\ window' = [window EXCEPT ![s] = @ \union {r}]
<1>1. StoreTypes /\ CountTypes
  BY TypeFacts
<1>2. store["redis"] \in Data /\ store["memory"] \in Data
  BY <1>1 DEF StoreTypes, Backends
<1>3. /\ store'["redis"] \in {store["redis"], Claimed("redis", id[r])}
      /\ store'["memory"] \in {store["memory"], Claimed("memory", id[r])}
      /\ errors' = errors => store'["redis"] = Claimed("redis", id[r])
      /\ errors' # errors => store'["memory"] = Claimed("memory", id[r])
      /\ fallbackActive => fallbackActive'
  BY <1>1, WritesEffect DEF Claim
<1>4. \A s \in Backends : /\ Claimed(s, id[r]).ledger = store[s].ledger
                           /\ Claimed(s, id[r]).index = store[s].index
                           /\ Claimed(s, id[r]).records = store[s].records
                           /\ Claimed(s, id[r]).claims = store[s].claims \union {id[r]}
  BY <1>1 DEF Claimed, StoreTypes, Data
<1>5. /\ LedgerKept /\ IndexKept /\ RecordsKept
      /\ \A s \in Backends : store[s].claims \subseteq store'[s].claims
  BY <1>3, <1>4 DEF LedgerKept, IndexKept, RecordsKept, Backends
<1>6. \/ UNCHANGED window
      \/ \E s \in Backends : /\ s = IF errors' = errors THEN "redis" ELSE "memory"
                             /\ id[r] \notin store[s].claims
                             /\ window' = [window EXCEPT ![s] = @ \union {r}]
  BY DEF Claim, Backends
<1>7. \A s \in Backends : s = (IF errors' = errors THEN "redis" ELSE "memory")
                              => id[r] \in store'[s].claims
  BY <1>3, <1>4 DEF Backends
<1> QED
  BY <1>3, <1>5, <1>6, <1>7

\* Parking writes the record of its request, on Redis or on the memory backend.
LEMMA ParkEffect ==
    ASSUME TypeInv, NEW r \in Requests, Park(r) \/ Index(r)
    PROVE  /\ LedgerKept /\ ClaimsKept /\ OthersKept(r)
           /\ \A s \in Backends : /\ store'[s].records[r] \in {store[s].records[r], NewRecord}
                                  /\ store[s].index \subseteq store'[s].index
           /\ Index(r) => store'["redis"].records = store["redis"].records
           /\ fallbackActive => fallbackActive'
           /\ pc' = [pc EXCEPT ![r] = IF Park(r) /\ errors' = errors THEN "index" ELSE "condemn"]
           /\ \/ /\ Park(r) /\ errors' = errors
                 /\ store'["redis"].records[r] = NewRecord
              \/ /\ ~(Park(r) /\ errors' = errors)
                 /\ \/ Index(r) /\ r \in store'["redis"].index /\ RecordsKept
                    \/ store'["memory"].records[r] = NewRecord /\ fallbackActive'
<1>1. StoreTypes /\ CountTypes
  BY TypeFacts
<1>2. store["redis"] \in Data /\ store["memory"] \in Data
  BY <1>1 DEF StoreTypes, Backends
<1>3. /\ RedisWritten(r, NewRecord).ledger = store["redis"].ledger
      /\ RedisWritten(r, NewRecord).claims = store["redis"].claims
      /\ RedisWritten(r, NewRecord).index = store["redis"].index
      /\ RedisWritten(r, NewRecord).records = [store["redis"].records EXCEPT ![r] = NewRecord]
  BY <1>2 DEF RedisWritten, Data
<1>4. /\ MemoryStored(r).ledger = store["memory"].ledger
      /\ MemoryStored(r).claims = store["memory"].claims
      /\ MemoryStored(r).index = store["memory"].index
      /\ MemoryStored(r).records = [store["memory"].records EXCEPT ![r] = NewRecord]
  BY <1>2 DEF MemoryStored, Data
<1>5. /\ RedisIndexed(r).ledger = store["redis"].ledger
      /\ RedisIndexed(r).claims = store["redis"].claims
      /\ RedisIndexed(r).index = store["redis"].index \union {r}
      /\ RedisIndexed(r).records = store["redis"].records
  BY <1>2 DEF RedisIndexed, Data
<1>6. store["redis"].records \in [Requests -> Record] /\ store["memory"].records \in [Requests -> Record]
  BY <1>2 DEF Data
<1>7. CASE Park(r)
  <2>1. /\ store'["redis"] \in {store["redis"], RedisWritten(r, NewRecord)}
        /\ store'["memory"] \in {store["memory"], MemoryStored(r)}
        /\ errors' = errors => store'["redis"] = RedisWritten(r, NewRecord)
        /\ errors' # errors => store'["memory"] = MemoryStored(r) /\ fallbackActive' = TRUE
        /\ fallbackActive => fallbackActive'
    BY <1>1, <1>7, WritesEffect DEF Park
  <2>2. LedgerKept /\ ClaimsKept /\ OthersKept(r)
    BY <1>3, <1>4, <1>6, <2>1 DEF LedgerKept, ClaimsKept, OthersKept, Backends
  <2>3. \A s \in Backends : /\ store'[s].records[r] \in {store[s].records[r], NewRecord}
                             /\ store[s].index \subseteq store'[s].index
    BY <1>3, <1>4, <1>6, <2>1 DEF Backends
  <2>4. /\ errors' = errors => store'["redis"].records[r] = NewRecord
        /\ errors' # errors => store'["memory"].records[r] = NewRecord
    BY <1>3, <1>4, <1>6, <2>1
  <2>5. ~Index(r) /\ pc' = [pc EXCEPT ![r] = IF errors' = errors THEN "index" ELSE "condemn"]
    BY <1>7 DEF Park, Index, Goes
  <2> QED
    BY <1>7, <2>1, <2>2, <2>3, <2>4, <2>5
<1>8. CASE Index(r)
  <2>1. /\ store'["redis"] \in {store["redis"], RedisIndexed(r)}
        /\ store'["memory"] \in {store["memory"], MemoryStored(r)}
        /\ errors' = errors => /\ store'["redis"] = RedisIndexed(r)
                               /\ store'["memory"] = store["memory"]
        /\ errors' # errors => store'["memory"] = MemoryStored(r) /\ fallbackActive' = TRUE
        /\ fallbackActive => fallbackActive'
    BY <1>1, <1>8, WritesEffect DEF Index
  <2>2. LedgerKept /\ ClaimsKept /\ OthersKept(r)
    BY <1>4, <1>5, <1>6, <2>1 DEF LedgerKept, ClaimsKept, OthersKept, Backends
  <2>3. \A s \in Backends : /\ store'[s].records[r] \in {store[s].records[r], NewRecord}
                             /\ store[s].index \subseteq store'[s].index
    BY <1>4, <1>5, <1>6, <2>1 DEF Backends
  <2>4. /\ errors' = errors => r \in store'["redis"].index /\ RecordsKept
        /\ errors' # errors => store'["memory"].records[r] = NewRecord
    BY <1>4, <1>5, <1>6, <2>1 DEF RecordsKept, Backends
  <2>5. ~Park(r) /\ pc' = [pc EXCEPT ![r] = "condemn"]
    BY <1>8 DEF Park, Index, Goes
  <2>6. store'["redis"].records = store["redis"].records
    BY <1>5, <2>1
  <2> QED
    BY <1>8, <2>1, <2>2, <2>3, <2>4, <2>5, <2>6
<1> QED
  BY <1>7, <1>8

\* An update writes the record of its id and no other: to Redis what its GET
\* returned with the changes, to memory the record there with the changes.  It
\* is not disturbed only if Redis wrote it, or does not know the id.
LEMMA UpdateEffect ==
    ASSUME TypeInv, NEW j \in Jobs, UpdateReads(j) \/ UpdateWrites(j),
           job[j].held # NoRecord => Home(j[2]) = "redis"
    PROVE  LET f == j[2] IN
           /\ LedgerKept /\ ClaimsKept /\ IndexKept
           /\ fallbackActive => fallbackActive'
           /\ disturbed' \in {disturbed, disturbed \union {f}}
           /\ job[j].pc \in Updates
           /\ \A g \in FailedIds : g # f => Rec(g)' = Rec(g)
           /\ \/ Rec(f)' = Rec(f)
              \/ job[j].held # NoRecord /\ Rec(f)' = Updated(job[j].held, Changes(j))
              \/ /\ Home(f) = "memory" /\ Rec(f) # NoRecord
                 /\ Rec(f)' = Updated(Rec(f), Changes(j))
           /\ \/ /\ Home(f) = "redis" /\ job[j].held = NoRecord /\ Rec(f) # NoRecord
                 /\ Rec(f)' = Rec(f)
                 /\ job' = [job EXCEPT ![j].held = Rec(f)]
                 /\ UNCHANGED <<begun, auto, disturbed>>
              \/ /\ UpdateEnds(j)
                 /\ \/ f \in disturbed'
                    \/ Home(f) = "redis" => Rec(f) = NoRecord
                    \/ job[j].held # NoRecord /\ Rec(f)' = Updated(job[j].held, Changes(j))
<1> DEFINE f == j[2]
           r == RequestOf(f)
           updated == Updated(store["memory"].records[r], Changes(j))
<1>1. StoreTypes /\ CountTypes /\ JobTypes
  BY TypeFacts
<1>2. store["redis"] \in Data /\ store["memory"] \in Data
  BY <1>1 DEF StoreTypes, Backends
<1>3. store["redis"].records \in [Requests -> Record] /\ store["memory"].records \in [Requests -> Record]
  BY <1>2 DEF Data
<1>4. f \in FailedIds /\ r \in Requests /\ f = <<Home(f), r>> /\ Home(f) \in Backends
  BY Names DEF Jobs
<1>5. MemoryUpdated(f, Changes(j)) =
          IF Home(f) = "memory" /\ store["memory"].records[r] # NoRecord
          THEN [store["memory"] EXCEPT !.records[r] = updated] ELSE store["memory"]
  BY DEF MemoryUpdated
<1>6. /\ MemoryUpdated(f, Changes(j)).ledger = store["memory"].ledger
      /\ MemoryUpdated(f, Changes(j)).claims = store["memory"].claims
      /\ MemoryUpdated(f, Changes(j)).index = store["memory"].index
      /\ MemoryUpdated(f, Changes(j)).records =
             IF Home(f) = "memory" /\ store["memory"].records[r] # NoRecord
             THEN [store["memory"].records EXCEPT ![r] = updated] ELSE store["memory"].records
  <2> HIDE DEF f, r, updated
  <2> QED
    BY <1>2, <1>5 DEF Data
<1>7. \A g \in FailedIds : g # f => Home(g) # Home(f) \/ RequestOf(g) # r
  BY <1>4, Names
<1>8. \A g \in FailedIds : Rec(g) = store[Home(g)].records[RequestOf(g)]
                           /\ Rec(g)' = store'[Home(g)].records[RequestOf(g)]
  BY DEF Rec
<1> HIDE DEF f, r, updated
<1>9. ASSUME store'["redis"] = store["redis"],
             store'["memory"] \in {store["memory"], MemoryUpdated(f, Changes(j))}
      PROVE  /\ LedgerKept /\ ClaimsKept /\ IndexKept
             /\ \A g \in FailedIds : g # f => Rec(g)' = Rec(g)
             /\ \/ Rec(f)' = Rec(f)
                \/ /\ Home(f) = "memory" /\ Rec(f) # NoRecord
                   /\ Rec(f)' = Updated(Rec(f), Changes(j))
  <2>1. LedgerKept /\ ClaimsKept /\ IndexKept
    BY <1>6, <1>9 DEF LedgerKept, ClaimsKept, IndexKept, Backends
  <2>2. ASSUME NEW g \in FailedIds, g # f PROVE Rec(g)' = Rec(g)
    BY <1>3, <1>4, <1>6, <1>7, <1>8, <1>9, <2>2, Names DEF Backends
  <2>3. \/ Rec(f)' = Rec(f)
        \/ Home(f) = "memory" /\ Rec(f) # NoRecord /\ Rec(f)' = Updated(Rec(f), Changes(j))
    <3>1. CASE Home(f) = "memory"
      BY <1>3, <1>4, <1>6, <1>8, <1>9, <3>1 DEF Backends, r, updated
    <3>2. CASE Home(f) = "redis"
      BY <1>4, <1>8, <1>9, <3>2
    <3> QED
      BY <1>4, <3>1, <3>2 DEF Backends
  <2> QED
    BY <2>1, <2>2, <2>3
<1>10. CASE UpdateReads(j)
  <2>1. job[j].pc \in Updates /\ job[j].held = NoRecord
    BY <1>10 DEF UpdateReads
  <2>2. CASE /\ ReadsFrom("redis")
             /\ IF Fetched("redis", f) = NoRecord
                THEN UpdateEnds(j)
                ELSE /\ job' = [job EXCEPT ![j].held = Fetched("redis", f)]
                     /\ UNCHANGED <<begun, auto>>
             /\ UNCHANGED disturbed
    <3>1. store' = store /\ (fallbackActive => fallbackActive')
      BY <1>1, <2>2, ReadsEffect DEF Backends
    <3>2. Fetched("redis", f) = IF Home(f) = "redis" THEN Rec(f) ELSE NoRecord
      BY <1>8, <1>4 DEF Fetched, r
    <3> QED
      BY <1>9, <2>1, <2>2, <3>1, <3>2, <1>4 DEF f
  <2>3. CASE /\ Raises
             /\ store' = [store EXCEPT !["memory"] = MemoryUpdated(f, Changes(j))]
             /\ UpdateEnds(j)
             /\ disturbed' = disturbed \union {f}
    <3>1. store'["redis"] = store["redis"] /\ store'["memory"] = MemoryUpdated(f, Changes(j))
      BY <1>1, <2>3 DEF StoreTypes, Backends
    <3>2. fallbackActive' /\ f \in disturbed'
      BY <2>3 DEF Raises
    <3> QED
      BY <1>9, <2>1, <2>3, <3>1, <3>2 DEF f
  <2> QED
    BY <1>10, <2>2, <2>3 DEF UpdateReads, f
<1>11. CASE UpdateWrites(j)
  <2>1. job[j].pc \in Updates /\ job[j].held # NoRecord /\ Home(f) = "redis"
    BY <1>11 DEF UpdateWrites, f
  <2>2. MemoryUpdated(f, Changes(j)) = store["memory"]
    BY <1>5, <2>1
  <2>3. /\ store'["redis"] \in {store["redis"], RedisWritten(r, Updated(job[j].held, Changes(j)))}
        /\ store'["memory"] = store["memory"]
        /\ errors' = errors => store'["redis"] = RedisWritten(r, Updated(job[j].held, Changes(j)))
        /\ fallbackActive => fallbackActive'
    BY <1>1, <1>11, <2>2, WritesEffect DEF UpdateWrites, f, r
  <2>4. /\ UpdateEnds(j)
        /\ disturbed' = disturbed \union (IF errors' = errors THEN {} ELSE {f})
    BY <1>11 DEF UpdateWrites, f
  <2>5. CASE store'["redis"] = store["redis"] /\ errors' # errors
    BY <1>9, <2>1, <2>3, <2>4, <2>5 DEF f
  <2>6. CASE store'["redis"] = RedisWritten(r, Updated(job[j].held, Changes(j)))
    <3>1. /\ store'["redis"].ledger = store["redis"].ledger
          /\ store'["redis"].claims = store["redis"].claims
          /\ store'["redis"].index = store["redis"].index
          /\ store'["redis"].records =
                 [store["redis"].records EXCEPT ![r] = Updated(job[j].held, Changes(j))]
      BY <1>2, <2>6 DEF RedisWritten, Data
    <3>2. LedgerKept /\ ClaimsKept /\ IndexKept
      BY <2>3, <3>1 DEF LedgerKept, ClaimsKept, IndexKept, Backends
    <3>3. ASSUME NEW g \in FailedIds, g # f PROVE Rec(g)' = Rec(g)
      BY <1>3, <1>4, <1>7, <1>8, <2>1, <2>3, <3>1, <3>3, Names DEF Backends
    <3>4. Rec(f)' = Updated(job[j].held, Changes(j))
      BY <1>3, <1>4, <1>8, <2>1, <3>1 DEF r
    <3> QED
      BY <2>1, <2>3, <2>4, <3>2, <3>3, <3>4 DEF f
  <2> QED
    BY <2>3, <2>5, <2>6
<1> QED
  BY <1>10, <1>11

LEMMA RecordsKeptRec ==
    ASSUME RecordsKept
    PROVE  \A f \in FailedIds : Rec(f)' = Rec(f)
  BY Names DEF RecordsKept, Rec

-----------------------------------------------------------------------------
(* What each step makes of the replays *)

\* A step of a replay is of one that runs, and changes no other.
LEMMA ReplayLocal ==
    ASSUME TypeInv, NEW j \in Jobs, Replay(j)
    PROVE  /\ job[j].pc # "idle"
           /\ \A i \in Jobs : i # j => job'[i] = job[i]
           /\ UNCHANGED requestVars
<1>1. StoreTypes /\ JobTypes
  BY TypeFacts
<1>2. UNCHANGED requestVars
  BY DEF Replay, CheckLedger, Start, UpdateReads, UpdateWrites, Resend, Reread, ReportReplay
<1>3. job[j].pc # "idle"
  BY DEF Replay, CheckLedger, Start, UpdateReads, UpdateWrites, Resend, Reread, ReportReplay,
         Updates
<1>4. \A i \in Jobs : i # j => job'[i] = job[i]
  <2>1. CASE CheckLedger(j)
    <3>1. job' = [job EXCEPT ![j] = NoJob] \/ Checks(j)
      BY <2>1 DEF CheckLedger
    <3> QED
      BY <1>1, <3>1, ChecksEffect DEF Jobs, JobTypes
  <2>2. CASE Start(j)
    BY <1>1, <2>2, ChecksEffect DEF Start, Jobs
  <2>3. CASE UpdateReads(j)
    <3>1. job[j].pc \in Updates /\ (UpdateEnds(j) \/ job' = [job EXCEPT ![j].held = Fetched("redis", j[2])])
      BY <2>3 DEF UpdateReads
    <3> QED
      BY <1>1, <3>1, UpdateEndsEffect DEF Jobs, JobTypes
  <2>4. CASE UpdateWrites(j)
    BY <1>1, <2>4, UpdateEndsEffect DEF UpdateWrites, Jobs
  <2>5. CASE Resend(j) \/ Reread(j) \/ ReportReplay(j)
    BY <1>1, <2>5 DEF Resend, Reread, ReportReplay, Jobs, JobTypes
  <2> QED
    BY <2>1, <2>2, <2>3, <2>4, <2>5 DEF Replay
<1> QED
  BY <1>2, <1>3, <1>4

\* A job with its checks, its send or its report ahead: what the steps that
\* are not updates make of it.
LEMMA ReplayEffect ==
    ASSUME TypeInv, NEW j \in Jobs, Replay(j), ~UpdateReads(j), ~UpdateWrites(j)
    PROVE  /\ RecordsKept /\ IndexKept /\ ClaimsKept
           /\ UNCHANGED <<begun, auto, disturbed>>
           /\ fallbackActive => fallbackActive'
           /\ job'[j].held \in {NoRecord, job[j].held}
           /\ \/ job'[j] = NoJob
              \/ job'[j].pc = "escalate" /\ Seen(j).attempts >= MaxAttempts
              \/ /\ job'[j].pc = "count"
                 /\ job'[j].copy.attempts = Seen(j).attempts
                 /\ ~job'[j].override => Seen(j).attempts < MaxAttempts
              \/ /\ job[j].pc = "send" /\ job'[j].pc = "deliver"
                 /\ RequestOf(j[2]) \in reached'
              \/ /\ job[j].pc = "send" /\ job'[j].pc = "reread"
                 /\ job'[j].copy = job[j].copy
              \/ /\ job[j].pc = "reread" /\ job'[j].pc = "settle"
                 /\ job'[j].verdict = "dead_letter" =>
                       \E s \in Backends :
                           Attempts(Fetched(s, j[2]), job[j].copy) >= MaxAttempts
           /\ job'[j].pc \in {"escalate", "count"} => job[j].pc \in {"check", "queued"}
           /\ \/ UNCHANGED reached
              \/ reached' = reached \union {RequestOf(j[2])}
           /\ \/ LedgerKept
              \/ /\ job[j].pc \in {"confirm", "condemn"}
                 /\ \A s \in Backends, k \in Ids :
                       \/ store'[s].ledger[k].status = store[s].ledger[k].status
                       \/ /\ k = id[RequestOf(j[2])]
                          /\ store'[s].ledger[k].status = "delivered" => job[j].pc = "confirm"
<1>1. StoreTypes /\ JobTypes /\ CountTypes /\ RequestTypes /\ Identified
  BY TypeFacts
<1>2. NoJob.held = NoRecord /\ NoJob.pc = "idle"
  BY DEF NoJob
<1>3. job[j] \in Job /\ RequestOf(j[2]) \in Requests /\ Seen(j).attempts \in Nat
  BY <1>1, FetchedTypes, Names DEF JobTypes, Jobs, Record
<1>4. store' = store => RecordsKept /\ IndexKept /\ ClaimsKept /\ LedgerKept
  BY DEF RecordsKept, IndexKept, ClaimsKept, LedgerKept
<1>5. MaxAttempts \in Nat
  BY Bounds
<1>6. ASSUME Checks(j)
      PROVE  /\ job'[j].held \in {NoRecord, job[j].held}
             /\ \/ job'[j] = NoJob
                \/ job'[j].pc = "escalate" /\ Seen(j).attempts >= MaxAttempts
                \/ /\ job'[j].pc = "count"
                   /\ job'[j].copy.attempts = Seen(j).attempts
                   /\ ~job'[j].override => Seen(j).attempts < MaxAttempts
  BY <1>1, <1>2, <1>3, <1>5, <1>6, ChecksEffect DEF Jobs
<1>7. CASE CheckLedger(j)
  <2>1. /\ store' = store /\ (fallbackActive => fallbackActive') /\ job[j].pc = "check"
        /\ UNCHANGED <<begun, auto, disturbed, reached>>
    BY <1>1, <1>7, ReadsEffect DEF CheckLedger
  <2>2. job' = [job EXCEPT ![j] = NoJob] \/ Checks(j)
    BY <1>7 DEF CheckLedger
  <2>3. job' = [job EXCEPT ![j] = NoJob] => job'[j] = NoJob
    BY <1>1 DEF JobTypes, Jobs
  <2> QED
    BY <1>2, <1>4, <1>6, <2>1, <2>2, <2>3
<1>8. CASE Start(j)
  <2>1. /\ store' = store /\ (fallbackActive => fallbackActive') /\ job[j].pc = "queued"
        /\ UNCHANGED <<begun, auto, disturbed, reached>> /\ Checks(j)
    BY <1>8 DEF Start
  <2> QED
    BY <1>4, <1>6, <2>1
<1>9. CASE Resend(j)
  <2>1. /\ store' = store /\ (fallbackActive => fallbackActive') /\ job[j].pc = "send"
        /\ UNCHANGED <<begun, auto, disturbed>>
        /\ \/ /\ job' = [job EXCEPT ![j].pc = "deliver"]
              /\ reached' = reached \union {RequestOf(j[2])}
           \/ /\ job' = [job EXCEPT ![j].pc = "reread"]
              /\ UNCHANGED reached
    BY <1>9 DEF Resend
  <2>2. /\ job'[j].held = job[j].held
        /\ \/ /\ job'[j].pc = "deliver" /\ reached' = reached \union {RequestOf(j[2])}
           \/ job'[j].pc = "reread" /\ job'[j].copy = job[j].copy /\ UNCHANGED reached
    BY <1>1, <1>3, <2>1 DEF JobTypes, Jobs, Job
  <2> QED
    BY <1>4, <2>1, <2>2
<1>10. CASE Reread(j)
  <2>1. PICK s \in Backends :
            /\ ReadsFrom(s)
            /\ job' = [job EXCEPT ![j].pc = "settle",
                                  ![j].verdict =
                  IF Exhausted(Attempts(Fetched(s, j[2]), job[j].copy))
                  THEN "dead_letter" ELSE "failed"]
    BY <1>10 DEF Reread
  <2>2. /\ store' = store /\ (fallbackActive => fallbackActive') /\ job[j].pc = "reread"
        /\ UNCHANGED <<begun, auto, disturbed, reached>>
    BY <1>1, <1>10, <2>1, ReadsEffect DEF Reread
  <2>3. /\ job'[j].held = job[j].held /\ job'[j].pc = "settle"
        /\ job'[j].verdict = IF Exhausted(Attempts(Fetched(s, j[2]), job[j].copy))
                             THEN "dead_letter" ELSE "failed"
    BY <1>1, <1>3, <2>1 DEF JobTypes, Jobs, Job
  <2> QED
    BY <1>4, <2>2, <2>3 DEF Exhausted
<1>11. CASE ReportReplay(j)
  <2> DEFINE r == RequestOf(j[2])
             status == IF job[j].pc = "confirm" THEN "delivered" ELSE "failed"
  <2>1. /\ job[j].pc \in {"confirm", "condemn"}
        /\ Writes(RedisUpserted(id[r], Hash("parsed", body[r]), status),
                  MemoryUpserted(id[r], Hash("parsed", body[r]), status))
        /\ job' = [job EXCEPT ![j] = NoJob]
        /\ UNCHANGED <<begun, auto, disturbed, reached>>
    BY <1>11 DEF ReportReplay
  <2>2. job'[j] = NoJob
    BY <1>1, <2>1 DEF JobTypes, Jobs
  <2>3. Hash("parsed", body[r]) \in Hashes /\ status \in {"received", "duplicate", "delivered", "failed"}
    BY <1>1, <1>3 DEF Hash, Hashes, RequestTypes
  <2> HIDE DEF r, status
  <2>4. /\ ClaimsKept /\ IndexKept /\ RecordsKept
        /\ \A s \in Backends, k \in Ids :
              \/ store'[s].ledger[k].status = store[s].ledger[k].status
              \/ k = id[r] /\ store'[s].ledger[k].status = status
        /\ fallbackActive => fallbackActive'
    BY <1>1, <2>1, <2>3, UpsertEffect
  <2> QED
    BY <1>2, <2>1, <2>2, <2>4 DEF r, status
<1> QED
  BY <1>7, <1>8, <1>9, <1>10, <1>11 DEF Replay

\* A call begins replays of records it was shown, with copies of them; where
\* another replay of the record runs, both are disturbed.
Begins(i) ==
    /\ job[i].pc = "idle"
    /\ job'[i].pc \in {"check", "queued"}
    /\ job'[i].held = NoRecord
    /\ job'[i].copy = Rec(i[2])
    /\ Rec(i[2]) # NoRecord
    /\ Active(i[2]) => i[2] \in disturbed'

LEMMA AdminEffect ==
    ASSUME TypeInv, NEW override \in BOOLEAN, Admin(override)
    PROVE  /\ store' = store
           /\ UNCHANGED <<requestVars, begun, auto, reached, forgotten>>
           /\ fallbackActive => fallbackActive'
           /\ disturbed \subseteq disturbed'
           /\ \A i \in Jobs : job'[i] = job[i] \/ Begins(i)
           /\ \A i, k \in Jobs : i[2] = k[2] /\ Begins(i) /\ Begins(k) => i = k
<1>1. StoreTypes /\ JobTypes /\ CountTypes
  BY TypeFacts
<1>2. /\ UNCHANGED <<requestVars, begun, auto, reached, forgotten>>
      /\ store' = store /\ (fallbackActive => fallbackActive')
  BY <1>1, ReadsEffect DEF Admin, Fetch, List
<1>3. \A s \in Backends, f \in FailedIds : Fetched(s, f) # NoRecord => Fetched(s, f) = Rec(f)
  BY DEF Fetched, Rec
<1>4. \A status, rec : LET new == [NoJob EXCEPT !.pc = status, !.copy = rec, !.override = override]
                       IN  new.pc = status /\ new.copy = rec /\ new.held = NoRecord
  BY DEF NoJob
<1>5. \A i \in Jobs : i = <<i[1], i[2]>> /\ i[1] \in Calls /\ i[2] \in FailedIds
  BY DEF Jobs
<1>6. ASSUME NEW s \in Singles, NEW f \in FailedIds, Fetch(s, f, override)
      PROVE  /\ disturbed \subseteq disturbed'
             /\ \A i \in Jobs : job'[i] = job[i] \/ (Begins(i) /\ i[1] = s)
  <2>1. PICK b \in Backends :
            IF Fetched(b, f) = NoRecord
            THEN UNCHANGED <<job, disturbed>>
            ELSE /\ job' = [job EXCEPT ![<<s, f>>] =
                       [NoJob EXCEPT !.pc = "check", !.copy = Fetched(b, f),
                                     !.override = override]]
                 /\ disturbed' = disturbed \union (IF Active(f) THEN {f} ELSE {})
    BY <1>6 DEF Fetch
  <2>2. CASE Fetched(b, f) = NoRecord
    BY <2>1, <2>2
  <2>3. CASE Fetched(b, f) # NoRecord
    <3>1. /\ <<s, f>> \in Jobs /\ job[<<s, f>>].pc = "idle"
      BY <1>6 DEF Fetch, Jobs, Calls
    <3>2. /\ \A i \in Jobs : i # <<s, f>> => job'[i] = job[i]
          /\ job'[<<s, f>>] = [NoJob EXCEPT !.pc = "check", !.copy = Fetched(b, f),
                                            !.override = override]
      BY <1>1, <2>1, <2>3, <3>1 DEF JobTypes, Jobs
    <3>3. Begins(<<s, f>>)
      BY <1>3, <1>4, <2>1, <2>3, <3>1, <3>2 DEF Begins
    <3> QED
      BY <2>1, <2>3, <3>2, <3>3
  <2> QED
    BY <2>2, <2>3
<1>7. ASSUME NEW b \in Batches, List(b, override)
      PROVE  /\ disturbed \subseteq disturbed'
             /\ \A i \in Jobs : job'[i] = job[i] \/ (Begins(i) /\ i[1] = b)
  <2>1. PICK s \in Backends :
            /\ job' = [j \in Calls \X FailedIds |->
                          IF j[1] = b /\ j[2] \in ListedFailed(s)
                          THEN [NoJob EXCEPT !.pc = "queued", !.copy = Fetched(s, j[2]),
                                             !.override = override]
                          ELSE job[j]]
            /\ disturbed' = disturbed \union {f \in ListedFailed(s) : Active(f)}
    BY <1>7 DEF List
  <2>2. ASSUME NEW i \in Jobs, i[1] = b, i[2] \in ListedFailed(s)
        PROVE  Begins(i)
    <3>1. Fetched(s, i[2]) = Rec(i[2]) /\ Rec(i[2]) # NoRecord
      BY <1>1, <2>2 DEF ListedFailed, Fetched, Rec, Home, RequestOf, NoRecord
    <3>2. job[i].pc = "idle"
      BY <1>5, <1>7, <2>2 DEF List
    <3>3. job'[i] = [NoJob EXCEPT !.pc = "queued", !.copy = Fetched(s, i[2]),
                                  !.override = override]
      BY <2>1, <2>2 DEF Jobs
    <3>4. job'[i].pc = "queued" /\ job'[i].copy = Fetched(s, i[2]) /\ job'[i].held = NoRecord
      BY <1>4, <3>3
    <3>5. Active(i[2]) => i[2] \in disturbed'
      BY <2>1, <2>2
    <3> QED
      BY <3>1, <3>2, <3>4, <3>5 DEF Begins
  <2>3. ASSUME NEW i \in Jobs, ~(i[1] = b /\ i[2] \in ListedFailed(s))
        PROVE  job'[i] = job[i]
    BY <2>1, <2>3 DEF Jobs
  <2> QED
    BY <2>1, <2>2, <2>3
<1>8. PICK w \in Calls : \A i \in Jobs : job'[i] = job[i] \/ (Begins(i) /\ i[1] = w)
  BY <1>6, <1>7 DEF Admin, Calls
<1>9. \A i \in Jobs : Begins(i) => job'[i] # job[i]
  BY DEF Begins
<1> QED
  BY <1>2, <1>5, <1>6, <1>7, <1>8, <1>9 DEF Admin

-----------------------------------------------------------------------------
(* What is on record *)

\* Nothing is stored, replayed or delivered of a request before its end is known.
Early == {"new", "receive", "claim", "send", "park"}

EarlyInv ==
    \A r \in Requests : pc[r] \in Early =>
        /\ r \notin reached
        /\ \A f \in FailedIds : RequestOf(f) = r => Rec(f) = NoRecord
        /\ \A j \in Jobs : RequestOf(j[2]) = r => job[j].pc = "idle"

\* A record has a status, and what Redis has been shown to hold it goes on to
\* hold: a replay under way finds it.
RecordInv ==
    /\ \A f \in FailedIds : Rec(f) # NoRecord => Rec(f).status # "none"
    /\ \A j \in Jobs :
          /\ job[j].held # NoRecord => /\ Home(j[2]) = "redis"
                                       /\ job[j].pc \in Updates
                                       /\ job[j].held.status # "none"
          /\ job[j].pc # "idle" /\ Home(j[2]) = "redis" => Rec(j[2]) # NoRecord

PresenceInv == EarlyInv /\ RecordInv

LEMMA PresenceInit == Init => PresenceInv
<1> SUFFICES ASSUME NEW ids \in [Backlog -> Ids], NEW sent \in [Ids -> Bodies],
                    NEW tries \in [Backlog -> 0 .. MaxAttempts], InitFrom(ids, sent, tries)
             PROVE  PresenceInv
  BY DEF Init
<1>1. \A j \in Jobs : job[j] = NoJob
  BY DEF InitFrom, Jobs
<1>2. \A f \in FailedIds :
          Rec(f) = IF Home(f) = "memory" \/ RequestOf(f) \notin Backlog THEN NoRecord
                   ELSE [status |-> "failed", attempts |-> tries[RequestOf(f)],
                         replayed |-> tries[RequestOf(f)] > 0]
  BY Names DEF InitFrom, Rec, EmptyStore, Left, Backends
<1>3. reached = {} /\ \A r \in Requests : pc[r] \in Early => r \notin Backlog
  BY DEF InitFrom, Early
<1>4. NoJob.pc = "idle" /\ NoJob.held = NoRecord
  BY DEF NoJob
<1>5. EarlyInv
  BY <1>1, <1>2, <1>3, <1>4 DEF EarlyInv
<1>6. \A f \in FailedIds : Rec(f) # NoRecord => Rec(f).status # "none"
  BY <1>2
<1> QED
  BY <1>1, <1>4, <1>5, <1>6 DEF PresenceInv, RecordInv

LEMMA PresenceRequest ==
    ASSUME TypeInv, PresenceInv, NEW r \in Requests, Request(r)
    PROVE  PresenceInv'
<1>1. StoreTypes /\ JobTypes /\ CountTypes /\ RequestTypes
  BY TypeFacts
<1>2. EarlyInv /\ RecordInv /\ job' = job
  BY DEF PresenceInv, Request, Arrive, UpsertLedger, Claim, Send, Park, Index, replayVars
<1>3. CASE Park(r) \/ Index(r)
  <2>1. /\ pc'[r] \in {"index", "condemn"} /\ \A q \in Requests : q # r => pc'[q] = pc[q]
        /\ UNCHANGED reached
    BY <1>1, <1>3, ParkEffect DEF RequestTypes, Park, Index
  <2>2. \A f \in FailedIds : /\ RequestOf(f) # r => Rec(f)' = Rec(f)
                             /\ Rec(f)' \in {Rec(f), NewRecord}
    BY <1>3, ParkEffect, Names DEF Rec, OthersKept
  <2>3. EarlyInv'
    BY <1>2, <2>1, <2>2, Names DEF EarlyInv, Early
  <2>4. NewRecord # NoRecord /\ NewRecord.status = "failed"
    BY DEF NewRecord, NoRecord
  <2>5. RecordInv'
    BY <1>2, <2>2, <2>4 DEF RecordInv, Jobs
  <2> QED
    BY <2>3, <2>5 DEF PresenceInv
<1>4. CASE ~(Park(r) \/ Index(r))
  <2>1. RecordsKept
    <3>1. CASE \E d \in Ids, b \in Bodies : Arrive(r, d, b)
      BY <1>1, <3>1, ReadsEffect DEF Arrive, RecordsKept
    <3>2. CASE UpsertLedger(r)
      BY <3>2, LedgerStep
    <3>3. CASE Claim(r)
      BY <3>3, ClaimEffect
    <3>4. CASE Send(r)
      BY <3>4 DEF Send, RecordsKept
    <3> QED
      BY <1>4, <3>1, <3>2, <3>3, <3>4 DEF Request
  <2>2. \A f \in FailedIds : Rec(f)' = Rec(f)
    BY <2>1, RecordsKeptRec
  <2>3. /\ \A q \in Requests : q # r => pc'[q] = pc[q]
        /\ pc'[r] \in Early => pc[r] \in Early
        /\ \A q \in Requests : q \in reached' => q \in reached \/ (q = r /\ pc'[r] = "confirm")
    BY <1>1, <1>4 DEF Request, Arrive, UpsertLedger, LedgerCalls, Claim, Send, Goes, RequestTypes, Early
  <2>4. EarlyInv'
    BY <1>2, <2>2, <2>3, Names DEF EarlyInv, Early
  <2>5. RecordInv'
    BY <1>2, <2>2 DEF RecordInv, Jobs
  <2> QED
    BY <2>4, <2>5 DEF PresenceInv
<1> QED
  BY <1>3, <1>4

LEMMA PresenceReplay ==
    ASSUME TypeInv, PresenceInv, NEW j \in Jobs, Replay(j)
    PROVE  PresenceInv'
<1>1. StoreTypes /\ JobTypes
  BY TypeFacts
<1>2. EarlyInv /\ RecordInv
  BY DEF PresenceInv
<1>3. /\ UNCHANGED pc /\ job[j].pc # "idle" /\ pc[RequestOf(j[2])] \notin Early
      /\ j[2] \in FailedIds /\ RequestOf(j[2]) \in Requests
      /\ \A i \in Jobs : i # j => job'[i] = job[i]
  BY <1>2, ReplayLocal, Names DEF requestVars, EarlyInv, Jobs
<1>4. NoJob.pc = "idle" /\ NoJob.held = NoRecord
  BY DEF NoJob
<1>5. CASE UpdateReads(j) \/ UpdateWrites(j)
  <2> DEFINE f == j[2]
  <2>1. /\ \A g \in FailedIds : g # f => Rec(g)' = Rec(g)
        /\ job[j].pc \in Updates
        /\ \/ Rec(f)' = Rec(f)
           \/ job[j].held # NoRecord /\ Rec(f)' = Updated(job[j].held, Changes(j))
           \/ /\ Home(f) = "memory" /\ Rec(f) # NoRecord
              /\ Rec(f)' = Updated(Rec(f), Changes(j))
        /\ \/ /\ Home(f) = "redis" /\ job[j].held = NoRecord /\ Rec(f) # NoRecord
              /\ Rec(f)' = Rec(f)
              /\ job' = [job EXCEPT ![j].held = Rec(f)]
           \/ UpdateEnds(j)
    BY <1>2, <1>5, UpdateEffect DEF RecordInv
  <2>2. ASSUME NEW rec \in Record, rec # NoRecord, rec.status # "none"
        PROVE  Updated(rec, Changes(j)) # NoRecord /\ Updated(rec, Changes(j)).status # "none"
    <3>1. Updated(rec, Changes(j)).status # "none"
      BY <1>1, <2>1, <2>2, UpdatedEffect DEF Jobs, JobTypes, Job
    <3> QED
      BY <3>1 DEF NoRecord
  <2>3. job[j].held \in Record /\ Rec(f) \in Record
    BY <1>1, <1>3, Names DEF JobTypes, Jobs, Job, StoreTypes, Data, Rec
  <2>4. /\ Rec(f)' # NoRecord => Rec(f)'.status # "none"
        /\ Rec(f) # NoRecord => Rec(f)' # NoRecord
    BY <1>2, <1>3, <2>1, <2>2, <2>3 DEF RecordInv
  <2>5. \/ job'[j].held = NoRecord
        \/ /\ job'[j].held = Rec(f) /\ Rec(f) # NoRecord /\ Home(f) = "redis"
           /\ job'[j].pc = job[j].pc
    <3>1. CASE UpdateEnds(j)
      BY <1>1, <1>4, <2>1, <3>1, UpdateEndsEffect DEF Jobs, Updates
    <3>2. CASE Home(f) = "redis" /\ Rec(f) # NoRecord /\ job' = [job EXCEPT ![j].held = Rec(f)]
      BY <1>1, <3>2 DEF Jobs, JobTypes, Job
    <3> QED
      BY <2>1, <3>1, <3>2
  <2>6. EarlyInv'
    <3>1. UNCHANGED reached
      BY <1>5 DEF UpdateReads, UpdateWrites
    <3> QED
      BY <1>2, <1>3, <2>1, <3>1, Names DEF EarlyInv
  <2>7. RecordInv'
    <3>1. \A g \in FailedIds : /\ Rec(g)' # NoRecord => Rec(g)'.status # "none"
                               /\ Rec(g) # NoRecord => Rec(g)' # NoRecord
      BY <1>2, <2>1, <2>4 DEF RecordInv
    <3>2. ASSUME NEW i \in Jobs
          PROVE  /\ job'[i].held # NoRecord => /\ Home(i[2]) = "redis"
                                               /\ job'[i].pc \in Updates
                                               /\ job'[i].held.status # "none"
                 /\ job'[i].pc # "idle" /\ Home(i[2]) = "redis" => Rec(i[2])' # NoRecord
      <4>1. CASE i = j
        BY <1>2, <1>3, <2>1, <2>5, <3>1, <4>1 DEF RecordInv
      <4>2. CASE i # j
        BY <1>2, <1>3, <3>1, <4>2 DEF RecordInv, Jobs
      <4> QED
        BY <4>1, <4>2
    <3> QED
      BY <3>1, <3>2 DEF RecordInv
  <2> QED
    BY <2>6, <2>7 DEF PresenceInv
<1>6. CASE ~(UpdateReads(j) \/ UpdateWrites(j))
  <2>1. /\ RecordsKept
        /\ job'[j].held \in {NoRecord, job[j].held}
        /\ job'[j] = NoJob \/ job'[j].pc \in Updates \/ job[j].pc \notin Updates
        /\ \A q \in Requests : q \in reached' => q \in reached \/ q = RequestOf(j[2])
    BY <1>6, ReplayEffect DEF Updates
  <2>2. \A f \in FailedIds : Rec(f)' = Rec(f)
    BY <2>1, RecordsKeptRec
  <2>3. EarlyInv'
    BY <1>2, <1>3, <2>1, <2>2, Names DEF EarlyInv
  <2>4. RecordInv'
    BY <1>2, <1>3, <1>4, <2>1, <2>2 DEF RecordInv, Jobs
  <2> QED
    BY <2>3, <2>4 DEF PresenceInv
<1> QED
  BY <1>5, <1>6

LEMMA ExpiryEffect ==
    ASSUME TypeInv, NEW s \in Backends, NEW d \in Ids, ClaimExpires(s, d)
    PROVE  /\ LedgerKept /\ IndexKept /\ RecordsKept
           /\ \A b \in Backends : store'[b].claims = IF b = s THEN store[b].claims \ {d}
                                                     ELSE store[b].claims
           /\ \A b \in Backends : window'[b] = IF b = s THEN {r \in window[b] : id[r] # d}
                                               ELSE window[b]
           /\ UNCHANGED <<pc, id, body, fallbackActive, environment, replayVars, made, reached,
                          forgotten>>
<1>1. StoreTypes /\ RequestTypes
  BY TypeFacts
<1>2. /\ [store[s] EXCEPT !.claims = @ \ {d}].claims = store[s].claims \ {d}
      /\ [store[s] EXCEPT !.claims = @ \ {d}].ledger = store[s].ledger
      /\ [store[s] EXCEPT !.claims = @ \ {d}].records = store[s].records
      /\ [store[s] EXCEPT !.claims = @ \ {d}].index = store[s].index
  BY <1>1 DEF StoreTypes, Data
<1>3. \A b \in Backends : store'[b] = IF b = s THEN [store[s] EXCEPT !.claims = @ \ {d}]
                                      ELSE store[b]
  BY <1>1 DEF ClaimExpires, StoreTypes
<1>4. \A b \in Backends : window'[b] = IF b = s THEN {r \in window[b] : id[r] # d}
                                       ELSE window[b]
  BY <1>1 DEF ClaimExpires, RequestTypes
<1>5. /\ LedgerKept /\ IndexKept /\ RecordsKept
      /\ \A b \in Backends : store'[b].claims = IF b = s THEN store[b].claims \ {d}
                                                 ELSE store[b].claims
  BY <1>2, <1>3 DEF LedgerKept, IndexKept, RecordsKept
<1>6. UNCHANGED <<pc, id, body, fallbackActive, environment, replayVars, made, reached, forgotten>>
  BY DEF ClaimExpires
<1> QED
  BY <1>4, <1>5, <1>6

\* After a restart the memory backend is empty and nothing runs.
LEMMA RestartEffect ==
    ASSUME TypeInv, Restart
    PROVE  /\ store'["redis"] = store["redis"]
           /\ \A r \in Requests : store'["memory"].records[r] = NoRecord
           /\ \A k \in Ids : store'["memory"].ledger[k].status = "none"
           /\ \A f \in FailedIds : Rec(f)' = IF Home(f) = "redis" THEN Rec(f) ELSE NoRecord
           /\ \A j \in Jobs : job'[j] = NoJob
           /\ \A r \in Requests : pc'[r] = IF pc[r] \in InFlight THEN "killed" ELSE pc[r]
           /\ UNCHANGED <<id, body, errors, made, begun, auto, disturbed, reached>>
<1>1. StoreTypes /\ store'["redis"] = store["redis"] /\ store'["memory"] = EmptyStore
  BY TypeFacts DEF Restart, StoreTypes, Backends
<1>2. /\ \A r \in Requests : store'["memory"].records[r] = NoRecord
      /\ \A k \in Ids : store'["memory"].ledger[k].status = "none"
  BY <1>1 DEF EmptyStore, NoEntry
<1>3. \A f \in FailedIds : Rec(f)' = IF Home(f) = "redis" THEN Rec(f) ELSE NoRecord
  BY <1>1, <1>2, Names DEF Rec, Backends
<1> QED
  BY <1>1, <1>2, <1>3 DEF Restart, Jobs

LEMMA PresenceNext == TypeInv /\ PresenceInv /\ [Next]_vars => PresenceInv'
<1> SUFFICES ASSUME TypeInv, PresenceInv, [Next]_vars PROVE PresenceInv'
  OBVIOUS
<1>1. EarlyInv /\ RecordInv
  BY DEF PresenceInv
<1>2. NoJob.pc = "idle" /\ NoJob.held = NoRecord
  BY DEF NoJob
<1>3. CASE UNCHANGED vars
  BY <1>1, <1>3 DEF PresenceInv, EarlyInv, RecordInv, Rec, vars, requestVars, replayVars
<1>4. ASSUME NEW override \in BOOLEAN, Admin(override) PROVE PresenceInv'
  <2>1. /\ store' = store /\ UNCHANGED <<pc, reached>>
        /\ \A i \in Jobs : job'[i] = job[i] \/ Begins(i)
    BY <1>4, AdminEffect DEF requestVars
  <2>2. \A f \in FailedIds : Rec(f)' = Rec(f)
    BY <2>1 DEF Rec
  <2>3. EarlyInv'
    BY <1>1, <2>1, <2>2, Names DEF EarlyInv, Begins, Jobs
  <2>4. RecordInv'
    BY <1>1, <2>1, <2>2 DEF RecordInv, Begins, Jobs
  <2> QED
    BY <2>3, <2>4 DEF PresenceInv
<1>5. ASSUME NEW s \in Backends, NEW d \in Ids, ClaimExpires(s, d) PROVE PresenceInv'
  <2>1. RecordsKept /\ UNCHANGED <<pc, reached, job>>
    BY <1>5, ExpiryEffect DEF replayVars
  <2> QED
    BY <1>1, <2>1, RecordsKeptRec DEF PresenceInv, EarlyInv, RecordInv, Jobs
<1>6. CASE Restart
  <2>1. \A r \in Requests : pc'[r] \in Early => pc[r] \in Early
    BY <1>6, RestartEffect DEF Early, InFlight
  <2>2. EarlyInv'
    BY <1>1, <1>2, <1>6, <2>1, RestartEffect DEF EarlyInv
  <2>3. RecordInv'
    BY <1>1, <1>2, <1>6, RestartEffect DEF RecordInv
  <2> QED
    BY <2>2, <2>3 DEF PresenceInv
<1> QED
  BY <1>3, <1>4, <1>5, <1>6, PresenceRequest, PresenceReplay DEF Next, Jobs

-----------------------------------------------------------------------------
(* Delivered means delivered *)

\* Who is about to write "delivered", or to write it back, has cause.
DeliveredInv ==
    /\ DeliveredIsTrue
    /\ \A r \in Requests : pc[r] = "confirm" => r \in reached
    /\ \A j \in Jobs :
          job[j].pc \in {"deliver", "confirm"} \/ job[j].held.status = "delivered"
              => RequestOf(j[2]) \in reached

\* The part of it that is about records, by the ids of the records.
LEMMA DeliveredRecords ==
    (\A s \in Backends, r \in Requests :
         store[s].records[r].status = "delivered" => r \in reached)
    <=> \A f \in FailedIds : Rec(f).status = "delivered" => RequestOf(f) \in reached
<1>1. \A s \in Backends, r \in Requests : /\ <<s, r>> \in FailedIds
                                          /\ Rec(<<s, r>>) = store[s].records[r]
                                          /\ RequestOf(<<s, r>>) = r
  BY DEF FailedIds, Rec, Home, RequestOf
<1>2. \A f \in FailedIds : Rec(f) = store[Home(f)].records[RequestOf(f)]
  BY DEF Rec
<1> QED
  BY <1>1, <1>2, Names

LEMMA RecordsById ==
    \A s \in Backends, r \in Requests : /\ <<s, r>> \in FailedIds /\ RequestOf(<<s, r>>) = r
                                        /\ Rec(<<s, r>>) = store[s].records[r]
                                        /\ Rec(<<s, r>>)' = store'[s].records[r]
  BY DEF FailedIds, Rec, Home, RequestOf

LEMMA DeliveredInit == Init => DeliveredInv
<1> SUFFICES ASSUME NEW ids \in [Backlog -> Ids], NEW sent \in [Ids -> Bodies],
                    NEW tries \in [Backlog -> 0 .. MaxAttempts], InitFrom(ids, sent, tries)
             PROVE  DeliveredInv
  BY DEF Init
<1>1. \A j \in Jobs : job[j] = NoJob
  BY DEF InitFrom, Jobs
<1>2. NoJob.pc = "idle" /\ NoJob.held.status = "none" /\ NoRecord.status = "none"
  BY DEF NoJob, NoRecord
<1>3. \A r \in Requests : pc[r] # "confirm"
  BY DEF InitFrom
<1>4. \A s \in Backends, k \in Ids : store[s].ledger[k].status # "delivered"
  BY DEF InitFrom, EmptyStore, Left, NoEntry, Backends
<1>5. \A s \in Backends, r \in Requests : store[s].records[r].status # "delivered"
  BY <1>2 DEF InitFrom, EmptyStore, Left, Backends
<1> QED
  BY <1>1, <1>2, <1>3, <1>4, <1>5 DEF DeliveredInv, DeliveredIsTrue

LEMMA DeliveredRequest ==
    ASSUME TypeInv, PresenceInv, DeliveredInv, NEW r \in Requests, Request(r)
    PROVE  DeliveredInv'
<1>1. StoreTypes /\ JobTypes /\ CountTypes /\ RequestTypes /\ HistoryTypes
  BY TypeFacts
<1>2. /\ \A s \in Backends, k \in Ids :
            store[s].ledger[k].status = "delivered" => \E q \in reached : id[q] = k
      /\ \A f \in FailedIds : Rec(f).status = "delivered" => RequestOf(f) \in reached
      /\ \A q \in Requests : pc[q] = "confirm" => q \in reached
  BY DeliveredRecords DEF DeliveredInv, DeliveredIsTrue
<1>3. job' = job /\ reached \subseteq reached'
  BY DEF Request, Arrive, UpsertLedger, Claim, Send, Park, Index, replayVars
<1>4. \A f \in FailedIds : Rec(f)'.status = "delivered" => RequestOf(f) \in reached'
  <2>1. CASE Park(r) \/ Index(r)
    <3>1. \A f \in FailedIds : Rec(f)' \in {Rec(f), NewRecord}
      BY <2>1, ParkEffect, Names DEF Rec, OthersKept
    <3> QED
      BY <1>2, <1>3, <3>1 DEF NewRecord
  <2>2. CASE UpsertLedger(r) \/ Claim(r)
    BY <1>2, <1>3, <2>2, LedgerStep, ClaimEffect, RecordsKeptRec
  <2>3. CASE Send(r)
    BY <1>2, <1>3, <2>3 DEF Send, Rec
  <2>4. ASSUME NEW d \in Ids, NEW b \in Bodies, Arrive(r, d, b)
        PROVE  \A f \in FailedIds : Rec(f)'.status = "delivered" => RequestOf(f) \in reached'
    BY <1>1, <1>2, <1>3, <2>4, ReadsEffect DEF Arrive, Rec
  <2> QED
    BY <2>1, <2>2, <2>3, <2>4 DEF Request
<1>5. /\ \A q \in Requests : pc'[q] = "confirm" => q \in reached'
      /\ \A q \in reached : id'[q] = id[q]
  <2>1. r \in reached => pc[r] # "new"
    BY DEF PresenceInv, EarlyInv, Early
  <2> QED
    BY <1>1, <1>2, <1>3, <2>1 DEF Request, Arrive, UpsertLedger, LedgerCalls, Claim, Send, Park,
       Index, Goes, RequestTypes, HistoryTypes
<1>6. \A s \in Backends, k \in Ids :
          store'[s].ledger[k].status = "delivered" => \E q \in reached' : id'[q] = k
  <2>1. CASE UpsertLedger(r)
    BY <1>2, <1>3, <1>5, <2>1, LedgerStep
  <2>2. CASE Claim(r) \/ Park(r) \/ Index(r)
    <3>1. LedgerKept
      BY <2>2, ClaimEffect, ParkEffect
    <3> QED
      BY <1>2, <1>3, <1>5, <3>1 DEF LedgerKept
  <2>3. CASE Send(r)
    BY <1>2, <1>3, <1>5, <2>3 DEF Send
  <2>4. ASSUME NEW d \in Ids, NEW b \in Bodies, Arrive(r, d, b)
        PROVE  \A s \in Backends, k \in Ids :
                   store'[s].ledger[k].status = "delivered" => \E q \in reached' : id'[q] = k
    <3>1. store' = store
      BY <1>1, <2>4, ReadsEffect DEF Arrive
    <3> QED
      BY <1>2, <1>3, <1>5, <3>1
  <2> QED
    BY <2>1, <2>2, <2>3, <2>4 DEF Request
<1>7. \A s \in Backends, q \in Requests :
          store'[s].records[q].status = "delivered" => q \in reached'
  BY <1>4, RecordsById
<1> QED
  BY <1>3, <1>5, <1>6, <1>7 DEF DeliveredInv, DeliveredIsTrue

LEMMA DeliveredReplay ==
    ASSUME TypeInv, PresenceInv, DeliveredInv, NEW j \in Jobs, Replay(j)
    PROVE  DeliveredInv'
<1> DEFINE f == j[2]
<1>1. StoreTypes /\ JobTypes
  BY TypeFacts
<1>2. /\ \A s \in Backends, k \in Ids :
            store[s].ledger[k].status = "delivered" => \E q \in reached : id[q] = k
      /\ \A g \in FailedIds : Rec(g).status = "delivered" => RequestOf(g) \in reached
      /\ \A q \in Requests : pc[q] = "confirm" => q \in reached
      /\ \A i \in Jobs : job[i].pc \in {"deliver", "confirm"} \/ job[i].held.status = "delivered"
                            => RequestOf(i[2]) \in reached
  BY DeliveredRecords DEF DeliveredInv, DeliveredIsTrue
<1>3. /\ UNCHANGED <<pc, id>> /\ f \in FailedIds
      /\ \A i \in Jobs : i # j => job'[i] = job[i]
  BY ReplayLocal DEF requestVars, Jobs
<1>4. NoJob.pc = "idle" /\ NoJob.held.status = "none" /\ NoRecord.status = "none"
  BY DEF NoJob, NoRecord
<1>5. /\ reached \subseteq reached'
      /\ \A g \in FailedIds : Rec(g)'.status = "delivered" => RequestOf(g) \in reached'
      /\ \A s \in Backends, k \in Ids :
            store'[s].ledger[k].status = "delivered" => \E q \in reached' : id'[q] = k
      /\ job'[j].pc \in {"deliver", "confirm"} \/ job'[j].held.status = "delivered"
            => RequestOf(f) \in reached'
  <2>1. CASE UpdateReads(j) \/ UpdateWrites(j)
    <3>1. /\ LedgerKept
          /\ job[j].pc \in Updates
          /\ \A g \in FailedIds : g # f => Rec(g)' = Rec(g)
          /\ \/ Rec(f)' = Rec(f)
             \/ job[j].held # NoRecord /\ Rec(f)' = Updated(job[j].held, Changes(j))
             \/ /\ Home(f) = "memory" /\ Rec(f) # NoRecord
                /\ Rec(f)' = Updated(Rec(f), Changes(j))
          /\ job' = [job EXCEPT ![j].held = Rec(f)] \/ UpdateEnds(j)
      BY <2>1, UpdateEffect DEF PresenceInv, RecordInv
    <3>2. UNCHANGED reached
      BY <2>1 DEF UpdateReads, UpdateWrites
    <3>3. job[j].held \in Record /\ Rec(f) \in Record /\ job[j].verdict # "delivered"
      <4>1. job[j].held \in Record /\ job[j].verdict # "delivered"
        BY <1>1 DEF JobTypes, Jobs, Job
      <4>2. \A g \in FailedIds : Rec(g) \in Record
        BY <1>1, Names DEF StoreTypes, Data, Rec
      <4> QED
        BY <1>3, <4>1, <4>2
    <3>4. Rec(f)'.status = "delivered" => RequestOf(f) \in reached
      <4>1. job[j].pc = "deliver" \/ job[j].held.status = "delivered" => RequestOf(f) \in reached
        BY <1>2
      <4>2. Rec(f).status = "delivered" => RequestOf(f) \in reached
        BY <1>2, <1>3
      <4>3. ASSUME NEW rec \in Record, Updated(rec, Changes(j)).status = "delivered"
            PROVE  rec.status = "delivered" \/ job[j].pc = "deliver"
        BY <1>1, <3>1, <3>3, <4>3, UpdatedEffect DEF Jobs
      <4> QED
        BY <3>1, <3>3, <4>1, <4>2, <4>3
    <3>5. job'[j].pc \in {"deliver", "confirm"} \/ job'[j].held.status = "delivered"
             => RequestOf(f) \in reached
      <4>1. CASE UpdateEnds(j)
        BY <1>1, <1>2, <1>4, <3>1, <4>1, UpdateEndsEffect DEF Jobs
      <4>2. CASE job' = [job EXCEPT ![j].held = Rec(f)]
        BY <1>1, <1>2, <1>3, <4>2 DEF Jobs, JobTypes, Job
      <4> QED
        BY <3>1, <4>1, <4>2
    <3> QED
      BY <1>2, <1>3, <3>1, <3>2, <3>4, <3>5 DEF LedgerKept
  <2>2. CASE ~(UpdateReads(j) \/ UpdateWrites(j))
    <3>1. /\ RecordsKept
          /\ job'[j].held \in {NoRecord, job[j].held}
          /\ job'[j].pc \in {"idle", "escalate", "count", "reread", "settle"}
                \/ (job'[j].pc = "deliver" /\ RequestOf(f) \in reached')
          /\ reached \subseteq reached'
      BY <1>4, <2>2, ReplayEffect
    <3>2. \/ LedgerKept
          \/ /\ job[j].pc \in {"confirm", "condemn"}
             /\ \A s \in Backends, k \in Ids :
                   \/ store'[s].ledger[k].status = store[s].ledger[k].status
                   \/ /\ k = id[RequestOf(f)]
                      /\ store'[s].ledger[k].status = "delivered" => job[j].pc = "confirm"
      BY <2>2, ReplayEffect
    <3>3. \A s \in Backends, k \in Ids :
              store'[s].ledger[k].status = "delivered" => \E q \in reached' : id'[q] = k
      BY <1>2, <1>3, <3>1, <3>2 DEF LedgerKept
    <3>4. \A g \in FailedIds : Rec(g)' = Rec(g)
      BY <3>1, RecordsKeptRec
    <3> QED
      BY <1>2, <1>4, <3>1, <3>3, <3>4
  <2> QED
    BY <2>1, <2>2
<1>6. \A s \in Backends, q \in Requests :
          store'[s].records[q].status = "delivered" => q \in reached'
  <2>1. \A g \in FailedIds : Rec(g)'.status = "delivered" => RequestOf(g) \in reached'
    BY <1>5
  <2> QED
    BY <2>1, RecordsById
<1> QED
  BY <1>2, <1>3, <1>5, <1>6 DEF DeliveredInv, DeliveredIsTrue

LEMMA DeliveredNext == TypeInv /\ PresenceInv /\ DeliveredInv /\ [Next]_vars => DeliveredInv'
<1> SUFFICES ASSUME TypeInv, PresenceInv, DeliveredInv, [Next]_vars PROVE DeliveredInv'
  OBVIOUS
<1>1. NoJob.pc = "idle" /\ NoJob.held.status = "none" /\ NoRecord.status = "none"
  BY DEF NoJob, NoRecord
<1>2. CASE UNCHANGED vars
  BY <1>2 DEF DeliveredInv, DeliveredIsTrue, vars, requestVars, replayVars
<1>3. ASSUME NEW override \in BOOLEAN, Admin(override) PROVE DeliveredInv'
  <2>1. /\ store' = store /\ UNCHANGED <<pc, id, reached>>
        /\ \A i \in Jobs : job'[i] = job[i] \/ Begins(i)
    BY <1>3, AdminEffect DEF requestVars
  <2> QED
    BY <1>1, <2>1 DEF DeliveredInv, DeliveredIsTrue, Begins
<1>4. ASSUME NEW s \in Backends, NEW d \in Ids, ClaimExpires(s, d) PROVE DeliveredInv'
  <2>1. LedgerKept /\ RecordsKept /\ UNCHANGED <<pc, id, reached, job>>
    BY <1>4, ExpiryEffect DEF replayVars
  <2> QED
    BY <2>1 DEF DeliveredInv, DeliveredIsTrue, LedgerKept, RecordsKept
<1>5. CASE Restart
  BY <1>1, <1>5, RestartEffect DEF DeliveredInv, DeliveredIsTrue, Backends
<1> QED
  BY <1>2, <1>3, <1>4, <1>5, DeliveredRequest, DeliveredReplay DEF Next, Jobs

LEMMA Presence == Spec => [](TypeInv /\ PresenceInv)
  BY TypeInit, TypeNext, PresenceInit, PresenceNext, PTL DEF Spec

\* storage.py:406-412 and 494-625: "delivered" is written for deliveries that
\* got to Telegram and for no others, to the ledgers and the records of both
\* backends, through overlapping replays, errors and restarts.
THEOREM DeliveredMeansDelivered == Spec => []DeliveredIsTrue
<1>1. DeliveredInv => DeliveredIsTrue
  BY DEF DeliveredInv
<1> QED
  BY <1>1, Presence, DeliveredInit, DeliveredNext, PTL DEF Spec

-----------------------------------------------------------------------------
(* What failed is on record *)

OnRecord(r) ==
    \/ r \in reached
    \/ r \in store["redis"].index /\ store["redis"].records[r] # NoRecord
    \/ store["memory"].records[r] # NoRecord /\ fallbackActive
    \/ r \in forgotten

\* The SET has been carried out when the LPUSH comes, and a record is there
\* before the ledger is told.
OnRecordInv ==
    \A r \in Requests :
        /\ pc[r] = "index" => store["redis"].records[r] # NoRecord
        /\ pc[r] \in {"condemn", "failed"} => OnRecord(r)

\* Only a restart loses something: what is stored stays, and stays listed.
Kept ==
    /\ reached \subseteq reached'
    /\ forgotten \subseteq forgotten'
    /\ store["redis"].index \subseteq store'["redis"].index
    /\ \A s \in Backends, r \in Requests :
          store[s].records[r] # NoRecord => store'[s].records[r] # NoRecord
    /\ fallbackActive => fallbackActive'

LEMMA KeptOnRecord ==
    ASSUME Kept, NEW r \in Requests, OnRecord(r)
    PROVE  OnRecord(r)'
  BY DEF Kept, OnRecord, Backends

LEMMA RequestKeeps ==
    ASSUME TypeInv, NEW r \in Requests, Request(r)
    PROVE  Kept
<1>1. StoreTypes /\ CountTypes
  BY TypeFacts
<1>2. reached \subseteq reached' /\ UNCHANGED forgotten
  BY DEF Request, Arrive, UpsertLedger, Claim, Send, Park, Index
<1>3. CASE Park(r) \/ Index(r)
  <2>1. NewRecord # NoRecord
    BY DEF NewRecord, NoRecord
  <2>2. \A s \in Backends, q \in Requests :
            store[s].records[q] # NoRecord => store'[s].records[q] # NoRecord
    BY <1>3, <2>1, ParkEffect DEF OthersKept
  <2> QED
    BY <1>2, <1>3, <2>2, ParkEffect DEF Kept, Backends
<1>4. CASE UpsertLedger(r) \/ Claim(r)
  BY <1>2, <1>4, LedgerStep, ClaimEffect DEF Kept, RecordsKept, IndexKept, Backends
<1>5. CASE Send(r)
  BY <1>2, <1>5 DEF Send, Kept
<1>6. ASSUME NEW d \in Ids, NEW b \in Bodies, Arrive(r, d, b) PROVE Kept
  <2>1. store' = store /\ (fallbackActive => fallbackActive')
    BY <1>1, <1>6, ReadsEffect DEF Arrive
  <2> QED
    BY <1>2, <2>1 DEF Kept
<1> QED
  BY <1>3, <1>4, <1>5, <1>6 DEF Request

LEMMA ReplayKeeps ==
    ASSUME TypeInv, PresenceInv, NEW j \in Jobs, Replay(j)
    PROVE  Kept
<1>1. StoreTypes /\ JobTypes /\ RecordInv
  BY TypeFacts DEF PresenceInv
<1>2. UNCHANGED forgotten
  BY DEF Replay, CheckLedger, Start, UpdateReads, UpdateWrites, Resend, Reread, ReportReplay
<1>3. CASE UpdateReads(j) \/ UpdateWrites(j)
  <2>1. /\ UNCHANGED reached
        /\ IndexKept /\ (fallbackActive => fallbackActive')
        /\ job[j].pc \in Updates
        /\ \A g \in FailedIds : g # j[2] => Rec(g)' = Rec(g)
        /\ \/ Rec(j[2])' = Rec(j[2])
           \/ job[j].held # NoRecord /\ Rec(j[2])' = Updated(job[j].held, Changes(j))
           \/ Rec(j[2]) # NoRecord /\ Rec(j[2])' = Updated(Rec(j[2]), Changes(j))
    BY <1>1, <1>3, UpdateEffect DEF RecordInv, UpdateReads, UpdateWrites
  <2>2. ASSUME NEW rec \in Record, rec # NoRecord, rec.status # "none"
        PROVE  Updated(rec, Changes(j)) # NoRecord
    <3>1. Updated(rec, Changes(j)).status # "none"
      BY <1>1, <2>1, <2>2, UpdatedEffect DEF Jobs, JobTypes, Job
    <3> QED
      BY <3>1 DEF NoRecord
  <2>3. job[j].held \in Record /\ j[2] \in FailedIds
    BY <1>1 DEF JobTypes, Jobs, Job
  <2>4. \A g \in FailedIds : Rec(g) \in Record
    BY <1>1, Names DEF StoreTypes, Data, Rec
  <2>5. \A g \in FailedIds : Rec(g) # NoRecord => Rec(g)' # NoRecord
    BY <1>1, <2>1, <2>2, <2>3, <2>4 DEF RecordInv
  <2>6. \A s \in Backends, r \in Requests :
            store[s].records[r] # NoRecord => store'[s].records[r] # NoRecord
    BY <2>5, RecordsById
  <2> QED
    BY <1>2, <2>1, <2>6 DEF Kept, IndexKept, Backends
<1>4. CASE ~(UpdateReads(j) \/ UpdateWrites(j))
  BY <1>2, <1>4, ReplayEffect DEF Kept, RecordsKept, IndexKept, Backends
<1> QED
  BY <1>3, <1>4

LEMMA OnRecordInit == Init => OnRecordInv
<1> SUFFICES ASSUME NEW ids \in [Backlog -> Ids], NEW sent \in [Ids -> Bodies],
                    NEW tries \in [Backlog -> 0 .. MaxAttempts], InitFrom(ids, sent, tries),
                    NEW r \in Requests
             PROVE  /\ pc[r] = "index" => store["redis"].records[r] # NoRecord
                    /\ pc[r] \in {"condemn", "failed"} => OnRecord(r)
  BY DEF Init, OnRecordInv
<1>1. pc[r] \in {"new", "failed"} /\ (pc[r] = "failed" => r \in Backlog)
  BY DEF InitFrom
<1>2. store["redis"] = Left(ids, sent, tries)
  BY DEF InitFrom, Backends
<1>3. r \in Backlog => r \in store["redis"].index /\ store["redis"].records[r] # NoRecord
  BY <1>2 DEF Left, NoRecord
<1> QED
  BY <1>1, <1>3 DEF OnRecord

LEMMA OnRecordRequest ==
    ASSUME TypeInv, OnRecordInv, NEW r \in Requests, Request(r)
    PROVE  OnRecordInv'
<1>1. RequestTypes /\ Kept
  BY TypeFacts, RequestKeeps
<1>2. \A q \in Requests : q # r => pc'[q] = pc[q]
  BY <1>1 DEF Request, Arrive, UpsertLedger, Claim, Send, Park, Index, Goes, RequestTypes
<1>3. ASSUME NEW q \in Requests, pc'[q] = pc[q]
      PROVE  /\ pc'[q] = "index" => store'["redis"].records[q] # NoRecord
             /\ pc'[q] \in {"condemn", "failed"} => OnRecord(q)'
  BY <1>1, <1>3, KeptOnRecord DEF OnRecordInv, Kept, Backends
<1>4. /\ pc'[r] = "index" => store'["redis"].records[r] # NoRecord
      /\ pc'[r] \in {"condemn", "failed"} => OnRecord(r)'
  <2>1. CASE Park(r) \/ Index(r)
    <3>1. NewRecord # NoRecord
      BY DEF NewRecord, NoRecord
    <3>2. /\ pc'[r] = IF Park(r) /\ errors' = errors THEN "index" ELSE "condemn"
          /\ \/ /\ Park(r) /\ errors' = errors
                /\ store'["redis"].records[r] = NewRecord
             \/ /\ ~(Park(r) /\ errors' = errors)
                /\ \/ Index(r) /\ r \in store'["redis"].index /\ RecordsKept
                   \/ store'["memory"].records[r] = NewRecord /\ fallbackActive'
      BY <1>1, <2>1, ParkEffect DEF RequestTypes
    <3>3. Index(r) => pc[r] = "index" /\ store["redis"].records[r] # NoRecord
      BY DEF Index, OnRecordInv
    <3> QED
      BY <2>1, <3>1, <3>2, <3>3 DEF OnRecord, RecordsKept, Backends
  <2>2. CASE UpsertLedger(r)
    <3>1. pc'[r] = "failed" => pc[r] = "condemn"
      BY <1>1, <2>2 DEF UpsertLedger, LedgerCalls, Goes, RequestTypes
    <3>2. pc'[r] \notin {"index", "condemn"}
      BY <1>1, <2>2 DEF UpsertLedger, LedgerCalls, Goes, RequestTypes
    <3> QED
      BY <1>1, <3>1, <3>2, KeptOnRecord DEF OnRecordInv
  <2>3. CASE ~(Park(r) \/ Index(r) \/ UpsertLedger(r))
    BY <1>1, <2>3 DEF Request, Arrive, Claim, Send, Goes, RequestTypes
  <2> QED
    BY <2>1, <2>2, <2>3
<1> QED
  BY <1>2, <1>3, <1>4 DEF OnRecordInv

LEMMA OnRecordNext == TypeInv /\ PresenceInv /\ OnRecordInv /\ [Next]_vars => OnRecordInv'
<1> SUFFICES ASSUME TypeInv, PresenceInv, OnRecordInv, [Next]_vars PROVE OnRecordInv'
  OBVIOUS
<1>1. ASSUME Kept, UNCHANGED pc PROVE OnRecordInv'
  BY <1>1, KeptOnRecord DEF OnRecordInv, Kept, Backends
<1>2. CASE UNCHANGED vars
  BY <1>1, <1>2 DEF Kept, vars, requestVars
<1>3. ASSUME NEW j \in Jobs, Replay(j) PROVE OnRecordInv'
  BY <1>1, <1>3, ReplayKeeps, ReplayLocal DEF requestVars
<1>4. ASSUME NEW override \in BOOLEAN, Admin(override) PROVE OnRecordInv'
  BY <1>1, <1>4, AdminEffect DEF Kept, requestVars
<1>5. ASSUME NEW s \in Backends, NEW d \in Ids, ClaimExpires(s, d) PROVE OnRecordInv'
  BY <1>1, <1>5, ExpiryEffect DEF Kept, RecordsKept, IndexKept, Backends
<1>6. CASE Restart
  <2>1. /\ store'["redis"] = store["redis"] /\ UNCHANGED reached
        /\ forgotten' = forgotten \union Listed("memory")
    BY <1>6, RestartEffect DEF Restart
  <2>2. ASSUME NEW r \in Requests, pc'[r] \in {"index", "condemn", "failed"}
        PROVE  pc'[r] = "failed" /\ pc[r] = "failed"
    BY <1>6, <2>2, RestartEffect DEF InFlight
  <2>3. ASSUME NEW r \in Requests, OnRecord(r) PROVE OnRecord(r)'
    BY <2>1, <2>3 DEF OnRecord, Listed
  <2> QED
    BY <2>2, <2>3 DEF OnRecordInv
<1> QED
  BY <1>2, <1>3, <1>4, <1>5, <1>6, OnRecordRequest DEF Next, Jobs

\* storage.py:353-355 and 543-562: whatever command of store_failed_delivery
\* fails and whenever the process is restarted, an event answered with 502 is on
\* record, unless it got to Telegram or was on record in a memory backend that
\* is gone.
THEOREM FailuresAreOnRecord == Spec => []FailedIsOnRecord
<1>1. OnRecordInv => FailedIsOnRecord
  BY DEF OnRecordInv, OnRecord, FailedIsOnRecord
<1> QED
  BY <1>1, Presence, OnRecordInit, OnRecordNext, PTL DEF Spec

-----------------------------------------------------------------------------
(* One dispatch for each claim *)

\* Who was let through has claimed its id where the claim still stands.
ClaimsInv ==
    /\ OneDispatchPerClaim
    /\ \A s \in Backends : \A r \in window[s] : pc[r] # "new" /\ id[r] \in store[s].claims

LEMMA ClaimsInit == Init => ClaimsInv
  BY DEF Init, InitFrom, ClaimsInv, OneDispatchPerClaim

LEMMA ClaimsRequest ==
    ASSUME TypeInv, ClaimsInv, NEW r \in Requests, Request(r)
    PROVE  ClaimsInv'
<1>1. StoreTypes /\ RequestTypes /\ CountTypes
  BY TypeFacts
<1>2. /\ pc'[r] # "new" /\ \A q \in Requests : q # r => pc'[q] = pc[q]
  BY <1>1 DEF Request, Arrive, UpsertLedger, LedgerCalls, Claim, Send, Park, Index, Goes,
              RequestTypes
<1>3. \A s \in Backends : window[s] \subseteq Requests
  BY <1>1 DEF RequestTypes
<1>4. CASE Claim(r)
  <2>1. \A s \in Backends : store[s].claims \subseteq store'[s].claims
    BY <1>4, ClaimEffect
  <2>2. UNCHANGED id
    BY <1>4 DEF Claim
  <2>3. CASE UNCHANGED window
    BY <1>2, <1>3, <2>1, <2>2, <2>3 DEF ClaimsInv, OneDispatchPerClaim
  <2>4. CASE ~ UNCHANGED window
    <3>1. PICK s \in Backends : /\ id[r] \notin store[s].claims
                                /\ id[r] \in store'[s].claims
                                /\ window' = [window EXCEPT ![s] = @ \union {r}]
      BY <1>4, <2>4, ClaimEffect
    <3>2. \A b \in Backends : window'[b] = IF b = s THEN window[s] \union {r} ELSE window[b]
      BY <1>1, <3>1 DEF RequestTypes
    <3> QED
      BY <1>2, <1>3, <2>1, <2>2, <3>1, <3>2 DEF ClaimsInv, OneDispatchPerClaim
  <2> QED
    BY <2>3, <2>4
<1>5. CASE ~Claim(r)
  <2>1. UNCHANGED window
    BY <1>5 DEF Request, Arrive, UpsertLedger, Send, Park, Index
  <2>2. ClaimsKept
    <3>1. CASE UpsertLedger(r) \/ Park(r) \/ Index(r)
      BY <3>1, LedgerStep, ParkEffect
    <3>2. CASE Send(r)
      BY <3>2 DEF Send, ClaimsKept
    <3>3. ASSUME NEW d \in Ids, NEW b \in Bodies, Arrive(r, d, b) PROVE ClaimsKept
      BY <1>1, <3>3, ReadsEffect DEF Arrive, ClaimsKept
    <3> QED
      BY <1>5, <3>1, <3>2, <3>3 DEF Request
  <2>3. \A q \in Requests : pc[q] # "new" => id'[q] = id[q]
    BY <1>1, <1>5 DEF Request, Arrive, UpsertLedger, Send, Park, Index, RequestTypes
  <2> QED
    BY <1>2, <1>3, <2>1, <2>2, <2>3 DEF ClaimsInv, OneDispatchPerClaim, ClaimsKept
<1> QED
  BY <1>4, <1>5

LEMMA ClaimsNext == TypeInv /\ PresenceInv /\ ClaimsInv /\ [Next]_vars => ClaimsInv'
<1> SUFFICES ASSUME TypeInv, PresenceInv, ClaimsInv, [Next]_vars PROVE ClaimsInv'
  OBVIOUS
<1>1. RequestTypes
  BY TypeFacts
<1>2. ASSUME UNCHANGED requestVars, ClaimsKept PROVE ClaimsInv'
  BY <1>2 DEF requestVars, ClaimsKept, ClaimsInv, OneDispatchPerClaim
<1>3. CASE UNCHANGED vars
  BY <1>2, <1>3 DEF vars, ClaimsKept
<1>4. ASSUME NEW j \in Jobs, Replay(j) PROVE ClaimsInv'
  <2>1. ClaimsKept
    BY <1>4, UpdateEffect, ReplayEffect DEF PresenceInv, RecordInv
  <2> QED
    BY <1>2, <1>4, <2>1, ReplayLocal
<1>5. ASSUME NEW override \in BOOLEAN, Admin(override) PROVE ClaimsInv'
  BY <1>2, <1>5, AdminEffect DEF ClaimsKept, requestVars
<1>6. ASSUME NEW s \in Backends, NEW d \in Ids, ClaimExpires(s, d) PROVE ClaimsInv'
  <2>1. UNCHANGED <<pc, id>>
    BY <1>6, ExpiryEffect
  <2>2. \A b \in Backends :
            /\ store'[b].claims = IF b = s THEN store[b].claims \ {d} ELSE store[b].claims
            /\ window'[b] = IF b = s THEN {r \in window[b] : id[r] # d} ELSE window[b]
    BY <1>6, ExpiryEffect
  <2> QED
    BY <2>1, <2>2 DEF ClaimsInv, OneDispatchPerClaim
<1>7. CASE Restart
  <2>1. /\ store'["redis"] = store["redis"] /\ UNCHANGED id
        /\ \A r \in Requests : pc'[r] = "new" => pc[r] = "new"
    BY <1>7, RestartEffect
  <2>2. window'["redis"] = window["redis"] /\ window'["memory"] = {} /\ window["redis"] \subseteq Requests
    BY <1>1, <1>7 DEF Restart, RequestTypes, Backends
  <2> QED
    BY <2>1, <2>2 DEF ClaimsInv, OneDispatchPerClaim, Backends
<1> QED
  BY <1>3, <1>4, <1>5, <1>6, <1>7, ClaimsRequest DEF Next, Jobs

\* storage.py:306-316: SET NX lets one request through for each claim of an id,
\* on each backend, whichever handlers look the id up meanwhile, whether or not
\* an error is raised after the claim, and across restarts.
THEOREM OneClaimOneDispatch == Spec => []OneDispatchPerClaim
<1>1. ClaimsInv => OneDispatchPerClaim
  BY DEF ClaimsInv
<1> QED
  BY <1>1, Presence, ClaimsInit, ClaimsNext, PTL DEF Spec

-----------------------------------------------------------------------------
(* Dead-lettered after enough replays *)

\* A record, a copy of one and what a replay is about to write never say more
\* than the n replays that came to their send.
EarnedRecord(rec, n) ==
    /\ rec.attempts <= n
    /\ rec.status = "dead_letter" => n >= MaxAttempts

EarnedJob(own, n) ==
    /\ EarnedRecord(own.held, n)
    /\ own.pc \in {"check", "queued", "count"} => own.copy.attempts <= n
    /\ own.pc \in {"send", "reread"} => own.copy.attempts < n
    /\ own.pc = "escalate" => n >= MaxAttempts
    /\ own.pc = "settle" /\ own.verdict = "dead_letter" => n >= MaxAttempts

EarnedInv ==
    /\ \A f \in FailedIds : EarnedRecord(Rec(f), begun[f])
    /\ \A j \in Jobs : EarnedJob(job[j], begun[j[2]])

LEMMA EarnedGrows ==
    ASSUME NEW m \in Nat, NEW n \in Nat, m <= n
    PROVE  /\ \A rec \in Record : EarnedRecord(rec, m) => EarnedRecord(rec, n)
           /\ \A own \in Job : EarnedJob(own, m) => EarnedJob(own, n)
<1>1. \A rec \in Record : EarnedRecord(rec, m) => EarnedRecord(rec, n)
  BY Bounds DEF EarnedRecord, Record
<1>2. ASSUME NEW own \in Job, EarnedJob(own, m) PROVE EarnedJob(own, n)
  <2>1. own.held \in Record /\ own.copy.attempts \in Nat
    BY DEF Job, Record
  <2> QED
    BY <1>1, <1>2, <2>1, Bounds DEF EarnedJob
<1> QED
  BY <1>1, <1>2

\* What is blank says nothing.
LEMMA EarnedBlank ==
    ASSUME NEW n \in Nat
    PROVE  EarnedRecord(NoRecord, n) /\ EarnedRecord(NewRecord, n) /\ EarnedJob(NoJob, n)
  BY DEF EarnedRecord, EarnedJob, NoRecord, NewRecord, NoJob

LEMMA EarnedInit == Init => EarnedInv
<1> SUFFICES ASSUME NEW ids \in [Backlog -> Ids], NEW sent \in [Ids -> Bodies],
                    NEW tries \in [Backlog -> 0 .. MaxAttempts], InitFrom(ids, sent, tries)
             PROVE  EarnedInv
  BY DEF Init
<1>1. ASSUME NEW f \in FailedIds
      PROVE  /\ begun[f] \in Nat
             /\ Rec(f) = NoRecord \/ (Rec(f).status = "failed" /\ Rec(f).attempts = begun[f])
  <2>1. f = <<Home(f), RequestOf(f)>> /\ Home(f) \in Backends /\ RequestOf(f) \in Requests
    BY Names
  <2>2. begun[f] = IF f \in {"redis"} \X Backlog THEN tries[RequestOf(f)] ELSE 0
    BY DEF InitFrom
  <2>3. CASE f \in {"redis"} \X Backlog
    <3>1. RequestOf(f) \in Backlog /\ Home(f) = "redis"
      BY <2>3 DEF RequestOf, Home
    <3>2. tries[RequestOf(f)] \in Nat
      BY <3>1, Bounds
    <3>3. Rec(f) = Left(ids, sent, tries).records[RequestOf(f)]
      BY <3>1 DEF InitFrom, Rec, Backends
    <3>4. Rec(f).status = "failed" /\ Rec(f).attempts = tries[RequestOf(f)]
      BY <2>1, <3>1, <3>3 DEF Left
    <3> QED
      BY <2>2, <2>3, <3>2, <3>4
  <2>4. CASE f \notin {"redis"} \X Backlog
    <3>1. Home(f) = "memory" \/ RequestOf(f) \notin Backlog
      BY <2>1, <2>4 DEF Backends
    <3>2. Rec(f) = NoRecord
      BY <2>1, <3>1 DEF InitFrom, Rec, EmptyStore, Left, Backends
    <3> QED
      BY <2>2, <2>4, <3>2
  <2> QED
    BY <2>3, <2>4
<1>2. \A f \in FailedIds : EarnedRecord(Rec(f), begun[f])
  BY <1>1, EarnedBlank DEF EarnedRecord
<1>3. \A j \in Jobs : job[j] = NoJob /\ j[2] \in FailedIds
  BY DEF InitFrom, Jobs
<1> QED
  BY <1>1, <1>2, <1>3, EarnedBlank DEF EarnedInv

LEMMA EarnedUpdate ==
    ASSUME TypeInv, PresenceInv, EarnedInv, NEW j \in Jobs, UpdateReads(j) \/ UpdateWrites(j)
    PROVE  EarnedInv'
<1> DEFINE f == j[2]
<1>1. JobTypes /\ StoreTypes /\ MaxAttempts \in Nat
  BY TypeFacts, Bounds
<1>2. /\ job[j].pc \in Updates
      /\ \A g \in FailedIds : g # f => Rec(g)' = Rec(g)
      /\ \/ Rec(f)' = Rec(f)
         \/ job[j].held # NoRecord /\ Rec(f)' = Updated(job[j].held, Changes(j))
         \/ Rec(f)' = Updated(Rec(f), Changes(j))
      /\ \/ /\ Rec(f)' = Rec(f)
            /\ job' = [job EXCEPT ![j].held = Rec(f)]
            /\ UNCHANGED begun
         \/ UpdateEnds(j)
  BY UpdateEffect DEF PresenceInv, RecordInv
<1>3. f \in FailedIds /\ job[j] \in Job /\ begun \in [FailedIds -> Nat]
  BY <1>1 DEF JobTypes, Jobs
<1>4. \A g \in FailedIds : Rec(g) \in Record /\ EarnedRecord(Rec(g), begun[g])
  BY <1>1, Names DEF StoreTypes, Data, Rec, EarnedInv
<1>5. \A i \in Jobs : job[i] \in Job /\ i[2] \in FailedIds /\ EarnedJob(job[i], begun[i[2]])
  BY <1>1 DEF JobTypes, Jobs, EarnedInv
<1>6. job[j].held \in Record /\ job[j].copy.attempts \in Nat /\ EarnedRecord(job[j].held, begun[f])
  BY <1>5 DEF Job, Record, EarnedJob
<1>7. CASE /\ Rec(f)' = Rec(f)
           /\ job' = [job EXCEPT ![j].held = Rec(f)]
           /\ UNCHANGED begun
  <2>1. /\ \A i \in Jobs : i # j => job'[i] = job[i]
        /\ job'[j].held = Rec(f) /\ job'[j].pc = job[j].pc /\ job'[j].copy = job[j].copy
        /\ job'[j].verdict = job[j].verdict
    BY <1>1, <1>3, <1>7 DEF JobTypes, Jobs, Job
  <2>2. EarnedJob(job'[j], begun[f])
    BY <1>3, <1>4, <1>5, <2>1 DEF EarnedJob
  <2> QED
    BY <1>2, <1>4, <1>5, <1>7, <2>1, <2>2 DEF EarnedInv
<1>8. CASE UpdateEnds(j)
  <2> DEFINE m == IF job[j].pc = "count" THEN begun[f] + 1 ELSE begun[f]
  <2>1. /\ \A i \in Jobs : i # j => job'[i] = job[i]
        /\ job[j].pc = "escalate" => job'[j] = NoJob
        /\ job[j].pc # "escalate" =>
              /\ job'[j].pc = IF job[j].pc = "count" THEN "send"
                              ELSE IF job[j].pc = "deliver" THEN "confirm" ELSE "condemn"
              /\ job'[j].copy = job[j].copy
              /\ job'[j].held = NoRecord
        /\ begun' = IF job[j].pc = "count" THEN [begun EXCEPT ![f] = @ + 1] ELSE begun
    BY <1>1, <1>2, <1>8, UpdateEndsEffect DEF Jobs
  <2>2. /\ \A g \in FailedIds : begun'[g] = IF g = f THEN m ELSE begun[g]
        /\ m \in Nat /\ begun[f] <= m
    BY <1>3, <2>1
  <2>3. ASSUME NEW rec \in Record, EarnedRecord(rec, begun[f])
        PROVE  EarnedRecord(Updated(rec, Changes(j)), m)
    <3> DEFINE new == Updated(rec, Changes(j))
    <3>1. /\ new.status = IF job[j].pc = "count" THEN rec.status
                          ELSE IF job[j].pc = "escalate" THEN "dead_letter"
                          ELSE IF job[j].pc = "deliver" THEN "delivered"
                          ELSE job[j].verdict
          /\ new.attempts = IF job[j].pc = "count" THEN job[j].copy.attempts + 1
                            ELSE rec.attempts
      BY <1>1, <1>2, UpdatedEffect DEF Jobs
    <3>2. EarnedJob(job[j], begun[f]) /\ begun[f] \in Nat /\ rec.attempts \in Nat
      BY <1>3, <1>5 DEF Record
    <3> HIDE DEF new, f
    <3>3. new.attempts <= m
      BY <1>6, <2>3, <3>1, <3>2 DEF EarnedRecord, EarnedJob
    <3>4. new.status = "dead_letter" => begun[f] >= MaxAttempts
      BY <1>2, <2>3, <3>1, <3>2 DEF EarnedRecord, EarnedJob, Updates
    <3>5. new.status = "dead_letter" => m >= MaxAttempts
      BY <1>1, <3>2, <3>4
    <3> QED
      BY <3>3, <3>5 DEF EarnedRecord, new
  <2>4. EarnedRecord(Rec(f)', m)
    BY <1>2, <1>3, <1>4, <1>6, <2>2, <2>3, EarnedGrows
  <2>5. EarnedJob(job'[j], m)
    <3>1. CASE job[j].pc = "escalate"
      BY <2>1, <2>2, <3>1, EarnedBlank
    <3>2. CASE job[j].pc = "count"
      <4>1. job[j].copy.attempts <= begun[f]
        BY <1>5, <3>2 DEF EarnedJob
      <4>2. job'[j].copy.attempts < m
        BY <1>3, <1>6, <2>1, <3>2, <4>1
      <4> QED
        BY <2>1, <2>2, <3>2, <4>2, EarnedBlank DEF EarnedJob
    <3>3. CASE job[j].pc \in {"deliver", "settle"}
      BY <2>1, <2>2, <3>3, EarnedBlank DEF EarnedJob
    <3> QED
      BY <1>2, <3>1, <3>2, <3>3 DEF Updates
  <2>6. \A g \in FailedIds : EarnedRecord(Rec(g)', begun'[g])
    BY <1>2, <1>4, <2>2, <2>4
  <2>7. ASSUME NEW i \in Jobs PROVE EarnedJob(job'[i], begun'[i[2]])
    <3>1. CASE i = j
      BY <1>3, <2>2, <2>5, <3>1
    <3>2. CASE i # j
      <4>1. job'[i] = job[i] /\ job[i] \in Job /\ i[2] \in FailedIds
            /\ EarnedJob(job[i], begun[i[2]])
        BY <1>5, <2>1, <3>2
      <4>2. begun[i[2]] \in Nat /\ begun'[i[2]] \in Nat /\ begun[i[2]] <= begun'[i[2]]
        BY <1>3, <2>2, <4>1
      <4> QED
        BY <4>1, <4>2, EarnedGrows
    <3> QED
      BY <3>1, <3>2
  <2> QED
    BY <2>6, <2>7 DEF EarnedInv
<1> QED
  BY <1>2, <1>7, <1>8

LEMMA EarnedReplay ==
    ASSUME TypeInv, PresenceInv, EarnedInv, NEW j \in Jobs, Replay(j),
           ~(UpdateReads(j) \/ UpdateWrites(j))
    PROVE  EarnedInv'
<1> DEFINE f == j[2]
           n == begun[f]
<1>1. JobTypes /\ StoreTypes /\ MaxAttempts \in Nat
  BY TypeFacts, Bounds
<1>2. f \in FailedIds /\ job[j] \in Job /\ n \in Nat /\ EarnedJob(job[j], n)
  BY <1>1 DEF JobTypes, Jobs, EarnedInv
<1>3. UNCHANGED begun /\ \A g \in FailedIds : Rec(g)' = Rec(g)
  BY ReplayEffect, RecordsKeptRec
<1>4. \A i \in Jobs : i # j => job'[i] = job[i]
  BY ReplayLocal
<1>5. /\ job[j].copy.attempts \in Nat /\ job[j].held \in Record
      /\ Rec(f) \in Record /\ EarnedRecord(Rec(f), n) /\ Rec(f).attempts \in Nat
  BY <1>1, <1>2, Names DEF Job, Record, StoreTypes, Data, Rec, EarnedInv
<1>6. EarnedRecord(job'[j].held, n)
  BY <1>2, ReplayEffect, EarnedBlank DEF EarnedJob
<1>7. job[j].pc \in {"check", "queued"} => Seen(j).attempts <= n
  BY <1>2, <1>5 DEF Seen, EarnedJob, EarnedRecord, Rec, Home
<1>8. ASSUME job[j].pc = "reread", NEW s \in Backends
      PROVE  Attempts(Fetched(s, f), job[j].copy) <= n
  <2>1. job[j].copy.attempts + 1 <= n /\ Rec(f).attempts <= n
    BY <1>2, <1>5, <1>8 DEF EarnedJob, EarnedRecord
  <2>2. Fetched(s, f) \in {Rec(f), NoRecord} /\ NoRecord.attempts = 0
    BY DEF Fetched, Rec, NoRecord
  <2> QED
    BY <2>1, <2>2 DEF Attempts
<1>9. EarnedJob(job'[j], n)
  <2> HIDE DEF f, n
  <2>1. CASE job'[j] = NoJob
    BY <1>2, <2>1, EarnedBlank
  <2>2. CASE job'[j].pc = "escalate" /\ Seen(j).attempts >= MaxAttempts
    <3>1. Seen(j).attempts <= n /\ Seen(j).attempts \in Nat
      BY <1>1, <1>7, <2>2, ReplayEffect, FetchedTypes DEF Jobs, Record
    <3> QED
      BY <1>1, <1>2, <1>6, <2>2, <3>1 DEF EarnedJob
  <2>3. CASE job'[j].pc = "count" /\ job'[j].copy.attempts = Seen(j).attempts
    <3>1. Seen(j).attempts <= n
      BY <1>7, <2>3, ReplayEffect
    <3> QED
      BY <1>6, <2>3, <3>1 DEF EarnedJob
  <2>4. CASE job'[j].pc = "deliver"
    BY <1>6, <2>4 DEF EarnedJob
  <2>5. CASE job[j].pc = "send" /\ job'[j].pc = "reread" /\ job'[j].copy = job[j].copy
    BY <1>2, <1>6, <2>5 DEF EarnedJob
  <2>6. CASE /\ job[j].pc = "reread" /\ job'[j].pc = "settle"
             /\ job'[j].verdict = "dead_letter" =>
                   \E s \in Backends : Attempts(Fetched(s, f), job[j].copy) >= MaxAttempts
    <3>1. ASSUME NEW s \in Backends, Attempts(Fetched(s, f), job[j].copy) >= MaxAttempts
          PROVE  n >= MaxAttempts
      <4>1. Attempts(Fetched(s, f), job[j].copy) <= n
        BY <1>8, <2>6
      <4>2. Attempts(Fetched(s, f), job[j].copy) \in Nat
        BY <1>5 DEF Attempts, Fetched, Rec, NoRecord
      <4> QED
        BY <1>1, <1>2, <3>1, <4>1, <4>2
    <3> QED
      BY <1>6, <2>6, <3>1 DEF EarnedJob
  <2> QED
    BY <2>1, <2>2, <2>3, <2>4, <2>5, <2>6, ReplayEffect DEF f
<1> QED
  BY <1>2, <1>3, <1>4, <1>9 DEF EarnedInv

LEMMA EarnedNext == TypeInv /\ PresenceInv /\ EarnedInv /\ [Next]_vars => EarnedInv'
<1> SUFFICES ASSUME TypeInv, PresenceInv, EarnedInv, [Next]_vars PROVE EarnedInv'
  OBVIOUS
<1>1. StoreTypes /\ JobTypes /\ CountTypes
  BY TypeFacts
<1>2. /\ \A f \in FailedIds : begun[f] \in Nat /\ EarnedRecord(Rec(f), begun[f])
      /\ \A j \in Jobs : j[2] \in FailedIds /\ EarnedJob(job[j], begun[j[2]])
  BY <1>1 DEF JobTypes, Jobs, EarnedInv
<1>3. ASSUME UNCHANGED <<job, begun>>,
             \A f \in FailedIds : Rec(f)' \in {Rec(f), NewRecord, NoRecord}
      PROVE  EarnedInv'
  <2>1. \A f \in FailedIds : EarnedRecord(Rec(f)', begun[f])
    BY <1>2, <1>3, EarnedBlank
  <2> QED
    BY <1>2, <1>3, <2>1 DEF EarnedInv
<1>4. CASE UNCHANGED vars
  BY <1>3, <1>4 DEF vars, replayVars, Rec
<1>5. ASSUME NEW r \in Requests, Request(r) PROVE EarnedInv'
  <2>1. UNCHANGED <<job, begun>>
    BY <1>5 DEF Request, Arrive, UpsertLedger, Claim, Send, Park, Index, replayVars
  <2>2. \A f \in FailedIds : Rec(f)' \in {Rec(f), NewRecord}
    <3>1. CASE Park(r) \/ Index(r)
      BY <3>1, ParkEffect, Names DEF Rec, OthersKept
    <3>2. CASE UpsertLedger(r) \/ Claim(r)
      BY <3>2, LedgerStep, ClaimEffect, RecordsKeptRec
    <3>3. CASE Send(r)
      BY <3>3 DEF Send, Rec
    <3>4. ASSUME NEW d \in Ids, NEW b \in Bodies, Arrive(r, d, b)
          PROVE  \A f \in FailedIds : Rec(f)' = Rec(f)
      BY <1>1, <3>4, ReadsEffect DEF Arrive, Rec
    <3> QED
      BY <1>5, <3>1, <3>2, <3>3, <3>4 DEF Request
  <2> QED
    BY <1>3, <2>1, <2>2
<1>6. ASSUME NEW override \in BOOLEAN, Admin(override) PROVE EarnedInv'
  <2>1. /\ UNCHANGED begun /\ \A f \in FailedIds : Rec(f)' = Rec(f)
        /\ \A i \in Jobs : job'[i] = job[i] \/ Begins(i)
    BY <1>6, AdminEffect DEF Rec
  <2>2. ASSUME NEW i \in Jobs, Begins(i) PROVE EarnedJob(job'[i], begun[i[2]])
    BY <1>2, <2>2, EarnedBlank DEF Begins, EarnedJob, EarnedRecord
  <2> QED
    BY <1>2, <2>1, <2>2 DEF EarnedInv
<1>7. ASSUME NEW s \in Backends, NEW d \in Ids, ClaimExpires(s, d) PROVE EarnedInv'
  BY <1>3, <1>7, ExpiryEffect, RecordsKeptRec DEF replayVars
<1>8. CASE Restart
  <2>1. /\ UNCHANGED begun /\ \A j \in Jobs : job'[j] = NoJob
        /\ \A f \in FailedIds : Rec(f)' \in {Rec(f), NoRecord}
    BY <1>8, RestartEffect
  <2> QED
    BY <1>2, <2>1, EarnedBlank DEF EarnedInv
<1> QED
  BY <1>4, <1>5, <1>6, <1>7, <1>8, EarnedUpdate, EarnedReplay DEF Next, Replay, Jobs

\* replay.py:127, 148: no stale copy, lost update or fallback makes up an
\* attempt: a record is dead-lettered only after max_replay_attempts replays of
\* it came to their send.
THEOREM DeadLettersAreEarned == Spec => []DeadLetterEarned
<1>1. EarnedInv => DeadLetterEarned
  BY DEF EarnedInv, EarnedRecord, DeadLetterEarned, Rec
<1> QED
  BY <1>1, Presence, EarnedInit, EarnedNext, PTL DEF Spec

-----------------------------------------------------------------------------
(* The replay budget *)

\* A replay that is alone with its record knows its attempts, and goes on to
\* count an unforced one only where the limit leaves room.
BudgetJob(own, attempts) ==
    /\ own.pc \in {"check", "queued", "count"} => own.copy.attempts = attempts
    /\ own.pc = "count" /\ ~own.override => own.copy.attempts < MaxAttempts
    /\ own.held # NoRecord => own.held.attempts = attempts

Alone(f) ==
    \A i, k \in Jobs : i[2] = f /\ k[2] = f /\ job[i].pc # "idle" /\ job[k].pc # "idle" => i = k

Budget(f) ==
    /\ auto[f] <= MaxAttempts /\ auto[f] <= Rec(f).attempts
    /\ Alone(f)
    /\ \A i \in Jobs : i[2] = f => BudgetJob(job[i], Rec(f).attempts)

BudgetInv == \A f \in FailedIds \ disturbed : Home(f) = "redis" => Budget(f)

\* A step that leaves the replays of a record and its attempts alone.
LEMMA BudgetKept ==
    ASSUME NEW f \in FailedIds, Budget(f), auto'[f] = auto[f],
           Rec(f)'.attempts = Rec(f).attempts,
           \A i \in Jobs : i[2] = f => job'[i] = job[i]
    PROVE  Budget(f)'
<1>1. Alone(f)'
  BY DEF Budget, Alone, Jobs
<1>2. auto'[f] <= MaxAttempts /\ auto'[f] <= Rec(f)'.attempts
  BY DEF Budget
<1>3. \A i \in Jobs : i[2] = f => BudgetJob(job'[i], Rec(f)'.attempts)
  BY DEF Budget
<1> QED
  BY <1>1, <1>2, <1>3 DEF Budget, BudgetJob, Jobs

LEMMA BudgetBlank == \A n : BudgetJob(NoJob, n)
  BY DEF BudgetJob, NoJob

LEMMA BudgetInit == Init => BudgetInv
<1> SUFFICES ASSUME NEW ids \in [Backlog -> Ids], NEW sent \in [Ids -> Bodies],
                    NEW tries \in [Backlog -> 0 .. MaxAttempts], InitFrom(ids, sent, tries),
                    NEW f \in FailedIds, Home(f) = "redis"
             PROVE  Budget(f)
  BY DEF Init, BudgetInv
<1>1. \A i \in Jobs : job[i] = NoJob /\ NoJob.pc = "idle"
  BY DEF InitFrom, Jobs, NoJob
<1>2. f = <<"redis", RequestOf(f)>> /\ RequestOf(f) \in Requests
  BY Names
<1>3. /\ auto[f] = IF f \in {"redis"} \X Backlog THEN tries[RequestOf(f)] ELSE 0
      /\ Rec(f) = Left(ids, sent, tries).records[RequestOf(f)]
  BY DEF InitFrom, Rec, Backends
<1>4. Rec(f).attempts = auto[f]
  BY <1>2, <1>3 DEF Left, NoRecord
<1>5. auto[f] \in Nat /\ auto[f] <= MaxAttempts
  BY <1>2, <1>3, Bounds
<1> QED
  BY <1>1, <1>4, <1>5, BudgetBlank DEF Budget, Alone

LEMMA BudgetUpdate ==
    ASSUME TypeInv, PresenceInv, BudgetInv, NEW j \in Jobs, UpdateReads(j) \/ UpdateWrites(j)
    PROVE  BudgetInv'
<1> DEFINE f == j[2]
<1>1. JobTypes /\ StoreTypes /\ MaxAttempts \in Nat /\ RecordInv
  BY TypeFacts, Bounds DEF PresenceInv
<1>2. /\ job[j].pc \in Updates
      /\ disturbed \subseteq disturbed'
      /\ \A g \in FailedIds : g # f => Rec(g)' = Rec(g)
      /\ \/ /\ Rec(f)' = Rec(f) /\ job[j].held = NoRecord
            /\ job' = [job EXCEPT ![j].held = Rec(f)]
            /\ UNCHANGED auto
         \/ /\ UpdateEnds(j)
            /\ \/ f \in disturbed'
               \/ Home(f) = "redis" => Rec(f) = NoRecord
               \/ job[j].held # NoRecord /\ Rec(f)' = Updated(job[j].held, Changes(j))
  BY <1>1, UpdateEffect DEF RecordInv
<1>3. f \in FailedIds /\ job[j] \in Job /\ auto \in [FailedIds -> Nat] /\ job[j].pc # "idle"
  BY <1>1, <1>2 DEF JobTypes, Jobs, Updates
<1>4. \A i \in Jobs : i # j => job'[i] = job[i]
  BY ReplayLocal DEF Replay
<1>5. ASSUME NEW g \in FailedIds \ disturbed', Home(g) = "redis", g # f
      PROVE  Budget(g)'
  <2>1. auto'[g] = auto[g]
    <3>1. UNCHANGED auto \/ UpdateEnds(j)
      BY <1>2
    <3>2. UpdateEnds(j) => auto' \in {auto, [auto EXCEPT ![f] = @ + 1]}
      BY <1>1, <1>2, UpdateEndsEffect DEF Jobs
    <3> QED
      BY <1>3, <1>5, <3>1, <3>2
  <2>2. Budget(g)
    BY <1>2, <1>5 DEF BudgetInv
  <2>3. \A i \in Jobs : i[2] = g => job'[i] = job[i]
    BY <1>4, <1>5
  <2> QED
    BY <1>2, <1>5, <2>1, <2>2, <2>3, BudgetKept
<1>6. ASSUME f \notin disturbed', Home(f) = "redis"
      PROVE  Budget(f)'
  <2>1. Budget(f) /\ Rec(f) # NoRecord
    BY <1>1, <1>2, <1>3, <1>6 DEF BudgetInv, RecordInv
  <2>2. \A i \in Jobs : i # j /\ i[2] = f =>
            job'[i].pc = "idle" /\ \A n : BudgetJob(job'[i], n)
    <3>1. ASSUME NEW i \in Jobs, i # j, i[2] = f
          PROVE  job[i].pc = "idle" /\ job[i].held = NoRecord
      BY <1>1, <1>3, <2>1, <3>1 DEF Budget, Alone, RecordInv, Updates
    <3> QED
      BY <1>4, <3>1 DEF BudgetJob
  <2>3. Alone(f)'
    BY <2>2 DEF Alone, Jobs
  <2>4. /\ Rec(f).attempts \in Nat /\ auto[f] \in Nat /\ job[j].copy.attempts \in Nat
        /\ job[j].held \in Record
    BY <1>1, <1>3, Names DEF Job, Record, StoreTypes, Data, Rec
  <2>5. /\ auto[f] <= MaxAttempts /\ auto[f] <= Rec(f).attempts
        /\ BudgetJob(job[j], Rec(f).attempts)
    BY <2>1 DEF Budget
  <2>6. CASE Rec(f)' = Rec(f) /\ job' = [job EXCEPT ![j].held = Rec(f)] /\ UNCHANGED auto
    <3>1. /\ job'[j].held = Rec(f) /\ job'[j].pc = job[j].pc /\ job'[j].copy = job[j].copy
          /\ job'[j].override = job[j].override
      BY <1>1, <1>3, <2>6 DEF JobTypes, Jobs, Job
    <3>2. BudgetJob(job'[j], Rec(f)'.attempts)
      BY <2>5, <2>6, <3>1 DEF BudgetJob
    <3>3. \A i \in Jobs : i[2] = f => BudgetJob(job'[i], Rec(f)'.attempts)
      BY <2>2, <3>2
    <3>4. auto'[f] <= MaxAttempts /\ auto'[f] <= Rec(f)'.attempts
      BY <2>5, <2>6
    <3> QED
      BY <2>3, <3>3, <3>4 DEF Budget, BudgetJob, Jobs
  <2>7. CASE /\ UpdateEnds(j) /\ job[j].held # NoRecord
             /\ Rec(f)' = Updated(job[j].held, Changes(j))
    <3>1. /\ job[j].pc = "escalate" => job'[j] = NoJob
          /\ job[j].pc # "escalate" => /\ job'[j].pc \in {"send", "confirm", "condemn"}
                                       /\ job'[j].held = NoRecord
          /\ auto' = IF job[j].pc = "count" /\ ~job[j].override
                     THEN [auto EXCEPT ![f] = @ + 1] ELSE auto
      BY <1>1, <1>2, <2>7, UpdateEndsEffect DEF Jobs
    <3>2. BudgetJob(job'[j], Rec(f)'.attempts)
      BY <3>1, BudgetBlank DEF BudgetJob
    <3>3. \A i \in Jobs : i[2] = f => BudgetJob(job'[i], Rec(f)'.attempts)
      BY <2>2, <3>2
    <3>4. Rec(f)'.attempts = IF job[j].pc = "count" THEN job[j].copy.attempts + 1
                             ELSE job[j].held.attempts
      BY <1>1, <1>2, <2>4, <2>7, UpdatedEffect DEF Jobs
    <3>5. /\ job[j].held.attempts = Rec(f).attempts
          /\ job[j].pc = "count" => job[j].copy.attempts = Rec(f).attempts
          /\ job[j].pc = "count" /\ ~job[j].override => job[j].copy.attempts < MaxAttempts
      BY <2>5, <2>7 DEF BudgetJob
    <3>6. auto'[f] <= MaxAttempts /\ auto'[f] <= Rec(f)'.attempts
      <4>1. CASE job[j].pc = "count" /\ ~job[j].override
        <5>1. auto'[f] = auto[f] + 1 /\ Rec(f)'.attempts = Rec(f).attempts + 1
              /\ Rec(f).attempts < MaxAttempts
          BY <1>3, <3>1, <3>4, <3>5, <4>1
        <5> QED
          BY <1>1, <2>4, <2>5, <5>1
      <4>2. CASE ~(job[j].pc = "count" /\ ~job[j].override)
        <5>1. auto'[f] = auto[f]
          BY <3>1, <4>2
        <5>2. Rec(f)'.attempts \in {Rec(f).attempts, Rec(f).attempts + 1}
          BY <3>4, <3>5
        <5> QED
          BY <1>1, <2>4, <2>5, <5>1, <5>2
      <4> QED
        BY <4>1, <4>2
    <3> QED
      BY <2>3, <3>3, <3>6 DEF Budget, BudgetJob, Jobs
  <2> QED
    BY <1>2, <1>6, <2>1, <2>6, <2>7
<1>7. \A g \in FailedIds \ disturbed' : Home(g) = "redis" => Budget(g)'
  BY <1>5, <1>6
<1> QED
  BY <1>7 DEF BudgetInv, FailedIds

LEMMA BudgetReplay ==
    ASSUME TypeInv, PresenceInv, BudgetInv, NEW j \in Jobs, Replay(j),
           ~(UpdateReads(j) \/ UpdateWrites(j))
    PROVE  BudgetInv'
<1> SUFFICES ASSUME NEW f \in FailedIds, f \notin disturbed', Home(f) = "redis"
             PROVE  Budget(f)'
  BY DEF BudgetInv, FailedIds
<1>1. JobTypes /\ StoreTypes
  BY TypeFacts
<1>2. UNCHANGED <<auto, disturbed>> /\ \A g \in FailedIds : Rec(g)' = Rec(g)
  BY ReplayEffect, RecordsKeptRec
<1>3. job[j].pc # "idle" /\ \A i \in Jobs : i # j => job'[i] = job[i]
  BY ReplayLocal
<1>4. Budget(f)
  BY <1>2 DEF BudgetInv
<1>5. CASE f # j[2]
  BY <1>2, <1>3, <1>4, <1>5, BudgetKept
<1>6. CASE f = j[2]
  <2>1. Alone(f)'
    BY <1>3, <1>4 DEF Alone, Budget, Jobs
  <2>2. auto'[f] <= MaxAttempts /\ auto'[f] <= Rec(f)'.attempts
    BY <1>2, <1>4 DEF Budget
  <2>3. BudgetJob(job[j], Rec(f).attempts)
    BY <1>4, <1>6 DEF Budget
  <2>4. Seen(j) = job[j].copy
    BY <1>6 DEF Seen
  <2>5. job'[j].held # NoRecord => job'[j].held.attempts = Rec(f).attempts
    BY <2>3, ReplayEffect DEF BudgetJob
  <2>6. job'[j].pc = "count" => job'[j].copy.attempts = Rec(f).attempts
                                /\ (~job'[j].override => job'[j].copy.attempts < MaxAttempts)
    <3>1. CASE job'[j].pc = "count"
      <4>1. /\ job'[j].copy.attempts = Seen(j).attempts
            /\ ~job'[j].override => Seen(j).attempts < MaxAttempts
            /\ job[j].pc \in {"check", "queued"}
        BY <3>1, ReplayEffect DEF NoJob
      <4> QED
        BY <2>3, <2>4, <4>1 DEF BudgetJob
    <3> QED
      BY <3>1
  <2>7. job'[j].pc \notin {"check", "queued"}
    BY ReplayEffect DEF NoJob
  <2>8. BudgetJob(job'[j], Rec(f).attempts)
    BY <2>5, <2>6, <2>7 DEF BudgetJob
  <2>9. \A i \in Jobs : i[2] = f => BudgetJob(job'[i], Rec(f)'.attempts)
    BY <1>2, <1>3, <1>4, <2>8 DEF Budget
  <2> QED
    BY <2>1, <2>2, <2>9 DEF Budget, BudgetJob, Jobs
<1> QED
  BY <1>5, <1>6

\* What a request writes has no attempts, and takes the place of nothing.
LEMMA BudgetRequest ==
    ASSUME TypeInv, PresenceInv, BudgetInv, NEW r \in Requests, Request(r)
    PROVE  BudgetInv'
<1> SUFFICES ASSUME NEW f \in FailedIds, f \notin disturbed', Home(f) = "redis"
             PROVE  Budget(f)'
  BY DEF BudgetInv, FailedIds
<1>1. StoreTypes /\ CountTypes
  BY TypeFacts
<1>2. UNCHANGED <<job, auto, disturbed>>
  BY DEF Request, Arrive, UpsertLedger, Claim, Send, Park, Index, replayVars
<1>3. Rec(f)'.attempts = Rec(f).attempts
  <2>1. CASE Park(r)
    <3>1. CASE RequestOf(f) = r
      <4>1. Rec(f) = NoRecord
        BY <2>1, <3>1 DEF PresenceInv, EarlyInv, Park, Early
      <4>2. Rec(f)' \in {Rec(f), NewRecord}
        BY <2>1, <3>1, ParkEffect, Names DEF Rec
      <4> QED
        BY <4>1, <4>2 DEF NoRecord, NewRecord
    <3>2. CASE RequestOf(f) # r
      BY <2>1, <3>2, ParkEffect, Names DEF Rec, OthersKept
    <3> QED
      BY <3>1, <3>2
  <2>2. CASE Index(r)
    BY <2>2, ParkEffect DEF Rec
  <2>3. CASE UpsertLedger(r) \/ Claim(r)
    BY <2>3, LedgerStep, ClaimEffect, RecordsKeptRec
  <2>4. CASE Send(r)
    BY <2>4 DEF Send, Rec
  <2>5. ASSUME NEW d \in Ids, NEW b \in Bodies, Arrive(r, d, b) PROVE Rec(f)' = Rec(f)
    BY <1>1, <2>5, ReadsEffect DEF Arrive, Rec
  <2> QED
    BY <2>1, <2>2, <2>3, <2>4, <2>5 DEF Request
<1>4. Budget(f)
  BY <1>2 DEF BudgetInv
<1> QED
  BY <1>2, <1>3, <1>4, BudgetKept

LEMMA BudgetAdmin ==
    ASSUME TypeInv, PresenceInv, BudgetInv, NEW override \in BOOLEAN, Admin(override)
    PROVE  BudgetInv'
<1> SUFFICES ASSUME NEW f \in FailedIds, f \notin disturbed', Home(f) = "redis"
             PROVE  Budget(f)'
  BY DEF BudgetInv, FailedIds
<1>1. /\ UNCHANGED auto /\ store' = store /\ disturbed \subseteq disturbed'
      /\ \A i \in Jobs : job'[i] = job[i] \/ Begins(i)
      /\ \A i, k \in Jobs : i[2] = k[2] /\ Begins(i) /\ Begins(k) => i = k
  BY AdminEffect
<1>2. Budget(f) /\ Rec(f)' = Rec(f)
  BY <1>1 DEF BudgetInv, Rec
<1>3. CASE \E i \in Jobs : i[2] = f /\ Begins(i)
  <2>1. PICK i \in Jobs : i[2] = f /\ Begins(i)
    BY <1>3
  <2>2. \A k \in Jobs : k[2] = f => job[k].pc = "idle"
    <3>1. ~Active(f)
      BY <2>1 DEF Begins
    <3> QED
      BY <3>1 DEF Active, Jobs
  <2>3. \A k \in Jobs : k[2] = f /\ k # i => job'[k] = job[k] /\ job'[k].pc = "idle"
    BY <1>1, <2>1, <2>2
  <2>4. BudgetJob(job'[i], Rec(f).attempts)
    BY <2>1 DEF Begins, BudgetJob
  <2>5. \A k \in Jobs : k[2] = f => BudgetJob(job'[k], Rec(f)'.attempts)
    BY <1>2, <2>3, <2>4 DEF Budget
  <2>6. Alone(f)'
    BY <2>3 DEF Alone, Jobs
  <2>7. auto'[f] <= MaxAttempts /\ auto'[f] <= Rec(f)'.attempts
    BY <1>1, <1>2 DEF Budget
  <2> QED
    BY <2>5, <2>6, <2>7 DEF Budget, BudgetJob, Jobs
<1>4. CASE ~ \E i \in Jobs : i[2] = f /\ Begins(i)
  <2>1. \A i \in Jobs : i[2] = f => job'[i] = job[i]
    BY <1>1, <1>4
  <2> QED
    BY <1>1, <1>2, <2>1, BudgetKept
<1> QED
  BY <1>3, <1>4

LEMMA BudgetNext == TypeInv /\ PresenceInv /\ BudgetInv /\ [Next]_vars => BudgetInv'
<1> SUFFICES ASSUME TypeInv, PresenceInv, BudgetInv, [Next]_vars PROVE BudgetInv'
  OBVIOUS
<1>1. ASSUME UNCHANGED <<job, auto, disturbed>>, \A f \in FailedIds : Rec(f)' = Rec(f)
      PROVE  BudgetInv'
  <2> SUFFICES ASSUME NEW f \in FailedIds, f \notin disturbed', Home(f) = "redis"
               PROVE  Budget(f)'
    BY DEF BudgetInv, FailedIds
  <2> QED
    BY <1>1, BudgetKept DEF BudgetInv
<1>2. CASE UNCHANGED vars
  BY <1>1, <1>2 DEF vars, replayVars, Rec
<1>3. ASSUME NEW s \in Backends, NEW d \in Ids, ClaimExpires(s, d) PROVE BudgetInv'
  BY <1>1, <1>3, ExpiryEffect, RecordsKeptRec DEF replayVars
<1>4. CASE Restart
  <2> SUFFICES ASSUME NEW f \in FailedIds, f \notin disturbed', Home(f) = "redis"
               PROVE  Budget(f)'
    BY DEF BudgetInv, FailedIds
  <2>1. /\ UNCHANGED <<auto, disturbed>> /\ Rec(f)' = Rec(f)
        /\ \A j \in Jobs : job'[j] = NoJob /\ NoJob.pc = "idle"
    BY <1>4, RestartEffect DEF NoJob
  <2>2. Budget(f)
    BY <2>1 DEF BudgetInv
  <2>3. Alone(f)' /\ \A j \in Jobs : BudgetJob(job'[j], Rec(f)'.attempts)
    BY <2>1, BudgetBlank DEF Alone, Jobs
  <2>4. auto'[f] <= MaxAttempts /\ auto'[f] <= Rec(f)'.attempts
    BY <2>1, <2>2 DEF Budget
  <2> QED
    BY <2>3, <2>4 DEF Budget, BudgetJob, Jobs
<1> QED
  BY <1>2, <1>3, <1>4, BudgetRequest, BudgetAdmin, BudgetUpdate, BudgetReplay
     DEF Next, Replay, Jobs

\* replay.py:92-95: max_replay_attempts bounds the unforced replays of a record
\* in Redis across restarts, unless two replays of it overlapped or an update of
\* it fell back to memory.
THEOREM BudgetIsKept == Spec => []BudgetUnlessDisturbed
<1>1. ASSUME BudgetInv, NEW r \in Requests, <<"redis", r>> \notin disturbed
      PROVE  /\ auto[<<"redis", r>>] <= MaxAttempts
             /\ auto[<<"redis", r>>] <= store["redis"].records[r].attempts
  <2>1. /\ <<"redis", r>> \in FailedIds /\ Home(<<"redis", r>>) = "redis"
        /\ Rec(<<"redis", r>>) = store["redis"].records[r]
    BY DEF FailedIds, Backends, Home, Rec, RequestOf
  <2> QED
    BY <1>1, <2>1 DEF BudgetInv, Budget
<1>2. BudgetInv => BudgetUnlessDisturbed
  BY <1>1 DEF BudgetUnlessDisturbed
<1> QED
  BY <1>2, Presence, BudgetInit, BudgetNext, PTL DEF Spec
=============================================================================
