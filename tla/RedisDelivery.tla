--------------------------- MODULE RedisDelivery ---------------------------
(***************************************************************************)
(* The endpoint, dispatch and replay handlers over the Redis backend       *)
(* (app/infra/storage.py: RedisStorage under FallbackStorage).  What is    *)
(* one step of DeliveryPipeline is here one step per Redis command: every  *)
(* command suspends its handler, may raise RedisError whether or not the   *)
(* server carried it out, and may be the last one before a restart.        *)
(* FallbackStorage then repeats the whole storage call on its memory       *)
(* backend, which a restart empties.                                       *)
(*                                                                         *)
(* GitHub deliveries with an id, to Telegram alone; replay calls without   *)
(* an operation key, whose SET NX would be like that of the delivery id.   *)
(***************************************************************************)
EXTENDS Integers, FiniteSets

CONSTANTS
    Requests,      \* inbound webhook requests; also names the records each may leave
    Backlog,       \* those among them an earlier process answered with 502
    Ids,           \* values of x-github-delivery
    NoId,          \* no id yet
    Bodies,        \* payloads
    NoBody,        \* no payload
    Singles,       \* calls of POST /deliveries/{id}/replay
    Batches,       \* calls of POST /deliveries/replay-all
    MaxAttempts,   \* max_replay_attempts
    MaxHandlers,   \* bound: requests and replay calls that are made
    MaxErrors,     \* bound: Redis commands that raise RedisError
    MaxRestarts    \* bound: restarts of the process

ASSUME BoundsAssumption == {MaxAttempts, MaxHandlers, MaxErrors, MaxRestarts} \subseteq Nat
ASSUME NamesAssumption ==
    /\ Backlog \subseteq Requests
    /\ NoId \notin Ids
    /\ NoBody \notin Bodies
    /\ Singles \intersect Batches = {}

VARIABLES
    pc,              \* the next thing each request does
    id,              \* its delivery id
    body,            \* its payload
    store,           \* what Redis and the memory backend hold
    fallbackActive,  \* FallbackStorage._fallback_active
    job,             \* the replay of each record by each call
    made,            \* requests and replay calls that were made
    errors,          \* RedisErrors so far
    restarts,        \* restarts so far
    reached,         \* history: requests whose payload got to Telegram
    window,          \* history: requests that hold their id's claim, per backend
    begun,           \* history: replays of each record that came to their send
    auto,            \* history: those among them without override
    disturbed,       \* history: records whose replays overlapped or fell back
    forgotten        \* history: requests whose record in memory a restart took

environment == <<errors, restarts>>
requestVars == <<pc, id, body, window>>
replayVars == <<job, begun, auto, disturbed>>
vars == <<requestVars, store, fallbackActive, replayVars, made, environment,
          reached, forgotten>>

Backends == {"redis", "memory"}
Calls == Singles \union Batches

\* A record's uuid: each backend that stores it draws its own.
FailedIds == Backends \X Requests
Home(f) == f[1]
RequestOf(f) == f[2]

\* payload_hash: of the bytes received, or of the parsed payload a record keeps.
Hash(form, b) == <<form, b>>

NoEntry == [status |-> "none", hash |-> Hash("raw", NoBody)]
NoRecord == [status |-> "none", attempts |-> 0, replayed |-> FALSE]
NewRecord == [status |-> "failed", attempts |-> 0, replayed |-> FALSE]
EmptyStore == [ledger |-> [k \in Ids |-> NoEntry], claims |-> {},
               records |-> [r \in Requests |-> NoRecord], index |-> {}]

\* copy: the record as it was fetched or listed; held: what the GET of an
\* update under way returned; verdict: the status a failed replay will write.
NoJob == [pc |-> "idle", copy |-> NoRecord, held |-> NoRecord,
          override |-> FALSE, verdict |-> "failed"]

\* What an earlier process left in Redis: the records of the backlog, each
\* replayed some times without success; the claims of their ids have run out.
Left(ids, sent, tries) ==
    [ledger |-> [k \in Ids |->
        IF \A r \in Backlog : ids[r] # k THEN NoEntry
        ELSE [status |-> "failed",
              hash |-> Hash(IF \A r \in Backlog : ids[r] = k => tries[r] = 0
                            THEN "raw" ELSE "parsed", sent[k])]],
     claims |-> {},
     records |-> [r \in Requests |->
        IF r \notin Backlog THEN NoRecord
        ELSE [status |-> "failed", attempts |-> tries[r], replayed |-> tries[r] > 0]],
     index |-> Backlog]

InitFrom(ids, sent, tries) ==
    /\ pc = [r \in Requests |-> IF r \in Backlog THEN "failed" ELSE "new"]
    /\ id = [r \in Requests |-> IF r \in Backlog THEN ids[r] ELSE NoId]
    /\ body = [r \in Requests |-> IF r \in Backlog THEN sent[ids[r]] ELSE NoBody]
    /\ store = [s \in Backends |-> IF s = "memory" THEN EmptyStore ELSE Left(ids, sent, tries)]
    /\ fallbackActive = FALSE
    /\ job = [j \in Calls \X FailedIds |-> NoJob]
    /\ made = 0
    /\ errors = 0
    /\ restarts = 0
    /\ reached = {}
    /\ window = [s \in Backends |-> {}]
    /\ begun = [f \in FailedIds |->
                  IF f \in {"redis"} \X Backlog THEN tries[RequestOf(f)] ELSE 0]
    /\ auto = begun
    /\ disturbed = {}
    /\ forgotten = {}

Init ==
    \E ids \in [Backlog -> Ids], sent \in [Ids -> Bodies], tries \in [Backlog -> 0 .. MaxAttempts] :
        InitFrom(ids, sent, tries)

Active(f) == \E w \in Calls : job[<<w, f>>].pc # "idle"

\* A handler starts.
Starts == made < MaxHandlers /\ made' = made + 1

-----------------------------------------------------------------------------
(* RedisStorage and MemoryStorage: what a call makes of the data of its    *)
(* backend.                                                                *)

\* RedisStorage.upsert_delivery_ledger writes status and hash whatever its GET
\* found, so the GET and the SET are one step.
RedisUpserted(k, h, s) ==
    [store["redis"] EXCEPT !.ledger[k] = [status |-> s, hash |-> h]]

\* MemoryStorage keeps the first hash.
MemoryUpserted(k, h, s) ==
    [store["memory"] EXCEPT !.ledger[k] =
        [status |-> s, hash |-> IF @.status = "none" THEN h ELSE @.hash]]

Claimed(s, d) == [store[s] EXCEPT !.claims = @ \union {d}]

\* The record of a store call: SET on Redis, with the LPUSH a step of its own.
RedisWritten(r, rec) == [store["redis"] EXCEPT !.records[r] = rec]
RedisIndexed(r) == [store["redis"] EXCEPT !.index = @ \union {r}]
MemoryStored(r) == [store["memory"] EXCEPT !.records[r] = NewRecord]

\* dict.update
Updated(rec, changes) ==
    [f \in DOMAIN rec |-> IF f \in DOMAIN changes THEN changes[f] ELSE rec[f]]

\* update_failed_delivery of the memory backend: an id it does not know is
\* passed over.
MemoryUpdated(f, changes) ==
    IF Home(f) = "memory" /\ store["memory"].records[RequestOf(f)] # NoRecord
    THEN [store["memory"] EXCEPT !.records[RequestOf(f)] = Updated(@, changes)]
    ELSE store["memory"]

\* get_failed_delivery on backend s: each knows the ids it gave.
Fetched(s, f) == IF Home(f) = s THEN store[s].records[RequestOf(f)] ELSE NoRecord

\* list_failed_deliveries(status="failed"): Redis goes by its index, the memory
\* backend by its dictionary.
Listed(s) == IF s = "redis" THEN store[s].index
             ELSE {r \in Requests : store[s].records[r] # NoRecord}
ListedFailed(s) ==
    {s} \X {r \in Listed(s) : store[s].records[r].status = "failed"}

-----------------------------------------------------------------------------
(* FallbackStorage *)

Answers == UNCHANGED <<fallbackActive, environment>>

\* RedisError: _activate_fallback, which nothing but a restart takes back.
Raises ==
    /\ errors < MaxErrors
    /\ errors' = errors + 1
    /\ fallbackActive' = TRUE
    /\ UNCHANGED restarts

\* A call that reads: answered by Redis, or after an error by memory.
ReadsFrom(s) ==
    /\ IF s = "redis" THEN Answers ELSE Raises
    /\ UNCHANGED store

\* A call that writes: the error may come with the command carried out or not,
\* and the call is repeated on the memory backend either way.
Writes(redis, memory) ==
    \/ Answers /\ store' = [store EXCEPT !["redis"] = redis]
    \/ /\ Raises
       /\ \E applied \in {store["redis"], redis} :
             store' = [s \in Backends |-> IF s = "redis" THEN applied ELSE memory]

-----------------------------------------------------------------------------
(* POST /webhook/github and dispatch_webhook.  pc names the storage call   *)
(* or the send that comes next.                                            *)

Goes(r, next) == pc' = [pc EXCEPT ![r] = next]

Mismatch(s, d, b) ==
    store[s].ledger[d].status # "none" /\ store[s].ledger[d].hash # Hash("raw", b)

\* get_delivery_ledger and the comparison of the hashes
Arrive(r, d, b) ==
    /\ pc[r] = "new"
    /\ Starts
    /\ id' = [id EXCEPT ![r] = d]
    /\ body' = [body EXCEPT ![r] = b]
    /\ \E s \in Backends :
          /\ ReadsFrom(s)
          /\ Goes(r, IF Mismatch(s, d, b) THEN "mismatch" ELSE "receive")
    /\ UNCHANGED <<window, replayVars, reached, forgotten>>

Upserts(r, status) ==
    Writes(RedisUpserted(id[r], Hash("raw", body[r]), status),
           MemoryUpserted(id[r], Hash("raw", body[r]), status))

\* The metric's label is written to the ledger.
LedgerCallsMutant ==
    {<<"receive", "received", "claim">>, <<"duplicate", "duplicate", "rejected">>,
     <<"confirm", "success", "sent">>, <<"condemn", "failed", "failed">>}

\* The ledger calls of the endpoint and of dispatch: the status each writes and
\* what follows.
LedgerCalls ==
    {<<"receive", "received", "claim">>, <<"duplicate", "duplicate", "rejected">>,
     <<"confirm", "delivered", "sent">>, <<"condemn", "failed", "failed">>}

UpsertLedger(r) ==
    \E call \in LedgerCalls :
        /\ pc[r] = call[1]
        /\ Upserts(r, call[2])
        /\ Goes(r, call[3])
        /\ UNCHANGED <<id, body, window, replayVars, made, reached, forgotten>>

\* After an error the memory backend is asked about the id, but not told of it.
ClaimMutant(r) ==
    /\ pc[r] = "claim"
    /\ Writes(Claimed("redis", id[r]), store["memory"])
    /\ LET s == IF errors' = errors THEN "redis" ELSE "memory"
       IN  \/ id[r] \in store[s].claims /\ Goes(r, "duplicate") /\ UNCHANGED window
           \/ /\ id[r] \notin store[s].claims
              /\ Goes(r, "send")
              /\ window' = [window EXCEPT ![s] = @ \union {r}]
    /\ UNCHANGED <<id, body, replayVars, made, reached, forgotten>>

\* is_duplicate_delivery: SET NX.  What is claimed is dispatched, or ends here:
\* a ping, malformed JSON, an event without a formatter.
Claim(r) ==
    /\ pc[r] = "claim"
    /\ Writes(Claimed("redis", id[r]), Claimed("memory", id[r]))
    /\ LET s == IF errors' = errors THEN "redis" ELSE "memory"
       IN  \/ id[r] \in store[s].claims /\ Goes(r, "duplicate") /\ UNCHANGED window
           \/ id[r] \notin store[s].claims /\ Goes(r, "ignored") /\ UNCHANGED window
           \/ /\ id[r] \notin store[s].claims
              /\ Goes(r, "send")
              /\ window' = [window EXCEPT ![s] = @ \union {r}]
    /\ UNCHANGED <<id, body, replayVars, made, reached, forgotten>>

Send(r) ==
    /\ pc[r] = "send"
    /\ \/ Goes(r, "confirm") /\ reached' = reached \union {r}
       \/ Goes(r, "park") /\ UNCHANGED reached
    /\ UNCHANGED <<id, body, window, store, fallbackActive, environment, replayVars, made, forgotten>>

\* store_failed_delivery: the SET of the record.  After an error the memory
\* backend stores the delivery as a record of its own.
Park(r) ==
    /\ pc[r] = "park"
    /\ Writes(RedisWritten(r, NewRecord), MemoryStored(r))
    /\ Goes(r, IF errors' = errors THEN "index" ELSE "condemn")
    /\ UNCHANGED <<id, body, window, replayVars, made, reached, forgotten>>

\* A record that is in Redis is not stored again.
IndexMutant(r) ==
    /\ pc[r] = "index"
    /\ Writes(RedisIndexed(r), store["memory"])
    /\ Goes(r, "condemn")
    /\ UNCHANGED <<id, body, window, replayVars, made, reached, forgotten>>

\* store_failed_delivery: the LPUSH of its id
Index(r) ==
    /\ pc[r] = "index"
    /\ Writes(RedisIndexed(r), MemoryStored(r))
    /\ Goes(r, "condemn")
    /\ UNCHANGED <<id, body, window, replayVars, made, reached, forgotten>>

-----------------------------------------------------------------------------
(* The replay endpoints *)

\* get_failed_delivery, of an id that a listing has shown; a record that the
\* backend does not know is answered with 404.
Fetch(s, f, override) ==
    /\ \A g \in FailedIds : job[<<s, g>>].pc = "idle"
    /\ Starts
    /\ RequestOf(f) \in Listed(Home(f))
    /\ \E b \in Backends :
          /\ ReadsFrom(b)
          /\ IF Fetched(b, f) = NoRecord
             THEN UNCHANGED <<job, disturbed>>
             ELSE /\ job' = [job EXCEPT ![<<s, f>>] =
                        [NoJob EXCEPT !.pc = "check", !.copy = Fetched(b, f),
                                      !.override = override]]
                  /\ disturbed' = disturbed \union (IF Active(f) THEN {f} ELSE {})
    /\ UNCHANGED <<requestVars, begun, auto, reached, forgotten>>

\* list_failed_deliveries.  The LRANGE and the MGET are one step: the index only
\* grows, so what is listed is what the MGET finds, short of records just added.
List(b, override) ==
    /\ \A f \in FailedIds : job[<<b, f>>].pc = "idle"
    /\ Starts
    /\ \E s \in Backends :
          /\ ReadsFrom(s)
          /\ job' = [j \in Calls \X FailedIds |->
                        IF j[1] = b /\ j[2] \in ListedFailed(s)
                        THEN [NoJob EXCEPT !.pc = "queued", !.copy = Fetched(s, j[2]),
                                           !.override = override]
                        ELSE job[j]]
          /\ disturbed' = disturbed \union {f \in ListedFailed(s) : Active(f)}
    /\ UNCHANGED <<requestVars, begun, auto, reached, forgotten>>

-----------------------------------------------------------------------------
(* _replay_delivery *)

\* The memory backend hands out its records by reference.
Seen(j) == IF Home(j[2]) = "memory" THEN store["memory"].records[RequestOf(j[2])]
           ELSE job[j].copy

Exhausted(attempts) == attempts >= MaxAttempts

\* The limit and the cooldown, which may have run out if it ever began.
Checks(j) ==
    LET seen == Seen(j)
        forced == job[j].override
    IN  \/ /\ ~forced /\ Exhausted(seen.attempts)
           /\ job' = [job EXCEPT ![j].pc = "escalate"]
        \/ /\ ~forced /\ ~Exhausted(seen.attempts) /\ seen.replayed
           /\ job' = [job EXCEPT ![j] = NoJob]
        \/ /\ forced \/ ~Exhausted(seen.attempts)
           /\ job' = [job EXCEPT ![j].pc = "count",
                                ![j].copy = [NoRecord EXCEPT !.attempts = seen.attempts]]

\* get_delivery_ledger, and _replay_delivery up to its first storage call
CheckLedger(j) ==
    /\ job[j].pc = "check"
    /\ \E s \in Backends :
          /\ ReadsFrom(s)
          /\ IF store[s].ledger[id[RequestOf(j[2])]].status = "delivered" /\ ~job[j].override
             THEN job' = [job EXCEPT ![j] = NoJob]
             ELSE Checks(j)
    /\ UNCHANGED <<requestVars, made, begun, auto, disturbed, reached, forgotten>>

\* The background task comes to a record of its list.
Start(j) ==
    /\ job[j].pc = "queued"
    /\ Checks(j)
    /\ UNCHANGED <<requestVars, store, fallbackActive, environment, made, begun, auto,
                   disturbed, reached, forgotten>>

\* The calls of update_failed_delivery and what follows each.
Updates == {"escalate", "count", "deliver", "settle"}
After == [escalate |-> "idle", count |-> "send", deliver |-> "confirm", settle |-> "condemn"]

\* A replay is counted only when its outcome is written.
ChangesMutant(j) ==
    IF job[j].pc = "escalate" THEN [status |-> "dead_letter", replayed |-> TRUE]
    ELSE IF job[j].pc = "count" THEN [replayed |-> TRUE]
    ELSE IF job[j].pc = "deliver"
         THEN [status |-> "delivered", attempts |-> job[j].copy.attempts + 1]
    ELSE [status |-> job[j].verdict, attempts |-> job[j].copy.attempts + 1]

Changes(j) ==
    IF job[j].pc = "escalate" THEN [status |-> "dead_letter", replayed |-> TRUE]
    ELSE IF job[j].pc = "count"
         THEN [attempts |-> job[j].copy.attempts + 1, replayed |-> TRUE]
    ELSE IF job[j].pc = "deliver" THEN [status |-> "delivered"]
    ELSE [status |-> job[j].verdict]

UpdateEnds(j) ==
    LET next == After[job[j].pc]
        f == j[2]
    IN  /\ job' = [job EXCEPT ![j] = IF next = "idle" THEN NoJob
                                     ELSE [@ EXCEPT !.pc = next, !.held = NoRecord,
                                                    !.override = FALSE]]
        /\ begun' = IF next = "send" THEN [begun EXCEPT ![f] = @ + 1] ELSE begun
        /\ auto' = IF next = "send" /\ ~job[j].override THEN [auto EXCEPT ![f] = @ + 1] ELSE auto

\* update_failed_delivery: the GET.  A record Redis does not have ends the call.
UpdateReads(j) ==
    /\ job[j].pc \in Updates
    /\ job[j].held = NoRecord
    /\ \/ /\ ReadsFrom("redis")
          /\ IF Fetched("redis", j[2]) = NoRecord
             THEN UpdateEnds(j)
             ELSE /\ job' = [job EXCEPT ![j].held = Fetched("redis", j[2])]
                  /\ UNCHANGED <<begun, auto>>
          /\ UNCHANGED disturbed
       \/ /\ Raises
          /\ store' = [store EXCEPT !["memory"] = MemoryUpdated(j[2], Changes(j))]
          /\ UpdateEnds(j)
          /\ disturbed' = disturbed \union {j[2]}
    /\ UNCHANGED <<requestVars, made, reached, forgotten>>

\* update_failed_delivery: the SET, of the record the GET returned.
UpdateWrites(j) ==
    /\ job[j].pc \in Updates
    /\ job[j].held # NoRecord
    /\ Writes(RedisWritten(RequestOf(j[2]), Updated(job[j].held, Changes(j))),
              MemoryUpdated(j[2], Changes(j)))
    /\ UpdateEnds(j)
    /\ disturbed' = disturbed \union (IF errors' = errors THEN {} ELSE {j[2]})
    /\ UNCHANGED <<requestVars, made, reached, forgotten>>

\* A send that fails is reported as the one that arrives.
ResendMutant(j) ==
    /\ job[j].pc = "send"
    /\ \/ reached' = reached \union {RequestOf(j[2])}
       \/ UNCHANGED reached
    /\ job' = [job EXCEPT ![j].pc = "deliver"]
    /\ UNCHANGED <<requestVars, store, fallbackActive, environment, made, begun, auto,
                   disturbed, forgotten>>

Resend(j) ==
    /\ job[j].pc = "send"
    /\ \/ /\ job' = [job EXCEPT ![j].pc = "deliver"]
          /\ reached' = reached \union {RequestOf(j[2])}
       \/ /\ job' = [job EXCEPT ![j].pc = "reread"]
          /\ UNCHANGED reached
    /\ UNCHANGED <<requestVars, store, fallbackActive, environment, made, begun, auto,
                   disturbed, forgotten>>

\* The attempts in the store and the one just made are added up.
AttemptsMutant(rec, copy) == rec.attempts + 1

\* What get_failed_delivery returns has no attempts, or is nothing: then those
\* the replay knows of count.
Attempts(rec, copy) == IF rec.attempts = 0 THEN copy.attempts + 1 ELSE rec.attempts

\* get_failed_delivery after a failed send
Reread(j) ==
    /\ job[j].pc = "reread"
    /\ \E s \in Backends :
          /\ ReadsFrom(s)
          /\ job' = [job EXCEPT ![j].pc = "settle",
                                ![j].verdict =
                IF Exhausted(Attempts(Fetched(s, j[2]), job[j].copy))
                THEN "dead_letter" ELSE "failed"]
    /\ UNCHANGED <<requestVars, made, begun, auto, disturbed, reached, forgotten>>

\* The ledger is told of the outcome, with the hash of the parsed payload.
ReportReplay(j) ==
    LET r == RequestOf(j[2])
        status == IF job[j].pc = "confirm" THEN "delivered" ELSE "failed"
    IN  /\ job[j].pc \in {"confirm", "condemn"}
        /\ Writes(RedisUpserted(id[r], Hash("parsed", body[r]), status),
                  MemoryUpserted(id[r], Hash("parsed", body[r]), status))
        /\ job' = [job EXCEPT ![j] = NoJob]
        /\ UNCHANGED <<requestVars, made, begun, auto, disturbed, reached, forgotten>>

-----------------------------------------------------------------------------
(* The environment *)

\* Handlers that wait for Redis or Telegram.
InFlight == {"receive", "claim", "duplicate", "send", "confirm", "park", "index", "condemn"}

\* The process is killed and started again: handlers are gone, and so is the
\* memory backend.  A command Redis carried out without its handler hearing of
\* it is the same as a restart right after that command.
Restart ==
    /\ restarts < MaxRestarts
    /\ restarts' = restarts + 1
    /\ pc' = [r \in Requests |-> IF pc[r] \in InFlight THEN "killed" ELSE pc[r]]
    /\ job' = [j \in Calls \X FailedIds |-> NoJob]
    /\ store' = [store EXCEPT !["memory"] = EmptyStore]
    /\ window' = [window EXCEPT !["memory"] = {}]
    /\ fallbackActive' = FALSE
    /\ forgotten' = forgotten \union Listed("memory")
    /\ UNCHANGED <<id, body, errors, made, begun, auto, disturbed, reached>>

\* The TTL of a claim runs out; only a request that has yet to claim can tell.
ClaimExpires(s, d) ==
    /\ d \in store[s].claims
    /\ \E r \in Requests : pc[r] \in {"receive", "claim"} \/ (pc[r] = "new" /\ made < MaxHandlers)
    /\ store' = [store EXCEPT ![s].claims = @ \ {d}]
    /\ window' = [window EXCEPT ![s] = {r \in @ : id[r] # d}]
    /\ UNCHANGED <<pc, id, body, fallbackActive, environment, replayVars, made, reached, forgotten>>

Request(r) ==
    \/ \E d \in Ids, b \in Bodies : Arrive(r, d, b)
    \/ UpsertLedger(r)
    \/ Claim(r)
    \/ Send(r)
    \/ Park(r)
    \/ Index(r)

Replay(j) ==
    \/ CheckLedger(j)
    \/ Start(j)
    \/ UpdateReads(j)
    \/ UpdateWrites(j)
    \/ Resend(j)
    \/ Reread(j)
    \/ ReportReplay(j)

Admin(override) ==
    \/ \E s \in Singles, f \in FailedIds : Fetch(s, f, override)
    \/ \E b \in Batches : List(b, override)

Next ==
    \/ \E r \in Requests : Request(r)
    \/ \E j \in Calls \X FailedIds : Replay(j)
    \/ \E override \in BOOLEAN : Admin(override)
    \/ \E s \in Backends, d \in Ids : ClaimExpires(s, d)
    \/ Restart

Spec == Init /\ [][Next]_vars

-----------------------------------------------------------------------------
(* Properties *)

Record == [status : {"none", "failed", "dead_letter", "delivered"},
           attempts : Nat, replayed : BOOLEAN]

\* The values every variable takes.
TypeOK ==
    /\ pc \in [Requests -> InFlight \union
                 {"new", "mismatch", "rejected", "ignored", "sent", "failed", "killed"}]
    /\ id \in [Requests -> Ids \union {NoId}]
    /\ body \in [Requests -> Bodies \union {NoBody}]
    /\ store \in [Backends ->
          [ledger : [Ids -> [status : {"none", "received", "duplicate", "delivered", "failed"},
                             hash : {"raw", "parsed"} \X (Bodies \union {NoBody})]],
           claims : SUBSET Ids,
           records : [Requests -> Record],
           index : SUBSET Requests]]
    /\ fallbackActive \in BOOLEAN
    /\ job \in [Calls \X FailedIds ->
          [pc : Updates \union {"idle", "check", "queued", "send", "reread", "confirm", "condemn"},
           copy : Record, held : Record, override : BOOLEAN,
           verdict : {"failed", "dead_letter"}]]
    /\ made \in 0 .. MaxHandlers
    /\ errors \in 0 .. MaxErrors
    /\ restarts \in 0 .. MaxRestarts
    /\ reached \subseteq Requests
    /\ window \in [Backends -> SUBSET Requests]
    /\ begun \in [FailedIds -> Nat]
    /\ auto \in [FailedIds -> Nat]
    /\ disturbed \subseteq FailedIds
    /\ forgotten \subseteq Requests

\* storage.py:406-412 and 494-625: neither backend ever calls a delivery
\* delivered that did not get to Telegram, whatever updates of overlapping
\* replays write over each other, whichever call falls back, and wherever the
\* process is restarted.
DeliveredIsTrue ==
    /\ \A s \in Backends, k \in Ids :
          store[s].ledger[k].status = "delivered" => \E r \in reached : id[r] = k
    /\ \A s \in Backends, r \in Requests :
          store[s].records[r].status = "delivered" => r \in reached

\* storage.py:353-355 and 543-562: an event answered with 502 got to Telegram
\* after all, or Redis lists its record, or the memory backend has one, which
\* /health/deep then shows (main.py:93-98), or a restart took that one.
FailedIsOnRecord ==
    \A r \in Requests :
        pc[r] = "failed" =>
            \/ r \in reached
            \/ r \in store["redis"].index /\ store["redis"].records[r] # NoRecord
            \/ store["memory"].records[r] # NoRecord /\ fallbackActive
            \/ r \in forgotten

\* storage.py:306-316: the requests that were dispatched while a claim of their
\* id stands on a backend are one, for each backend, though the look-up and the
\* claim of several handlers, an error after the claim and restarts come between.
OneDispatchPerClaim ==
    \A s \in Backends : \A q, r \in window[s] : id[q] = id[r] => q = r

\* replay.py:127, 148: a record is dead-lettered only after as many replays as
\* the limit came to their send: neither a stale copy, a lost update nor the
\* fallback makes up an attempt.
DeadLetterEarned ==
    \A f \in FailedIds :
        store[Home(f)].records[RequestOf(f)].status = "dead_letter" => begun[f] >= MaxAttempts

\* replay.py:92-95: max_replay_attempts bounds the unforced replays of a record
\* in Redis across restarts, if no two replays of it overlapped and none of its
\* updates fell back: the attempt is on record before the send.
BudgetUnlessDisturbed ==
    \A r \in Requests :
        LET f == <<"redis", r>>
        IN  f \notin disturbed =>
              /\ auto[f] <= MaxAttempts
              /\ auto[f] <= store["redis"].records[r].attempts

\* webhooks.py:78, "Delivery id already seen with different payload hash": a
\* request refused for that reason differs from another with its id.
NoFalseMismatch ==
    \A r \in Requests :
        pc[r] = "mismatch" =>
            \E q \in Requests : pc[q] # "new" /\ id[q] = id[r] /\ body[q] # body[r]
=============================================================================
