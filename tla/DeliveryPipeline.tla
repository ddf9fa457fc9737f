-------------------------- MODULE DeliveryPipeline --------------------------
(***************************************************************************)
(* The life of an event on one instance with the memory backend: the       *)
(* webhook endpoints (app/api/webhooks.py) record it in the delivery       *)
(* ledger and hand it to dispatch (app/services/webhook_dispatch.py), a    *)
(* failed delivery becomes a record of the dead-letter store               *)
(* (app/infra/storage.py), and the replay endpoints (app/api/replay.py)    *)
(* send it again.                                                          *)
(*                                                                         *)
(* Everything runs on one asyncio loop, and no coroutine of MemoryStorage  *)
(* suspends, so a handler is interrupted only while a send is under way: a *)
(* step is the code between two such points.  Records are returned by      *)
(* reference, so a replay sees what other replays wrote.                   *)
(***************************************************************************)
EXTENDS Integers, FiniteSets

CONSTANTS
    Requests,      \* inbound webhook requests; also names the record each may leave
    GithubIds,     \* values of x-github-delivery
    GenericIds,    \* request ids of /webhook/generic, which a client may choose
    NoId,          \* a GitHub request without the header
    Bodies,        \* payloads, told apart by their hash
    NoBody,        \* no payload
    Routed,        \* TRUE if a routing table is configured
    Singles,       \* calls of POST /deliveries/{id}/replay
    Batches,       \* calls of POST /deliveries/replay-all
    IdemKeys,      \* values of the Idempotency-Key header
    NoKey,         \* a replay call without the header
    MaxAttempts,   \* max_replay_attempts
    Concurrency,   \* the semaphore of _replay_all_background
    PruneAbove     \* store_failed_delivery prunes a store with more records

ASSUME MaxAttemptsAssumption == MaxAttempts \in Nat
ASSUME ConcurrencyAssumption == Concurrency \in Nat \ {0}
ASSUME NamesAssumption ==
    /\ GithubIds \intersect GenericIds = {}
    /\ (GithubIds \union GenericIds) \intersect Requests = {}
    /\ NoId \notin GithubIds \union GenericIds
    /\ NoBody \notin Bodies
    /\ Singles \intersect Batches = {}

VARIABLES
    pc,          \* where each request is
    id,          \* its delivery id
    body,        \* its payload
    ledger,      \* delivery_ledger
    seen,        \* _idempotency_store: delivery ids whose TTL runs
    dlq,         \* failed_deliveries: the record each request left, if any
    called,      \* replay calls that were made
    opKeys,      \* _replay_operation_store: operation keys whose TTL runs
    waiting,     \* records a batch has listed and not come to yet
    forced,      \* batches called with override
    replaying,   \* <<call, record>>: replay sends under way
    reached,     \* history: requests whose payload got to a destination
    auto,        \* history: replays of each record begun without override
    inWindow     \* history: requests dispatched in their id's current TTL

requestVars == <<pc, id, body, seen, inWindow>>
replayVars == <<called, opKeys, waiting, forced, replaying, auto>>
vars == <<pc, id, body, ledger, seen, dlq, called, opKeys, waiting,
          forced, replaying, reached, auto, inWindow>>

Ids == GithubIds \union GenericIds
Calls == Singles \union Batches

NoEntry == [status |-> "none", hash |-> NoBody]
NoRecord == [status |-> "none", attempts |-> 0, cooling |-> FALSE,
             stored |-> FALSE, old |-> FALSE]
NewRecord == [status |-> "failed", attempts |-> 0, cooling |-> FALSE,
              stored |-> TRUE, old |-> FALSE]

Init ==
    /\ pc = [r \in Requests |-> "new"]
    /\ id = [r \in Requests |-> NoId]
    /\ body = [r \in Requests |-> NoBody]
    /\ ledger = [k \in Ids \union Requests |-> NoEntry]
    /\ seen = {}
    /\ dlq = [r \in Requests |-> NoRecord]
    /\ called = {}
    /\ opKeys = {}
    /\ waiting = [b \in Batches |-> {}]
    /\ forced = {}
    /\ replaying = {}
    /\ reached = {}
    /\ auto = [r \in Requests |-> 0]
    /\ inWindow = {}

-----------------------------------------------------------------------------
(* MemoryStorage *)

\* Definitions named ...Mutant are faults of the one that follows them: each
\* breaks a property below, and no other definition uses it.

\* upsert_delivery_ledger: the first hash of a key is kept for ever.
Upserted(k, b, s) ==
    [ledger EXCEPT ![k] = [status |-> s,
                           hash |-> IF @.status = "none" THEN b ELSE @.hash]]

\* store_failed_delivery: a full store first drops the records past
\* failed_delivery_ttl, and keeps the younger ones however many they are.
InStore == {q \in Requests : dlq[q].stored}

\* The comparison with the cutoff is the wrong way round.
ExpiredMutant ==
    IF Cardinality(InStore) > PruneAbove THEN {q \in InStore : ~dlq[q].old} ELSE {}

Expired ==
    IF Cardinality(InStore) > PruneAbove THEN {q \in InStore : dlq[q].old} ELSE {}

Stored(r) ==
    [q \in Requests |->
        IF q = r THEN NewRecord
        ELSE IF q \in Expired THEN [dlq[q] EXCEPT !.stored = FALSE]
        ELSE dlq[q]]

\* A replay that still holds a dropped record writes it back to the store.
UpdatedMutant(r, rec) == [dlq EXCEPT ![r] = [rec EXCEPT !.stored = TRUE]]

\* update_failed_delivery: a record that was dropped is no longer written.
Updated(r, rec) == IF dlq[r].stored THEN [dlq EXCEPT ![r] = rec] ELSE dlq

-----------------------------------------------------------------------------
(* POST /webhook/github and POST /webhook/generic, up to the send *)

Arrives(r, d, b) ==
    /\ pc[r] = "new"
    /\ id' = [id EXCEPT ![r] = d]
    /\ body' = [body EXCEPT ![r] = b]

\* The hash is compared only while the idempotency TTL runs.
MismatchMutant(d, b) == d \in seen /\ ledger[d].hash # b

Mismatch(d, b) == ledger[d].status # "none" /\ ledger[d].hash # b

\* Only a delivery that got through makes its redelivery a duplicate.
DuplicateMutant(d) == d \in seen /\ ledger[d].status = "delivered"

\* is_duplicate_delivery: the id was seen and its TTL runs.
Duplicate(d) == d \in seen

RejectMismatch(r, d, b) ==
    /\ Arrives(r, d, b)
    /\ Mismatch(d, b)
    /\ pc' = [pc EXCEPT ![r] = "rejected"]
    /\ UNCHANGED <<ledger, seen, inWindow, dlq, reached, replayVars>>

RejectDuplicate(r, d, b) ==
    /\ Arrives(r, d, b)
    /\ ~Mismatch(d, b)
    /\ Duplicate(d)
    /\ ledger' = Upserted(d, b, "duplicate")
    /\ pc' = [pc EXCEPT ![r] = "rejected"]
    /\ UNCHANGED <<seen, inWindow, dlq, reached, replayVars>>

\* A new GitHub delivery is dispatched, or ends here: a ping, malformed JSON,
\* an event without a formatter, a payload that is not an object.
AcceptGithub(r, d, b, next) ==
    /\ Arrives(r, d, b)
    /\ ~Mismatch(d, b)
    /\ ~Duplicate(d)
    /\ seen' = seen \union {d}
    /\ ledger' = Upserted(d, b, "received")
    /\ pc' = [pc EXCEPT ![r] = next]
    /\ inWindow' = inWindow \union (IF next = "sending" THEN {r} ELSE {})
    /\ UNCHANGED <<dlq, reached, replayVars>>

\* Without x-github-delivery there is neither ledger entry nor deduplication.
AcceptAnonymous(r, b, next) ==
    /\ Arrives(r, NoId, b)
    /\ pc' = [pc EXCEPT ![r] = next]
    /\ UNCHANGED <<ledger, seen, inWindow, dlq, reached, replayVars>>

\* A generic webhook is recorded under its request id and never deduplicated.
AcceptGeneric(r, g, b) ==
    /\ Arrives(r, g, b)
    /\ ledger' = Upserted(g, b, "received")
    /\ pc' = [pc EXCEPT ![r] = "sending"]
    /\ UNCHANGED <<seen, inWindow, dlq, reached, replayVars>>

-----------------------------------------------------------------------------
(* dispatch_webhook, after the send *)

\* What came of the destinations a payload was sent to.  Telegram alone sends
\* or fails; each matching route sends, fails or is skipped.
Results == IF Routed THEN SUBSET {"sent", "failed", "skipped"}
                     ELSE {{"sent"}, {"failed"}}

\* The ledger is told of a delivery however the send ended.
SettledLedgerMutant(r, res) ==
    IF id[r] = NoId THEN ledger ELSE Upserted(id[r], body[r], "delivered")

\* The metric's label is written instead of the ledger's status.
SettledLedgerLabelMutant(r, res) ==
    IF id[r] = NoId THEN ledger
    ELSE Upserted(id[r], body[r], IF "failed" \in res THEN "delivery_failed" ELSE "success")

\* _dispatch_routed and _dispatch_telegram_only: a failure is written to the
\* ledger after, and over, a success; nothing is written if no route matched.
SettledLedger(r, res) ==
    IF id[r] = NoId THEN ledger
    ELSE IF "failed" \in res THEN Upserted(id[r], body[r], "failed")
    ELSE IF "sent" \in res THEN Upserted(id[r], body[r], "delivered")
    ELSE ledger

\* A result is taken only for an entry that is still as it was received.
SettleMutant(r, res) ==
    /\ pc[r] = "sending"
    /\ id[r] # NoId => ledger[id[r]].status = "received"
    /\ ledger' = SettledLedger(r, res)
    /\ dlq' = IF "failed" \in res THEN Stored(r) ELSE dlq
    /\ pc' = [pc EXCEPT ![r] = IF "failed" \in res THEN "failed" ELSE "sent"]
    /\ reached' = reached \union (IF "sent" \in res THEN {r} ELSE {})
    /\ UNCHANGED <<id, body, seen, inWindow, replayVars>>

Settle(r, res) ==
    /\ pc[r] = "sending"
    /\ ledger' = SettledLedger(r, res)
    /\ dlq' = IF "failed" \in res THEN Stored(r) ELSE dlq
    /\ pc' = [pc EXCEPT ![r] = IF "failed" \in res /\ "sent" \notin res
                               THEN "failed" ELSE "sent"]
    /\ reached' = reached \union (IF "sent" \in res THEN {r} ELSE {})
    /\ UNCHANGED <<id, body, seen, inWindow, replayVars>>

-----------------------------------------------------------------------------
(* _replay_delivery *)

\* The ledger key of a record: its delivery id, else the record's own id.
LedgerKey(r) == IF id[r] = NoId THEN r ELSE id[r]

\* One replay more than the limit.
ExhaustedMutant(r) == dlq[r].attempts > MaxAttempts

Exhausted(r) == dlq[r].attempts >= MaxAttempts

\* The record is moved to the dead-letter queue, whatever its status was.
Escalate(r, override) ==
    /\ ~override
    /\ Exhausted(r)
    /\ dlq' = Updated(r, [dlq[r] EXCEPT !.status = "dead_letter", !.cooling = TRUE])
    /\ UNCHANGED <<replaying, auto>>

CoolingDown(r, override) ==
    /\ ~override
    /\ ~Exhausted(r)
    /\ dlq[r].cooling
    /\ UNCHANGED <<dlq, replaying, auto>>

BeginReplay(w, r, override) ==
    /\ override \/ (~Exhausted(r) /\ ~dlq[r].cooling)
    /\ dlq' = Updated(r, [dlq[r] EXCEPT !.attempts = @ + 1, !.cooling = TRUE])
    /\ replaying' = replaying \union {<<w, r>>}
    /\ auto' = IF override THEN auto ELSE [auto EXCEPT ![r] = @ + 1]

Replay(w, r, override) ==
    \/ Escalate(r, override)
    \/ CoolingDown(r, override)
    \/ BeginReplay(w, r, override)

ReplaySent(w, r) ==
    /\ <<w, r>> \in replaying
    /\ replaying' = replaying \ {<<w, r>>}
    /\ dlq' = Updated(r, [dlq[r] EXCEPT !.status = "delivered"])
    /\ ledger' = Upserted(LedgerKey(r), body[r], "delivered")
    /\ reached' = reached \union {r}
    /\ UNCHANGED <<requestVars, called, opKeys, waiting, forced, auto>>

\* The attempts before this replay are compared with the limit.
FailedStatusStaleMutant(r) ==
    IF dlq[r].attempts - 1 >= MaxAttempts THEN "dead_letter" ELSE "failed"

\* A failed replay puts the record back, whatever its attempts.
FailedStatusMutant(r) == "failed"

FailedStatus(r) == IF Exhausted(r) THEN "dead_letter" ELSE "failed"

\* A failed send, and with routes also a replay that no route took.
ReplayFailed(w, r) ==
    /\ <<w, r>> \in replaying
    /\ replaying' = replaying \ {<<w, r>>}
    /\ dlq' = Updated(r, [dlq[r] EXCEPT !.status = FailedStatus(r)])
    /\ ledger' = Upserted(LedgerKey(r), body[r], "failed")
    /\ UNCHANGED <<requestVars, reached, called, opKeys, waiting, forced, auto>>

-----------------------------------------------------------------------------
(* The replay endpoints.  An operation key is consumed by a call that is   *)
(* refused later on as well.                                               *)

SingleKey(r, k) == <<"single", r, k>>
AllKey(k) == <<"all", k>>

Fresh(key, k) == k = NoKey \/ key \notin opKeys
Consumed(key, k) == IF k = NoKey THEN opKeys ELSE opKeys \union {key}

AlreadyDelivered(r) == ledger[LedgerKey(r)].status = "delivered"

\* Duplicate operation key (409), unknown record (404), delivered (409).
RefuseSingle(s, r, override, k) ==
    /\ s \notin called
    /\ \/ ~Fresh(SingleKey(r, k), k)
       \/ ~dlq[r].stored
       \/ AlreadyDelivered(r) /\ ~override
    /\ called' = called \union {s}
    /\ opKeys' = Consumed(SingleKey(r, k), k)
    /\ UNCHANGED <<requestVars, ledger, dlq, waiting, forced, replaying,
                   reached, auto>>

ReplaySingle(s, r, override, k) ==
    /\ s \notin called
    /\ Fresh(SingleKey(r, k), k)
    /\ dlq[r].stored
    /\ override \/ ~AlreadyDelivered(r)
    /\ Replay(s, r, override)
    /\ called' = called \union {s}
    /\ opKeys' = Consumed(SingleKey(r, k), k)
    /\ UNCHANGED <<requestVars, ledger, waiting, forced, reached>>

\* replay_all lists the failed records; up to 1000 of them, a limit no
\* instance here comes near.
ReplayAll(b, override, k) ==
    /\ b \notin called
    /\ called' = called \union {b}
    /\ opKeys' = Consumed(AllKey(k), k)
    /\ IF Fresh(AllKey(k), k)
         THEN /\ waiting' = [waiting EXCEPT ![b] =
                                {r \in Requests : dlq[r].stored /\ dlq[r].status = "failed"}]
              /\ forced' = forced \union (IF override THEN {b} ELSE {})
         ELSE UNCHANGED <<waiting, forced>>
    /\ UNCHANGED <<requestVars, ledger, dlq, replaying, reached, auto>>

SlotsOf(b) == {r \in Requests : <<b, r>> \in replaying}

\* A record in its cooldown goes back to the batch's list.
BatchStepMutant(b, r) ==
    /\ r \in waiting[b]
    /\ Cardinality(SlotsOf(b)) < Concurrency
    /\ dlq[r].cooling => b \in forced
    /\ waiting' = [waiting EXCEPT ![b] = @ \ {r}]
    /\ Replay(b, r, b \in forced)
    /\ UNCHANGED <<requestVars, ledger, reached, called, opKeys, forced>>

\* _replay_one gets the semaphore.
BatchStep(b, r) ==
    /\ r \in waiting[b]
    /\ Cardinality(SlotsOf(b)) < Concurrency
    /\ waiting' = [waiting EXCEPT ![b] = @ \ {r}]
    /\ Replay(b, r, b \in forced)
    /\ UNCHANGED <<requestVars, ledger, reached, called, opKeys, forced>>

-----------------------------------------------------------------------------
(* Time: a TTL or cooldown runs out at any moment once it has started.     *)

IdExpires(d) ==
    /\ d \in seen
    /\ seen' = seen \ {d}
    /\ inWindow' = {r \in inWindow : id[r] # d}
    /\ UNCHANGED <<pc, id, body, ledger, dlq, reached, replayVars>>

KeyExpires(key) ==
    /\ key \in opKeys
    /\ opKeys' = opKeys \ {key}
    /\ UNCHANGED <<requestVars, ledger, dlq, called, waiting, forced,
                   replaying, reached, auto>>

CooldownEnds(r) ==
    /\ dlq[r].cooling
    /\ dlq' = [dlq EXCEPT ![r].cooling = FALSE]
    /\ UNCHANGED <<requestVars, ledger, reached, replayVars>>

\* The record is older than failed_delivery_ttl; the next pruning drops it.
RecordAges(r) ==
    /\ dlq[r].stored
    /\ ~dlq[r].old
    /\ dlq' = [dlq EXCEPT ![r].old = TRUE]
    /\ UNCHANGED <<requestVars, ledger, reached, replayVars>>

-----------------------------------------------------------------------------
Ingest(r) ==
    \/ \E d \in GithubIds, b \in Bodies :
          \/ RejectMismatch(r, d, b)
          \/ RejectDuplicate(r, d, b)
          \/ \E next \in {"ignored", "sending"} : AcceptGithub(r, d, b, next)
    \/ \E b \in Bodies, next \in {"ignored", "sending"} : AcceptAnonymous(r, b, next)
    \/ \E g \in GenericIds, b \in Bodies : AcceptGeneric(r, g, b)

Dispatch(r) == \E res \in Results : Settle(r, res)

Admin(r) ==
    \E k \in IdemKeys \union {NoKey}, override \in BOOLEAN :
        \E s \in Singles : \/ RefuseSingle(s, r, override, k)
                           \/ ReplaySingle(s, r, override, k)

AdminAll ==
    \E k \in IdemKeys \union {NoKey}, override \in BOOLEAN, b \in Batches :
        ReplayAll(b, override, k)

EndReplay(w, r) == ReplaySent(w, r) \/ ReplayFailed(w, r)

Clock ==
    \/ \E d \in GithubIds : IdExpires(d)
    \/ \E key \in opKeys : KeyExpires(key)
    \/ \E r \in Requests : CooldownEnds(r) \/ RecordAges(r)

Next ==
    \/ \E r \in Requests :
          \/ Ingest(r)
          \/ Dispatch(r)
          \/ Admin(r)
          \/ \E w \in Calls : EndReplay(w, r)
          \/ \E b \in Batches : BatchStep(b, r)
    \/ AdminAll
    \/ Clock

\* Every send ends (each destination bounds its attempts and their timeouts),
\* and the event loop runs a batch as long as it has records and a free slot.
\* No request, replay call or expiry need happen.
Fairness ==
    /\ \A r \in Requests : WF_vars(Dispatch(r))
    /\ \A r \in Requests, w \in Calls : WF_vars(EndReplay(w, r))
    /\ \A r \in Requests, b \in Batches : WF_vars(BatchStep(b, r))

SafetySpec == Init /\ [][Next]_vars

Spec == SafetySpec /\ Fairness

-----------------------------------------------------------------------------
(* Properties *)

\* The values every variable takes.
TypeOK ==
    /\ pc \in [Requests -> {"new", "rejected", "ignored", "sending", "sent", "failed"}]
    /\ id \in [Requests -> Ids \union {NoId}]
    /\ body \in [Requests -> Bodies \union {NoBody}]
    /\ ledger \in [Ids \union Requests ->
                     [status : {"none", "received", "duplicate", "delivered", "failed"},
                      hash : Bodies \union {NoBody}]]
    /\ seen \subseteq GithubIds
    /\ dlq \in [Requests ->
                  [status : {"none", "failed", "dead_letter", "delivered"},
                   attempts : Nat, cooling : BOOLEAN,
                   stored : BOOLEAN, old : BOOLEAN]]
    /\ called \subseteq Calls
    /\ waiting \in [Batches -> SUBSET Requests]
    /\ forced \subseteq Batches
    /\ replaying \subseteq Calls \X Requests
    /\ reached \subseteq Requests
    /\ auto \in [Requests -> Nat]
    /\ inWindow \subseteq Requests

\* A request past the endpoint's checks.
Dispatched(r) == pc[r] \in {"sending", "sent", "failed"}

\* webhooks.py:74-79: all the events ever dispatched under one GitHub delivery
\* id have one body, across expiries of the idempotency TTL, redeliveries that
\* overlap and what replays write to the ledger.
OneBodyPerDelivery ==
    \A q, r \in Requests :
        Dispatched(q) /\ Dispatched(r) /\ id[q] = id[r] /\ id[q] \in GithubIds
            => body[q] = body[r]

\* webhooks.py:83: within one TTL a GitHub delivery is dispatched once.
OneDispatchPerWindow ==
    \A q, r \in inWindow : id[q] = id[r] => q = r

\* The ledger and the store call a delivery delivered only if a payload under
\* that key, or that record's payload, did get to a destination: an operator
\* never takes a lost event for a delivered one.
DeliveredIsTrue ==
    /\ \A k \in Ids \union Requests :
          ledger[k].status = "delivered" => \E r \in reached : LedgerKey(r) = k
    /\ \A r \in Requests : dlq[r].status = "delivered" => r \in reached

\* storage.py:160-166: an event answered with 502 is in the store, as failed
\* or dead-lettered until a replay got it through, for as long as its record
\* is within failed_delivery_ttl: neither the prunings that later failures
\* cause nor the replays that overlap with them lose it earlier.
NothingLost ==
    \A r \in Requests :
        pc[r] = "failed" /\ ~dlq[r].old =>
            /\ dlq[r].stored
            /\ dlq[r].status \in {"failed", "dead_letter"} \/ r \in reached

\* max_replay_attempts bounds the replays of a stored record that nobody
\* forced, even when they overlap, and replay_attempts misses none of them; a
\* record is dead-lettered only when its attempts are used up.
ReplayBudget ==
    \A r \in Requests :
        /\ dlq[r].stored => auto[r] <= MaxAttempts /\ auto[r] <= dlq[r].attempts
        /\ dlq[r].status = "dead_letter" => dlq[r].attempts >= MaxAttempts

\* replay.py:127-128 and 148-149: a record whose attempts are used up is not
\* left as failed, where replay-all would pick it up for ever, once its last
\* replay has come back.
ExhaustedIsSettled ==
    \A r \in Requests :
        /\ dlq[r].stored
        /\ dlq[r].attempts > 0
        /\ dlq[r].attempts >= MaxAttempts
        /\ \A w \in Calls : <<w, r>> \notin replaying
        => dlq[r].status \in {"dead_letter", "delivered"}

\* A dead-lettered record leaves that state by a delivery only; a slow replay
\* that comes back late does not make it a plain failure again.
DeadLetterIsFinal ==
    [][\A r \in Requests :
          dlq[r].status = "dead_letter" =>
              dlq'[r].status \in {"dead_letter", "delivered"}]_vars

\* What the books of the store and the endpoints say of a request.
Book(r) ==
    IF pc[r] \in {"new", "sending"} THEN pc[r]
    ELSE IF pc[r] \in {"rejected", "ignored"} THEN "refused"
    ELSE IF dlq[r].status = "none" THEN "settled"
    ELSE IF dlq[r].stored THEN dlq[r].status
    ELSE "expired"

Contract ==
    INSTANCE DeliveryContract
        WITH book <- [r \in Requests |-> Book(r)],
             open <- [r \in Requests |-> {w \in Calls : <<w, r>> \in replaying}],
             got <- reached

\* What replays, batches, redeliveries and prunings write to the records, in
\* whatever order they overlap, is what the contract lets the books say: only
\* a replay that was open puts a delivered record back, none puts back a dead
\* letter or a record that expired, and none marks delivered what it lost.
KeepsContract == Contract!SafetySpec

\* And every event taken in is decided in the end.
DecidesFates == Contract!Spec

\* A batch comes to the end of its list, and every send it made comes back.
BatchesDrain ==
    \A b \in Batches :
        b \in called ~> (waiting[b] = {} /\ \A r \in Requests : <<b, r>> \notin replaying)

\* replay.py:228, "Replay blocked: delivery already marked delivered in
\* ledger": a replay without override sends nothing that was delivered.
NoReplayOfDelivered ==
    [][\A r \in Requests : auto'[r] > auto[r] => r \notin reached]_vars

\* docs/ops/replay-operations.md:8, "replay all currently failed deliveries":
\* what a batch sends is a failed delivery when it is sent.
BatchSendsFailedOnly ==
    [][\A b \in Batches, r \in Requests :
          <<b, r>> \in replaying' \ replaying /\ b \notin forced => dlq[r].status = "failed"]_vars
=============================================================================
