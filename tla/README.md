# Verification of dunrip-webhook-bridge

The bridge takes webhooks from GitHub and from generic clients, sends each as a
message to Telegram (or, with a routing table, to several destinations), records
what became of it, and lets an administrator replay what failed. This directory
models that in TLA+: TLC checks the models on small instances, and TLAPS proves
the central properties for every value of the constants.

## The system

| part | state | operations | works with |
|---|---|---|---|
| circuit breaker (`app/infra/circuit_breaker.py`) | `_state`, `_failure_count`, `_last_failure_time`, `_half_open_in_flight`, a lock | `can_execute`, `record_success`, `record_failure`, the decorator | one process-wide instance, `telegram_circuit`, called by the Telegram client |
| Telegram client (`app/services/tg_client.py`) | none of its own; the loop variable of each call | `send_message`; message formatters | breaker, Bot API, `asyncio.sleep` |
| webhook endpoints (`app/api/webhooks.py`) | none; each request's local state | `POST /webhook/github`, `POST /webhook/generic` | storage, dispatch |
| dispatch (`app/services/webhook_dispatch.py`) | none | `dispatch_webhook`, routed or Telegram only | destinations, storage, event stream |
| replay (`app/api/replay.py`) | none; a semaphore per batch | list, replay one, replay all | storage, destinations |
| storage (`app/infra/storage.py`) | idempotency keys, replay operation keys, failed deliveries, delivery ledger; in memory, in Redis, or in Redis with memory to fall back on | the `Storage` protocol | endpoints, dispatch, replay |
| rate limiting (`app/infra/middleware.py`) | counters with a window | `increment`, the middleware | every webhook and admin request |
| event stream (`app/api/websocket.py`) | client list, connections and attempts per address | `allow_connect`, `connect`, `disconnect`, `broadcast` | dispatch, WebSocket clients |
| routing and destinations (`app/services/routing.py`, `destinations/`) | the routing table; none per send | `load_routes`, `route_event`, `send` of each destination | dispatch, replay, HTTP |
| authentication (`app/core/security.py`) | none | signature, token, admin key and address checks | every endpoint |
| the rest | none that is read back | configuration, formatting, templates, metrics, dashboard, sandbox, GitHub App, scripts | |

Handlers are coroutines of one asyncio loop: between two suspensions a handler
runs alone. Where it suspends, everything else may happen. With the memory
backend the storage coroutines never suspend, so a handler is interrupted only
while a send is under way; with Redis every storage call is a suspension.

What is hard, and what makes each part correct:

- **breaker**: calls are admitted in one window and report in another. Its slot
  counter must go on counting exactly the trial calls of the current window; it
  must trip on a threshold of failures of the present outage only; it must never
  be stuck.
- **Telegram client**: one breaker call spans several attempts and sleeps; every
  way out of the loop must report once. A lost acknowledgement makes copies.
  (A cancelled call would not report: `CancelledError` is no `Exception`. Nothing in
  the service cancels a send, and the model has no cancellation.)
- **ingest**: redeliveries with the same id race the first delivery, with another
  body or after the idempotency TTL.
- **dispatch and replay**: several replays of one record overlap with each other,
  with a batch that listed it earlier, and with redeliveries that write the same
  ledger entry; the attempt limit and the record's status are read before the
  send and written after it. No event may be lost on the way.
- **storage**: a full store drops records others still hold; Redis operations are
  read-modify-write in several commands, of which any may be the last before an
  error or a restart; the fallback keeps two states, call by call.
- **routing and destinations**: a table is judged at startup and used at every
  event; one destination of several fails, retries, or answers late, and the
  others must neither lose their turn nor wait without bound.
- **event stream**: the limit per address is checked before `accept()` suspends and
  counted after it; a client that breaks is disconnected by its own handler and by
  every broadcast that failed to reach it.

`PROJECT.json` lists each of these at its line ("hazards"), with the properties
that cover it or the reason none does yet.

## The modules

### CircuitBreaker

The breaker and the calls its decorator wraps. Each method holds the lock for its
whole body, so each is one step. `Begin`/`TurnAway` are `can_execute` (with
`Admit` and `Refuse` for its two answers), `Succeed` and `Fail` are
`record_success` and `record_failure`; `Trip` and `Reset` are the helpers of the
same name, and `Tick` is the clock. `sinceFailure` holds the age of
`_last_failure_time`, capped at `Timeout`, beyond which the code cannot tell
ages apart. A refused `can_execute` leaves the state unchanged: an elapsed OPEN
window has all its slots free, so the transition to HALF_OPEN and the first slot
always come together. The clock is monotone; `time.time()` may be set back, which
is not modelled.

History variables: `trials` (calls that took a slot of the current window),
`probes` (calls that ever took one), `losses` (failures since the last reset).

### TelegramClient

`send_message`. The loop's suspensions are the attempt and the sleep, so the
actions are the ways these end: `Acknowledged`, `TransientError`,
`RetriesExhausted`, `FatalError`, `Wake`. A transient error may have delivered
the message all the same (`MayArrive`). The breaker is not modelled again: the
actions conjoin `Circuit!Admit`, `Circuit!RecordSuccess` and so on, and
`ImplementsBreaker` says that the whole is a refinement of `CircuitBreaker`,
mapping `sending` and `sleeping` to its `running`.

### DeliveryContract

The abstract promise, about the books an operator reads (`book`) and what is true
of the destinations (`got`). A request is refused, or sent and then settled, or
left as a failed record. Only what has a record is replayed (`Open`), and the
record follows the replays as they end: `Deliver` makes it delivered, `Fail` and
`GiveUp` make it failed or a dead letter, also when it was delivered already. That
is what the code does (replay.py:146-153), and the contract confines it: without a
replay under way a delivered record is not put back to failed, a dead letter
leaves by a delivery only, what expired never comes back, and `delivered` is
written only together with a delivery. `Spec` adds that what is sent gets decided.

### DeliveryPipeline

Endpoints, dispatch, replay and the memory store together, because they share the
ledger, the records and the idempotency keys. One action per step between two
suspensions:

| action | code |
|---|---|
| `RejectMismatch`, `RejectDuplicate`, `AcceptGithub`, `AcceptAnonymous`, `AcceptGeneric` | the endpoint up to the send |
| `Settle` | dispatch after the send: ledger, record, answer |
| `RefuseSingle`, `ReplaySingle` | the replay endpoint up to the send, `_replay_delivery` included |
| `ReplayAll`, `BatchStep` | listing the failed records; one record getting the semaphore |
| `ReplaySent`, `ReplayFailed` | `_replay_delivery` after the send |
| `IdExpires`, `KeyExpires`, `CooldownEnds`, `RecordAges` | a TTL, a cooldown or a record's retention runs out |

Data is abstracted to what the code compares. A payload is a member of `Bodies`,
standing for its hash. A record is named by the request that left it (its uuid).
A send ends in any combination of results the configuration allows (`Results`);
what `send_message` does in between is `TelegramClient`'s matter. There are no
clocks: any TTL that has started may run out, and any record may pass its
retention (`old`). A store with more than `PruneAbove` records (1000 in the code)
drops the old ones, and only those, when it takes the next (`Expired`).

`Book` reads a request's entry of the contract off the record and the endpoints'
state: off what the code wrote last, never off the history `reached`, which only
stands for the contract's `got`.

Not in the model: exceptions other than the destinations' own (nothing is
recorded then), the limit of 1000 records of a listing, the broadcast to the
event stream, and the branch for a stored event whose formatter has gone, which a
store that does not outlive the process cannot reach. A request's answer is
represented by `pc` only where the code branches on it.

### RedisDelivery

The same handlers over `FallbackStorage(RedisStorage, MemoryStorage)`, at the
granularity of Redis commands. `pc` and `job[..].pc` name the storage call, or the
send, that comes next.

| action | code |
|---|---|
| `Arrive`, `UpsertLedger`, `Claim` | `github_webhook`: ledger look-up and hash comparison, ledger writes, `SET NX` of the id |
| `Send`, `Park`, `Index` | the send; `store_failed_delivery`'s `SET` and `LPUSH` |
| `Fetch`, `CheckLedger`, `List`, `Start` | the replay endpoints up to `_replay_delivery`'s first write |
| `UpdateReads`, `UpdateWrites` | the `GET` and the `SET` of `update_failed_delivery` |
| `Resend`, `Reread`, `ReportReplay` | the send of a replay and what is written after it |
| `Restart`, `ClaimExpires` | the process is killed and started; a key expires |

Every command may raise `RedisError`, whether Redis carried it out or not; then the
whole call is repeated on memory (`ReadsFrom`, `Writes`). A restart ends all
handlers and empties memory. `Init` has a backlog that an earlier process left in
Redis. A record's uuid is drawn by the backend that stores it, so a record is named
by its backend and request. Memory hands out records by reference, Redis copies
(`Seen`). Hashes distinguish the bytes received from the parsed payload, because
the replay hashes the latter (`Hash`).

One step stands for more than one command in two places: the `GET` and `SET` of the
ledger, whose write does not depend on what was read (status and hash are
overwritten), and the `LRANGE` and `MGET` of a listing, since the index only grows.
Not in the model: replay operation keys (a `SET NX` like that of ids), deliveries
without id and the generic endpoint, routes, JSON that does not parse, and Redis
losing what it has confirmed.

### RoutedDelivery

`load_routes` with validation, `route_event` and the destinations, for one event: it
is dispatched, and the record that a failure leaves is replayed. Runs of different
events share nothing, and overlapping replays are `DeliveryPipeline`'s matter, so one
run is under way at a time. `Start` and `Stop` bring the process up with any settings
that `load_routes` accepts, so a replay may meet another table than the dispatch.

| action | code |
|---|---|
| `Pass`, `Skip` | a route that does not match; a destination that cannot be built |
| `SendTelegram`, `SendPlugin` | `TelegramDestination.send`; a plugin, which may also raise what nothing catches |
| `Post`, `Answered`, `Unanswered`, `Wake` | the loop `_post_with_retries` of Discord and Slack, which differ in the headers they read |
| `Return` | what `dispatch_webhook` or `_replay_delivery` makes of the results |

`Stop` leaves the record where it is (Redis) or loses it (the memory backend, the
default). `missed` and `taken` remember what the routes did in the dispatch and in
the replays, `cut` the calls that came to no end: broken off by a stop or by what a
plugin raised, or with their record lost. `RecordIsTrue` compares the record with
them.

`copies` of a result counts the messages that got through: a 5xx answer, a timeout
or a broken connection may follow a message that was taken. A replay of which
one route succeeds marks the record delivered although another route failed again,
and sends again where the event had arrived; the model has these runs, and no property
forbids them, because no text of the repository does. Routes with the same criteria
and destination are not told apart by name.

### EventStream

`EventBroadcaster`, the handlers of its connections, and the broadcasts that dispatch
awaits. `connect` and `disconnect` never suspend while they hold the lock, so they
are parts of a step: `Arrive` runs up to `accept()`, `Accept` lists the client, `Leave`
is the `finally`, and each `send_text` ends as `Sent` or `SendFails`, the last one with
the disconnects of those that failed (`Served`). A connection that breaks is not
known to be broken until the server notices (`Notice`): until then `send_text`
returns, the event is lost, and the client stays listed. From then on `send_text`
and `receive_text` raise. The order of the client list is left
out: a broadcast serves its clients in any order. The allow list and the key come
before the model; README.md of the repository asks for the scope `read`, the code for
`admin` (websocket.py:147), which no property is about.

`wave` remembers the most accepts of an address that were under way at once,
`audience` the matching clients a broadcast began with, `got` what was sent to each
over a connection that was not broken.

## The runs

All configurations set `CHECK_DEADLOCK FALSE`: calls, requests and connections are
made once each, so the system does stop when all have been made.

| run | instance | what it shows |
|---|---|---|
| `breaker` | 7 calls, threshold 2, timeout 2, 2 slots; symmetry | slots are accounted for (`SlotAccounting`), no failure counts twice or survives a reset (`ClosedBelowThreshold`, `TripNeedsEvidence`), OPEN always has a failure time |
| `telegram` | 3 calls, threshold 1, 1 retry, 1 slot | refinement of the breaker, its fairness (`FairToBreaker`), and with both the breaker's liveness: no window lasts for ever |
| `pipeline` | 2 requests, 2 bodies, one GitHub id, one generic id, routes, 1 single replay, 1 batch, limit 1; symmetry | one body per delivery id, one dispatch per TTL, truth of ledger and records, replay limit, dead letters, and the contract's safety, partial failures and prunings included |
| `pipeline_live` | 2 generic requests, operation keys, 2 batches, limit 3 | the contract with its liveness; batches end |
| `redis` | 1 request of a backlog, 2 handlers (new deliveries or replays), 2 errors, 1 restart, limit 2; symmetry | what the ledger and records of each backend still promise (`DeliveredIsTrue`, `FailedIsOnRecord`, `DeadLetterEarned`), one dispatch per claim, and when the replay limit holds |
| `routing` | all tables of 2 routes out of 5, flags, URLs, strict or not; 2 events; answers 200, 302, 429, 503 or none; 2 retries; 1 stop | every matching route gets its turn once; results are true; sends are bounded and runs end; validated tables never skip; the record tells how the event fared |
| `stream` | 3 connections of one address, limit 1, 2 events | true counters, the limit up to a wave of accepts, the audience of a broadcast, everything settles |

Why the bounds are enough: two slots and a threshold of two separate "some" from
"all" in the breaker, and seven calls are two to trip, two stale ones, and two
trials with one to spare; three overlapping sends give a stale call, a trial and a
third one. In the pipeline every interaction is between two handlers on one record or
one ledger entry (two requests with one id; two replays of one record), and a third
actor (the batch) reads what both wrote; more requests and calls are covered by the
proofs. In `pipeline` the second replay meets the limit, and overlaps with the first
if it is forced; in `pipeline_live` two batches overlap below the limit, so that the
one that fails late puts a delivered record back to failed.
`PruneAbove = 0` makes pruning possible from the first record on. Over Redis, again,
two handlers share a record or an entry; the backlog stands for what more of them
would have done before, two errors send a record and its update to different
backends, and one restart separates a run before from a run after. A table of two routes has
one behind and one ahead of every failure; two retries have a first, a middle and a
last attempt. Three connections against a limit of one let a wave of two pass it and
a third be refused.

Five runs end in a counterexample, each against a sentence of the code or the
docs (`PROJECT.json`, "findings"):

- `breaker_trial_limit`: `_trip` forgets trials that still run, so the next window
  may run more than `half_open_max_calls`.
- `breaker_only_trials_close`: the late success of a call admitted before the
  outage closes a HALF_OPEN breaker.
- `replay_of_delivered`: a redelivery overwrites the ledger's `delivered` by
  `duplicate`, and the replay guard then lets a delivered event through again.
- `batch_of_delivered`: a batch sends a record that was delivered while it waited.
- `redis_false_mismatch`: over Redis a replay writes the hash of the parsed payload
  to the ledger, and the redelivery of the same body is then refused as a replay with
  another body.

## Fairness

`CircuitBreaker`: admitted calls end, and the clock runs. `TelegramClient` shows
where the first comes from: the Bot client's requests time out, `asyncio.sleep`
returns, and the loop is bounded, so `FairToBreaker` is checked, not assumed.
`DeliveryPipeline`: each send ends (the destinations bound attempts and time
them out) and a batch with a free slot goes on (the event loop runs ready tasks).
`RoutedDelivery`: a run goes on while it can (the HTTP clients time out, sleeps
return, `send_message` ends by `TelegramClient`; plugins are taken to end too).
`EventStream`: a broken connection is noticed sooner or later, its handler is told,
and each broadcast's sends end; the bridge sets no timeout there, so this rests on the
server's own pings, which close a connection that does not answer. That a send
without a timeout ends is therefore assumed, not shown.
All of it is weak fairness. No request, replay call, connection or expiry is assumed to
happen. `RedisDelivery` states no liveness: any command may be the last.

## The proofs

The theorems hold for every value of the constants under the assumptions the
modules name: thresholds, slots and concurrency positive, timeout, retries and
attempt limit, delays and bounds natural numbers, and the names of ids, records,
calls and plugins distinct.

- `CircuitBreakerProofs`: type correctness; `SlotAccounting` is inductive with the
  types (a finite set `trials` is needed for its cardinality, so each step shows
  what it adds or removes); `ClosedBelowThreshold` is inductive and gives
  `TripNeedsEvidence`, since the failure that trips is recorded last;
  `OpenIsTimed`.
- `TelegramClientProofs`: types; `CopiesAccounted`; `BreakerImplemented`, initial
  state to initial state and each step to a step or a stutter of the breaker.
- `DeliveryPipelineProofs`: first what the store operations do (`UpsertedEntry`,
  `StoredRecords`, `UpdatedRecords`) and what a replay does to a record
  (`ReplayEffect`, `EndReplayEffect`), then `TypeCorrect`. The properties of
  records are not inductive alone. `RecordsBehind` adds that records belong to
  answered requests, that a request answered with 502 left one, that one within its
  retention is in the store, and that whatever is listed, replayed or counted is a
  record; without it a dispatch could overwrite the record of a running replay. `RecordBooks` then states budget and
  outcome per record, and `NothingIsLost`, `BudgetIsKept`, `ExhaustedSettles` and
  the step property `DeadLetterStays` follow.
- `DeliveryLedgerProofs`: every ledger write is one upsert (`IngestUpserts`,
  `SettleUpserts`, `EndReplayUpserts`), which never changes an entry's hash.
  `OneBodyHolds` strengthens its property to `BodyOfEntry`: the entry of a
  dispatched delivery holds the hash of its body, whoever wrote the status last.
  `DeliveredHolds` needs that a request that was reached keeps its ledger key, and
  `OneDispatchHolds` that the ids of open windows are among those seen.
- `DeliveryContractProofs`: `ContractKept`, the refinement. `Recorded` and `SameBook`
  say how the books follow a record's status and its place in the store; then one
  lemma per kind of step (`IngestKeeps`, `SettleKeeps`, `ReplayKeeps`,
  `EndReplayKeeps`, `RestKeeps`) shows it to be a step of the contract or none.
  `RecordsBehind` rules out a replay of a request without a record, and
  `RecordBooks` a dead letter that a late failure makes failed again.
- `EventStreamProofs`: the counters need `Listed` (who is listed is still read from,
  so disconnecting twice finds nothing) and finitely many connections so far.
  `LimitedByWave` is not inductive: `WaveBound` adds the accepts under way to the
  clients, so that being listed changes nothing and arriving is paid for by the
  wave. `BroadcastReaches` rests on `Course`, which follows each client through each
  broadcast: it is still to be served, has got the event, or is broken.
- `RoutedDeliveryProofs`: `Inv` says of every result what `TrueResult` asks, from
  `LoopInv` (a send begins with nothing tried, an attempt under way has let no more
  through than the ones before it), `ProcessInv` (what runs with strict validation
  has passed it, and a stopped process keeps no results; `ReadyBuilds` carries the
  judgement at startup to the send) and `RecordInv` (an event is dispatched once, and
  replayed only while its record is a failed one; while a call is on, its results
  say what `missed` and `taken` remember, which is what `RecordIsTrue` needs when
  the record is written). It needs that an event is not `None`, and that plugins do
  not take the names of the destinations that are built in. `ProgressInv` is proved on top of it, from
  `Steps`, which sorts the steps by what they do to the loop: `PositionInv` (where
  the loop can be, and that a send under way is of a route the event matches),
  `SleepInv` (`attempt` sleeps, each of them no longer than the longest delay) and
  `OneResultPerRoute`, inductive because each step of the loop appends the result of
  the route it leaves behind. `SendsAreBounded` multiplies the sleeps out
  (`Multiples`), and `EveryRouteReported` and `TypeCorrect` follow.
- `RedisDeliveryProofs`: first what each step does to a store, as lemmas that hide
  how (`UpsertEffect`, `ClaimEffect`, `ParkEffect`, `UpdateEffect`, `ReplayEffect`,
  `AdminEffect`, `RestartEffect`), with the error after any command, after which the
  memory backend takes over, among their cases. Then one invariant per property,
  each resting on the types and on `PresenceInv`:
  - `PresenceInv`: nothing is stored or replayed of a request before its end is
    known, and what a replay has been shown in Redis it goes on to find there.
  - `DeliveredInv`: who is about to write "delivered", or holds a copy that says so
    and will write it back, has cause.
  - `OnRecordInv`: at the `LPUSH` the record is there already, and it is there before
    the ledger is told "failed". `Kept` says that no step but a restart takes a
    record, its place in the list or the fallback away.
  - `ClaimsInv`: a request that was let through has claimed its id in the backend
    that let it through, as long as the claim stands.
  - `EarnedInv`: no record, copy, value held between `GET` and `SET` or verdict is
    ahead of the replays that came to their send.
  - `BudgetInv`: a Redis record that is not `disturbed` has one replay at most, whose
    copy holds the attempts of the record, so that the check against the limit
    is about the present number. (`BudgetUnlessDisturbed` excepts records of which
    two replays overlapped or an update fell back; an attempt counts from the `SET`
    of its counter, so a crash before the send uses one up.)

The invariants of `RoutedDelivery` and `RedisDelivery` were evaluated by TLC on the
instances of `routing` and `redis` before they were proved. `PowersAssumption` in
`RoutedDelivery` is a truth of arithmetic, not of the settings: the provers do not
know powers, and TLC evaluates it like the other assumptions.

Every invariant and every action property of the passing runs is stated by one of
these theorems. Liveness (`TrialDecides`, `WindowEnds`, `DecidesFates`,
`BatchesDrain`, `RunEnds`, `StreamSettles`) and the fairness property
`FairToBreaker` are outside what TLAPS supports and are model-checked only.

## Plan

1. **Core** (done): breaker, Telegram client, pipeline with the memory store,
   contract.
2. **Redis** (done): the handlers' store calls command by command, with errors,
   restarts and the fallback.
3. **Destinations and routing** (done): the table, `route_event`, the retry loops.
4. **Event stream** (done): clients, limits, broadcasts, with proofs.
5. **Proofs** (done): the invariants of `RoutedDelivery` and of `RedisDelivery`.
6. **Next**: the contract as an abstraction of `RedisDelivery` where a restart takes
   nothing, and what holds of a replay where `replay_of_delivered` and
   `batch_of_delivered` show that more does not.

## Not modelled

- Rate limiting (`app/infra/middleware.py`): a counter per key and window, changed in
  one step per request on either backend. No other step reads it, and what there is to
  say (two windows' worth of requests around a border, a fresh count after falling back)
  would repeat its arithmetic.
- Authentication and allow lists: stateless checks in front of the handlers.
- Pure text processing: formatters, templates, the layout of Discord embeds and Slack
  blocks.
- Metrics, logging, the dashboard, the sandbox and GitHub App endpoints, the
  serverless entry and the scripts: they keep no state that another step reads.
