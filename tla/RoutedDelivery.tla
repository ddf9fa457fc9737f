--------------------------- MODULE RoutedDelivery ---------------------------
(***************************************************************************)
(* The routing table (app/services/routing.py) and the destinations        *)
(* (destinations/): how the table is loaded and validated at startup, and  *)
(* how one event runs through it, once when it is dispatched and again in  *)
(* every replay of the record that a failed route leaves behind.  Runs of  *)
(* different events share nothing but their destinations, so one event is  *)
(* enough; replays that overlap are DeliveryPipeline's matter.             *)
(*                                                                         *)
(* The process may be stopped anywhere and started with other settings.    *)
(***************************************************************************)
EXTENDS Integers, Sequences

CONSTANTS
    Sources,     \* what ROUTES_YAML may hold: Malformed, or a sequence of routes and Malformed
    Malformed,   \* text that is not YAML; an entry that is not a mapping
    Events,      \* [event_type, repo, ref, base, head]
    None,        \* a criterion that is not set, a field that is not there
    Flags,       \* sets of names that DESTINATION_FEATURE_FLAGS may turn off
    Plugins,     \* names with a factory of a plugin in the registry
    Codes,       \* HTTP status codes a destination answers with
    RetryAfters, \* seconds a header asks for; 0 stands for none, or none that counts
    MaxRetries,  \* destination_max_retries
    BaseDelay,   \* destination_retry_base_seconds
    MaxDelay,    \* destination_retry_max_seconds
    MaxAttempts, \* max_replay_attempts
    MaxStops     \* bound: times the process is stopped

ASSUME BoundsAssumption == {MaxRetries, BaseDelay, MaxDelay, MaxAttempts, MaxStops} \subseteq Nat
ASSUME AnswersAssumption == Codes \subseteq Nat /\ RetryAfters \subseteq Nat

\* True of all numbers; the provers know no powers.
ASSUME PowersAssumption == \A n \in 0 .. MaxRetries : 2^n \in Nat

Builtins == {"telegram", "discord", "slack"}

Names == Builtins \union Plugins

ASSUME NamesAssumption ==
    /\ Plugins \intersect Builtins = {}
    /\ None \notin Events
    /\ Flags \subseteq SUBSET Names

VARIABLES
    config,     \* the settings of the running process
    phase,      \* what the process does
    event,      \* the event, once it has come
    call,       \* on whose behalf route_event runs
    at,         \* the position of the loop in the table
    attempt,    \* the attempt of the destination's loop, from 0
    results,    \* the list route_event builds
    record,     \* the record of the failed delivery
    stops,      \* times the process was stopped
    waited,     \* history: seconds this send has slept
    arrived,    \* history: copies of the message this send got through
    missed,     \* history: a route failed when the event was dispatched
    taken,      \* history: a route took the event in a replay
    cut         \* history: the calls that came to no end, or whose record was lost

loop == <<at, attempt, waited, arrived>>
run == <<event, call, loop, results>>
history == <<missed, taken, cut>>
vars == <<config, phase, run, record, stops, history>>

\* urls: the destinations whose webhook URL is set.
Configs == [source : Sources, disabled : Flags, urls : SUBSET {"discord", "slack"},
            strict : BOOLEAN]
NoConfig == [source |-> <<>>, disabled |-> {}, urls |-> {}, strict |-> FALSE]

NoRecord == [status |-> "none", attempts |-> 0]

-----------------------------------------------------------------------------
(* The table *)

\* load_routes: what cannot be parsed is no table, and the event goes to
\* Telegram alone.
LoadRoutes(source) ==
    IF source = Malformed THEN <<>>
    ELSE SelectSeq(source, LAMBDA entry : entry # Malformed)

\* An unknown name is enabled.
IsDestinationEnabled(c, name) == name \notin c.disabled

\* Telegram's token and chat are settings without a default.
IsConfigured(c, name) == name = "telegram" \/ name \in c.urls

\* The flags are left to the moment the destination is built.
ReadyMutant(c, name) == IsConfigured(c, name)

\* _destination_readiness: a name that is not built in is never ready.
Ready(c, name) ==
    /\ name \in Builtins
    /\ IsDestinationEnabled(c, name)
    /\ IsConfigured(c, name)

\* _validate_route_destination
Refuses(c) ==
    /\ c.strict
    /\ \E i \in DOMAIN LoadRoutes(c.source) :
          ~Ready(c, LoadRoutes(c.source)[i].destination)

\* The factories of bootstrap_builtin_destinations and of the plugins.
FactoryBuilds(c, name) == name \in Plugins \/ (name \in Builtins /\ IsConfigured(c, name))

\* _build_destination returns a destination.
Builds(c, name) == IsDestinationEnabled(c, name) /\ FactoryBuilds(c, name)

\* _extract_branch
Branch(e) ==
    IF e.event_type = "push" THEN e.ref
    ELSE IF e.base # None THEN e.base
    ELSE e.head

\* RouteFilter.matches
Matches(route, e) ==
    /\ route.event_type \in {None, e.event_type}
    /\ route.repo \in {None, e.repo}
    /\ route.branch \in {None, Branch(e)}

Table == LoadRoutes(config.source)
Route == Table[at]

-----------------------------------------------------------------------------
(* Startup and the calls of route_event *)

LoopStarts == at' = 1 /\ attempt' = 0 /\ waited' = 0 /\ arrived' = 0

\* _initialize_app_state: with settings that load_routes refuses, the process
\* does not come up.
Start(c) ==
    /\ phase = "off"
    /\ ~Refuses(c)
    /\ config' = c
    /\ phase' = "idle"
    /\ UNCHANGED <<run, record, stops, history>>

\* A call that is on comes to no end.
Breaks == cut' = cut \union ({call} \ {"none"})

\* The process ends, and a run in progress with it; the record is only left if it
\* is in Redis.
Stop ==
    /\ phase # "off"
    /\ stops < MaxStops
    /\ stops' = stops + 1
    /\ config' = NoConfig
    /\ phase' = "off"
    /\ call' = "none"
    /\ results' = <<>>
    /\ LoopStarts
    /\ \/ record' = record /\ Breaks
       \/ record' = NoRecord /\ cut' = {"dispatch", "replay"}
    /\ UNCHANGED <<event, missed, taken>>

Begin(caller) ==
    /\ phase = "idle"
    /\ phase' = "routing"
    /\ call' = caller
    /\ results' = <<>>
    /\ LoopStarts
    /\ UNCHANGED <<config, stops, history>>

Dispatch(e) ==
    /\ event = None
    /\ event' = e
    /\ Begin("dispatch")
    /\ UNCHANGED record

\* The limit is left to the outcome.
ReplayMutant ==
    /\ record.status = "failed"
    /\ record' = [record EXCEPT !.attempts = @ + 1]
    /\ Begin("replay")
    /\ UNCHANGED event

\* A replay counts before it runs; at the limit it only escalates.  Replays with
\* override, and the cooldown, are DeliveryPipeline's.
Replay ==
    /\ record.status = "failed"
    /\ UNCHANGED event
    /\ \/ /\ record.attempts < MaxAttempts
          /\ record' = [record EXCEPT !.attempts = @ + 1]
          /\ Begin("replay")
       \/ /\ record.attempts >= MaxAttempts
          /\ phase = "idle"
          /\ record' = [record EXCEPT !.status = "dead_letter"]
          /\ UNCHANGED <<config, phase, call, loop, results, stops, history>>

\* The record is only for events that nobody took.
AnyFailedMutant ==
    /\ \E i \in DOMAIN results : results[i].status = "failed"
    /\ ~\E i \in DOMAIN results : results[i].status = "sent"

AnyFailed == \E i \in DOMAIN results : results[i].status = "failed"

AnySent == \E i \in DOMAIN results : results[i].status = "sent"

\* The end of the loop, and what dispatch_webhook or _replay_delivery makes of
\* its results.
Return ==
    /\ phase = "routing"
    /\ at > Len(Table)
    /\ Table = <<>> => results # <<>>
    /\ phase' = "idle"
    /\ call' = "none"
    /\ record' =
          IF call = "dispatch"
          THEN IF AnyFailed THEN [status |-> "failed", attempts |-> 0] ELSE NoRecord
          ELSE [record EXCEPT !.status =
                  IF AnySent THEN "delivered"
                  ELSE IF record.attempts >= MaxAttempts THEN "dead_letter"
                  ELSE "failed"]
    /\ UNCHANGED <<config, event, results, loop, stops, history>>

-----------------------------------------------------------------------------
(* The loop of route_event *)

\* A failure ends the loop.
NextRouteMutant(status) ==
    /\ phase' = "routing"
    /\ at' = IF status = "failed" THEN Len(Table) + 1 ELSE at + 1
    /\ attempt' = 0
    /\ waited' = 0
    /\ arrived' = 0

NextRoute(status) ==
    /\ phase' = "routing"
    /\ at' = at + 1
    /\ attempt' = 0
    /\ waited' = 0
    /\ arrived' = 0

\* The send of the route in turn ends with n copies of the message.
Reports(status, retryable, n) ==
    /\ results' = Append(results, [route |-> at, status |-> status, retryable |-> retryable,
                                   attempts |-> attempt + 1, copies |-> n])
    /\ NextRoute(status)
    /\ missed' = (missed \/ (call = "dispatch" /\ status = "failed"))
    /\ taken' = (taken \/ (call = "replay" /\ status = "sent"))
    /\ UNCHANGED <<config, event, call, record, stops, cut>>

InLoop == phase = "routing" /\ at \in DOMAIN Table

Pass ==
    /\ InLoop
    /\ ~Matches(Route, event)
    /\ at' = at + 1
    /\ UNCHANGED <<config, phase, event, call, attempt, waited, arrived, results, record,
                   stops, history>>

Skip ==
    /\ InLoop
    /\ Matches(Route, event)
    /\ ~Builds(config, Route.destination)
    /\ Reports("skipped", FALSE, 0)

Sends == InLoop /\ Matches(Route, event) /\ Builds(config, Route.destination)

\* TelegramDestination.send and send_message, whose attempts are
\* TelegramClient's; without a table they are not subject to the flags.
SendTelegram ==
    /\ \/ Sends /\ Route.destination = "telegram"
       \/ phase = "routing" /\ Table = <<>> /\ results = <<>>
    /\ \/ Reports("sent", FALSE, 1)
       \/ \E n \in {0, 1} : Reports("failed", FALSE, n)

\* A plugin: it sends, raises DestinationError, or raises something else, which
\* nothing catches: then the call ends here and records nothing.
SendPlugin ==
    /\ Sends
    /\ Route.destination \in Plugins
    /\ \/ Reports("sent", FALSE, 1)
       \/ \E retryable \in BOOLEAN : Reports("failed", retryable, 0)
       \/ /\ phase' = "idle"
          /\ call' = "none"
          /\ Breaks
          /\ UNCHANGED <<config, event, loop, results, record, stops, missed, taken>>

-----------------------------------------------------------------------------
(* DiscordDestination and SlackDestination *)

\* The send of the HTTP destinations
Post ==
    /\ Sends
    /\ Route.destination \in {"discord", "slack"}
    /\ phase' = "posting"
    /\ UNCHANGED <<config, run, record, stops, history>>

\* _classify_http_status
Classify(code) ==
    IF code = 429 THEN "rate_limit"
    ELSE IF code \in {401, 403} THEN "auth"
    ELSE IF code \in {400, 404, 410, 413, 422} THEN "payload_invalid"
    ELSE IF code \in 500 .. 599 THEN "server"
    ELSE "http_error"

Retryable(code) == Classify(code) \in {"rate_limit", "server"}

\* An answer is an answer.
SucceededMutant(code) == code < 500

\* raise_for_status
Succeeded(code) == code \in 200 .. 299

\* _retry_after_seconds: Discord's own header comes before Retry-After.
DiscordRetryAfter(headers) == IF headers.reset > 0 THEN headers.reset ELSE headers.after
SlackRetryAfter(headers) == headers.after

\* What the server asks for is obeyed to the second.
RetryDelayMutant(asked) ==
    IF asked > 0 THEN asked
    ELSE IF BaseDelay * 2^attempt < MaxDelay THEN BaseDelay * 2^attempt ELSE MaxDelay

\* _retry_delay
RetryDelay(asked) ==
    LET delay == IF asked > 0 THEN asked ELSE BaseDelay * 2^attempt
    IN  IF delay < MaxDelay THEN delay ELSE MaxDelay

LastAttempt == attempt >= MaxRetries

\* What may still be tried again is, after a sleep.
RetryOrRaise(retryable, asked, n) ==
    IF retryable /\ ~LastAttempt
    THEN /\ phase' = "sleeping"
         /\ waited' = waited + RetryDelay(asked)
         /\ arrived' = arrived + n
         /\ UNCHANGED <<config, event, call, at, attempt, results, record, stops, history>>
    ELSE Reports("failed", retryable, arrived + n)

\* An attempt is answered.
Answered(code) ==
    /\ phase = "posting"
    /\ IF Succeeded(code)
       THEN Reports("sent", FALSE, arrived + (IF code \in 200 .. 299 THEN 1 ELSE 0))
       ELSE \E headers \in [reset : RetryAfters, after : RetryAfters] :
            \E n \in IF code \in 500 .. 599 THEN {0, 1} ELSE {0} :
                RetryOrRaise(Retryable(code),
                             IF Route.destination = "discord" THEN DiscordRetryAfter(headers)
                             ELSE SlackRetryAfter(headers), n)

\* An attempt ends in an error of the connection or a timeout, and may have got
\* through all the same.
Unanswered ==
    /\ phase = "posting"
    /\ \E n \in {0, 1} : RetryOrRaise(TRUE, 0, n)

\* A retry is a send of its own.
WakeMutant ==
    /\ phase = "sleeping"
    /\ phase' = "posting"
    /\ attempt' = 0
    /\ waited' = 0
    /\ arrived' = 0
    /\ UNCHANGED <<config, event, call, at, results, record, stops, history>>

Wake ==
    /\ phase = "sleeping"
    /\ phase' = "posting"
    /\ attempt' = attempt + 1
    /\ UNCHANGED <<config, event, call, at, waited, arrived, results, record, stops, history>>

-----------------------------------------------------------------------------
Init ==
    /\ config = NoConfig
    /\ phase = "off"
    /\ event = None
    /\ call = "none"
    /\ at = 1
    /\ attempt = 0
    /\ results = <<>>
    /\ record = NoRecord
    /\ stops = 0
    /\ waited = 0
    /\ arrived = 0
    /\ missed = FALSE
    /\ taken = FALSE
    /\ cut = {}

\* The steps of a run that has begun.
RunStep ==
    \/ Pass \/ Skip \/ SendTelegram \/ SendPlugin \/ Post \/ Return \/ Wake
    \/ Unanswered
    \/ \E code \in Codes : Answered(code)

Next ==
    \/ \E c \in Configs : Start(c)
    \/ Stop
    \/ \E e \in Events : Dispatch(e)
    \/ Replay
    \/ RunStep

Spec == Init /\ [][Next]_vars

\* The HTTP clients time out, asyncio.sleep returns, send_message ends
\* (TelegramClient), and plugins are taken to end too.
FairSpec == Spec /\ WF_vars(RunStep)

-----------------------------------------------------------------------------
(* Properties *)

Result == [route : Nat, status : {"sent", "failed", "skipped"}, retryable : BOOLEAN,
           attempts : Nat, copies : Nat]

\* The values every variable takes; the loop of a destination is bounded.
TypeOK ==
    /\ config \in Configs \union {NoConfig}
    /\ phase \in {"off", "idle", "routing", "posting", "sleeping"}
    /\ event \in Events \union {None}
    /\ call \in {"none", "dispatch", "replay"}
    /\ at = 1 \/ at - 1 \in DOMAIN Table \/ (Table = <<>> /\ at = 2)
    /\ attempt \in 0 .. MaxRetries
    /\ results \in Seq(Result)
    /\ record \in [status : {"none", "failed", "dead_letter", "delivered"},
                   attempts : 0 .. MaxAttempts]
    /\ stops \in 0 .. MaxStops
    /\ waited \in Nat
    /\ arrived \in Nat
    /\ missed \in BOOLEAN
    /\ taken \in BOOLEAN
    /\ cut \subseteq {"dispatch", "replay"}

\* routing.py:320-346: route_event reports every matching route that it has come
\* by once, in the order of the table: no failure that it catches, no retry and no
\* missing destination keeps the routes behind it from their turn.  A plugin's
\* other exception ends the call at its route: then the results, which nobody
\* gets, are those of the routes before it.
OneResultPerRoute ==
    Table # <<>> =>
        /\ {results[i].route : i \in DOMAIN results}
             = {i \in 1 .. at - 1 : Matches(Table[i], event)}
        /\ \A i, k \in DOMAIN results : i < k => results[i].route < results[k].route

\* discord.py:113-165: "sent" means that the destination has the message, and
\* there are no more copies than attempts.
SentIsAccepted ==
    \A i \in DOMAIN results :
        /\ results[i].status = "sent" => results[i].copies >= 1
        /\ results[i].status = "skipped" => results[i].copies = 0
        /\ results[i].copies <= results[i].attempts

\* discord.py:61-65, 111-152: a send of an HTTP destination that ends in a
\* retryable error has used up its attempts, no send makes more, and however long
\* a destination asks to wait, its sleeps, which hold up the routes behind it and
\* the answer to the webhook, are bounded.
SendIsBounded ==
    /\ waited <= MaxRetries * MaxDelay
    /\ \A i \in DOMAIN results :
          /\ results[i].attempts <= MaxRetries + 1
          /\ /\ results[i].retryable
             /\ Table[results[i].route].destination \in {"discord", "slack"}
             => results[i].attempts = MaxRetries + 1

\* routing.py:66-117, 221-248: what the validation at startup lets through can
\* be built when an event comes: with ROUTES_STRICT_VALIDATION no route is
\* skipped.
StrictNeverSkips ==
    config.strict => \A i \in DOMAIN results : results[i].status # "skipped"

\* webhook_dispatch.py:109-123, replay.py:127-160: the record tells how the event
\* fared.  A route that failed in the dispatch has left one, whatever the others
\* did; "delivered" means that a route took the event in a replay, and a replay
\* in which one did has said so; a dead letter has used up its attempts.  Excepted
\* are the calls that came to no end (a plugin's other exception, a stop of the
\* process) and records lost with the process that held them.
RecordIsTrue ==
    /\ missed /\ call # "dispatch" /\ "dispatch" \notin cut => record.status # "none"
    /\ record.status = "delivered" => taken
    /\ taken /\ call # "replay" /\ "replay" \notin cut => record.status = "delivered"
    /\ record.status = "dead_letter" => record.attempts >= MaxAttempts

\* routing.py:306-348: a run ends, whatever the destinations answer.
RunEnds == [](call # "none" => <>(call = "none"))
=============================================================================
