------------------------- MODULE RoutedDeliveryProofs -------------------------
(***************************************************************************)
(* Every route is reported once and in truth, attempts and sleeps are      *)
(* bounded, tables that were validated never skip, and the record tells    *)
(* how the event fared: for every table, setting and answer.               *)
(***************************************************************************)
EXTENDS RoutedDelivery, TLAPS

-----------------------------------------------------------------------------
\* The values of the loop of a destination, of the results and of the record.
Types ==
    /\ phase \in {"off", "idle", "routing", "posting", "sleeping"}
    /\ call \in {"none", "dispatch", "replay"}
    /\ at \in Nat
    /\ attempt \in Nat
    /\ arrived \in Nat
    /\ results \in Seq(Result)
    /\ record \in [status : {"none", "failed", "dead_letter", "delivered"}, attempts : 0 .. MaxAttempts]
    /\ missed \in BOOLEAN
    /\ taken \in BOOLEAN
    /\ cut \subseteq {"dispatch", "replay"}

\* A send begins with nothing tried; an attempt under way has let nothing
\* through yet; a sleeper has an attempt left.
LoopInv ==
    /\ phase = "routing" => attempt = 0 /\ arrived = 0
    /\ phase = "posting" => /\ attempt <= MaxRetries
                            /\ arrived <= attempt
                            /\ Route.destination \in {"discord", "slack"}
    /\ phase = "sleeping" => /\ attempt < MaxRetries
                             /\ arrived <= attempt + 1
                             /\ Route.destination \in {"discord", "slack"}

\* A result tells the truth, and a retryable failure comes of all attempts.
TrueResult(res) ==
    /\ res.status = "sent" => res.copies >= 1
    /\ res.status = "skipped" => res.copies = 0 /\ ~config.strict
    /\ res.copies <= res.attempts
    /\ res.attempts <= MaxRetries + 1
    /\ res.retryable /\ Table[res.route].destination \in {"discord", "slack"}
          => res.attempts = MaxRetries + 1

\* Nothing is left of a run when the process is down, and what runs with strict
\* validation has passed it.
ProcessInv ==
    /\ phase = "off" => results = <<>>
    /\ config.strict => ~Refuses(config)

\* An event is dispatched once, and replayed only while its record is a failed one;
\* what the histories say of a call under way is in its results.
RecordInv ==
    /\ call = "none" <=> phase \in {"off", "idle"}
    /\ event = None => call = "none" /\ record.status = "none" /\ ~missed /\ ~taken
    /\ call = "dispatch" => /\ record.status = "none" /\ ~taken
                            /\ missed => AnyFailed
    /\ call = "replay" => /\ record.status = "failed"
                          /\ AnySent => taken
                          /\ taken /\ "replay" \notin cut => AnySent
    /\ RecordIsTrue

Inv ==
    /\ Types
    /\ LoopInv
    /\ \A i \in DOMAIN results : TrueResult(results[i])
    /\ ProcessInv
    /\ RecordInv

-----------------------------------------------------------------------------
LEMMA Bounds == {MaxRetries, BaseDelay, MaxDelay, MaxAttempts, MaxStops} \subseteq Nat
  BY BoundsAssumption

LEMMA InvInit == Init => Inv
<1> SUFFICES ASSUME Init PROVE Inv
  OBVIOUS
<1>1. results = <<>> /\ results \in Seq(Result) /\ DOMAIN results = {}
  BY DEF Init
<1>2. Types
  <2>1. NoRecord \in [status : {"none", "failed", "dead_letter", "delivered"},
                       attempts : 0 .. MaxAttempts]
    BY Bounds DEF NoRecord
  <2> QED
    BY <1>1, <2>1 DEF Init, Types
<1>3. LoopInv /\ ProcessInv
  BY DEF Init, LoopInv, ProcessInv, NoConfig
<1>4. RecordInv
  BY <1>1 DEF Init, RecordInv, RecordIsTrue, NoRecord
<1> QED
  BY <1>1, <1>2, <1>3, <1>4 DEF Inv

\* A step of no call, or inside one that reports nothing.
LEMMA RecordKept ==
    ASSUME RecordInv, UNCHANGED <<event, call, results, record, history>>,
           phase \in {"off", "idle"} <=> phase' \in {"off", "idle"}
    PROVE  RecordInv'
  BY DEF RecordInv, RecordIsTrue, AnyFailed, AnySent, history

\* A call that comes to no end, with the record left or lost.
LEMMA BrokenKeeps ==
    ASSUME RecordInv, call \in {"none", "dispatch", "replay"},
           phase' \in {"off", "idle"}, call' = "none", UNCHANGED <<event, missed, taken>>,
           \/ record' = record /\ Breaks
           \/ record' = NoRecord /\ cut' = {"dispatch", "replay"}
    PROVE  RecordInv'
<1>1. CASE record' = record /\ Breaks
  BY <1>1 DEF RecordInv, RecordIsTrue, Breaks
<1>2. CASE record' = NoRecord /\ cut' = {"dispatch", "replay"}
  BY <1>2 DEF RecordInv, RecordIsTrue, NoRecord
<1> QED
  BY <1>1, <1>2

\* What is ready at startup can be built when an event comes.
LEMMA ReadyBuilds ==
    ASSUME NEW c, NEW name, Ready(c, name)
    PROVE  Builds(c, name)
  BY DEF Ready, Builds, FactoryBuilds

\* The end of a send adds one result, and the loop goes on to the next route.
LEMMA ReportsKeeps ==
    ASSUME Inv, NEW status \in {"sent", "failed", "skipped"}, NEW retryable \in BOOLEAN,
           NEW n \in Nat,
           TrueResult([route |-> at, status |-> status, retryable |-> retryable,
                       attempts |-> attempt + 1, copies |-> n]),
           Reports(status, retryable, n), phase \in {"routing", "posting"}
    PROVE  Inv'
<1> DEFINE new == [route |-> at, status |-> status, retryable |-> retryable,
                   attempts |-> attempt + 1, copies |-> n]
<1>1. /\ results' = Append(results, new)
      /\ phase' = "routing" /\ attempt' = 0 /\ arrived' = 0
      /\ UNCHANGED <<config, event, call, record, cut>>
      /\ missed' = (missed \/ (call = "dispatch" /\ status = "failed"))
      /\ taken' = (taken \/ (call = "replay" /\ status = "sent"))
  BY DEF Reports, NextRoute
<1>2. new \in Result
  BY DEF Inv, Types, Result
<1>3. Types'
  <2>1. results' \in Seq(Result)
    <3> HIDE DEF new
    <3> QED
      BY <1>1, <1>2 DEF Inv, Types
  <2>2. at' \in Nat
    BY DEF Inv, Types, Reports, NextRoute
  <2> QED
    BY <1>1, <2>1, <2>2 DEF Inv, Types
<1>4. (\A i \in DOMAIN results : TrueResult(results[i]))'
  <2> SUFFICES ASSUME NEW i \in DOMAIN results' PROVE (TrueResult(results[i]))'
    OBVIOUS
  <2>1. results'[i] = new \/ (i \in DOMAIN results /\ results'[i] = results[i])
    <3> HIDE DEF new
    <3> QED
      BY <1>1, <1>2 DEF Inv, Types
  <2>2. CASE results'[i] = new
    BY <1>1, <2>2 DEF TrueResult, Table
  <2>3. CASE i \in DOMAIN results /\ results'[i] = results[i]
    <3>1. TrueResult(results[i])
      BY <2>3 DEF Inv
    <3> QED
      BY <1>1, <2>3, <3>1 DEF TrueResult, Table
  <2> QED
    BY <2>1, <2>2, <2>3
<1>5. LoopInv' /\ ProcessInv'
  BY <1>1 DEF Inv, LoopInv, ProcessInv
<1>6. RecordInv'
  <2>1. /\ AnyFailed' <=> AnyFailed \/ status = "failed"
        /\ AnySent' <=> AnySent \/ status = "sent"
    <3>1. new.status = status
      OBVIOUS
    <3>2. /\ DOMAIN results' = 1 .. Len(results) + 1 /\ DOMAIN results = 1 .. Len(results)
          /\ Len(results) \in Nat
          /\ \A i \in DOMAIN results : results'[i] = results[i]
          /\ results'[Len(results) + 1] = new
      <4> HIDE DEF new
      <4> QED
        BY <1>1, <1>2 DEF Inv, Types
    <3> HIDE DEF new
    <3> QED
      BY <3>1, <3>2 DEF AnyFailed, AnySent
  <2>2. RecordInv
    BY DEF Inv
  <2>3. call # "none" /\ phase' \notin {"off", "idle"}
    BY <1>1, <2>2 DEF RecordInv
  <2>4. missed \in BOOLEAN /\ taken \in BOOLEAN
    BY DEF Inv, Types
  <2> QED
    BY <1>1, <2>1, <2>2, <2>3, <2>4 DEF RecordInv, RecordIsTrue
<1> QED
  BY <1>3, <1>4, <1>5, <1>6 DEF Inv

\* A step that leaves the settings and the results alone keeps what they say.
LEMMA ResultsKept ==
    ASSUME Inv, UNCHANGED <<config, results>>
    PROVE  (\A i \in DOMAIN results : TrueResult(results[i]))'
<1> SUFFICES ASSUME NEW i \in DOMAIN results
             PROVE  (TrueResult(results[i]))'
  OBVIOUS
<1>1. TrueResult(results[i])
  BY DEF Inv
<1> QED
  BY <1>1 DEF TrueResult, Table

\* A run begins with no result and nothing tried.
LEMMA BeginKeeps ==
    ASSUME Inv, NEW caller \in {"dispatch", "replay"}, Begin(caller), RecordInv',
           record' \in [status : {"none", "failed", "dead_letter", "delivered"},
                        attempts : 0 .. MaxAttempts]
    PROVE  Inv'
<1>1. /\ phase' = "routing" /\ at' = 1 /\ attempt' = 0 /\ arrived' = 0
      /\ results' = <<>> /\ results' \in Seq(Result) /\ DOMAIN results' = {}
      /\ call' = caller
      /\ UNCHANGED <<config, missed, taken, cut>>
  BY DEF Begin, LoopStarts, history
<1>2. Types'
  BY <1>1 DEF Inv, Types
<1>3. (\A i \in DOMAIN results : TrueResult(results[i]))'
  BY <1>1
<1>4. LoopInv' /\ ProcessInv'
  BY <1>1 DEF Inv, LoopInv, ProcessInv
<1> QED
  BY <1>2, <1>3, <1>4 DEF Inv

\* An attempt that may be retried is, or its failure is reported.
LEMMA RetryOrRaiseKeeps ==
    ASSUME Inv, phase = "posting", NEW retryable \in BOOLEAN, NEW asked, NEW n \in {0, 1},
           RetryOrRaise(retryable, asked, n)
    PROVE  Inv'
<1>1. /\ at \in Nat /\ attempt \in Nat /\ arrived \in Nat /\ MaxRetries \in Nat
      /\ attempt <= MaxRetries /\ arrived <= attempt
      /\ Route.destination \in {"discord", "slack"}
  BY BoundsAssumption DEF Inv, Types, LoopInv
<1>2. CASE retryable /\ ~LastAttempt
  <2>1. /\ phase' = "sleeping" /\ arrived' = arrived + n
        /\ UNCHANGED <<config, event, call, at, attempt, results, record, history>>
    BY <1>2 DEF RetryOrRaise
  <2>2. attempt < MaxRetries
    BY <1>1, <1>2 DEF LastAttempt
  <2>3. Types'
    BY <1>1, <2>1 DEF Inv, Types, history
  <2>4. LoopInv'
    BY <1>1, <2>1, <2>2 DEF LoopInv, Route, Table
  <2>5. ProcessInv' /\ RecordInv'
    BY <2>1, RecordKept DEF Inv, ProcessInv
  <2> QED
    BY <2>1, <2>3, <2>4, <2>5, ResultsKept DEF Inv
<1>3. CASE ~(retryable /\ ~LastAttempt)
  <2>1. Reports("failed", retryable, arrived + n)
    BY <1>3 DEF RetryOrRaise
  <2>2. retryable => attempt = MaxRetries
    BY <1>1, <1>3 DEF LastAttempt
  <2>3. TrueResult([route |-> at, status |-> "failed", retryable |-> retryable,
                    attempts |-> attempt + 1, copies |-> arrived + n])
    BY <1>1, <2>2 DEF TrueResult
  <2> QED
    BY <1>1, <2>1, <2>3, ReportsKeeps
<1> QED
  BY <1>2, <1>3

-----------------------------------------------------------------------------
LEMMA InvNext == Inv /\ [Next]_vars => Inv'
<1> SUFFICES ASSUME Inv, [Next]_vars PROVE Inv'
  OBVIOUS
<1>a. MaxRetries \in Nat
  BY BoundsAssumption
<1>b. phase = "routing" => at \in Nat /\ attempt = 0 /\ arrived = 0
  BY DEF Inv, Types, LoopInv
<1>1. CASE UNCHANGED vars
  <2>1. Types' /\ LoopInv' /\ ProcessInv' /\ RecordInv'
    BY <1>1, RecordKept
       DEF Inv, Types, LoopInv, ProcessInv, vars, run, loop, history, Route, Table
  <2> QED
    BY <1>1, <2>1, ResultsKept DEF Inv, vars, run
<1>2. ASSUME NEW c \in Configs, Start(c) PROVE Inv'
  <2>1. /\ phase' = "idle" /\ config' = c /\ results' = <<>> /\ DOMAIN results' = {}
        /\ UNCHANGED <<event, call, at, attempt, arrived, results, record, history>>
        /\ phase = "off"
    BY <1>2 DEF Start, run, loop, Inv, ProcessInv
  <2>2. Types' /\ LoopInv' /\ RecordInv'
    BY <2>1, RecordKept DEF Inv, Types, LoopInv, history
  <2>3. ProcessInv'
    BY <1>2, <2>1 DEF Start, ProcessInv
  <2> QED
    BY <2>1, <2>2, <2>3 DEF Inv
<1>3. CASE Stop
  <2>1. /\ phase' = "off" /\ config' = NoConfig /\ call' = "none" /\ results' = <<>>
        /\ results' \in Seq(Result) /\ DOMAIN results' = {}
        /\ at' = 1 /\ attempt' = 0 /\ arrived' = 0
        /\ UNCHANGED <<event, missed, taken>>
        /\ \/ record' = record /\ Breaks
           \/ record' = NoRecord /\ cut' = {"dispatch", "replay"}
    BY <1>3 DEF Stop, LoopStarts
  <2>2. NoRecord \in [status : {"none", "failed", "dead_letter", "delivered"},
                       attempts : 0 .. MaxAttempts]
    BY Bounds DEF NoRecord
  <2>3. Types' /\ LoopInv' /\ ProcessInv'
    BY <2>1, <2>2 DEF Inv, Types, LoopInv, ProcessInv, NoConfig, Breaks
  <2>4. RecordInv'
    BY <2>1, BrokenKeeps DEF Inv, Types
  <2> QED
    BY <2>1, <2>3, <2>4 DEF Inv
<1>4. ASSUME NEW e \in Events, Dispatch(e) PROVE Inv'
  <2>1. Begin("dispatch") /\ record' = record
    BY <1>4 DEF Dispatch
  <2>2. RecordInv'
    BY <1>4, <2>1, NamesAssumption
       DEF Dispatch, Begin, Inv, RecordInv, RecordIsTrue, history
  <2>3. record' \in [status : {"none", "failed", "dead_letter", "delivered"},
                     attempts : 0 .. MaxAttempts]
    BY <2>1 DEF Inv, Types
  <2> QED
    BY <2>2, <2>1, <2>3, BeginKeeps
<1>5. CASE Replay
  <2>1. record \in [status : {"none", "failed", "dead_letter", "delivered"},
                    attempts : 0 .. MaxAttempts]
    BY DEF Inv, Types
  <2>2. CASE /\ Begin("replay") /\ record.attempts < MaxAttempts
             /\ record' = [record EXCEPT !.attempts = @ + 1]
    <3>1. record' \in [status : {"none", "failed", "dead_letter", "delivered"},
                       attempts : 0 .. MaxAttempts]
          /\ record'.status = record.status
      BY <2>1, <2>2, Bounds
    <3>2. RecordInv'
      BY <1>5, <2>2, <3>1
         DEF Replay, Begin, Inv, RecordInv, RecordIsTrue, AnyFailed, AnySent, history
    <3> QED
      BY <2>2, <3>1, <3>2, BeginKeeps
  <2>3. CASE /\ record' = [record EXCEPT !.status = "dead_letter"]
             /\ record.attempts >= MaxAttempts
             /\ phase = "idle"
             /\ UNCHANGED <<config, phase, event, call, loop, results, stops, history>>
    <3>1. /\ record' \in [status : {"none", "failed", "dead_letter", "delivered"},
                           attempts : 0 .. MaxAttempts]
          /\ record'.status = "dead_letter" /\ record'.attempts >= MaxAttempts
      BY <2>1, <2>3
    <3>2. Types' /\ LoopInv' /\ ProcessInv'
      BY <2>3, <3>1 DEF loop, history, Inv, Types, LoopInv, ProcessInv, Route, Table
    <3>3. RecordInv'
      BY <1>5, <2>3, <3>1 DEF Replay, Inv, RecordInv, RecordIsTrue, history
    <3> QED
      BY <2>3, <3>2, <3>3, ResultsKept DEF Inv
  <2> QED
    BY <1>5, <2>2, <2>3 DEF Replay
<1>6. CASE Return
  <2>1. /\ phase = "routing" /\ phase' = "idle" /\ call' = "none"
        /\ UNCHANGED <<config, event, at, attempt, arrived, results, missed, taken, cut>>
    BY <1>6 DEF Return, loop, history
  <2>2. record \in [status : {"none", "failed", "dead_letter", "delivered"},
                    attempts : 0 .. MaxAttempts]
    BY DEF Inv, Types
  <2>3. ASSUME call = "dispatch"
        PROVE  /\ record' \in [status : {"none", "failed", "dead_letter", "delivered"},
                                 attempts : 0 .. MaxAttempts]
               /\ RecordInv'
    <3>1. record' = IF AnyFailed THEN [status |-> "failed", attempts |-> 0] ELSE NoRecord
      BY <1>6, <2>3 DEF Return
    <3>2. /\ record' \in [status : {"none", "failed", "dead_letter", "delivered"},
                           attempts : 0 .. MaxAttempts]
          /\ record'.status = IF AnyFailed THEN "failed" ELSE "none"
      BY <3>1, Bounds DEF NoRecord
    <3> QED
      BY <2>1, <2>3, <3>2 DEF Inv, RecordInv, RecordIsTrue
  <2>4. ASSUME call = "replay"
        PROVE  /\ record' \in [status : {"none", "failed", "dead_letter", "delivered"},
                                 attempts : 0 .. MaxAttempts]
               /\ RecordInv'
    <3> DEFINE status == IF AnySent THEN "delivered"
                         ELSE IF record.attempts >= MaxAttempts THEN "dead_letter"
                         ELSE "failed"
    <3>1. record' = [record EXCEPT !.status = status]
      BY <1>6, <2>4 DEF Return
    <3>2. status \in {"failed", "dead_letter", "delivered"}
      OBVIOUS
    <3>3. /\ record' \in [status : {"none", "failed", "dead_letter", "delivered"},
                           attempts : 0 .. MaxAttempts]
          /\ record'.status = status /\ record'.attempts = record.attempts
      <4> HIDE DEF status
      <4> QED
        BY <2>2, <3>1, <3>2
    <3>4. /\ record'.status = "delivered" <=> AnySent
          /\ record'.status = "dead_letter" => record'.attempts >= MaxAttempts
          /\ record'.status # "none"
      BY <3>3
    <3> QED
      BY <2>1, <2>4, <3>3, <3>4 DEF Inv, RecordInv, RecordIsTrue
  <2>5. call \in {"dispatch", "replay"}
    <3>1. RecordInv /\ call \in {"none", "dispatch", "replay"}
      BY DEF Inv, Types
    <3> QED
      BY <2>1, <3>1 DEF RecordInv
  <2>6. LoopInv' /\ ProcessInv'
    BY <2>1 DEF Inv, LoopInv, ProcessInv
  <2>7. Types'
    BY <2>1, <2>3, <2>4, <2>5 DEF Inv, Types
  <2>8. RecordInv'
    BY <2>3, <2>4, <2>5
  <2> QED
    BY <2>1, <2>6, <2>7, <2>8, ResultsKept DEF Inv
<1>7. CASE Pass
  <2>1. /\ phase = "routing" /\ at' = at + 1
        /\ UNCHANGED <<config, phase, event, call, attempt, arrived, results, record, history>>
    BY <1>7 DEF Pass, InLoop
  <2>2. Types' /\ LoopInv' /\ ProcessInv' /\ RecordInv'
    BY <2>1, RecordKept DEF Inv, Types, LoopInv, ProcessInv, history
  <2> QED
    BY <2>1, <2>2, ResultsKept DEF Inv
<1>8. CASE Skip
  <2>1. /\ phase = "routing" /\ Reports("skipped", FALSE, 0)
        /\ at \in DOMAIN Table /\ ~Builds(config, Route.destination)
    BY <1>8 DEF Skip, InLoop
  <2>2. ~config.strict
    BY <2>1, ReadyBuilds DEF Inv, ProcessInv, Refuses, Route, Table
  <2>3. TrueResult([route |-> at, status |-> "skipped", retryable |-> FALSE,
                    attempts |-> attempt + 1, copies |-> 0])
    BY <1>a, <1>b, <2>1, <2>2 DEF TrueResult
  <2> QED
    BY <2>1, <2>3, ReportsKeeps
<1>9. CASE SendTelegram
  <2>1. phase = "routing"
    BY <1>9 DEF SendTelegram, Sends, InLoop
  <2>2. PICK status \in {"sent", "failed"}, n \in {0, 1} :
            Reports(status, FALSE, n) /\ (status = "sent" => n = 1)
    BY <1>9 DEF SendTelegram
  <2>3. TrueResult([route |-> at, status |-> status, retryable |-> FALSE,
                    attempts |-> attempt + 1, copies |-> n])
    BY <1>a, <1>b, <2>1, <2>2 DEF TrueResult
  <2> QED
    BY <2>1, <2>2, <2>3, ReportsKeeps
<1>10. CASE SendPlugin
  <2>1. phase = "routing" /\ Route.destination \notin {"discord", "slack"}
    BY <1>10, NamesAssumption DEF SendPlugin, Sends, InLoop, Builtins
  <2>2. CASE Reports("sent", FALSE, 1)
    <3>1. TrueResult([route |-> at, status |-> "sent", retryable |-> FALSE,
                      attempts |-> attempt + 1, copies |-> 1])
      BY <1>a, <1>b, <2>1 DEF TrueResult
    <3> QED
      BY <2>1, <2>2, <3>1, ReportsKeeps
  <2>3. ASSUME NEW retryable \in BOOLEAN, Reports("failed", retryable, 0) PROVE Inv'
    <3>1. TrueResult([route |-> at, status |-> "failed", retryable |-> retryable,
                      attempts |-> attempt + 1, copies |-> 0])
      BY <1>a, <1>b, <2>1 DEF TrueResult, Route
    <3> QED
      BY <2>1, <2>3, <3>1, ReportsKeeps
  <2>4. CASE /\ phase' = "idle"
             /\ call' = "none"
             /\ Breaks
             /\ UNCHANGED <<config, event, loop, results, record, stops, missed, taken>>
    <3>1. Types' /\ LoopInv' /\ ProcessInv'
      BY <2>1, <2>4 DEF loop, Inv, Types, LoopInv, ProcessInv, Breaks
    <3>2. RecordInv'
      BY <2>4, BrokenKeeps DEF Inv, Types
    <3> QED
      BY <2>4, <3>1, <3>2, ResultsKept DEF Inv
  <2> QED
    BY <1>10, <2>2, <2>3, <2>4 DEF SendPlugin
<1>11. CASE Post
  <2>1. /\ phase = "routing" /\ phase' = "posting"
        /\ Route.destination \in {"discord", "slack"}
        /\ UNCHANGED <<config, event, call, at, attempt, arrived, results, record, history>>
    BY <1>11 DEF Post, Sends, InLoop, run, loop
  <2>2. Types' /\ ProcessInv' /\ RecordInv'
    BY <2>1, RecordKept DEF Inv, Types, ProcessInv, history
  <2>3. LoopInv'
    BY <1>a, <1>b, <2>1 DEF LoopInv, Route, Table
  <2> QED
    BY <2>1, <2>2, <2>3, ResultsKept DEF Inv
<1>12. CASE Wake
  <2>1. /\ phase = "sleeping" /\ phase' = "posting" /\ attempt' = attempt + 1
        /\ UNCHANGED <<config, event, call, at, arrived, results, record, history>>
    BY <1>12 DEF Wake
  <2>2. Types' /\ ProcessInv' /\ RecordInv'
    BY <2>1, RecordKept DEF Inv, Types, ProcessInv, history
  <2>3. LoopInv'
    BY <1>a, <2>1 DEF Inv, Types, LoopInv, Route, Table
  <2> QED
    BY <2>1, <2>2, <2>3, ResultsKept DEF Inv
<1>13. CASE Unanswered
  <2>1. phase = "posting" /\ \E n \in {0, 1} : RetryOrRaise(TRUE, 0, n)
    BY <1>13 DEF Unanswered
  <2> QED
    BY <2>1, RetryOrRaiseKeeps
<1>14. ASSUME NEW code \in Codes, Answered(code) PROVE Inv'
  <2>1. /\ phase = "posting" /\ at \in Nat /\ attempt \in Nat /\ arrived \in Nat
        /\ attempt <= MaxRetries /\ arrived <= attempt
    BY <1>14 DEF Answered, Inv, Types, LoopInv
  <2>2. CASE Succeeded(code)
    <3>1. Reports("sent", FALSE, arrived + 1)
      BY <1>14, <2>2 DEF Answered, Succeeded
    <3>2. TrueResult([route |-> at, status |-> "sent", retryable |-> FALSE,
                      attempts |-> attempt + 1, copies |-> arrived + 1])
      BY <1>a, <2>1 DEF TrueResult
    <3>3. arrived + 1 \in Nat
      BY <2>1
    <3> QED
      BY <2>1, <3>1, <3>2, <3>3, ReportsKeeps
  <2>3. CASE ~Succeeded(code)
    <3>1. Retryable(code) \in BOOLEAN
      BY DEF Retryable
    <3>2. PICK asked : \E n \in {0, 1} : RetryOrRaise(Retryable(code), asked, n)
      BY <1>14, <2>3 DEF Answered
    <3>3. PICK n \in {0, 1} : RetryOrRaise(Retryable(code), asked, n)
      BY <3>2
    <3> QED
      BY <2>1, <3>1, <3>3, RetryOrRaiseKeeps
  <2> QED
    BY <2>2, <2>3
<1> QED
  BY <1>1, <1>2, <1>3, <1>4, <1>5, <1>6, <1>7, <1>8, <1>9, <1>10, <1>11, <1>12, <1>13, <1>14
     DEF Next, RunStep

\* The invariant of every run of every event.
THEOREM Invariance == Spec => []Inv
  BY InvInit, InvNext, PTL DEF Spec

-----------------------------------------------------------------------------
(* Position, order and sleeps: what is left once the results are true       *)

\* The route in turn is one that the event matches.
Matched == at \in DOMAIN Table /\ Matches(Route, event)

\* A run that ends, or does not begin.
Ends ==
    /\ phase \in {"idle", "routing"}
    /\ phase' = "idle"
    /\ call' \in {call, "none"}
    /\ UNCHANGED <<config, event, loop, results, stops>>

\* A send that ends.
Finishes ==
    /\ \E status \in {"sent", "failed", "skipped"}, retryable \in BOOLEAN, n \in Nat :
          Reports(status, retryable, n)
    /\ \/ phase = "posting"
       \/ phase = "routing" /\ (Matched \/ (Table = <<>> /\ results = <<>>))

\* A send that will be tried again.
Sleeps ==
    /\ phase = "posting"
    /\ phase' = "sleeping"
    /\ attempt < MaxRetries
    /\ \E asked \in Nat : waited' = waited + RetryDelay(asked)
    /\ UNCHANGED <<config, event, call, at, attempt, results, stops>>

LEMMA RetryOrRaiseSteps ==
    ASSUME Inv, phase = "posting", NEW retryable \in BOOLEAN, NEW asked \in Nat,
           NEW n \in {0, 1}, RetryOrRaise(retryable, asked, n)
    PROVE  Finishes \/ Sleeps
<1>1. /\ attempt \in Nat /\ arrived \in Nat /\ MaxRetries \in Nat
  BY Bounds DEF Inv, Types
<1>2. CASE retryable /\ ~LastAttempt
  <2>1. attempt < MaxRetries
    BY <1>1, <1>2 DEF LastAttempt
  <2> QED
    BY <1>2, <2>1 DEF RetryOrRaise, Sleeps
<1>3. CASE ~(retryable /\ ~LastAttempt)
  <2>1. Reports("failed", retryable, arrived + n) /\ arrived + n \in Nat
    BY <1>1, <1>3 DEF RetryOrRaise
  <2> QED
    BY <2>1 DEF Finishes
<1> QED
  BY <1>2, <1>3

LEMMA FinishesAppends ==
    ASSUME Inv, Finishes
    PROVE  \E new \in Result : results' = Append(results, new) /\ new.route = at
<1>1. PICK status \in {"sent", "failed", "skipped"}, retryable \in BOOLEAN, n \in Nat :
          Reports(status, retryable, n)
  BY DEF Finishes
<1> DEFINE new == [route |-> at, status |-> status, retryable |-> retryable,
                   attempts |-> attempt + 1, copies |-> n]
<1>2. results' = Append(results, new) /\ new.route = at
  BY <1>1 DEF Reports
<1>3. new \in Result
  BY DEF Inv, Types, Result
<1> HIDE DEF new
<1> QED
  BY <1>2, <1>3

\* What a step does to the position of the loop.
LEMMA Steps ==
    ASSUME Inv, [Next]_vars
    PROVE  \/ UNCHANGED vars
           \/ \E c \in Configs : Start(c)
           \/ Stop
           \/ /\ \E caller \in {"dispatch", "replay"} : Begin(caller)
              /\ event' = event \/ event' \in Events
           \/ Ends
           \/ Pass
           \/ Finishes
           \/ Post
           \/ Wake
           \/ Sleeps
<1>1. CASE \E e \in Events : Dispatch(e)
  BY <1>1 DEF Dispatch
<1>2. CASE Replay
  BY <1>2 DEF Replay, Ends
<1>3. CASE Return
  BY <1>3 DEF Return, Ends
<1>4. CASE Skip
  <2>1. Reports("skipped", FALSE, 0) /\ phase = "routing" /\ Matched
    BY <1>4 DEF Skip, InLoop, Matched
  <2> QED
    BY <2>1 DEF Finishes
<1>5. CASE SendTelegram
  <2>1. phase = "routing" /\ (Matched \/ (Table = <<>> /\ results = <<>>))
    BY <1>5 DEF SendTelegram, Sends, InLoop, Matched
  <2>2. \E status \in {"sent", "failed"}, n \in {0, 1} : Reports(status, FALSE, n)
    BY <1>5 DEF SendTelegram
  <2> QED
    BY <2>1, <2>2 DEF Finishes
<1>6. CASE SendPlugin
  <2>1. phase = "routing" /\ Matched
    BY <1>6 DEF SendPlugin, Sends, InLoop, Matched
  <2>2. \/ \E status \in {"sent", "failed"}, retryable \in BOOLEAN, n \in {0, 1} :
              Reports(status, retryable, n)
        \/ /\ phase' = "idle" /\ call' = "none"
           /\ UNCHANGED <<config, event, loop, results, stops>>
    BY <1>6 DEF SendPlugin
  <2> QED
    BY <2>1, <2>2 DEF Finishes, Ends
<1>7. CASE Unanswered
  BY <1>7, RetryOrRaiseSteps DEF Unanswered
<1>8. ASSUME NEW code \in Codes, Answered(code) PROVE Finishes \/ Sleeps
  <2>1. phase = "posting" /\ arrived \in Nat
    BY <1>8 DEF Answered, Inv, Types
  <2>2. CASE Succeeded(code)
    <3>1. Reports("sent", FALSE, arrived + 1)
      BY <1>8, <2>2 DEF Answered, Succeeded
    <3>2. arrived + 1 \in Nat
      BY <2>1
    <3> QED
      BY <2>1, <3>1, <3>2 DEF Finishes
  <2>3. CASE ~Succeeded(code)
    <3>1. PICK headers \in [reset : RetryAfters, after : RetryAfters] :
              \E n \in {0, 1} :
                  RetryOrRaise(Retryable(code),
                               IF Route.destination = "discord" THEN DiscordRetryAfter(headers)
                               ELSE SlackRetryAfter(headers), n)
      BY <1>8, <2>3 DEF Answered
    <3>2. (IF Route.destination = "discord" THEN DiscordRetryAfter(headers)
           ELSE SlackRetryAfter(headers)) \in Nat
      BY AnswersAssumption DEF DiscordRetryAfter, SlackRetryAfter
    <3>3. Retryable(code) \in BOOLEAN
      BY DEF Retryable
    <3> QED
      BY <2>1, <3>1, <3>2, <3>3, RetryOrRaiseSteps
  <2> QED
    BY <2>2, <2>3
<1> QED
  BY <1>1, <1>2, <1>3, <1>4, <1>5, <1>6, <1>7, <1>8 DEF Next, RunStep

\* The settings and the event, as long as they stand.
SettingsInv ==
    /\ config \in Configs \union {NoConfig}
    /\ event \in Events \union {None}
    /\ call \in {"none", "dispatch", "replay"}
    /\ stops \in 0 .. MaxStops

\* The loop is at a route, behind the last one, or behind the only send there is
\* without a table; a send under way is of a route that the event matches.
PositionInv ==
    /\ at \in Nat \ {0}
    /\ at = 1 \/ at - 1 \in DOMAIN Table \/ (Table = <<>> /\ at = 2)
    /\ phase = "off" => at = 1 /\ call = "none"
    /\ Table = <<>> /\ results = <<>> => at = 1
    /\ phase \in {"posting", "sleeping"} => Matched

\* A sleep is never longer than the limit; a sleeper has just added one.
SleepInv ==
    /\ waited \in Nat
    /\ phase \in {"off", "idle", "routing"} => attempt = 0 /\ waited = 0
    /\ phase = "posting" => waited <= attempt * MaxDelay
    /\ phase = "sleeping" => waited <= (attempt + 1) * MaxDelay

ProgressInv == Inv /\ SettingsInv /\ PositionInv /\ SleepInv /\ OneResultPerRoute

LEMMA ProgressInit == Init => ProgressInv
<1> SUFFICES ASSUME Init PROVE ProgressInv
  OBVIOUS
<1>1. SettingsInv
  BY Bounds DEF Init, SettingsInv
<1>2. PositionInv /\ OneResultPerRoute
  BY DEF Init, PositionInv, OneResultPerRoute
<1>3. SleepInv
  BY DEF Init, SleepInv
<1> QED
  BY <1>1, <1>2, <1>3, InvInit DEF ProgressInv

LEMMA SettingsNext == Inv /\ SettingsInv /\ [Next]_vars => SettingsInv'
<1> SUFFICES ASSUME Inv, SettingsInv, [Next]_vars PROVE SettingsInv'
  OBVIOUS
<1>1. CASE Stop
  BY <1>1, Bounds DEF Stop, SettingsInv
<1>2. CASE ~Stop
  <2>1. UNCHANGED stops
    BY <1>2, Steps DEF Start, Begin, Ends, Pass, Finishes, Reports, Post, Wake, Sleeps, vars
  <2>2. /\ config' \in Configs \union {NoConfig}
        /\ event' \in Events \union {None}
        /\ call' \in {"none", "dispatch", "replay"}
    BY <1>2, Steps DEF SettingsInv, Start, Begin, Ends, Pass, Finishes, Reports, Post, Wake,
                       Sleeps, vars, run
  <2> QED
    BY <2>1, <2>2 DEF SettingsInv
<1> QED
  BY <1>1, <1>2

LEMMA PositionNext == Inv /\ PositionInv /\ [Next]_vars => PositionInv'
<1> SUFFICES ASSUME Inv, PositionInv, [Next]_vars PROVE PositionInv'
  OBVIOUS
<1>1. ASSUME UNCHANGED <<config, event, at, results>>, phase' # "off",
             phase' \in {"posting", "sleeping"} => Matched
      PROVE  PositionInv'
  BY <1>1 DEF PositionInv, Matched, Route, Table
<1>2. CASE UNCHANGED vars
  BY <1>2 DEF PositionInv, Matched, Route, Table, vars, run, loop
<1>3. ASSUME NEW c \in Configs, Start(c) PROVE PositionInv'
  BY <1>3 DEF Start, PositionInv, run, loop
<1>4. CASE Stop \/ \E caller \in {"dispatch", "replay"} : Begin(caller)
  BY <1>4 DEF Stop, Begin, LoopStarts, PositionInv
<1>5. CASE Ends \/ Post \/ Wake \/ Sleeps
  BY <1>1, <1>5 DEF Ends, Post, Sends, InLoop, Wake, Sleeps, PositionInv, Matched, run, loop
<1>6. CASE Pass \/ Finishes
  <2>1. at' = at + 1 /\ phase' = "routing" /\ UNCHANGED config
    BY <1>6 DEF Pass, InLoop, Finishes, Reports, NextRoute
  <2>2. at \in DOMAIN Table \/ (Table = <<>> /\ results = <<>> /\ results' # <<>>)
    <3>1. CASE Pass
      BY <3>1 DEF Pass, InLoop
    <3>2. CASE Finishes
      <4>1. PICK new \in Result : results' = Append(results, new)
        BY <3>2, FinishesAppends
      <4>2. results' # <<>>
        BY <4>1 DEF Inv, Types
      <4> QED
        BY <3>2, <4>2 DEF Finishes, PositionInv, Matched
    <3> QED
      BY <1>6, <3>1, <3>2
  <2>3. DOMAIN <<>> = {}
    OBVIOUS
  <2>4. at' \in Nat \ {0} /\ at' - 1 = at
    BY <2>1 DEF PositionInv
  <2>5. CASE at \in DOMAIN Table
    <3>1. Table' = Table /\ Table # <<>>
      BY <2>1, <2>3, <2>5 DEF Table
    <3> QED
      BY <2>1, <2>4, <2>5, <3>1 DEF PositionInv
  <2>6. CASE Table = <<>> /\ results = <<>> /\ results' # <<>>
    <3>1. at' = 2 /\ Table' = <<>>
      BY <2>1, <2>6 DEF PositionInv, Table
    <3> QED
      BY <2>1, <2>6, <3>1 DEF PositionInv
  <2> QED
    BY <2>2, <2>5, <2>6
<1> QED
  BY <1>2, <1>3, <1>4, <1>5, <1>6, Steps

\* However long a destination asks to wait, and however often it was tried.
LEMMA DelayBounded ==
    ASSUME NEW asked \in Nat, attempt \in 0 .. MaxRetries
    PROVE  RetryDelay(asked) \in 0 .. MaxDelay
<1>1. BaseDelay \in Nat /\ MaxDelay \in Nat /\ 2^attempt \in Nat
  BY Bounds, PowersAssumption
<1>2. BaseDelay * 2^attempt \in Nat
  BY <1>1
<1> DEFINE delay == IF asked > 0 THEN asked ELSE BaseDelay * 2^attempt
<1>3. delay \in Nat
  BY <1>2
<1>4. RetryDelay(asked) = IF delay < MaxDelay THEN delay ELSE MaxDelay
  BY DEF RetryDelay
<1> HIDE DEF delay
<1> QED
  BY <1>1, <1>3, <1>4

LEMMA SleepNext == Inv /\ SleepInv /\ [Next]_vars => SleepInv'
<1> SUFFICES ASSUME Inv, SleepInv, [Next]_vars PROVE SleepInv'
  OBVIOUS
<1>1. /\ MaxDelay \in Nat /\ MaxRetries \in Nat /\ attempt \in Nat /\ waited \in Nat
      /\ phase \in {"off", "idle", "routing", "posting", "sleeping"}
  BY Bounds DEF Inv, Types, SleepInv
<1>2. CASE UNCHANGED vars
  BY <1>2 DEF SleepInv, vars, run, loop
<1>3. CASE Stop \/ \E caller \in {"dispatch", "replay"} : Begin(caller)
  BY <1>3 DEF Stop, Begin, LoopStarts, SleepInv
<1>4. CASE Ends \/ \E c \in Configs : Start(c)
  BY <1>4 DEF Ends, Start, SleepInv, run, loop
<1>5. CASE Pass
  BY <1>5 DEF Pass, InLoop, SleepInv
<1>6. CASE Finishes
  BY <1>6 DEF Finishes, Reports, NextRoute, SleepInv
<1>7. CASE Post
  <2>1. phase' = "posting" /\ waited' = 0 /\ attempt' = 0
    BY <1>7 DEF Post, Sends, InLoop, run, loop, SleepInv
  <2> QED
    BY <1>1, <2>1 DEF SleepInv
<1>8. CASE Wake
  <2>1. /\ phase = "sleeping" /\ phase' = "posting" /\ waited' = waited /\ attempt' = attempt + 1
        /\ waited <= (attempt + 1) * MaxDelay
    BY <1>8 DEF Wake, SleepInv
  <2> QED
    BY <1>1, <2>1 DEF SleepInv
<1>9. CASE Sleeps
  <2>1. PICK asked \in Nat : waited' = waited + RetryDelay(asked)
    BY <1>9 DEF Sleeps
  <2>2. /\ phase = "posting" /\ phase' = "sleeping" /\ attempt' = attempt /\ attempt < MaxRetries
        /\ waited <= attempt * MaxDelay
    BY <1>9 DEF Sleeps, SleepInv
  <2>3. RetryDelay(asked) \in 0 .. MaxDelay
    BY <1>1, <2>2, DelayBounded
  <2>4. (attempt + 1) * MaxDelay = attempt * MaxDelay + MaxDelay /\ attempt * MaxDelay \in Nat
    BY <1>1
  <2>5. waited' \in Nat /\ waited' <= attempt * MaxDelay + MaxDelay
    BY <1>1, <2>1, <2>2, <2>3, <2>4
  <2> QED
    BY <2>2, <2>4, <2>5 DEF SleepInv
<1> QED
  BY <1>2, <1>3, <1>4, <1>5, <1>6, <1>7, <1>8, <1>9, Steps

LEMMA OrderNext ==
    Inv /\ PositionInv /\ OneResultPerRoute /\ [Next]_vars => OneResultPerRoute'
<1> SUFFICES ASSUME Inv, PositionInv, OneResultPerRoute, [Next]_vars, Table' # <<>>
             PROVE  /\ {results'[i].route : i \in DOMAIN results'}
                         = {i \in 1 .. at' - 1 : Matches(Table'[i], event')}
                    /\ \A i, k \in DOMAIN results' : i < k => results'[i].route < results'[k].route
  BY DEF OneResultPerRoute
<1>1. results \in Seq(Result) /\ at \in Nat \ {0}
  BY DEF Inv, Types, PositionInv
<1>2. ASSUME UNCHANGED <<config, event, at, results>>
      PROVE  /\ {results'[i].route : i \in DOMAIN results'}
                  = {i \in 1 .. at' - 1 : Matches(Table'[i], event')}
             /\ \A i, k \in DOMAIN results' : i < k => results'[i].route < results'[k].route
  BY <1>2 DEF OneResultPerRoute, Table
<1>3. CASE Ends \/ Post \/ Wake \/ Sleeps \/ UNCHANGED vars
  BY <1>2, <1>3 DEF Ends, Post, Wake, Sleeps, vars, run, loop
<1>4. ASSUME NEW c \in Configs, Start(c)
      PROVE  /\ {results'[i].route : i \in DOMAIN results'}
                  = {i \in 1 .. at' - 1 : Matches(Table'[i], event')}
             /\ \A i, k \in DOMAIN results' : i < k => results'[i].route < results'[k].route
  <2>1. at' = 1 /\ results' = <<>>
    BY <1>4 DEF Start, Inv, ProcessInv, PositionInv, run, loop
  <2> QED
    BY <2>1
<1>5. CASE Stop \/ \E caller \in {"dispatch", "replay"} : Begin(caller)
  BY <1>5 DEF Stop, Begin, LoopStarts
<1>6. CASE Pass \/ Finishes
  <2>1. /\ at' = at + 1 /\ UNCHANGED <<config, event, call>> /\ Table' = Table
    BY <1>6 DEF Pass, Finishes, Reports, NextRoute, Table
  <2>2. /\ {results[i].route : i \in DOMAIN results} = {i \in 1 .. at - 1 : Matches(Table[i], event)}
        /\ \A i, k \in DOMAIN results : i < k => results[i].route < results[k].route
    BY <2>1 DEF OneResultPerRoute
  <2>3. CASE Pass
    <3>1. results' = results /\ ~Matches(Table[at], event)
      BY <2>3 DEF Pass, Route
    <3>2. {i \in 1 .. at : Matches(Table[i], event)} = {i \in 1 .. at - 1 : Matches(Table[i], event)}
      BY <1>1, <3>1
    <3> QED
      BY <1>1, <2>1, <2>2, <3>1, <3>2
  <2>4. CASE Finishes
    <3>1. Matches(Table[at], event)
      BY <2>1, <2>4 DEF Finishes, PositionInv, Matched, Route
    <3>2. PICK new \in Result : results' = Append(results, new) /\ new.route = at
      BY <2>4, FinishesAppends
    <3>3. /\ DOMAIN results = 1 .. Len(results) /\ Len(results) \in Nat
          /\ DOMAIN results' = 1 .. Len(results) + 1
          /\ \A i \in DOMAIN results : results'[i] = results[i] /\ results[i].route \in Nat
          /\ results'[Len(results) + 1] = new
      <4>1. ASSUME NEW i \in DOMAIN results PROVE results[i].route \in Nat
        <5>1. results[i] \in Result
          BY <1>1
        <5> QED
          BY <5>1 DEF Result
      <4>2. DOMAIN results = 1 .. Len(results) /\ Len(results) \in Nat
        BY <1>1
      <4>3. results' \in Seq(Result) /\ Len(results') = Len(results) + 1
        BY <1>1, <3>2
      <4>4. DOMAIN results' = 1 .. Len(results) + 1
        BY <4>3
      <4>5. \A i \in 1 .. Len(results) : results'[i] = results[i]
        BY <1>1, <3>2
      <4>6. results'[Len(results) + 1] = new
        BY <1>1, <3>2
      <4> QED
        BY <4>1, <4>2, <4>4, <4>5, <4>6
    <3>4. \A i \in DOMAIN results : results[i].route < at
      BY <1>1, <2>2, <3>3
    <3>5. {i \in 1 .. at : Matches(Table[i], event)}
            = {i \in 1 .. at - 1 : Matches(Table[i], event)} \union {at}
      BY <1>1, <3>1
    <3>6. {results'[i].route : i \in DOMAIN results'}
            = {results[i].route : i \in DOMAIN results} \union {at}
      BY <3>2, <3>3
    <3>7. at' - 1 = at
      BY <1>1, <2>1
    <3>8. ASSUME NEW i \in DOMAIN results', NEW k \in DOMAIN results', i < k
          PROVE  results'[i].route < results'[k].route
      <4>1. i \in DOMAIN results
        BY <3>3, <3>8
      <4>2. CASE k \in DOMAIN results
        BY <2>2, <3>3, <3>8, <4>1, <4>2
      <4>3. CASE k = Len(results) + 1
        BY <3>2, <3>3, <3>4, <4>1, <4>3
      <4> QED
        BY <3>3, <4>2, <4>3
    <3> QED
      BY <2>1, <2>2, <3>5, <3>6, <3>7, <3>8
  <2> QED
    BY <1>6, <2>3, <2>4
<1> QED
  BY <1>3, <1>4, <1>5, <1>6, Steps

\* The invariant of every run, with the position of its loop.
THEOREM Progress == Spec => []ProgressInv
<1>1. ProgressInv /\ [Next]_vars => ProgressInv'
  BY InvNext, SettingsNext, PositionNext, SleepNext, OrderNext DEF ProgressInv
<1> QED
  BY <1>1, ProgressInit, PTL DEF Spec

\* The values every variable takes, in any run with any table.
THEOREM TypeCorrect == Spec => []TypeOK
<1>1. ASSUME ProgressInv PROVE attempt \in 0 .. MaxRetries
  BY <1>1, Bounds DEF ProgressInv, Inv, Types, LoopInv, SleepInv
<1>2. ProgressInv => TypeOK
  <2> SUFFICES ASSUME ProgressInv PROVE TypeOK
    OBVIOUS
  <2>1. attempt \in 0 .. MaxRetries /\ waited \in Nat
    BY <1>1 DEF ProgressInv, SleepInv
  <2>2. SettingsInv /\ Types
    BY DEF ProgressInv, Inv
  <2>3. at = 1 \/ at - 1 \in DOMAIN Table \/ (Table = <<>> /\ at = 2)
    BY DEF ProgressInv, PositionInv
  <2> QED
    BY <2>1, <2>2, <2>3 DEF SettingsInv, Types, TypeOK
<1> QED
  BY <1>2, Progress, PTL

-----------------------------------------------------------------------------
\* discord.py:113-165: "sent" means that the destination has the message, and
\* there are no more copies than attempts.
THEOREM ReportsAreTrue == Spec => []SentIsAccepted
<1>1. Inv => SentIsAccepted
  BY DEF Inv, TrueResult, SentIsAccepted
<1> QED
  BY <1>1, Invariance, PTL

LEMMA Multiples ==
    ASSUME NEW m \in Nat, NEW n \in Nat, NEW d \in Nat, m <= n
    PROVE  m * d <= n * d
<1>1. n * d = m * d + (n - m) * d
  OBVIOUS
<1>2. n - m \in Nat /\ m * d \in Nat
  OBVIOUS
<1>3. (n - m) * d \in Nat
  BY <1>2
<1> QED
  BY <1>1, <1>2, <1>3

\* discord.py:61-65, 111-152: no send makes more attempts than the settings
\* allow, a send of an HTTP destination that ends in a retryable error has made
\* them all, and the sleeps between them are bounded whatever the destination
\* asks for.
THEOREM SendsAreBounded == Spec => []SendIsBounded
<1>1. ASSUME Inv, SleepInv PROVE waited <= MaxRetries * MaxDelay
  <2>1. /\ MaxDelay \in Nat /\ MaxRetries \in Nat /\ attempt \in Nat /\ waited \in Nat
        /\ phase \in {"off", "idle", "routing", "posting", "sleeping"}
    BY <1>1, Bounds DEF Inv, Types, SleepInv
  <2>2. PICK m \in Nat : m <= MaxRetries /\ waited <= m * MaxDelay
    <3>1. CASE phase \in {"off", "idle", "routing"}
      BY <1>1, <2>1, <3>1 DEF SleepInv
    <3>2. CASE phase = "posting"
      BY <1>1, <2>1, <3>2 DEF SleepInv, Inv, LoopInv
    <3>3. CASE phase = "sleeping"
      <4>1. attempt + 1 \in Nat /\ attempt + 1 <= MaxRetries
        BY <1>1, <2>1, <3>3 DEF Inv, LoopInv
      <4> QED
        BY <1>1, <3>3, <4>1 DEF SleepInv
    <3> QED
      BY <2>1, <3>1, <3>2, <3>3
  <2>3. m * MaxDelay <= MaxRetries * MaxDelay /\ m * MaxDelay \in Nat
        /\ MaxRetries * MaxDelay \in Nat
    BY <2>1, <2>2, Multiples
  <2> QED
    BY <2>1, <2>2, <2>3
<1>2. ProgressInv => SendIsBounded
  BY <1>1 DEF ProgressInv, Inv, TrueResult, SendIsBounded
<1> QED
  BY <1>2, Progress, PTL

\* routing.py:320-346: every matching route that the call has come by is reported
\* once, in the order of the table; a call that a plugin's other exception ends
\* comes no further than that plugin's route.
THEOREM EveryRouteReported == Spec => []OneResultPerRoute
<1>1. ProgressInv => OneResultPerRoute
  BY DEF ProgressInv
<1> QED
  BY <1>1, Progress, PTL

\* routing.py:66-117, 221-248: a table that passed the validation at startup
\* never makes a route be skipped.
THEOREM ValidationSuffices == Spec => []StrictNeverSkips
<1>1. Inv => StrictNeverSkips
  BY DEF Inv, TrueResult, StrictNeverSkips
<1> QED
  BY <1>1, Invariance, PTL

\* webhook_dispatch.py:109-123, replay.py:127-160: when the calls have come to
\* their end and the record was not lost with its process, a failed route has left
\* a record, and it says "delivered" exactly if a route took the event in a replay.
THEOREM RecordTellsTheTruth == Spec => []RecordIsTrue
<1>1. Inv => RecordInv
  BY DEF Inv
<1>2. RecordInv => RecordIsTrue
  BY DEF RecordInv
<1> QED
  BY <1>1, <1>2, Invariance, PTL
=============================================================================
