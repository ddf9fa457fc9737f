--------------------------- MODULE TelegramClient ---------------------------
(***************************************************************************)
(* send_message of app/services/tg_client.py: one pass through the breaker *)
(* and then a bounded loop of attempts against the Bot API.  The breaker   *)
(* is consulted once, before the loop, and told once, at its end; the      *)
(* sleeps between attempts are where other calls move it.  The Bot API is  *)
(* not under src/: an attempt ends with an acknowledgement, with a         *)
(* transient error (RetryAfter, TimedOut, NetworkError) or with any other  *)
(* exception, and a message whose acknowledgement was lost may have        *)
(* reached the chat all the same.                                          *)
(***************************************************************************)
EXTENDS Integers, FiniteSets

CONSTANTS
    Calls,         \* the calls of send_message; each is made once
    Threshold,     \* failure_threshold of telegram_circuit
    Timeout,       \* its OPEN window, in clock ticks
    HalfOpenMax,   \* its trial slots
    Retries        \* telegram_retries: attempts after the first one

ASSUME RetriesAssumption == Retries \in Nat

VARIABLES
    state, failureCount, sinceFailure, halfOpenInFlight, \* telegram_circuit
    trials, probes, losses,                              \* its history
    phase,      \* where each call is in send_message
    attempt,    \* the loop variable of each call
    copies      \* history: copies of the message that reached the chat

circuitVars == <<state, failureCount, sinceFailure, halfOpenInFlight,
                 trials, probes, losses>>
vars == <<state, failureCount, sinceFailure, halfOpenInFlight,
          trials, probes, losses, phase, attempt, copies>>

Phases == {"new", "refused", "sending", "sleeping", "sent", "error"}

\* A call as the breaker sees it: the retry loop is one long protected call.
CallState(p) ==
    CASE p \in {"sending", "sleeping"} -> "running"
      [] p = "sent" -> "ok"
      [] p = "error" -> "failed"
      [] OTHER -> p

Circuit == INSTANCE CircuitBreaker
             WITH pc <- [c \in Calls |-> CallState(phase[c])]

Init ==
    /\ state = "closed"
    /\ failureCount = 0
    /\ sinceFailure = Circuit!Never
    /\ halfOpenInFlight = 0
    /\ trials = {}
    /\ probes = {}
    /\ losses = 0
    /\ phase = [c \in Calls |-> "new"]
    /\ attempt = [c \in Calls |-> 0]
    /\ copies = [c \in Calls |-> 0]

Moves(c, from, to) ==
    /\ phase[c] = from
    /\ phase' = [phase EXCEPT ![c] = to]

\* Definitions named ...Mutant are faults of the one that follows them: each
\* breaks a property below, and no other definition uses it.

\* One attempt too many.
LastAttemptMutant(c) == attempt[c] > Retries

LastAttempt(c) == attempt[c] = Retries

\* The message reaches the chat, or does not, before an attempt fails.
MayArrive(c) ==
    \E n \in {0, 1} : copies' = [copies EXCEPT ![c] = @ + n]

-----------------------------------------------------------------------------
(* One action for each way an await of send_message ends.                  *)

Begin(c) ==
    /\ Moves(c, "new", "sending")
    /\ Circuit!Admit(c)
    /\ UNCHANGED <<attempt, copies>>

BreakerOpen(c) ==
    /\ Moves(c, "new", "refused")
    /\ Circuit!Refuse
    /\ UNCHANGED <<attempt, copies>>

Acknowledged(c) ==
    /\ Moves(c, "sending", "sent")
    /\ Circuit!RecordSuccess
    /\ copies' = [copies EXCEPT ![c] = @ + 1]
    /\ UNCHANGED attempt

\* The breaker is told of every attempt.
TransientErrorMutant(c) ==
    /\ ~LastAttempt(c)
    /\ Moves(c, "sending", "sleeping")
    /\ Circuit!RecordFailure
    /\ MayArrive(c)
    /\ UNCHANGED attempt

TransientError(c) ==
    /\ ~LastAttempt(c)
    /\ Moves(c, "sending", "sleeping")
    /\ MayArrive(c)
    /\ UNCHANGED <<circuitVars, attempt>>

\* The attempt that follows a sleep is not counted.
WakeMutant(c) ==
    /\ Moves(c, "sleeping", "sending")
    /\ UNCHANGED <<circuitVars, attempt, copies>>

Wake(c) ==
    /\ Moves(c, "sleeping", "sending")
    /\ attempt' = [attempt EXCEPT ![c] = @ + 1]
    /\ UNCHANGED <<circuitVars, copies>>

\* The loop runs out without raising, which the caller takes for success.
RetriesExhaustedMutant(c) ==
    /\ LastAttempt(c)
    /\ Moves(c, "sending", "sent")
    /\ Circuit!RecordFailure
    /\ MayArrive(c)
    /\ UNCHANGED attempt

RetriesExhausted(c) ==
    /\ LastAttempt(c)
    /\ Moves(c, "sending", "error")
    /\ Circuit!RecordFailure
    /\ MayArrive(c)
    /\ UNCHANGED attempt

\* An unexpected exception is raised past the breaker.
FatalErrorMutant(c) ==
    /\ Moves(c, "sending", "error")
    /\ UNCHANGED <<circuitVars, attempt, copies>>

FatalError(c) ==
    /\ Moves(c, "sending", "error")
    /\ Circuit!RecordFailure
    /\ UNCHANGED <<attempt, copies>>

Tick ==
    /\ sinceFailure # Circuit!Never
    /\ sinceFailure < Timeout
    /\ sinceFailure' = sinceFailure + 1
    /\ UNCHANGED <<state, failureCount, halfOpenInFlight, trials, probes, losses,
                   phase, attempt, copies>>

Answer(c) ==
    \/ Acknowledged(c)
    \/ TransientError(c)
    \/ RetriesExhausted(c)
    \/ FatalError(c)

Next ==
    \/ \E c \in Calls : Begin(c) \/ BreakerOpen(c) \/ Answer(c) \/ Wake(c)
    \/ Tick

\* The Bot client times its requests out, and asyncio.sleep returns.
Fairness ==
    /\ \A c \in Calls : WF_vars(Answer(c)) /\ WF_vars(Wake(c))
    /\ WF_vars(Tick)

Spec == Init /\ [][Next]_vars /\ Fairness

-----------------------------------------------------------------------------
(* Properties *)

\* The values of the client's own variables; the breaker's are typed by
\* the specification this module implements.
TypeOK ==
    /\ phase \in [Calls -> Phases]
    /\ attempt \in [Calls -> 0..Retries]
    /\ copies \in [Calls -> Nat]

\* send_message reports success only for a message that is in the chat, and
\* puts no more copies there than it made attempts; a call the breaker
\* refused, or that never began, put none.
CopiesAccounted ==
    \A c \in Calls :
        /\ phase[c] = "sent" => copies[c] >= 1
        /\ phase[c] \in {"new", "refused"} => copies[c] = 0
        /\ copies[c] <= attempt[c] + 1

\* send_message implements a call protected by the breaker: every call that
\* was let in records one result, however many attempts it made, and the
\* breaker moves on nothing else.
ImplementsBreaker == Circuit!SafetySpec

\* The bounded loop gives the breaker what its liveness needs: each call that
\* was let in reports back, and the clock runs.
FairToBreaker == Circuit!Fairness

\* A HALF_OPEN telegram_circuit is decided even when the trial call sleeps
\* between attempts.
TrialDecides == Circuit!HalfOpenResolves

\* An OPEN telegram_circuit reaches the end of its window, although calls let
\* in before it tripped fail late and restart the window.
WindowEnds == Circuit!OpenWindowEnds
=============================================================================
