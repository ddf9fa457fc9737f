--------------------------- MODULE CircuitBreaker ---------------------------
(***************************************************************************)
(* The process-wide circuit breaker of app/infra/circuit_breaker.py and    *)
(* the calls its decorator wraps.  Every method of the breaker runs under  *)
(* one lock, so each is one step; what the lock does not cover is the time *)
(* between can_execute() and the record_success() or record_failure() of   *)
(* the same call, during which other calls move the breaker.               *)
(***************************************************************************)
EXTENDS Integers, FiniteSets

CONSTANTS
    Calls,        \* the protected calls; each is made once
    Threshold,    \* failure_threshold: recorded failures that trip the breaker
    Timeout,      \* length of the OPEN window, in clock ticks
    HalfOpenMax   \* half_open_max_calls: trial slots of a HALF_OPEN window

ASSUME ThresholdAssumption == Threshold \in Nat \ {0}
ASSUME TimeoutAssumption == Timeout \in Nat
ASSUME HalfOpenMaxAssumption == HalfOpenMax \in Nat \ {0}

VARIABLES
    state,              \* _state
    failureCount,       \* _failure_count
    sinceFailure,       \* clock ticks since _last_failure_time, Never for None
    halfOpenInFlight,   \* _half_open_in_flight
    pc,                 \* where each call is
    trials,             \* history: the calls that took a slot of this window
    probes,             \* history: the calls that ever took a slot
    losses              \* history: failures recorded since the last reset

breakerVars == <<state, failureCount, sinceFailure, halfOpenInFlight>>
vars == <<state, failureCount, sinceFailure, halfOpenInFlight,
          pc, trials, probes, losses>>

Never == -1

Init ==
    /\ state = "closed"
    /\ failureCount = 0
    /\ sinceFailure = Never
    /\ halfOpenInFlight = 0
    /\ pc = [c \in Calls |-> "new"]
    /\ trials = {}
    /\ probes = {}
    /\ losses = 0

Running(c) == pc[c] = "running"

-----------------------------------------------------------------------------
(* can_execute *)

TimeoutElapsed == sinceFailure # Never /\ sinceFailure >= Timeout

Probing == state = "half_open" \/ (state = "open" /\ TimeoutElapsed)

\* A transition out of OPEN starts a window with every slot free.
SlotsTaken == IF state = "half_open" THEN halfOpenInFlight ELSE 0

SlotFree == SlotsTaken < HalfOpenMax

AcquireHalfOpenSlot(c) ==
    /\ Probing
    /\ SlotFree
    /\ state' = "half_open"
    /\ halfOpenInFlight' = SlotsTaken + 1
    /\ trials' = (IF state = "half_open" THEN trials ELSE {}) \union {c}
    /\ probes' = probes \union {c}
    /\ UNCHANGED <<failureCount, sinceFailure, losses>>

PassClosed ==
    /\ state = "closed"
    /\ UNCHANGED <<breakerVars, trials, probes, losses>>

Admit(c) == PassClosed \/ AcquireHalfOpenSlot(c)

\* A refusal leaves the breaker as it found it: an elapsed OPEN window always
\* has a free slot, so only an admission moves OPEN to HALF_OPEN.
Refuse ==
    /\ state # "closed"
    /\ ~(Probing /\ SlotFree)
    /\ UNCHANGED <<breakerVars, trials, probes, losses>>

-----------------------------------------------------------------------------
(* record_success and record_failure.  Definitions named ...Mutant are     *)
(* faults of the one that follows them: each breaks a property below, and  *)
(* no other definition uses it.                                            *)

\* The slots of the failed window stay taken.
TripSlotsMutant ==
    /\ state' = "open"
    /\ sinceFailure' = 0
    /\ trials' = {}
    /\ UNCHANGED halfOpenInFlight

\* The time of the failure is not kept.
TripTimeMutant ==
    /\ state' = "open"
    /\ sinceFailure' = Never
    /\ halfOpenInFlight' = 0
    /\ trials' = {}

Trip ==
    /\ state' = "open"
    /\ sinceFailure' = 0
    /\ halfOpenInFlight' = 0
    /\ trials' = {}

\* The failures of the outage are not forgotten.
ResetMutant ==
    /\ state' = "closed"
    /\ sinceFailure' = Never
    /\ halfOpenInFlight' = 0
    /\ trials' = {}
    /\ losses' = 0
    /\ UNCHANGED failureCount

Reset ==
    /\ state' = "closed"
    /\ failureCount' = 0
    /\ sinceFailure' = Never
    /\ halfOpenInFlight' = 0
    /\ trials' = {}
    /\ losses' = 0

\* Without max(0, ...).
OneFailureLessMutant == failureCount - 1

OneFailureLess == IF failureCount > 0 THEN failureCount - 1 ELSE 0

DecidesRecovery == state = "half_open"

RecordSuccess ==
    /\ IF DecidesRecovery
         THEN Reset
         ELSE /\ failureCount' = OneFailureLess
              /\ UNCHANGED <<state, sinceFailure, halfOpenInFlight, trials, losses>>
    /\ UNCHANGED probes

\* One failure more than the threshold.
MustTripMutant == state = "half_open" \/ failureCount + 1 > Threshold

MustTrip == state = "half_open" \/ failureCount + 1 >= Threshold

RecordFailure ==
    /\ failureCount' = failureCount + 1
    /\ IF MustTrip
         THEN Trip
         ELSE UNCHANGED <<state, sinceFailure, halfOpenInFlight, trials>>
    /\ losses' = losses + 1
    /\ UNCHANGED probes

-----------------------------------------------------------------------------
(* A wrapped call: can_execute, the awaited function, then the record.     *)

Begin(c) ==
    /\ pc[c] = "new"
    /\ Admit(c)
    /\ pc' = [pc EXCEPT ![c] = "running"]

TurnAway(c) ==
    /\ pc[c] = "new"
    /\ Refuse
    /\ pc' = [pc EXCEPT ![c] = "refused"]

Succeed(c) ==
    /\ Running(c)
    /\ RecordSuccess
    /\ pc' = [pc EXCEPT ![c] = "ok"]

Fail(c) ==
    /\ Running(c)
    /\ RecordFailure
    /\ pc' = [pc EXCEPT ![c] = "failed"]

\* The clock; beyond Timeout the age of a failure makes no difference.
Tick ==
    /\ sinceFailure # Never
    /\ sinceFailure < Timeout
    /\ sinceFailure' = sinceFailure + 1
    /\ UNCHANGED <<state, failureCount, halfOpenInFlight, pc, trials, probes, losses>>

Next ==
    \/ \E c \in Calls : Begin(c) \/ TurnAway(c) \/ Succeed(c) \/ Fail(c)
    \/ Tick

\* A call that was admitted ends, and time passes.  No caller need arrive.
Fairness ==
    /\ \A c \in Calls : WF_vars(Succeed(c) \/ Fail(c))
    /\ WF_vars(Tick)

SafetySpec == Init /\ [][Next]_vars

Spec == SafetySpec /\ Fairness

-----------------------------------------------------------------------------
(* Properties *)

\* The values every variable takes.
TypeOK ==
    /\ state \in {"closed", "open", "half_open"}
    /\ failureCount \in Nat
    /\ sinceFailure \in {Never} \union 0..Timeout
    /\ halfOpenInFlight \in Nat
    /\ pc \in [Calls -> {"new", "running", "refused", "ok", "failed"}]
    /\ trials \subseteq Calls
    /\ probes \subseteq Calls
    /\ losses \in Nat

\* The slot counter counts the trial calls of the current HALF_OPEN window,
\* all of them still running, at least one and never more than allowed;
\* outside a window it is zero.  A counter that drifts from the calls it
\* counts leaves the breaker refusing everybody for ever, or nobody.
SlotAccounting ==
    /\ halfOpenInFlight = Cardinality(trials)
    /\ halfOpenInFlight <= HalfOpenMax
    /\ (state = "half_open") <=> (trials # {})
    /\ trials \subseteq {c \in Calls : Running(c)}

\* A CLOSED breaker holds fewer failures than trip it, and no more of them
\* than were recorded since the last reset: what tripped an earlier window is
\* forgotten once a trial call closes the breaker.
ClosedBelowThreshold ==
    state = "closed" => /\ failureCount < Threshold
                        /\ failureCount <= losses

\* An OPEN or HALF_OPEN breaker always has a last_failure_time: without one
\* _try_transition_to_half_open returns False for ever.
OpenIsTimed == state # "closed" => sinceFailure # Never

\* A breaker leaves CLOSED only on a threshold's worth of failures recorded
\* since it last closed, however calls of earlier windows interleave.
TripNeedsEvidence ==
    [][state = "closed" /\ state' # "closed"
         => state' = "open" /\ losses' >= Threshold]_vars

\* A HALF_OPEN window is decided: the breaker cannot sit on taken slots.
HalfOpenResolves == state = "half_open" ~> state # "half_open"

\* An OPEN breaker comes to the end of its window, late failures that
\* restart it included.
OpenWindowEnds == state = "open" ~> (state # "open" \/ TimeoutElapsed)

\* circuit_breaker.py:131, "HALF_OPEN: strictly limited trial requests": the
\* trial calls that are running in a HALF_OPEN breaker are never more than
\* half_open_max_calls.
TrialLimit ==
    state = "half_open" =>
        Cardinality({c \in probes : Running(c)}) <= HalfOpenMax

\* circuit_breaker.py:30-32, "transitions to HALF_OPEN to allow a limited
\* number of probe calls and determine whether the downstream service
\* recovered": the success that closes the breaker is a probe call's.
OnlyTrialsClose ==
    [][state = "half_open" /\ state' = "closed"
         => \E c \in trials : pc'[c] = "ok"]_vars
=============================================================================
