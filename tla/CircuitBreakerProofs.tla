------------------------ MODULE CircuitBreakerProofs ------------------------
(***************************************************************************)
(* What CircuitBreaker guarantees for every set of calls, threshold,       *)
(* timeout and number of trial slots.                                      *)
(***************************************************************************)
EXTENDS CircuitBreaker, FiniteSetTheorems, TLAPS

\* One step per action; the lemmas below all split Next this way.
USE DEF Never

-----------------------------------------------------------------------------
\* Every variable keeps to its values: no operation of the breaker leaves
\* its state outside what the others expect.
THEOREM TypeCorrect == SafetySpec => []TypeOK
<1>1. Init => TypeOK
  BY TimeoutAssumption DEF Init, TypeOK
<1>2. TypeOK /\ [Next]_vars => TypeOK'
  <2> SUFFICES ASSUME TypeOK, [Next]_vars PROVE TypeOK'
    OBVIOUS
  <2> USE ThresholdAssumption, TimeoutAssumption, HalfOpenMaxAssumption DEF TypeOK
  <2>1. ASSUME NEW c \in Calls, Begin(c) PROVE TypeOK'
    BY <2>1 DEF Begin, Admit, PassClosed, AcquireHalfOpenSlot, SlotsTaken, breakerVars
  <2>2. ASSUME NEW c \in Calls, TurnAway(c) PROVE TypeOK'
    BY <2>2 DEF TurnAway, Refuse, breakerVars
  <2>3. ASSUME NEW c \in Calls, Succeed(c) PROVE TypeOK'
    BY <2>3 DEF Succeed, RecordSuccess, DecidesRecovery, OneFailureLess, Reset
  <2>4. ASSUME NEW c \in Calls, Fail(c) PROVE TypeOK'
    BY <2>4 DEF Fail, RecordFailure, Trip
  <2>5. CASE Tick
    BY <2>5 DEF Tick
  <2>6. CASE UNCHANGED vars
    BY <2>6 DEF vars
  <2> QED
    BY <2>1, <2>2, <2>3, <2>4, <2>5, <2>6 DEF Next
<1> QED
  BY <1>1, <1>2, PTL DEF SafetySpec

-----------------------------------------------------------------------------
\* The slot counter is a cardinality, so the invariant also says that the set
\* it counts is finite.
SlotInv == SlotAccounting /\ IsFiniteSet(trials)

\* The slot counter counts the running trial calls of the current window,
\* whatever stale answers of earlier windows arrive.
THEOREM SlotsAccounted == SafetySpec => []SlotAccounting
<1>1. Init => SlotInv
  BY FS_EmptySet, HalfOpenMaxAssumption DEF Init, SlotInv, SlotAccounting
<1>2. TypeOK /\ SlotInv /\ [Next]_vars => SlotInv'
  <2> SUFFICES ASSUME TypeOK, SlotInv, [Next]_vars PROVE SlotInv'
    OBVIOUS
  <2>e. IsFiniteSet({}) /\ Cardinality({}) = 0 /\ 0 <= HalfOpenMax
    BY FS_EmptySet, HalfOpenMaxAssumption
  <2>1. ASSUME NEW c \in Calls, Begin(c) PROVE SlotInv'
    <3>1. pc[c] = "new" /\ pc' = [pc EXCEPT ![c] = "running"]
      BY <2>1 DEF Begin
    <3>2. c \notin trials
      BY <3>1 DEF SlotInv, SlotAccounting, Running
    <3>3. CASE PassClosed
      BY <3>1, <3>3 DEF PassClosed, breakerVars, SlotInv, SlotAccounting, Running, TypeOK
    <3>4. CASE AcquireHalfOpenSlot(c)
      <4> DEFINE held == IF state = "half_open" THEN trials ELSE {}
      <4>1. IsFiniteSet(held) /\ Cardinality(held) = SlotsTaken /\ c \notin held
        BY <2>e, <3>2 DEF SlotInv, SlotAccounting, SlotsTaken
      <4>2. trials' = held \union {c}
        BY <3>4 DEF AcquireHalfOpenSlot
      <4>3. IsFiniteSet(trials') /\ Cardinality(trials') = SlotsTaken + 1
        BY <4>1, <4>2, FS_AddElement
      <4>4. halfOpenInFlight' = Cardinality(trials') /\ halfOpenInFlight' <= HalfOpenMax
        <5>1. SlotsTaken \in Nat
          BY DEF SlotsTaken, TypeOK
        <5> QED
          BY <3>4, <4>3, <5>1, HalfOpenMaxAssumption DEF AcquireHalfOpenSlot, SlotFree
      <4>5. state' = "half_open" /\ trials' # {}
        BY <3>4, <4>2 DEF AcquireHalfOpenSlot
      <4>6. held \subseteq {d \in Calls : Running(d)}
        BY DEF SlotInv, SlotAccounting
      <4>7. trials' \subseteq {d \in Calls : Running(d)'}
        BY <3>1, <4>2, <4>6 DEF Running, TypeOK
      <4> QED
        BY <4>3, <4>4, <4>5, <4>7 DEF SlotInv, SlotAccounting, Running
    <3> QED
      BY <2>1, <3>3, <3>4 DEF Begin, Admit
  <2>2. ASSUME NEW c \in Calls, TurnAway(c) PROVE SlotInv'
    BY <2>2 DEF TurnAway, Refuse, breakerVars, SlotInv, SlotAccounting, Running, TypeOK
  <2>3. ASSUME NEW c \in Calls, Succeed(c) PROVE SlotInv'
    <3>1. CASE state = "half_open"
      BY <2>3, <2>e, <3>1 DEF Succeed, RecordSuccess, DecidesRecovery, OneFailureLess, Reset, SlotInv, SlotAccounting
    <3>2. CASE state # "half_open"
      BY <2>3, <3>2 DEF Succeed, RecordSuccess, DecidesRecovery, OneFailureLess, SlotInv, SlotAccounting
    <3> QED
      BY <3>1, <3>2
  <2>4. ASSUME NEW c \in Calls, Fail(c) PROVE SlotInv'
    <3>1. CASE MustTrip
      BY <2>4, <2>e, <3>1 DEF Fail, RecordFailure, Trip, SlotInv, SlotAccounting
    <3>2. CASE ~MustTrip
      BY <2>4, <3>2 DEF Fail, RecordFailure, MustTrip, SlotInv, SlotAccounting
    <3> QED
      BY <3>1, <3>2
  <2>5. CASE Tick
    BY <2>5 DEF Tick, SlotInv, SlotAccounting, Running
  <2>6. CASE UNCHANGED vars
    BY <2>6 DEF vars, SlotInv, SlotAccounting, Running
  <2> QED
    BY <2>1, <2>2, <2>3, <2>4, <2>5, <2>6 DEF Next
<1>3. SlotInv => SlotAccounting
  BY DEF SlotInv
<1> QED
  BY <1>1, <1>2, <1>3, TypeCorrect, PTL DEF SafetySpec

-----------------------------------------------------------------------------
\* A CLOSED breaker has failures below the threshold, all of them recorded
\* since its last reset.
THEOREM ClosedIsBelowThreshold == SafetySpec => []ClosedBelowThreshold
<1>1. Init => ClosedBelowThreshold
  BY ThresholdAssumption DEF Init, ClosedBelowThreshold
<1>2. TypeOK /\ ClosedBelowThreshold /\ [Next]_vars => ClosedBelowThreshold'
  <2> SUFFICES ASSUME TypeOK, ClosedBelowThreshold, [Next]_vars
               PROVE  ClosedBelowThreshold'
    OBVIOUS
  <2> USE ThresholdAssumption DEF ClosedBelowThreshold, TypeOK
  <2>1. ASSUME NEW c \in Calls, Begin(c) PROVE ClosedBelowThreshold'
    BY <2>1 DEF Begin, Admit, PassClosed, AcquireHalfOpenSlot, breakerVars
  <2>2. ASSUME NEW c \in Calls, TurnAway(c) PROVE ClosedBelowThreshold'
    BY <2>2 DEF TurnAway, Refuse, breakerVars
  <2>3. ASSUME NEW c \in Calls, Succeed(c) PROVE ClosedBelowThreshold'
    BY <2>3 DEF Succeed, RecordSuccess, DecidesRecovery, OneFailureLess, Reset
  <2>4. ASSUME NEW c \in Calls, Fail(c) PROVE ClosedBelowThreshold'
    BY <2>4 DEF Fail, RecordFailure, Trip, MustTrip
  <2>5. CASE Tick
    BY <2>5 DEF Tick
  <2>6. CASE UNCHANGED vars
    BY <2>6 DEF vars
  <2> QED
    BY <2>1, <2>2, <2>3, <2>4, <2>5, <2>6 DEF Next
<1> QED
  BY <1>1, <1>2, TypeCorrect, PTL DEF SafetySpec

\* Only a threshold's worth of failures recorded since the breaker last closed
\* takes it out of CLOSED.
THEOREM TripsOnEvidence == SafetySpec => TripNeedsEvidence
<1>1. TypeOK /\ ClosedBelowThreshold /\ [Next]_vars
        => [state = "closed" /\ state' # "closed"
              => state' = "open" /\ losses' >= Threshold]_vars
  <2> SUFFICES ASSUME TypeOK, ClosedBelowThreshold, [Next]_vars,
                      state = "closed", state' # "closed"
               PROVE  state' = "open" /\ losses' >= Threshold
    OBVIOUS
  <2>1. ASSUME NEW c \in Calls, Fail(c) PROVE state' = "open" /\ losses' >= Threshold
    <3>1. MustTrip /\ failureCount + 1 >= Threshold
      BY <2>1 DEF Fail, RecordFailure, MustTrip
    <3>2. state' = "open" /\ losses' = losses + 1
      BY <2>1, <3>1 DEF Fail, RecordFailure, Trip
    <3> QED
      BY <3>1, <3>2, ThresholdAssumption DEF ClosedBelowThreshold, TypeOK
  <2>2. PICK c \in Calls : Fail(c)
    BY DEF Next, Begin, Admit, PassClosed, AcquireHalfOpenSlot, Probing, TurnAway,
           Refuse, Succeed, RecordSuccess, DecidesRecovery, OneFailureLess, Reset, Tick, breakerVars, vars
  <2> QED
    BY <2>1, <2>2
<1> QED
  BY <1>1, TypeCorrect, ClosedIsBelowThreshold, PTL DEF SafetySpec, TripNeedsEvidence

-----------------------------------------------------------------------------
\* A breaker that refuses calls always has a failure time to measure its
\* window from.
THEOREM OpenHasFailureTime == SafetySpec => []OpenIsTimed
<1>1. Init => OpenIsTimed
  BY DEF Init, OpenIsTimed
<1>2. TypeOK /\ OpenIsTimed /\ [Next]_vars => OpenIsTimed'
  BY DEF OpenIsTimed, TypeOK, Next, Begin, Admit, PassClosed, AcquireHalfOpenSlot,
         Probing, TurnAway, Refuse, Succeed, RecordSuccess, DecidesRecovery, OneFailureLess, Reset, Fail, RecordFailure,
         Trip, Tick, breakerVars, vars
<1> QED
  BY <1>1, <1>2, TypeCorrect, PTL DEF SafetySpec
=============================================================================
