------------------------ MODULE TelegramClientProofs ------------------------
(***************************************************************************)
(* send_message keeps its books and implements a call under the circuit    *)
(* breaker, for every set of calls and every number of retries.            *)
(***************************************************************************)
EXTENDS TelegramClient, TLAPS

-----------------------------------------------------------------------------
\* What is known of one call between two steps: an attempt under way has not
\* been counted among the copies yet, and a sleeper has an attempt left.
CallInv(c) ==
    /\ phase[c] \in {"new", "refused"} => copies[c] = 0
    /\ phase[c] = "sending" => copies[c] <= attempt[c]
    /\ phase[c] = "sleeping" => attempt[c] < Retries
    /\ phase[c] = "sent" => copies[c] >= 1
    /\ copies[c] <= attempt[c] + 1

Inv == TypeOK /\ \A c \in Calls : CallInv(c)

LEMMA InvInit == Init => Inv
  BY RetriesAssumption DEF Init, Inv, CallInv, TypeOK, Phases

LEMMA InvStep == Inv /\ [Next]_vars => Inv'
<1> SUFFICES ASSUME Inv, [Next]_vars PROVE Inv'
  OBVIOUS
<1> USE RetriesAssumption DEF Inv, CallInv, TypeOK, Phases, Moves
<1>1. ASSUME NEW c \in Calls, Begin(c) \/ BreakerOpen(c) PROVE Inv'
  BY <1>1 DEF Begin, BreakerOpen
<1>2. ASSUME NEW c \in Calls, Acknowledged(c) PROVE Inv'
  BY <1>2 DEF Acknowledged
<1>3. ASSUME NEW c \in Calls, TransientError(c) PROVE Inv'
  BY <1>3 DEF TransientError, MayArrive, LastAttempt
<1>4. ASSUME NEW c \in Calls, RetriesExhausted(c) PROVE Inv'
  BY <1>4 DEF RetriesExhausted, MayArrive
<1>5. ASSUME NEW c \in Calls, FatalError(c) PROVE Inv'
  BY <1>5 DEF FatalError
<1>6. ASSUME NEW c \in Calls, Wake(c) PROVE Inv'
  BY <1>6 DEF Wake
<1>7. CASE Tick
  BY <1>7 DEF Tick
<1>8. CASE UNCHANGED vars
  BY <1>8 DEF vars
<1> QED
  BY <1>1, <1>2, <1>3, <1>4, <1>5, <1>6, <1>7, <1>8 DEF Next, Answer

LEMMA Invariant == Spec => []Inv
  BY InvInit, InvStep, PTL DEF Spec

\* The client's own variables keep to their values: the loop variable never
\* runs past the configured retries.
THEOREM TypeCorrect == Spec => []TypeOK
<1>1. Inv => TypeOK
  BY DEF Inv
<1> QED
  BY <1>1, Invariant, PTL

\* A reported success is a message in the chat, and attempts bound its copies.
THEOREM CopiesCorrect == Spec => []CopiesAccounted
<1>1. Inv => CopiesAccounted
  BY DEF Inv, CallInv, CopiesAccounted
<1> QED
  BY <1>1, Invariant, PTL

-----------------------------------------------------------------------------
\* Every step of the client is a step of a protected call, of the breaker's
\* clock, or none at all: retries and sleeps are invisible to the breaker.
THEOREM BreakerImplemented == Spec => ImplementsBreaker
<1> DEFINE calls == [c \in Calls |-> CallState(phase[c])]
<1>1. Init => Circuit!Init
  BY DEF Init, Circuit!Init, CallState, Circuit!Never
<1>2. Inv /\ [Next]_vars => [Circuit!Next]_(Circuit!vars)
  <2> SUFFICES ASSUME Inv, [Next]_vars PROVE [Circuit!Next]_(Circuit!vars)
    OBVIOUS
  <2>t. phase \in [Calls -> Phases]
    BY DEF Inv, TypeOK
  <2>m. ASSUME NEW c \in Calls, NEW from, NEW to, to \in Phases, Moves(c, from, to)
        PROVE  /\ calls[c] = CallState(from)
               /\ calls' = [calls EXCEPT ![c] = CallState(to)]
    BY <2>t, <2>m DEF Moves, CallState, Phases
  <2>1. ASSUME NEW c \in Calls, Begin(c) PROVE Circuit!Next
    <3>1. calls[c] = "new" /\ calls' = [calls EXCEPT ![c] = "running"]
      BY <2>1, <2>m DEF Begin, CallState, Phases
    <3> QED
      BY <2>1, <3>1 DEF Begin, Circuit!Next, Circuit!Begin
  <2>2. ASSUME NEW c \in Calls, BreakerOpen(c) PROVE Circuit!Next
    <3>1. calls[c] = "new" /\ calls' = [calls EXCEPT ![c] = "refused"]
      BY <2>2, <2>m DEF BreakerOpen, CallState, Phases
    <3> QED
      BY <2>2, <3>1 DEF BreakerOpen, Circuit!Next, Circuit!TurnAway
  <2>3. ASSUME NEW c \in Calls, Acknowledged(c) PROVE Circuit!Next
    <3>1. calls[c] = "running" /\ calls' = [calls EXCEPT ![c] = "ok"]
      BY <2>3, <2>m DEF Acknowledged, CallState, Phases
    <3> QED
      BY <2>3, <3>1 DEF Acknowledged, Circuit!Next, Circuit!Succeed, Circuit!Running
  <2>4. ASSUME NEW c \in Calls, RetriesExhausted(c) \/ FatalError(c) PROVE Circuit!Next
    <3>1. calls[c] = "running" /\ calls' = [calls EXCEPT ![c] = "failed"]
      BY <2>4, <2>m DEF RetriesExhausted, FatalError, CallState, Phases
    <3> QED
      BY <2>4, <3>1 DEF RetriesExhausted, FatalError, Circuit!Next, Circuit!Fail,
                        Circuit!Running
  <2>5. ASSUME NEW c \in Calls, TransientError(c) \/ Wake(c)
        PROVE  UNCHANGED Circuit!vars
    <3>1. calls[c] = "running" /\ calls' = [calls EXCEPT ![c] = "running"]
      BY <2>5, <2>m DEF TransientError, Wake, CallState, Phases
    <3>2. calls' = calls
      BY <3>1
    <3> QED
      BY <2>5, <3>2 DEF TransientError, Wake, circuitVars, Circuit!vars
  <2>6. CASE Tick
    BY <2>6 DEF Tick, Circuit!Next, Circuit!Tick, Circuit!Never
  <2>7. CASE UNCHANGED vars
    BY <2>7 DEF vars, Circuit!vars
  <2> QED
    BY <2>1, <2>2, <2>3, <2>4, <2>5, <2>6, <2>7 DEF Next, Answer
<1> QED
  BY <1>1, <1>2, Invariant, PTL DEF Spec, ImplementsBreaker, Circuit!SafetySpec
=============================================================================
