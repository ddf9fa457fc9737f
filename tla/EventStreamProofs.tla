-------------------------- MODULE EventStreamProofs --------------------------
(***************************************************************************)
(* The counters per address of EventBroadcaster are true, the limit per    *)
(* address is exceeded by no more than a wave of accepts, and a broadcast  *)
(* reaches its audience, for any connections, addresses and events.        *)
(***************************************************************************)
EXTENDS EventStream, FiniteSetTheorems, TLAPS

-----------------------------------------------------------------------------
(* The counters *)

Came == {c \in Clients : pc[c] # "new"}

\* A client is listed only while its handler reads from it.
Listed == \A c \in clients : pc[c] = "streaming"

\* What LimitedByWave rests on: connections that are being accepted have been
\* let in and will be listed.
WaveBound ==
    MaxPerIp > 0 =>
        \A a \in Ips :
            Cardinality(Of(a, clients)) + Cardinality(Accepting(a)) <= MaxPerIp - 1 + wave[a]

CountInv == TypeOK /\ IsFiniteSet(Came) /\ Listed /\ CountsAreTrue /\ WaveBound

\* Of the connections that have come, those of an address are finitely many.
LEMMA OfFinite ==
    ASSUME IsFiniteSet(Came), NEW S \in SUBSET Came, NEW a
    PROVE  IsFiniteSet(Of(a, S)) /\ Cardinality(Of(a, S)) \in Nat
  BY FS_Subset, FS_CardinalityType DEF Of

\* What the counters count is finite.
LEMMA CountsFinite ==
    ASSUME CountInv, NEW a \in Ips
    PROVE  /\ IsFiniteSet(Of(a, clients)) /\ Cardinality(Of(a, clients)) \in Nat
           /\ IsFiniteSet(Accepting(a)) /\ Cardinality(Accepting(a)) \in Nat
<1>1. clients \in SUBSET Came /\ {c \in Clients : pc[c] = "accepting"} \in SUBSET Came
  BY DEF CountInv, TypeOK, Listed, Came
<1> QED
  BY <1>1, OfFinite DEF Accepting, CountInv

\* disconnect keeps the counter of an address at the number of its clients,
\* whoever is listed among those that leave.
LEMMA DropCounts ==
    ASSUME CountInv, NEW set, Drop(set), ip' = ip
    PROVE  /\ clients' \subseteq clients
           /\ perIp' \in [Ips -> Nat]
           /\ CountsAreTrue'
           /\ \A a \in Ips : Cardinality(Of(a, clients)') <= Cardinality(Of(a, clients))
<1>1. clients' = clients \ set
  BY DEF Drop
<1>2. ASSUME NEW a \in Ips
      PROVE  /\ perIp'[a] \in Nat
             /\ perIp'[a] = Cardinality(Of(a, clients)')
             /\ Cardinality(Of(a, clients)') <= Cardinality(Of(a, clients))
  <2> DEFINE leaving == Of(a, set \intersect clients)
             stay == Of(a, clients)'
  <2>1. /\ IsFiniteSet(Of(a, clients)) /\ Cardinality(Of(a, clients)) \in Nat
        /\ perIp[a] = Cardinality(Of(a, clients))
    BY CountsFinite DEF CountInv, CountsAreTrue
  <2>2. /\ stay = Of(a, clients) \ leaving
        /\ leaving \in SUBSET Of(a, clients)
        /\ stay \in SUBSET Of(a, clients)
    BY <1>1 DEF Of
  <2>3. /\ IsFiniteSet(leaving) /\ Cardinality(leaving) \in Nat
        /\ Cardinality(leaving) <= Cardinality(Of(a, clients))
        /\ IsFiniteSet(stay) /\ Cardinality(stay) \in Nat
        /\ Cardinality(stay) <= Cardinality(Of(a, clients))
    <3> HIDE DEF leaving, stay
    <3> QED
      BY <2>1, <2>2, FS_Subset, FS_CardinalityType
  <2>4. Cardinality(stay) = Cardinality(Of(a, clients)) - Cardinality(leaving)
    <3>1. Of(a, clients) \intersect leaving = leaving
      BY <2>2
    <3> DEFINE all == Of(a, clients)
    <3>2. /\ IsFiniteSet(all) /\ stay = all \ leaving
          /\ all \intersect leaving = leaving
      BY <2>1, <2>2, <3>1
    <3> HIDE DEF leaving, stay, all
    <3>3. Cardinality(all \ leaving) = Cardinality(all) - Cardinality(all \intersect leaving)
      BY <3>2, FS_Difference
    <3> QED
      BY <3>2, <3>3 DEF all
  <2>5. perIp'[a] = IF perIp[a] < Cardinality(leaving) THEN 0 ELSE perIp[a] - Cardinality(leaving)
    BY DEF Drop
  <2> HIDE DEF leaving, stay
  <2>6. perIp'[a] = Cardinality(stay) /\ perIp'[a] \in Nat
    BY <2>1, <2>3, <2>4, <2>5
  <2> QED
    BY <2>3, <2>6 DEF stay
<1>3. perIp' = [a \in Ips |-> perIp'[a]]
  BY DEF Drop
<1> QED
  BY <1>1, <1>2, <1>3 DEF CountsAreTrue

-----------------------------------------------------------------------------
LEMMA CountInit == Init => CountInv
<1> SUFFICES ASSUME Init PROVE CountInv
  OBVIOUS
<1>1. TypeOK
  BY NamesAssumption DEF Init, TypeOK
<1>2. Came = {} /\ Listed
  BY DEF Init, Came, Listed
<1>3. ASSUME NEW a \in Ips
      PROVE  Cardinality(Of(a, clients)) = 0 /\ Cardinality(Accepting(a)) = 0
  <2>1. Of(a, clients) = {} /\ Accepting(a) = {}
    BY DEF Init, Of, Accepting
  <2> QED
    BY <2>1, FS_EmptySet
<1>4. CountsAreTrue
  BY <1>3 DEF Init, CountsAreTrue
<1>5. WaveBound
  BY <1>3, LimitsAssumption DEF Init, WaveBound
<1> QED
  BY <1>1, <1>2, <1>4, <1>5, FS_EmptySet DEF CountInv

\* A connection that arrives is let in only below the limit, and is then one of
\* the accepts under way that the wave has counted.
LEMMA ArriveCounts ==
    ASSUME CountInv, NEW c \in Clients, NEW a \in Ips, NEW m \in Filters[c], Arrive(c, a, m)
    PROVE  CountInv'
<1>1. TypeOK /\ pc[c] = "new" /\ clients' = clients /\ perIp' = perIp
  BY DEF CountInv, Arrive
<1>2. TypeOK'
  <2>1. Cardinality(Accepting(a)) \in Nat
    BY CountsFinite
  <2>2. /\ pc' \in [Clients -> {"new", "refused", "accepting", "streaming", "ended"}]
        /\ wave' \in [Ips -> Nat]
    <3> DEFINE waiting == Cardinality(Accepting(a)) + 1
               most == IF wave[a] < waiting THEN waiting ELSE wave[a]
    <3>1. \/ /\ pc' = [pc EXCEPT ![c] = "accepting"]
             /\ wave' = [wave EXCEPT ![a] = most]
          \/ pc' = [pc EXCEPT ![c] = "refused"] /\ wave' = wave
      BY DEF Arrive
    <3>2. waiting \in Nat /\ wave[a] \in Nat
      BY <1>1, <2>1 DEF TypeOK
    <3>3. most \in Nat
      BY <3>2
    <3>4. /\ pc \in [Clients -> {"new", "refused", "accepting", "streaming", "ended"}]
          /\ wave \in [Ips -> Nat]
      BY <1>1 DEF TypeOK
    <3> HIDE DEF waiting, most
    <3>5. pc' \in [Clients -> {"new", "refused", "accepting", "streaming", "ended"}]
      BY <3>1, <3>4
    <3>6. wave' \in [Ips -> Nat]
      BY <3>1, <3>3, <3>4
    <3> QED
      BY <3>5, <3>6
  <2>3. attempts' \in [Ips -> Nat]
    BY <1>1 DEF Arrive, AllowConnect, TypeOK
  <2>4. \A d \in Clients : pc'[d] # "new" => ip'[d] \in Ips
    BY <1>1 DEF Arrive, TypeOK
  <2>5. m \in SUBSET Events
    BY NamesAssumption
  <2>6. wants' \in [Clients -> SUBSET Events]
    BY <1>1, <2>5 DEF Arrive, TypeOK
  <2> QED
    BY <1>1, <2>2, <2>3, <2>4, <2>6 DEF Arrive, broadcasts, receipts, TypeOK
<1>3. IsFiniteSet(Came')
  <2>1. Came' = Came \union {c}
    BY <1>1 DEF Arrive, Came, TypeOK
  <2> QED
    BY <2>1, FS_AddElement DEF CountInv
<1>4. Listed'
  BY <1>1 DEF CountInv, Listed, Arrive, TypeOK
<1>5. ASSUME NEW b \in Ips PROVE Of(b, clients)' = Of(b, clients)
  BY <1>1 DEF CountInv, Listed, Of, Arrive, TypeOK
<1>6. CountsAreTrue'
  BY <1>1, <1>5 DEF CountInv, CountsAreTrue
<1>7. ASSUME NEW b \in Ips, MaxPerIp > 0
      PROVE  Cardinality(Of(b, clients)') + Cardinality(Accepting(b)') <= MaxPerIp - 1 + wave'[b]
  <2>1. /\ IsFiniteSet(Accepting(b)) /\ Cardinality(Accepting(b)) \in Nat
        /\ Cardinality(Of(b, clients)) \in Nat
    BY CountsFinite
  <2>2. CASE b = a /\ AllowConnect(a).ok
    <3>1. Accepting(a)' = Accepting(a) \union {c} /\ c \notin Accepting(a)
      BY <1>1, <2>2 DEF Arrive, Accepting, Of, TypeOK
    <3>2. Cardinality(Accepting(a)') = Cardinality(Accepting(a)) + 1
      BY <2>1, <2>2, <3>1, FS_AddElement
    <3>3. wave'[a] >= Cardinality(Accepting(a)) + 1
      BY <1>1, <2>1, <2>2 DEF Arrive, TypeOK
    <3>4. ~Full(a)
      BY <2>2 DEF AllowConnect
    <3>5. Cardinality(Of(a, clients)) < MaxPerIp
      BY <1>7, <2>1, <2>2, <3>4, LimitsAssumption DEF CountInv, CountsAreTrue, Full
    <3>6. wave'[a] \in Nat
      BY <1>2 DEF TypeOK
    <3> QED
      BY <1>5, <2>1, <2>2, <3>2, <3>3, <3>5, <3>6, LimitsAssumption
  <2>3. CASE ~(b = a /\ AllowConnect(a).ok)
    <3>1. Accepting(b)' = Accepting(b)
      BY <1>1, <2>3 DEF Arrive, Accepting, Of, TypeOK
    <3>2. wave'[b] = wave[b]
      BY <1>1, <2>3 DEF Arrive, TypeOK
    <3> QED
      BY <1>5, <1>7, <3>1, <3>2 DEF CountInv, WaveBound
  <2> QED
    BY <2>2, <2>3
<1>8. WaveBound'
  BY <1>7 DEF WaveBound
<1> QED
  BY <1>2, <1>3, <1>4, <1>6, <1>8 DEF CountInv

\* A connection that is accepted moves from the accepts under way to the list.
LEMMA AcceptCounts ==
    ASSUME CountInv, NEW c \in Clients, Accept(c)
    PROVE  CountInv'
<1> DEFINE a == ip[c]
<1>1. TypeOK /\ pc[c] = "accepting" /\ ip' = ip /\ wave' = wave /\ a \in Ips
  BY DEF CountInv, Accept, TypeOK
<1>2. clients' = clients \union {c} /\ perIp' = [perIp EXCEPT ![a] = @ + 1]
      /\ pc' = [pc EXCEPT ![c] = "streaming"]
  BY DEF Accept
<1>3. TypeOK'
  BY <1>1, <1>2 DEF Accept, broadcasts, receipts, TypeOK
<1>4. Came' = Came /\ Listed'
  BY <1>1, <1>2 DEF CountInv, Listed, Came, TypeOK
<1>5. ASSUME NEW b \in Ips
      PROVE  /\ Cardinality(Of(b, clients)') = perIp'[b]
             /\ Cardinality(Of(b, clients)') + Cardinality(Accepting(b)')
                  = Cardinality(Of(b, clients)) + Cardinality(Accepting(b))
  <2>1. /\ IsFiniteSet(Of(b, clients)) /\ Cardinality(Of(b, clients)) \in Nat
        /\ IsFiniteSet(Accepting(b)) /\ Cardinality(Accepting(b)) \in Nat
        /\ perIp[b] = Cardinality(Of(b, clients))
    BY CountsFinite DEF CountInv, CountsAreTrue
  <2>2. CASE b = a
    <3>1. /\ Of(b, clients)' = Of(b, clients) \union {c} /\ c \notin Of(b, clients)
          /\ Accepting(b)' = Accepting(b) \ {c} /\ c \in Accepting(b)
      BY <1>1, <1>2, <2>2 DEF CountInv, Listed, Of, Accepting, TypeOK
    <3>2. Cardinality(Of(b, clients)') = Cardinality(Of(b, clients)) + 1
      BY <2>1, <3>1, FS_AddElement
    <3>3. Cardinality(Accepting(b)') = Cardinality(Accepting(b)) - 1
      BY <2>1, <3>1, FS_RemoveElement
    <3>4. perIp'[b] = perIp[b] + 1
      BY <1>1, <1>2, <2>2 DEF TypeOK
    <3> QED
      BY <2>1, <3>2, <3>3, <3>4
  <2>3. CASE b # a
    <3>1. Of(b, clients)' = Of(b, clients) /\ Accepting(b)' = Accepting(b)
      BY <1>1, <1>2, <2>3 DEF Of, Accepting, TypeOK
    <3>2. perIp'[b] = perIp[b]
      BY <1>1, <1>2, <2>3 DEF TypeOK
    <3> QED
      BY <2>1, <3>1, <3>2
  <2> QED
    BY <2>2, <2>3
<1>6. CountsAreTrue' /\ WaveBound'
  BY <1>1, <1>5 DEF CountInv, CountsAreTrue, WaveBound
<1> QED
  BY <1>3, <1>4, <1>6 DEF CountInv

\* A connection that ends before or after it was listed frees what it held.
LEMMA EndCounts ==
    ASSUME CountInv, NEW c \in Clients, AcceptFails(c) \/ Leave(c)
    PROVE  CountInv'
<1>1. /\ TypeOK /\ ip' = ip /\ wave' = wave /\ attempts' = attempts
      /\ pc[c] # "new" /\ pc' = [pc EXCEPT ![c] = "ended"]
  BY DEF CountInv, AcceptFails, Leave, counters
<1>2. /\ clients' \subseteq clients
      /\ perIp' \in [Ips -> Nat]
      /\ CountsAreTrue'
      /\ \A a \in Ips : Cardinality(Of(a, clients)') <= Cardinality(Of(a, clients))
  <2>1. CASE AcceptFails(c)
    <3>1. clients' = clients /\ perIp' = perIp
      BY <2>1 DEF AcceptFails, counters
    <3>2. ASSUME NEW a \in Ips PROVE Of(a, clients)' = Of(a, clients)
      BY <1>1, <3>1 DEF Of
    <3>3. \A a \in Ips : Cardinality(Of(a, clients)) \in Nat
      BY CountsFinite
    <3> QED
      BY <1>1, <3>1, <3>2, <3>3 DEF CountInv, CountsAreTrue, TypeOK
  <2>2. CASE Leave(c)
    BY <1>1, <2>2, DropCounts DEF Leave
  <2> QED
    BY <2>1, <2>2
<1>3. TypeOK'
  BY <1>1, <1>2 DEF AcceptFails, Leave, broadcasts, receipts, TypeOK
<1>4. Came' = Came
  BY <1>1 DEF Came, TypeOK
<1>5. Listed'
  <2>1. c \notin clients'
    BY DEF CountInv, Listed, AcceptFails, Leave, counters, Drop
  <2> QED
    BY <1>1, <1>2, <2>1 DEF CountInv, Listed, TypeOK
<1>6. WaveBound'
  <2>1. ASSUME NEW a \in Ips PROVE Cardinality(Accepting(a)') <= Cardinality(Accepting(a))
                                    /\ Cardinality(Accepting(a)') \in Nat
    <3>1. Accepting(a)' = Accepting(a) \ {c}
      BY <1>1 DEF Accepting, Of, TypeOK
    <3>2. IsFiniteSet(Accepting(a)) /\ Cardinality(Accepting(a)) \in Nat
      BY CountsFinite
    <3>3. IsFiniteSet(Accepting(a)')
      BY <3>1, <3>2, FS_RemoveElement
    <3>4. Accepting(a)' \in SUBSET Accepting(a)
      BY <3>1
    <3> QED
      BY <3>2, <3>3, <3>4, FS_Subset, FS_CardinalityType
  <2>2. \A a \in Ips : /\ Cardinality(Of(a, clients)') \in Nat
                        /\ Cardinality(Of(a, clients)) \in Nat
                        /\ Cardinality(Accepting(a)) \in Nat
                        /\ wave[a] \in Nat
    BY <1>1, <1>2, CountsFinite DEF CountsAreTrue, TypeOK
  <2> QED
    BY <1>1, <1>2, <2>1, <2>2, LimitsAssumption DEF CountInv, WaveBound
<1> QED
  BY <1>2, <1>3, <1>4, <1>5, <1>6 DEF CountInv

\* What a broadcast does to the list is what disconnect does.
LEMMA ServedCounts ==
    ASSUME CountInv, NEW e \in Events, NEW c \in Clients, Sent(e, c) \/ SendFails(e, c)
    PROVE  CountInv'
<1>1. /\ TypeOK /\ pc' = pc /\ ip' = ip /\ wants' = wants /\ broken' = broken
      /\ noticed' = noticed
      /\ wave' = wave /\ attempts' = attempts /\ audience' = audience
  BY DEF CountInv, Sent, SendFails, Served, connections
<1>2. PICK bad \in SUBSET Clients : Served(e, c, bad)
  BY <1>1 DEF Sent, SendFails, TypeOK
<1>3. /\ clients' \subseteq clients
      /\ perIp' \in [Ips -> Nat]
      /\ CountsAreTrue'
      /\ \A a \in Ips : Cardinality(Of(a, clients)') <= Cardinality(Of(a, clients))
  <2>1. CASE pending[e] = {c}
    BY <1>1, <1>2, <2>1, DropCounts DEF Served
  <2>2. CASE pending[e] # {c}
    <3>1. clients' = clients /\ perIp' = perIp
      BY <1>2, <2>2 DEF Served
    <3>2. ASSUME NEW a \in Ips PROVE Of(a, clients)' = Of(a, clients)
      BY <1>1, <3>1 DEF Of
    <3>3. \A a \in Ips : Cardinality(Of(a, clients)) \in Nat
      BY CountsFinite
    <3> QED
      BY <1>1, <3>1, <3>2, <3>3 DEF CountInv, CountsAreTrue, TypeOK
  <2> QED
    BY <2>1, <2>2
<1>4. TypeOK'
  <2>1. pending' \in [Events -> SUBSET Clients] /\ failed' \in [Events -> SUBSET Clients]
    BY <1>1, <1>2 DEF Served, TypeOK
  <2>2. stage' \in [Events -> {"new", "sending", "done"}]
    BY <1>1, <1>2 DEF Served, TypeOK
  <2>3. got' \in [Events -> [Clients -> Nat]]
    <3>1. got \in [Events -> [Clients -> Nat]]
      BY <1>1 DEF TypeOK
    <3>2. got' = got \/ got' = [got EXCEPT ![e][c] = IF c \in broken THEN @ ELSE @ + 1]
      BY DEF Sent, SendFails
    <3> QED
      BY <3>1, <3>2
  <2> QED
    BY <1>1, <1>3, <2>1, <2>2, <2>3 DEF TypeOK
<1>5. Came' = Came /\ Listed'
  BY <1>1, <1>3 DEF CountInv, Listed, Came
<1>6. WaveBound'
  <2>1. \A a \in Ips : Accepting(a)' = Accepting(a)
    BY <1>1 DEF Accepting, Of
  <2>2. \A a \in Ips : /\ Cardinality(Of(a, clients)') \in Nat
                        /\ Cardinality(Of(a, clients)) \in Nat
                        /\ Cardinality(Accepting(a)) \in Nat
                        /\ wave[a] \in Nat
    BY <1>1, <1>3, CountsFinite DEF CountsAreTrue, TypeOK
  <2> QED
    BY <1>1, <1>3, <2>1, <2>2, LimitsAssumption DEF CountInv, WaveBound
<1> QED
  BY <1>3, <1>4, <1>5, <1>6 DEF CountInv

LEMMA CountStep == CountInv /\ [Next]_vars => CountInv'
<1> SUFFICES ASSUME CountInv, [Next]_vars PROVE CountInv'
  OBVIOUS
<1>1. ASSUME NEW c \in Clients, NEW a \in Ips, NEW m \in Filters[c], Arrive(c, a, m)
      PROVE  CountInv'
  BY <1>1, ArriveCounts
<1>2. ASSUME NEW c \in Clients, Handler(c) PROVE CountInv'
  BY <1>2, AcceptCounts, EndCounts DEF Handler
<1>3. ASSUME NEW e \in Events, SendEnds(e) PROVE CountInv'
  BY <1>3, ServedCounts DEF SendEnds
<1>4. ASSUME \/ \E c \in Clients : Break(c) \/ Notice(c)
             \/ \E a \in Ips : WindowEnds(a)
             \/ \E e \in Events : Begin(e)
             \/ UNCHANGED vars
      PROVE  CountInv'
  <2>1. /\ pc' = pc /\ ip' = ip /\ clients' = clients /\ perIp' = perIp /\ wave' = wave
        /\ wants' = wants /\ got' = got /\ failed' = failed
    BY <1>4 DEF Break, Notice, WindowEnds, Begin, vars, connections, counters, broadcasts, receipts
  <2>2. TypeOK'
    <3>1. TypeOK
      BY DEF CountInv
    <3>2. CASE \E c \in Clients : Break(c) \/ Notice(c)
      BY <2>1, <3>1, <3>2 DEF TypeOK, Break, Notice, counters, broadcasts, receipts
    <3>3. CASE \E a \in Ips : WindowEnds(a)
      BY <2>1, <3>1, <3>3 DEF TypeOK, WindowEnds, connections, broadcasts, receipts
    <3>4. ASSUME NEW e \in Events, Begin(e) PROVE TypeOK'
      <4>1. Matching(e) \in SUBSET Clients
        BY <3>1 DEF Matching, TypeOK
      <4> QED
        BY <2>1, <3>1, <3>4, <4>1 DEF TypeOK, Begin, connections, counters
    <3>5. CASE UNCHANGED vars
      BY <2>1, <3>1, <3>5 DEF TypeOK, vars, connections, counters, broadcasts, receipts
    <3> QED
      BY <1>4, <3>2, <3>3, <3>4, <3>5
  <2>3. Came' = Came /\ \A a : Of(a, clients)' = Of(a, clients) /\ Accepting(a)' = Accepting(a)
    BY <2>1 DEF Came, Of, Accepting
  <2> QED
    BY <2>1, <2>2, <2>3 DEF CountInv, Listed, CountsAreTrue, WaveBound
<1> QED
  BY <1>1, <1>2, <1>3, <1>4 DEF Next

LEMMA CountInvariant == Spec => []CountInv
  BY CountInit, CountStep, PTL DEF Spec

\* The stream's variables keep to their values for any connections: above all, no
\* counter of an address goes below zero.
THEOREM TypeCorrect == Spec => []TypeOK
<1>1. CountInv => TypeOK
  BY DEF CountInv
<1> QED
  BY <1>1, CountInvariant, PTL

\* The counter of an address is the number of its listed clients, however often
\* handlers and broadcasts disconnect one.
THEOREM CountsTrue == Spec => []CountsAreTrue
<1>1. CountInv => CountsAreTrue
  BY DEF CountInv
<1> QED
  BY <1>1, CountInvariant, PTL

\* The check before accept() and the count after it let at most a wave of
\* concurrent accepts, less one, past the limit.
THEOREM WaveLimits == Spec => []LimitedByWave
<1>1. CountInv => LimitedByWave
  <2> SUFFICES ASSUME CountInv, MaxPerIp > 0, NEW a \in Ips
               PROVE  Cardinality(Of(a, clients)) <= MaxPerIp + wave[a] - 1
    BY DEF LimitedByWave
  <2>1. /\ Cardinality(Of(a, clients)) \in Nat /\ Cardinality(Accepting(a)) \in Nat
        /\ wave[a] \in Nat
    BY CountsFinite DEF CountInv, TypeOK
  <2> QED
    BY <2>1, LimitsAssumption DEF CountInv, WaveBound
<1> QED
  BY <1>1, CountInvariant, PTL

-----------------------------------------------------------------------------
(* The broadcasts *)

\* One client and one broadcast between two steps: who is still to be served or
\* failed was listed when the broadcast began, and who was listed then and is no
\* more to be served has got the event or is broken.
Course(e, c) ==
    /\ c \in pending[e] \union failed[e] => c \in audience[e]
    /\ c \in pending[e] => c \notin failed[e] /\ got[e][c] = 0 /\ stage[e] = "sending"
    /\ c \in failed[e] => c \in broken
    /\ c \in audience[e] => /\ pc[c] \in {"streaming", "ended"}
                            /\ stage[e] # "new"
    /\ c \in audience[e] /\ got[e][c] = 0 => c \in pending[e] \union broken
    /\ got[e][c] <= IF c \in audience[e] THEN 1 ELSE 0
    /\ stage[e] = "done" => c \notin failed[e] \intersect clients

CastInv == \A e \in Events, c \in Clients : Course(e, c)

LEMMA CastInit == Init => CastInv
  BY DEF Init, CastInv, Course

\* Connections that come, are accepted, break or leave change nothing for the
\* broadcasts under way, and none is listed after it ended.
LEMMA HandlerCast ==
    ASSUME CountInv, CastInv, UNCHANGED <<broadcasts, receipts>>, broken \subseteq broken',
           \A c \in Clients : pc[c] \in {"streaming", "ended"} => pc'[c] \in {"streaming", "ended"},
           \A c \in clients' : c \in clients \/ pc[c] = "accepting"
    PROVE  CastInv'
<1> SUFFICES ASSUME NEW e \in Events, NEW c \in Clients PROVE Course(e, c)'
  BY DEF CastInv
<1>1. Course(e, c)
  BY DEF CastInv
<1> QED
  BY <1>1 DEF Course, broadcasts, receipts

\* A broadcast begins with an audience that is listed.
LEMMA BeginCast ==
    ASSUME CountInv, CastInv, NEW e \in Events, Begin(e)
    PROVE  CastInv'
<1> SUFFICES ASSUME NEW f \in Events, NEW c \in Clients PROVE Course(f, c)'
  BY DEF CastInv
<1>1. TypeOK /\ Listed /\ Course(f, c)
  BY DEF CountInv, CastInv
<1>2. /\ pc' = pc /\ broken' = broken /\ clients' = clients /\ got' = got /\ failed' = failed
      /\ stage[e] = "new"
      /\ stage' = [stage EXCEPT ![e] = IF Matching(e) = {} THEN "done" ELSE "sending"]
      /\ pending' = [pending EXCEPT ![e] = Matching(e)]
      /\ audience' = [audience EXCEPT ![e] = Matching(e)]
  BY DEF Begin, connections, counters
<1>3. \A d \in Matching(e) : pc[d] = "streaming"
  BY <1>1 DEF Matching, Listed
<1>4. CASE f = e
  <2>1. c \notin audience[f] /\ c \notin failed[f] /\ got[f][c] = 0
    BY <1>1, <1>2, <1>4 DEF Course, TypeOK
  <2>2. /\ pending'[f] = Matching(e) /\ audience'[f] = Matching(e)
        /\ stage'[f] = IF Matching(e) = {} THEN "done" ELSE "sending"
    BY <1>1, <1>2, <1>4 DEF TypeOK
  <2> QED
    BY <1>2, <1>3, <2>1, <2>2 DEF Course
<1>5. CASE f # e
  <2>1. pending'[f] = pending[f] /\ audience'[f] = audience[f] /\ stage'[f] = stage[f]
    BY <1>1, <1>2, <1>5 DEF TypeOK
  <2> QED
    BY <1>1, <1>2, <2>1 DEF Course
<1> QED
  BY <1>4, <1>5

\* A send serves its client, or lists it among those the broadcast disconnects
\* when it is done.
LEMMA ServedCast ==
    ASSUME CountInv, CastInv, NEW e \in Events, NEW d \in Clients, Sent(e, d) \/ SendFails(e, d)
    PROVE  CastInv'
<1> SUFFICES ASSUME NEW f \in Events, NEW c \in Clients PROVE Course(f, c)'
  BY DEF CastInv
<1>1. TypeOK /\ Course(f, c) /\ Course(e, d) /\ Course(e, c) /\ d \in pending[e]
  BY DEF CountInv, CastInv, Sent, SendFails
<1>2. PICK bad \in SUBSET Clients :
        /\ Served(e, d, bad)
        /\ \/ /\ bad = failed[e]
              /\ got' = [got EXCEPT ![e][d] = IF d \in broken THEN @ ELSE @ + 1]
           \/ bad = failed[e] \union {d} /\ d \in broken /\ got' = got
  BY <1>1 DEF Sent, SendFails, TypeOK
<1>3. /\ pc' = pc /\ broken' = broken /\ audience' = audience
      /\ pending' = [pending EXCEPT ![e] = @ \ {d}]
      /\ failed' = [failed EXCEPT ![e] = bad]
      /\ \/ /\ pending[e] = {d} /\ stage' = [stage EXCEPT ![e] = "done"]
            /\ clients' = clients \ bad
         \/ pending[e] # {d} /\ stage' = stage /\ clients' = clients
  BY <1>2 DEF Served, Drop, connections
<1>4. /\ pending \in [Events -> SUBSET Clients] /\ failed \in [Events -> SUBSET Clients]
      /\ stage \in [Events -> {"new", "sending", "done"}]
      /\ got \in [Events -> [Clients -> Nat]]
  BY <1>1 DEF TypeOK
<1>5. CASE f # e
  <2>1. /\ pending'[f] = pending[f] /\ failed'[f] = failed[f] /\ stage'[f] = stage[f]
        /\ got'[f] = got[f]
    BY <1>2, <1>3, <1>4, <1>5
  <2> QED
    BY <1>1, <1>3, <2>1 DEF Course
<1>6. CASE f = e
  <2>1. pending'[e] = pending[e] \ {d} /\ failed'[e] = bad
    BY <1>3, <1>4
  <2>2. stage[e] = "sending"
    BY <1>1 DEF Course
  <2>3. /\ stage'[e] = IF pending[e] = {d} THEN "done" ELSE "sending"
        /\ pending[e] = {d} => clients' = clients \ bad
    BY <1>3, <1>4, <2>2
  <2>4. CASE c = d
    <3>1. got[e][d] = 0 /\ d \notin failed[e] /\ d \in audience[e]
      BY <1>1 DEF Course
    <3>2. \/ d \notin bad /\ got'[e][d] = 1
          \/ d \in broken /\ got'[e][d] = 0
      BY <1>2, <1>4, <3>1
    <3> QED
      BY <1>1, <1>3, <1>6, <2>1, <2>2, <2>3, <2>4, <3>1, <3>2 DEF Course
  <2>5. CASE c # d
    <3>1. got'[e][c] = got[e][c] /\ (c \in bad <=> c \in failed[e])
      BY <1>2, <1>4, <2>5
    <3> QED
      BY <1>1, <1>3, <1>6, <2>1, <2>2, <2>3, <2>5, <3>1 DEF Course
  <2> QED
    BY <2>4, <2>5
<1> QED
  BY <1>5, <1>6

LEMMA CastStep == CountInv /\ CastInv /\ [Next]_vars => CastInv'
<1> SUFFICES ASSUME CountInv, CastInv, [Next]_vars PROVE CastInv'
  OBVIOUS
<1>1. TypeOK
  BY DEF CountInv
<1>2. ASSUME NEW c \in Clients, NEW a \in Ips, NEW m \in Filters[c], Arrive(c, a, m)
      PROVE  CastInv'
  BY <1>1, <1>2, HandlerCast DEF Arrive, TypeOK
<1>3. ASSUME NEW c \in Clients, Accept(c) PROVE CastInv'
  BY <1>1, <1>3, HandlerCast DEF Accept, receipts, TypeOK
<1>4. ASSUME NEW c \in Clients, AcceptFails(c) \/ Leave(c) PROVE CastInv'
  BY <1>1, <1>4, HandlerCast DEF AcceptFails, Leave, Drop, counters, TypeOK
<1>5. ASSUME NEW c \in Clients, Break(c) \/ Notice(c) PROVE CastInv'
  BY <1>1, <1>5, HandlerCast DEF Break, Notice, counters, TypeOK
<1>6. ASSUME NEW a \in Ips, WindowEnds(a) PROVE CastInv'
  BY <1>1, <1>6, HandlerCast DEF WindowEnds, connections
<1>7. ASSUME NEW e \in Events, Begin(e) \/ SendEnds(e) PROVE CastInv'
  BY <1>7, BeginCast, ServedCast DEF SendEnds
<1>8. CASE UNCHANGED vars
  BY <1>8, HandlerCast DEF vars, connections, counters
<1> QED
  BY <1>2, <1>3, <1>4, <1>5, <1>6, <1>7, <1>8 DEF Next, Handler

LEMMA CastInvariant == Spec => []CastInv
  BY CastInit, CastStep, CountInvariant, PTL DEF Spec

\* A broadcast that is done was sent to everybody it was for, once, over every
\* connection that was not broken, and those whose send raised are not listed.
THEOREM BroadcastsReach == Spec => []BroadcastReaches
<1>1. CastInv => BroadcastReaches
  <2> SUFFICES ASSUME CastInv, NEW e \in Events, NEW c \in Clients
               PROVE  /\ got[e][c] <= IF c \in audience[e] THEN 1 ELSE 0
                      /\ stage[e] = "done" =>
                            /\ c \in audience[e] /\ got[e][c] = 0 => c \in broken
                            /\ c \in failed[e] => c \notin clients
    BY DEF BroadcastReaches
  <2> QED
    BY DEF CastInv, Course
<1> QED
  BY <1>1, CastInvariant, PTL
=============================================================================
