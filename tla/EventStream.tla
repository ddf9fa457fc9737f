---------------------------- MODULE EventStream ----------------------------
(***************************************************************************)
(* The WebSocket stream of events (app/api/websocket.py): the handlers of  *)
(* the connections, which share the list of clients and the counters per   *)
(* address of EventBroadcaster, and the broadcasts that the dispatch of    *)
(* webhooks awaits.  A handler suspends in accept() and in receive_text(), *)
(* a broadcast in each send_text().  Nothing suspends while it holds the   *)
(* lock, so connect and disconnect are single steps.                       *)
(*                                                                         *)
(* The order of the list is left out: a broadcast serves its clients in    *)
(* any order.                                                              *)
(***************************************************************************)
EXTENDS Integers, FiniteSets

CONSTANTS
    Clients,      \* connections, past the allow list and the admin key
    Ips,          \* client addresses
    NoIp,         \* the address of a connection that has not come yet
    Events,       \* events that are broadcast
    Filters,      \* for each connection, what its filters may match: sets of events
    ConnectLimit, \* ws_connects_per_minute; 0 for none
    MaxPerIp      \* ws_max_connections_per_ip; 0 for none

ASSUME LimitsAssumption == ConnectLimit \in Nat /\ MaxPerIp \in Nat
ASSUME NamesAssumption == NoIp \notin Ips /\ Filters \in [Clients -> SUBSET SUBSET Events]

VARIABLES
    pc,         \* what each connection's handler does
    ip,         \* the address of each connection
    wants,      \* the events that match the filters of each connection
    clients,    \* _clients
    perIp,      \* _connections_per_ip
    attempts,   \* the count of _connect_attempts
    pending,    \* the clients each broadcast has yet to serve
    failed,     \* those whose send_text raised
    stage,      \* how far each broadcast is
    broken,     \* connections that are closed or lost
    noticed,    \* those of them that the server knows of
    wave,       \* history: the most accepts of an address under way at once
    audience,   \* history: the listed clients that matched when each broadcast began
    got         \* history: how often each event was sent to each client over a
                \* connection that was not broken

connections == <<pc, ip, wants, broken, noticed>>
counters == <<clients, perIp, attempts>>
broadcasts == <<pending, failed, stage>>
receipts == <<audience, got>>
vars == <<connections, counters, broadcasts, wave, receipts>>

Of(address, set) == {c \in set : ip[c] = address}
Accepting(address) == Of(address, {c \in Clients : pc[c] = "accepting"})

-----------------------------------------------------------------------------
(* EventBroadcaster *)

\* A client that fails leaves twice, and is counted off each time.
DropMutant(set) ==
    /\ clients' = clients \ set
    /\ perIp' = [a \in Ips |-> perIp[a] - Cardinality(Of(a, set))]

\* disconnect, of several clients one after the other: who is not listed any
\* more is passed over (ValueError).
Drop(set) ==
    LET leaving(a) == Cardinality(Of(a, set \intersect clients))
    IN  /\ clients' = clients \ set
        /\ perIp' = [a \in Ips |-> IF perIp[a] < leaving(a) THEN 0 ELSE perIp[a] - leaving(a)]

\* The connection that comes is not counted.
FullMutant(address) == MaxPerIp > 0 /\ perIp[address] > MaxPerIp

Full(address) == MaxPerIp > 0 /\ perIp[address] >= MaxPerIp

\* allow_connect: every attempt counts, the refused ones too.
AllowConnect(address) ==
    LET count == attempts[address] + 1
        limited == ConnectLimit > 0 /\ count > ConnectLimit
    IN  [ok |-> ~limited /\ ~Full(address), count |-> count]

\* The minute of an address is over; allow_connect finds out when it is next
\* asked.
WindowEnds(address) ==
    /\ attempts[address] > 0
    /\ attempts' = [attempts EXCEPT ![address] = 0]
    /\ UNCHANGED <<connections, clients, perIp, broadcasts, wave, receipts>>

-----------------------------------------------------------------------------
(* stream_logs *)

\* Up to accept().
Arrive(c, address, matching) ==
    LET allowed == AllowConnect(address)
        waiting == Cardinality(Accepting(address)) + 1
    IN  /\ pc[c] = "new"
        /\ ip' = [ip EXCEPT ![c] = address]
        /\ wants' = [wants EXCEPT ![c] = matching]
        /\ attempts' = [attempts EXCEPT ![address] = allowed.count]
        /\ IF allowed.ok
           THEN /\ pc' = [pc EXCEPT ![c] = "accepting"]
                /\ wave' = [wave EXCEPT ![address] = IF @ < waiting THEN waiting ELSE @]
           ELSE /\ pc' = [pc EXCEPT ![c] = "refused"]
                /\ UNCHANGED wave
        /\ UNCHANGED <<clients, perIp, broken, noticed, broadcasts, receipts>>

\* accept() returns, and connect lists the client: one too whose connection was
\* lost meanwhile, as long as the server does not know.
Accept(c) ==
    /\ pc[c] = "accepting"
    /\ c \notin noticed
    /\ pc' = [pc EXCEPT ![c] = "streaming"]
    /\ clients' = clients \union {c}
    /\ perIp' = [perIp EXCEPT ![ip[c]] = @ + 1]
    /\ UNCHANGED <<ip, wants, attempts, broken, noticed, broadcasts, wave, receipts>>

\* accept() raises.
AcceptFails(c) ==
    /\ pc[c] = "accepting"
    /\ c \in noticed
    /\ pc' = [pc EXCEPT ![c] = "ended"]
    /\ UNCHANGED <<ip, wants, broken, noticed, counters, broadcasts, wave, receipts>>

\* The client closes the connection, or it is lost.
Break(c) ==
    /\ pc[c] \in {"accepting", "streaming"}
    /\ c \notin broken
    /\ broken' = broken \union {c}
    /\ UNCHANGED <<pc, ip, wants, noticed, counters, broadcasts, wave, receipts>>

\* The server reads the client's closing frame, or misses the answer to a ping.
Notice(c) ==
    /\ c \in broken \ noticed
    /\ noticed' = noticed \union {c}
    /\ UNCHANGED <<pc, ip, wants, broken, counters, broadcasts, wave, receipts>>

\* It is left to the next broadcast to notice.
LeaveMutant(c) ==
    /\ pc[c] = "streaming"
    /\ c \in noticed
    /\ pc' = [pc EXCEPT ![c] = "ended"]
    /\ UNCHANGED <<ip, wants, broken, noticed, counters, broadcasts, wave, receipts>>

\* receive_text raises: finally, disconnect.
Leave(c) ==
    /\ pc[c] = "streaming"
    /\ c \in noticed
    /\ pc' = [pc EXCEPT ![c] = "ended"]
    /\ Drop({c})
    /\ UNCHANGED <<ip, wants, attempts, broken, noticed, broadcasts, wave, receipts>>

-----------------------------------------------------------------------------
(* broadcast *)

\* _matches
Matching(e) == {c \in clients : e \in wants[c]}

Begin(e) ==
    /\ stage[e] = "new"
    /\ stage' = [stage EXCEPT ![e] = IF Matching(e) = {} THEN "done" ELSE "sending"]
    /\ pending' = [pending EXCEPT ![e] = Matching(e)]
    /\ audience' = [audience EXCEPT ![e] = Matching(e)]
    /\ UNCHANGED <<connections, counters, failed, wave, got>>

\* The loop ends with the last send, and disconnects those that failed.
Served(e, c, bad) ==
    /\ pending' = [pending EXCEPT ![e] = @ \ {c}]
    /\ failed' = [failed EXCEPT ![e] = bad]
    /\ IF pending[e] = {c}
       THEN /\ stage' = [stage EXCEPT ![e] = "done"]
            /\ Drop(bad)
       ELSE UNCHANGED <<stage, clients, perIp>>
    /\ UNCHANGED <<connections, attempts, wave, audience>>

\* send_text returns.  Over a connection that was lost, and the server does not
\* know, it only fills a buffer: the event is lost, and the client stays listed.
Sent(e, c) ==
    /\ c \in pending[e]
    /\ c \notin noticed
    /\ Served(e, c, failed[e])
    /\ got' = [got EXCEPT ![e][c] = IF c \in broken THEN @ ELSE @ + 1]

\* The first failure ends the loop.
SendFailsMutant(e, c) ==
    /\ c \in pending[e]
    /\ c \in noticed
    /\ pending' = [pending EXCEPT ![e] = {}]
    /\ failed' = [failed EXCEPT ![e] = @ \union {c}]
    /\ stage' = [stage EXCEPT ![e] = "done"]
    /\ Drop(failed'[e])
    /\ UNCHANGED <<connections, attempts, wave, receipts>>

\* send_text raises
SendFails(e, c) ==
    /\ c \in pending[e]
    /\ c \in noticed
    /\ Served(e, c, failed[e] \union {c})
    /\ UNCHANGED got

-----------------------------------------------------------------------------
Init ==
    /\ pc = [c \in Clients |-> "new"]
    /\ ip = [c \in Clients |-> NoIp]
    /\ wants = [c \in Clients |-> {}]
    /\ broken = {}
    /\ noticed = {}
    /\ clients = {}
    /\ perIp = [a \in Ips |-> 0]
    /\ attempts = [a \in Ips |-> 0]
    /\ pending = [e \in Events |-> {}]
    /\ failed = [e \in Events |-> {}]
    /\ stage = [e \in Events |-> "new"]
    /\ wave = [a \in Ips |-> 0]
    /\ audience = [e \in Events |-> {}]
    /\ got = [e \in Events |-> [c \in Clients |-> 0]]

Handler(c) == Accept(c) \/ AcceptFails(c) \/ Leave(c)
SendEnds(e) == \E c \in Clients : Sent(e, c) \/ SendFails(e, c)

Next ==
    \/ \E c \in Clients, a \in Ips : \E m \in Filters[c] : Arrive(c, a, m)
    \/ \E c \in Clients : Break(c) \/ Notice(c) \/ Handler(c)
    \/ \E a \in Ips : WindowEnds(a)
    \/ \E e \in Events : Begin(e) \/ SendEnds(e)

Spec == Init /\ [][Next]_vars

\* A handler is told of its connection's end, which the server notices sooner or
\* later, and a send ends, since it gives up on a client that does not answer its
\* pings.
FairSpec ==
    /\ Spec
    /\ \A c \in Clients : WF_vars(Notice(c)) /\ WF_vars(Handler(c))
    /\ \A e \in Events : WF_vars(SendEnds(e))

-----------------------------------------------------------------------------
(* Properties *)

\* The values every variable takes.
TypeOK ==
    /\ pc \in [Clients -> {"new", "refused", "accepting", "streaming", "ended"}]
    /\ ip \in [Clients -> Ips \union {NoIp}]
    /\ \A c \in Clients : pc[c] # "new" => ip[c] \in Ips
    /\ wants \in [Clients -> SUBSET Events]
    /\ broken \subseteq Clients
    /\ noticed \subseteq broken
    /\ clients \subseteq Clients
    /\ perIp \in [Ips -> Nat]
    /\ attempts \in [Ips -> Nat]
    /\ pending \in [Events -> SUBSET Clients]
    /\ failed \in [Events -> SUBSET Clients]
    /\ stage \in [Events -> {"new", "sending", "done"}]
    /\ wave \in [Ips -> Nat]
    /\ audience \in [Events -> SUBSET Clients]
    /\ got \in [Events -> [Clients -> Nat]]

\* websocket.py:70-81: the counter of an address is the number of its clients
\* in the list, though a client that fails is disconnected by every broadcast
\* that noticed and by its own handler.
CountsAreTrue == \A a \in Ips : perIp[a] = Cardinality(Of(a, clients))

\* websocket.py:62-66, 172-201: an address gets past its limit only by as many
\* connections as it had accepts under way at once, less one.
LimitedByWave ==
    MaxPerIp > 0 =>
        \A a \in Ips :
            Cardinality(Of(a, clients)) > MaxPerIp =>
                Cardinality(Of(a, clients)) <= MaxPerIp + wave[a] - 1

\* websocket.py:103-115: a broadcast sends its event to every client listed at its
\* start whose filters match, once, and to nobody else: when it is done, only those
\* whose connection broke missed it, whatever other sends raised.  Those whose own
\* send raised are not listed any more, whoever disconnected them.
BroadcastReaches ==
    \A e \in Events, c \in Clients :
        /\ got[e][c] <= IF c \in audience[e] THEN 1 ELSE 0
        /\ stage[e] = "done" =>
              /\ c \in audience[e] /\ got[e][c] = 0 => c \in broken
              /\ c \in failed[e] => c \notin clients

\* websocket.py:105-115, 200-208: every broadcast, which the answer to a webhook
\* waits for, ends, and every connection that breaks gives its place back.
StreamSettles ==
    <>[](clients \intersect broken = {} /\ \A e \in Events : stage[e] # "sending")
=============================================================================
