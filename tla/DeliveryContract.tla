-------------------------- MODULE DeliveryContract --------------------------
(***************************************************************************)
(* What the bridge promises of the books it keeps on inbound events, with  *)
(* no word of ids, hashes, attempts, cooldowns or batches.  The books are  *)
(* what an operator reads; got is what is true of the destinations.        *)
(*                                                                         *)
(* An event that was sent is settled or becomes a failed record, which     *)
(* some destination may have got nonetheless.  Only what has a record is   *)
(* replayed, and the record follows the last replay that ended: what was   *)
(* delivered is failed again, or a dead letter, when a replay that         *)
(* overlapped or followed the delivery fails.                              *)
(* A dead letter leaves by a delivery only, what expired never comes back, *)
(* and delivered is written only with a delivery.                          *)
(***************************************************************************)
CONSTANTS
    Requests,   \* inbound webhook requests
    Calls       \* replay calls

VARIABLES
    book,       \* what the books say of each request
    open,       \* the replays of it under way
    got         \* the requests whose payload a destination has

vars == <<book, open, got>>

OnRecord == {"failed", "dead_letter", "delivered"}

Init ==
    /\ book = [r \in Requests |-> "new"]
    /\ open = [r \in Requests |-> {}]
    /\ got = {}

Ingest(r) ==
    /\ book[r] = "new"
    /\ \E entry \in {"refused", "sending"} : book' = [book EXCEPT ![r] = entry]
    /\ UNCHANGED <<open, got>>

\* No destination is known to have missed it; if none was tried, none has it.
Settle(r) ==
    /\ book[r] = "sending"
    /\ book' = [book EXCEPT ![r] = "settled"]
    /\ got' \in {got, got \union {r}}
    /\ UNCHANGED open

\* A destination missed it.  The record may push expired ones off the books.
Record(r) ==
    /\ book[r] = "sending"
    /\ \E gone \in SUBSET {q \in Requests : book[q] \in OnRecord} :
          book' = [q \in Requests |-> IF q = r THEN "failed"
                                      ELSE IF q \in gone THEN "expired"
                                      ELSE book[q]]
    /\ got' \in {got, got \union {r}}
    /\ UNCHANGED open

\* A batch may come to a record that expired after it was listed.
Open(w, r) ==
    /\ book[r] \in OnRecord \union {"expired"}
    /\ open' = [open EXCEPT ![r] = @ \union {w}]
    /\ UNCHANGED <<book, got>>

Deliver(w, r) ==
    /\ w \in open[r]
    /\ open' = [open EXCEPT ![r] = @ \ {w}]
    /\ got' = got \union {r}
    /\ book' = IF book[r] \in OnRecord THEN [book EXCEPT ![r] = "delivered"] ELSE book

Fail(w, r) ==
    /\ w \in open[r]
    /\ open' = [open EXCEPT ![r] = @ \ {w}]
    /\ \/ book[r] \in {"failed", "delivered"} /\ book' = [book EXCEPT ![r] = "failed"]
       \/ book[r] \in OnRecord /\ book' = [book EXCEPT ![r] = "dead_letter"]
       \/ book[r] = "expired" /\ UNCHANGED book
    /\ UNCHANGED got

\* A replay comes when the attempts are used up, whatever they achieved.
GiveUp(r) ==
    /\ book[r] \in OnRecord
    /\ book' = [book EXCEPT ![r] = "dead_letter"]
    /\ UNCHANGED <<open, got>>

Next ==
    \E r \in Requests :
        \/ Ingest(r) \/ Settle(r) \/ Record(r) \/ GiveUp(r)
        \/ \E w \in Calls : Open(w, r) \/ Deliver(w, r) \/ Fail(w, r)

SafetySpec == Init /\ [][Next]_vars

\* What was taken in is decided.
Decided == \A r \in Requests : book[r] = "sending" ~> book[r] # "sending"

Spec == SafetySpec /\ Decided
=============================================================================
