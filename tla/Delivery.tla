------------------------------ MODULE Delivery ------------------------------
(***************************************************************************)
(* What a transfer promises, without windows, chunks, packets or a         *)
(* network.  Every unit of the data is taken in stream order, sent a       *)
(* number of times, alone or with others, and settled only when the        *)
(* receiver has it or its budget of transmissions is spent; at the start   *)
(* of the next window the settled units go, and a unit that is gone is     *)
(* never sent again.  Transfer implements this; its units are bytes.       *)
(***************************************************************************)
EXTENDS Integers

CONSTANTS
    Units,       \* stream offsets of the units, taken in ascending order
    Budget       \* unit -> transmissions after which it may be abandoned

VARIABLES
    stage,       \* unit -> "new", "queued", "settled" or "gone"
    tries,       \* unit -> transmissions, counted up to the budget
    got          \* units the receiver has

deliveryVars == <<stage, tries, got>>

DeliveryInit ==
    /\ stage = [u \in Units |-> "new"]
    /\ tries = [u \in Units |-> 0]
    /\ got = {}

At(s) == {u \in Units : stage[u] = s}

\* A new window: settled units go, and the next new ones are queued.
OpenWindow(S) ==
    /\ \A u \in S : \A v \in At("new") : v < u => v \in S
    /\ stage' = [u \in Units |-> IF u \in S THEN "queued"
                                 ELSE IF stage[u] = "settled" THEN "gone"
                                 ELSE stage[u]]
    /\ UNCHANGED <<tries, got>>

\* The units of S are sent together; those settled in mid-window may still be.
Send(S) ==
    /\ \A u \in S : stage[u] \in {"queued", "settled"}
    /\ tries' = [u \in Units |-> IF u \in S /\ tries[u] < Budget[u]
                                   THEN tries[u] + 1 ELSE tries[u]]
    /\ UNCHANGED <<stage, got>>

\* What was sent together reaches the receiver together.
Reach(S) ==
    /\ \A u \in S : tries[u] > 0
    /\ got' = got \cup S
    /\ UNCHANGED <<stage, tries>>

Settle(S) ==
    /\ \A u \in S : u \in got \/ tries[u] = Budget[u]
    /\ stage' = [u \in Units |-> IF u \in S THEN "settled" ELSE stage[u]]
    /\ UNCHANGED <<tries, got>>

DeliveryNext ==
    \/ \E S \in SUBSET Units : Send(S) \/ Reach(S)
    \/ \E S \in SUBSET At("new") : OpenWindow(S)
    \/ \E S \in SUBSET At("queued") : Settle(S)

DeliverySpec == DeliveryInit /\ [][DeliveryNext]_deliveryVars
=============================================================================
