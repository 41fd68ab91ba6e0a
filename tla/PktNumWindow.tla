---------------------------- MODULE PktNumWindow ----------------------------
(***************************************************************************)
(* PktNumWindow in src/src/packet.rs: a receiver's record of which chunks  *)
(* it has, and how often it will still ask for the ones it misses.  The    *)
(* Connection of lib.rs carries one in every PktNumSpace but keeps its own *)
(* books (recv_dic, recv_hashmap); here any caller may use it.             *)
(***************************************************************************)
EXTENDS Integers

CONSTANTS
    Offs,       \* stream offsets of the chunks
    Block,      \* bytes per priority block (1024)
    Prios       \* priorities a caller passes

ASSUME PktNumAssumption ==
    /\ Offs \subseteq Nat
    /\ Block \in Nat \ {0}
    /\ Prios \subseteq 1 .. 3

VARIABLES
    priority_record,  \* block's first offset -> priority
    record,           \* offset -> [retrans, received]
    \* history since the last clear_record
    arrived,          \* offsets given to additem or update_item
    asks,             \* offset -> calls of check_received answered "no"
    allowance,        \* offset -> priority used at the first such call
    marked            \* block starts recorded because a neighbour was missed

pktNumVars == <<priority_record, record, arrived, asks, allowance, marked>>

Put(f, k, v) == [j \in DOMAIN f \cup {k} |-> IF j = k THEN v ELSE f[j]]

Nothing == [k \in {} |-> 0]

PktNumInit ==
    /\ priority_record = Nothing /\ record = Nothing
    /\ arrived = {} /\ asks = Nothing /\ allowance = Nothing /\ marked = {}

Base(o) == o - (o % Block)

\* get_priority: 0 when the block is unknown.
GetPriority(o) ==
    IF o \in DOMAIN priority_record THEN priority_record[o] ELSE 0

\* get_retrans_times.
GetRetransTimes(o) ==
    IF o \in DOMAIN record /\ record[o].received = 0
      THEN record[o].retrans + 1 ELSE 0

Cell(retrans, received) == [retrans |-> retrans, received |-> received]

\* additem and update_item, which are the same: chunk o has arrived.
AddItem(o, p) ==
    /\ priority_record' = IF o % Block = 0 THEN Put(priority_record, o, p)
                          ELSE priority_record
    /\ record' = Put(record, o, Cell(p, 1))
    /\ arrived' = arrived \cup {o}
    /\ UNCHANGED <<asks, allowance, marked>>

\* The history of a check answered "no".
Asked(o) == asks' = Put(asks, o, IF o \in DOMAIN asks THEN asks[o] + 1 ELSE 1)

\* check_received(o, true) changes nothing, nor does check_received(o, false)
\* for a chunk recorded as received.

\* check_received(o, false) for a chunk not yet recorded: in an unknown block
\* the block's first chunk is added as well, with priority 3.
MissFirst(o) ==
    LET p == GetPriority(Base(o))
    IN  /\ o \notin DOMAIN record
        /\ IF p = 0
             THEN /\ priority_record' = Put(priority_record, Base(o), 3)
                  /\ record' = Put(Put(record, Base(o), Cell(3, 1)),
                                   o, Cell(2, 0))
                  /\ marked' = marked \cup ({Base(o)} \ {o})
             ELSE /\ record' = Put(record, o, Cell(p - 1, 0))
                  /\ UNCHANGED <<priority_record, marked>>
        /\ Asked(o)
        /\ allowance' = Put(allowance, o, IF p = 0 THEN 3 ELSE p)
        /\ UNCHANGED arrived

\* Variant that never gives a chunk up.
MissAgainForever(o) ==
    /\ o \in DOMAIN record /\ record[o].received = 0
    /\ record' = Put(record, o,
                     Cell(IF record[o].retrans > 0 THEN record[o].retrans - 1
                          ELSE 0, 0))
    /\ Asked(o)
    /\ UNCHANGED <<priority_record, arrived, allowance, marked>>

\* check_received(o, false) for a chunk recorded as missing: one request
\* less, and after the last one it counts as received.
MissAgain(o) ==
    /\ o \in DOMAIN record /\ record[o].received = 0
    /\ record' = Put(record, o,
                     IF record[o].retrans > 0 THEN Cell(record[o].retrans - 1, 0)
                     ELSE Cell(0, 1))
    /\ Asked(o)
    /\ UNCHANGED <<priority_record, arrived, allowance, marked>>

\* Variant that does not clear the record.
ClearRecordKeepsRecord ==
    /\ arrived' = {} /\ asks' = Nothing /\ allowance' = Nothing
    /\ marked' = {}
    /\ UNCHANGED <<priority_record, record>>

\* clear_record keeps the priorities.
ClearRecord ==
    /\ record' = Nothing
    /\ arrived' = {} /\ asks' = Nothing /\ allowance' = Nothing
    /\ marked' = {}
    /\ UNCHANGED priority_record

PktNumNext ==
    \/ \E o \in Offs : \E p \in Prios : AddItem(o, p)
    \/ \E o \in Offs : MissFirst(o) \/ MissAgain(o)
    \/ ClearRecord

PktNumSpec == PktNumInit /\ [][PktNumNext]_pktNumVars
-----------------------------------------------------------------------------
\* A chunk that has been asked for and has not arrived is asked for exactly
\* priority + 1 times in all, the sender's number of transmissions, and
\* get_retrans_times tells how many requests are left.
RequestsMatchBudget ==
    \A o \in DOMAIN asks \ arrived :
        asks[o] + GetRetransTimes(o) = allowance[o] + 1

\* check_received answers "yes" only for a chunk that arrived, for one asked
\* for as often as its priority allows, or for the first chunk of a block of
\* which another chunk was missed first: that one is taken for received.
YesHasAReason ==
    \A o \in DOMAIN record :
        record[o].received = 1 =>
            \/ o \in arrived \cup marked
            \/ o \in DOMAIN asks /\ asks[o] = allowance[o] + 1
=============================================================================
