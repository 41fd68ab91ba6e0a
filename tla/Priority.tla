------------------------------ MODULE Priority ------------------------------
(***************************************************************************)
(* Priorities of the data's blocks: data_send's split points and           *)
(* priority_calculation in src/src/lib.rs.  norm2_vec is an input; norms   *)
(* are integers here, of which only the order matters.                     *)
(***************************************************************************)
EXTENDS Integers, FiniteSets

CONSTANTS
    norm2_vec,     \* block index, from 0 -> norm of the block
    PriorityBlock  \* bytes per entry of norm2_vec (1024)

ASSUME PriorityAssumption ==
    /\ DOMAIN norm2_vec # {}
    /\ DOMAIN norm2_vec = 0 .. (Cardinality(DOMAIN norm2_vec) - 1)
    /\ \A j \in DOMAIN norm2_vec : norm2_vec[j] \in Int
    /\ PriorityBlock \in Nat \ {0}

Blocks == Cardinality(DOMAIN norm2_vec)

\* norm2_tmp[i] after sort_by.
SortedNorm(i) ==
    CHOOSE x \in {norm2_vec[j] : j \in DOMAIN norm2_vec} :
        /\ Cardinality({j \in DOMAIN norm2_vec : norm2_vec[j] < x}) <= i
        /\ i < Cardinality({j \in DOMAIN norm2_vec : norm2_vec[j] <= x})

low_split_point == SortedNorm((Blocks * 3) \div 10)
high_split_point == SortedNorm((Blocks * 7) \div 10)

\* priority_calculation(off).
PriorityOf(o) ==
    LET norm2 == norm2_vec[o \div PriorityBlock]
    IN  IF norm2 < low_split_point THEN 1
        ELSE IF norm2 < high_split_point THEN 2
        ELSE 3
=============================================================================
