----------------------------- MODULE MCTransfer -----------------------------
(* Instances of Transfer.  The norms of the two blocks give priorities 2   *)
(* and 3.                                                                  *)
EXTENDS Transfer

Norms2 == [i \in 0 .. 1 |-> i]
=============================================================================
