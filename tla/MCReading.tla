----------------------------- MODULE MCReading -----------------------------
(* Instance of Reading: a stream of 8 bytes cut as a sender with blocks of *)
(* 3 bytes and a window of 7 cuts it.                                      *)
EXTENDS Reading

MCChunks == {[off |-> 0, len |-> 3], [off |-> 3, len |-> 3],
             [off |-> 6, len |-> 1], [off |-> 7, len |-> 1]}
=============================================================================
