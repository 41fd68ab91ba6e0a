----------------------------- MODULE MCDataSend -----------------------------
(* Instances of DataSend with groups of 4 floats and up to 3 arrays.       *)
EXTENDS DataSend

Texts(sizes) == UNION {[1 .. n -> sizes] : n \in 1 .. 3}

AnyTexts == Texts(EmptyPart .. 6)
=============================================================================
