----------------------------- MODULE MCSession -----------------------------
(* Instance of Session: blocks of 4 floats, texts of one or two arrays.    *)
EXTENDS Session

\* Data sets of 12, 28 and 32 bytes with a norm for every block; 20 bytes of
\* which the last block has none; and no data at all.
MCTexts == {<<3>>, <<4, 3>>, <<8, EmptyPart>>, <<5>>, <<EmptyPart>>}
=============================================================================
