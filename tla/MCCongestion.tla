---------------------------- MODULE MCCongestion ----------------------------
(* Instance of Congestion: every report of up to two chunks, and reports of *)
(* eight or nine that reach both sides of the cubic's switch at weight 1.8. *)
EXTENDS Congestion

Report(a, b, c, r) ==
    [lost1 |-> a, lost2 |-> b, lost3 |-> c, received |-> r]

MCReports ==
    {rep \in [lost1 : 0 .. 2, lost2 : 0 .. 2, lost3 : 0 .. 2, received : 0 .. 2] :
         Entries(rep) <= 2}
    \cup {Report(0, 0, 0, 8), Report(8, 0, 0, 0), Report(0, 9, 0, 0),
          Report(0, 0, 8, 0)}
=============================================================================
