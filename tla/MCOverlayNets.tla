--------------------------- MODULE MCOverlayNets ---------------------------
(***************************************************************************)
(* Small instances of OverlayNets: one node restarts, one id has two lives.*)
(***************************************************************************)
EXTENDS OverlayNets

CONSTANTS n1, n2

\* A policy group edge (both ends confirm NetReady) and an edge whose two
\* ends are on the same host.
Group == [c |-> n1, s |-> n2, order |-> <<"s", "c">>]
Local == [c |-> n1, s |-> n1, order |-> <<"c">>]

GroupShapes == {Group}
AllShapes   == {Group, Local}

OneRestarts  == [n \in Nodes |-> IF n = n1 THEN 2 ELSE 1]
=============================================================================
