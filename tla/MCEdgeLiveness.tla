-------------------------- MODULE MCEdgeLiveness --------------------------
(* Containers with one or two connections each. *)
EXTENDS EdgeLiveness

CONSTANTS o1, o2, f1, f2, f3

Attribution == [f \in Flows |-> IF f = f3 THEN {o2} ELSE {o1}]
=============================================================================
