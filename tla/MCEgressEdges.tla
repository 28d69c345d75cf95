-------------------------- MODULE MCEgressEdges --------------------------
(* One initiator, and two or three builds for it. *)
EXTENDS EgressEdges

CONSTANTS k1, d1, d2
=============================================================================
