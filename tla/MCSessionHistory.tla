-------------------------- MODULE MCSessionHistory --------------------------
(* Instances of SessionHistory with one or two keys of each kind. *)
EXTENDS SessionHistory

CONSTANTS i1, i2, b1, e1, d1, d2

=============================================================================
