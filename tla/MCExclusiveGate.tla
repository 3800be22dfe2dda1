------------------------- MODULE MCExclusiveGate -------------------------
(* Four calls of an exclusive-wrapped function. *)
EXTENDS ExclusiveGate

CONSTANTS g1, g2, g3, g4

MCCallers == {g1, g2, g3, g4}
=============================================================================
