------------------------- MODULE MCModelDevDelivery -------------------------
(* Instances of ModelDevDelivery for TLC.                                  *)
EXTENDS ModelDevDelivery

CONSTANTS e1, p1, p2
=============================================================================
