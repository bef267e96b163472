--------------------------- MODULE MCOfflineQueue ---------------------------
(* A small instance of OfflineQueue for TLC: an order of two steps and one  *)
(* of a single step.                                                        *)
EXTENDS OfflineQueue, TLC

CONSTANTS o1, o2, d1, d2

StepsOf == (o1 :> 2) @@ (o2 :> 1)

=============================================================================
