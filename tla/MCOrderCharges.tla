--------------------------- MODULE MCOrderCharges ---------------------------
(* Small instances of OrderCharges.                                        *)
EXTENDS OrderCharges, TLC

CONSTANTS o1, o2, q1, q2, r1, r2

\* Orders, refund requests and request slots are each used alike.
Alike == Permutations(Orders) \union Permutations(Refunds) \union Permutations(Requests)

=============================================================================
