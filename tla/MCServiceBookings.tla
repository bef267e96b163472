------------------------- MODULE MCServiceBookings -------------------------
(* A small instance of ServiceBookings for TLC. *)
EXTENDS ServiceBookings, TLC

CONSTANTS b1, b2, b3, x1, x2, w1, w2, d1, d2, r1, r2

\* The identities are interchangeable.
Alike == Permutations({b1, b2, b3}) \union Permutations({x1, x2}) \union Permutations({w1, w2})
           \union Permutations({d1, d2}) \union Permutations({r1, r2})

=============================================================================
