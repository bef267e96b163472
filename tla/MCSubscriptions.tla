-------------------------- MODULE MCSubscriptions --------------------------
(* Small instances of Subscriptions.                                       *)
EXTENDS Subscriptions

CONSTANTS s1, s2, o1, o2, r1, r2, j1, j2, basic, plus

\* Plus is the higher tier; Basic allows for one garment, so that its limit is met.
Tier == [p \in {basic, plus} |-> IF p = plus THEN 2 ELSE 1]

=============================================================================
