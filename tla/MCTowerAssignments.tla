------------------------- MODULE MCTowerAssignments -------------------------
(* Small instances of TowerAssignments for TLC. *)
EXTENDS TowerAssignments, TLC

CONSTANTS x1, x2, t1, t2, o1, o2, r1, r2

\* The identities are interchangeable.
Alike == Permutations({x1, x2}) \union Permutations({t1, t2}) \union Permutations({o1, o2})

AllAlike == Alike \union Permutations({r1, r2})

=============================================================================
