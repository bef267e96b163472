------------------------- MODULE MCOrderProcessing -------------------------
(* A small instance of OrderProcessing for TLC: orders of none, one and two *)
(* lines that differ in what they are cleaned with and in whether they are  *)
(* pressed, together or on different lines.                                 *)
EXTENDS OrderProcessing, TLC

CONSTANTS l1, l2, r1, r2

Wash == [clean |-> "wash", press |-> FALSE]
WashAndIron == [clean |-> "wash", press |-> TRUE]
DryClean == [clean |-> "dry_clean", press |-> FALSE]
Iron == [clean |-> "none", press |-> TRUE]
CheckOnly == [clean |-> "none", press |-> FALSE]

SomeOrders ==
  {<<>>, l1 :> WashAndIron, l1 :> DryClean, l1 :> CheckOnly, l1 :> Wash @@ l2 :> Iron}

Alike == Permutations({r1, r2})

=============================================================================
