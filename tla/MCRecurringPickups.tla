------------------------- MODULE MCRecurringPickups -------------------------
(* A small instance of RecurringPickups for TLC: weeks of two days, days of *)
(* two windows, three days and one window of slots.                         *)
EXTENDS RecurringPickups, TLC

CONSTANTS r1, r2, s1, p1, p2, w1, q1, q2

OwnerOf == s1 :> r2

Recurrences == {[every |-> "alternate_days", on |-> {}], [every |-> "weekly", on |-> {1}],
                [every |-> "daily", on |-> {}]}

\* Both residents may have a pickup every other day, neither one every day.
Plan == [r \in {r1, r2} |-> 15]

\* Two slots have a place for everybody, two have one, and two are full from the start.
Rooms == [slot \in 0..LastSlot |-> IF slot = 0 THEN 0 ELSE <<2, 1, 1, 0, 2>>[slot]]

=============================================================================
