------------------------ MODULE MCPickupScheduling ------------------------
(***************************************************************************)
(* Small instances of PickupScheduling.  A tick is two hours; Morning      *)
(* starts at tick 2 and Evening at tick 4 of a day that ends at tick 6.    *)
(***************************************************************************)
EXTENDS PickupScheduling, TLC

CONSTANTS s1, s2, p1, p2, p3, r1, r2, r3, Capacity

MCWindows == {"Morning", "Evening"}
MCWindowStart == [Morning |-> 2, Evening |-> 4]

Open(society, w, total, sub) ==
  [society |-> society, window |-> w, total |-> total, remaining |-> total,
   active |-> TRUE, subscribersOnly |-> sub]

\* One slot, with or without the subscribers' rule.
OneSlot ==
  {[s \in Slots |-> IF s = s1 THEN Open(Home, "Morning", Capacity, sub) ELSE NoSlot] :
     sub \in BOOLEAN}

\* Two slots of the resident's society, so that pickups move between them.
TwoSlots ==
  {[s \in Slots |-> IF s = s1 THEN Open(Home, "Morning", Capacity, FALSE)
                              ELSE Open(Home, "Evening", 1, FALSE)]}

\* Every slot has still to be created.
NoSlots == {[s \in Slots |-> NoSlot]}

Symmetry == Permutations(Pickups) \union Permutations(Requests)

=============================================================================
