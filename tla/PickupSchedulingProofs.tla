----------------------- MODULE PickupSchedulingProofs -----------------------
(***************************************************************************)
(* Proofs about PickupScheduling for any slots, pickups, requests and      *)
(* capacities: every document keeps its shape whatever stale one is put    *)
(* back; slots that are opened, booked into, collected from and closed are *)
(* never oversold, whichever requests die half way; no two open slots are  *)
(* created for the same hours; the counter of a slot is its capacity less  *)
(* the places taken in it; and a pickup at rest agrees with its order.     *)
(***************************************************************************)
EXTENDS PickupScheduling, FiniteSetTheorems, TLAPS

(***************************************************************************)
(* What a request holds, by handler.                                       *)
(***************************************************************************)
BookJobs ==
  [op : {"book"}, pc : {"reserve"}, p : Pickups, s : Slots] \union
  [op : {"book"}, pc : {"check", "giveBack", "pickup", "order"}, p : Pickups, s : Slots, slot : Slot]
CancelJobs ==
  [op : {"cancel"}, pc : {"read"}, p : Pickups, pickup : Pickup] \union
  [op : {"cancel"}, pc : {"fee", "release", "pickup", "order"}, p : Pickups, pickup : Pickup,
   order : OrderStates]
MoveJobs ==
  [op : {"move"}, pc : {"target", "reserve"}, p : Pickups, pickup : Pickup, s : Slots] \union
  [op : {"move"}, pc : {"release", "pickup", "order", "orderPut", "undo"}, p : Pickups,
   pickup : Pickup, s : Slots, slot : Slot]
CreateJobs == [op : {"create"}, pc : {"find", "put"}, s : Slots, slot : Slot]
UpdateJobs == [op : {"update"}, pc : {"put"}, s : Slots, slot : Slot]
Found == [p : Pickups, pickup : Pickup]
ShutJobs ==
  [op : {"shut"}, pc : {"find"}, s : Slots, slot : Slot] \union
  [op : {"shut"}, pc : {"next"}, s : Slots, slot : Slot, todo : SUBSET Found] \union
  [op : {"shut"}, pc : {"next", "order", "orderPut"}, s : Slots, slot : Slot, todo : SUBSET Found,
   p : Pickups]
CollectJobs ==
  [op : {"collect"}, pc : {"read"}, p : Pickups, early : BOOLEAN] \union
  [op : {"collect"}, pc : {"order", "pickup"}, p : Pickups, pickup : Pickup]
FailJobs ==
  [op : {"fail"}, pc : {"order", "read"}, p : Pickups] \union
  [op : {"fail"}, pc : {"pickup"}, p : Pickups, pickup : Pickup]

Jobs == {Idle} \union BookJobs \union CancelJobs \union MoveJobs \union CreateJobs
          \union UpdateJobs \union ShutJobs \union CollectJobs \union FailJobs

\* The pickup a request writes an order of, or has read, is there.
Rests(job) ==
  \/ job.op \in {"cancel", "move", "collect", "fail"}
  \/ job.op = "book" /\ job.pc = "order"
  \/ job.op = "shut" /\ job.pc \in {"order", "orderPut"}

Knows(job) == Rests(job) => Booked(job.p)

TypeInv ==
  /\ TypeOK
  /\ req \in [Requests -> Jobs]
  /\ \A p \in Pickups : orders[p] # "none" => Booked(p)
  /\ \A r \in Requests : Knows(req[r])

-----------------------------------------------------------------------------
(* Records *)

LEMMA SlotsAndPickups ==
  /\ \A slot \in Slot : slot # NoSlot
  /\ \A pickup \in Pickup : pickup # NoPickup
<1>1. ASSUME NEW slot \in Slot, slot = NoSlot PROVE FALSE
  <2>1. "window" \in DOMAIN slot
    BY DEF Slot
  <2>2. "window" \notin DOMAIN NoSlot
    BY DEF NoSlot
  <2> QED
    BY <1>1, <2>1, <2>2
<1>2. ASSUME NEW pickup \in Pickup, pickup = NoPickup PROVE FALSE
  <2>1. "slot" \in DOMAIN pickup
    BY DEF Pickup
  <2>2. "slot" \notin DOMAIN NoPickup
    BY DEF NoPickup
  <2> QED
    BY <1>2, <2>1, <2>2
<1> QED
  BY <1>1, <1>2

\* A job is one of its handler.
LEMMA JobOf ==
  ASSUME NEW job \in Jobs
  PROVE  /\ job.op \in Ops
         /\ job.op = "none" => job = Idle
         /\ job.op = "book" => job \in BookJobs
         /\ job.op = "cancel" => job \in CancelJobs
         /\ job.op = "move" => job \in MoveJobs
         /\ job.op = "create" => job \in CreateJobs
         /\ job.op = "update" => job \in UpdateJobs
         /\ job.op = "shut" => job \in ShutJobs
         /\ job.op = "collect" => job \in CollectJobs
         /\ job.op = "fail" => job \in FailJobs
<1>1. job = Idle => job.op = "none"
  BY DEF Idle
<1>2. job \in BookJobs => job.op = "book"
  BY DEF BookJobs
<1>3. job \in CancelJobs => job.op = "cancel"
  BY DEF CancelJobs
<1>4. job \in MoveJobs => job.op = "move"
  BY DEF MoveJobs
<1>5. job \in CreateJobs => job.op = "create"
  BY DEF CreateJobs
<1>6. job \in UpdateJobs => job.op = "update"
  BY DEF UpdateJobs
<1>7. job \in ShutJobs => job.op = "shut"
  BY DEF ShutJobs
<1>8. job \in CollectJobs => job.op = "collect"
  BY DEF CollectJobs
<1>9. job \in FailJobs => job.op = "fail"
  BY DEF FailJobs
<1> QED
  BY <1>1, <1>2, <1>3, <1>4, <1>5, <1>6, <1>7, <1>8, <1>9 DEF Jobs, Ops

\* The requests after one of them has moved on.
LEMMA Moved ==
  ASSUME req \in [Requests -> Jobs], NEW r \in Requests, NEW job \in Jobs, req' = [req EXCEPT ![r] = job]
  PROVE  /\ req' \in [Requests -> Jobs] /\ DOMAIN req' = Requests
         /\ req'[r] = job
         /\ \A q \in Requests \ {r} : req'[q] = req[q]
         /\ \A q \in Requests : req'[q].op \in Ops
<1>1. req' \in [Requests -> Jobs] /\ DOMAIN req' = Requests
  OBVIOUS
<1> QED
  BY <1>1, JobOf

-----------------------------------------------------------------------------
(* Every step keeps the types *)

\* A request moves on to `job`; the tables keep their shape and no pickup disappears.
LEMMA StepTyped ==
  ASSUME TypeInv, NEW r \in Requests, NEW job \in Jobs, req' = [req EXCEPT ![r] = job],
         now' = now, issued' \in 0..MaxRequests,
         slots' \in [Slots -> Slot \union {NoSlot}],
         pickups' \in [Pickups -> Pickup \union {NoPickup}],
         orders' \in [Pickups -> OrderStates],
         fees' \in [Pickups -> Nat], spoiled' \subseteq Slots,
         \A p \in Pickups : (Booked(p) \/ orders'[p] # "none") => Booked(p)',
         Knows(job)'
  PROVE  TypeInv'
<1>1. /\ req' \in [Requests -> Jobs] /\ DOMAIN req' = Requests /\ req'[r] = job
      /\ \A q \in Requests \ {r} : req'[q] = req[q]
      /\ \A q \in Requests : req'[q].op \in Ops
  BY Moved DEF TypeInv
<1>2. TypeOK'
  BY <1>1 DEF TypeInv, TypeOK
<1>3. ASSUME NEW q \in Requests PROVE Knows(req[q])'
  <2>1. CASE q = r
    BY <1>1, <2>1 DEF Knows, Rests, Booked
  <2>2. CASE q # r
    <3>1. Knows(req[q]) /\ req'[q] = req[q] /\ req[q] \in Jobs
      BY <1>1, <2>2 DEF TypeInv
    <3>2. Rests(req[q]) => req[q].p \in Pickups
      BY <3>1, JobOf DEF Rests, BookJobs, CancelJobs, MoveJobs, CollectJobs, FailJobs, ShutJobs
    <3>3. Rests(req[q]) => pickups'[req[q].p] # NoPickup
      BY <3>1, <3>2 DEF Knows, Booked
    <3> QED
      BY <3>1, <3>3 DEF Knows, Rests, Booked
  <2> QED
    BY <2>1, <2>2
<1> QED
  BY <1>1, <1>2, <1>3 DEF TypeInv

LEMMA Capacity ==
  ASSUME TypeInv, NEW s \in Slots
  PROVE  /\ Released(s) \in [Slots -> Slot \union {NoSlot}]
         /\ CanReserve(s) => Reserved(s) \in [Slots -> Slot \union {NoSlot}] /\ Reserved(s)[s] \in Slot
         /\ \A slot \in Slot : [slots EXCEPT ![s] = slot] \in [Slots -> Slot \union {NoSlot}]
<1>1. slots \in [Slots -> Slot \union {NoSlot}]
  BY DEF TypeInv, TypeOK
<1>2. \A slot \in Slot : [slots EXCEPT ![s] = slot] \in [Slots -> Slot \union {NoSlot}]
  BY <1>1
<1>3. Released(s) \in [Slots -> Slot \union {NoSlot}]
  <2>1. CASE Exists(s)
    <3>1. slots[s] \in Slot
      BY <1>1, <2>1 DEF Exists
    <3>2. [slots[s] EXCEPT !.remaining = @ + 1] \in Slot
      BY <3>1 DEF Slot
    <3> QED
      BY <1>2, <2>1, <3>2 DEF Released
  <2>2. CASE ~Exists(s)
    BY <1>1, <2>2 DEF Released
  <2> QED
    BY <2>1, <2>2
<1>4. ASSUME CanReserve(s)
      PROVE  Reserved(s) \in [Slots -> Slot \union {NoSlot}] /\ Reserved(s)[s] \in Slot
  <2>1. slots[s] \in Slot /\ slots[s].remaining > 0
    BY <1>1, <1>4 DEF CanReserve, Exists
  <2>2. [slots[s] EXCEPT !.remaining = @ - 1] \in Slot
    BY <2>1 DEF Slot
  <2> QED
    BY <1>1, <1>2, <2>2 DEF Reserved
<1> QED
  BY <1>2, <1>3, <1>4

\* A pickup is put.
LEMMA PutPickup ==
  ASSUME TypeInv, NEW p \in Pickups, NEW doc \in Pickup, pickups' = [pickups EXCEPT ![p] = doc]
  PROVE  /\ pickups' \in [Pickups -> Pickup \union {NoPickup}]
         /\ \A q \in Pickups : Booked(q) => Booked(q)'
         /\ Booked(p)'
BY SlotsAndPickups DEF TypeInv, TypeOK, Booked

LEMMA IdleTyped == Idle \in Jobs /\ Idle.op = "none" /\ Idle.pc = "idle"
BY DEF Jobs, Idle

LEMMA BookTyped ==
  ASSUME TypeInv, NEW r \in Requests, BookStep(r)
  PROVE  TypeInv'
<1> DEFINE j == req[r]
<1>0. j \in Jobs /\ TypeOK /\ j.op = "book" /\ j \in BookJobs
  BY JobOf DEF TypeInv, BookStep, BookReserve, BookCheck, BookGiveBack, BookPickup, BookOrder, At
<1>1. CASE BookReserve(r)
  <2>0. j.p \in Pickups /\ j.s \in Slots /\ BookJobs \subseteq Jobs
    BY <1>0, <1>1 DEF BookReserve, At, BookJobs, Jobs
  <2>1. CASE CanReserve(j.s)
    <3> DEFINE job == [op |-> "book", pc |-> "check", p |-> j.p, s |-> j.s, slot |-> slots'[j.s]]
    <3>1. slots' = Reserved(j.s) /\ req' = [req EXCEPT ![r] = job]
      BY <1>1, <2>1 DEF BookReserve
    <3>2. slots' \in [Slots -> Slot \union {NoSlot}] /\ slots'[j.s] \in Slot
      BY <2>0, <2>1, <3>1, Capacity
    <3>3. job \in BookJobs /\ job.op = "book" /\ job.pc = "check"
      BY <2>0, <3>2 DEF BookJobs
    <3> HIDE DEF job
    <3> QED
      BY <1>0, <1>1, <2>0, <3>1, <3>2, <3>3, StepTyped DEF BookReserve, Knows, Rests, Booked, TypeInv, TypeOK
  <2>2. CASE ~CanReserve(j.s)
    BY <1>0, <1>1, <2>2, IdleTyped, StepTyped DEF BookReserve, Finish, Knows, Rests, Booked, TypeInv, TypeOK
  <2> QED
    BY <2>1, <2>2
<1>2. ASSUME NEW pc \in {"pickup", "giveBack", "order"}, j.pc # "reserve", Goto(r, pc)
      PROVE  /\ [j EXCEPT !.pc = pc] \in Jobs /\ req' = [req EXCEPT ![r] = [j EXCEPT !.pc = pc]]
             /\ [j EXCEPT !.pc = pc].op = "book" /\ [j EXCEPT !.pc = pc].pc = pc
             /\ [j EXCEPT !.pc = pc].p = j.p
  BY <1>0, <1>2 DEF BookJobs, Jobs, Goto
<1>3. CASE BookCheck(r)
  <2>1. PICK pc \in {"pickup", "giveBack"} : Goto(r, pc)
    BY <1>3 DEF BookCheck
  <2>2. j.pc # "reserve"
    BY <1>3 DEF BookCheck, At
  <2> DEFINE job == [j EXCEPT !.pc = pc]
  <2>3. job \in Jobs /\ req' = [req EXCEPT ![r] = job] /\ job.op = "book" /\ job.pc = pc
    BY <1>2, <2>1, <2>2
  <2> HIDE DEF job
  <2> QED
    BY <1>0, <1>3, <2>1, <2>3, StepTyped DEF BookCheck, Knows, Rests, Booked, TypeInv, TypeOK
<1>4. CASE BookGiveBack(r)
  <2>1. j.s \in Slots
    BY <1>0, <1>4 DEF BookGiveBack, At, BookJobs
  <2>2. slots' \in [Slots -> Slot \union {NoSlot}]
    BY <1>4, <2>1, Capacity DEF BookGiveBack
  <2> QED
    BY <1>0, <1>4, <2>2, IdleTyped, StepTyped DEF BookGiveBack, Finish, Knows, Rests, Booked, TypeInv, TypeOK
<1>5. CASE BookPickup(r)
  <2>1. j.p \in Pickups /\ j.s \in Slots /\ j.slot \in Slot /\ j.pc = "pickup"
    BY <1>0, <1>5 DEF BookPickup, At, BookJobs
  <2> DEFINE doc == [status |-> "scheduled", slot |-> j.s, scheduledFor |-> ScheduledFor(j.slot)]
             job == [j EXCEPT !.pc = "order"]
  <2>2. doc \in Pickup
    BY <2>1, TimesAreTicks DEF Pickup, Pending, ScheduledFor, Slot
  <2>3. job \in Jobs /\ req' = [req EXCEPT ![r] = job] /\ job.op = "book" /\ job.pc = "order" /\ job.p = j.p
    BY <1>2, <1>5, <2>1 DEF BookPickup
  <2>4. pickups' = [pickups EXCEPT ![j.p] = doc]
    BY <1>5 DEF BookPickup
  <2> HIDE DEF job, doc
  <2>5. /\ pickups' \in [Pickups -> Pickup \union {NoPickup}]
        /\ \A q \in Pickups : Booked(q) => Booked(q)'
        /\ pickups'[j.p] # NoPickup
    BY <2>1, <2>2, <2>4, PutPickup DEF Booked
  <2> QED
    BY <1>0, <1>5, <2>3, <2>5, StepTyped DEF BookPickup, Knows, Rests, Booked, TypeInv, TypeOK
<1>6. CASE BookOrder(r)
  <2>1. j.p \in Pickups /\ j.pc = "order"
    BY <1>0, <1>6 DEF BookOrder, At, BookJobs
  <2>2. Booked(j.p)
    BY <1>0, <2>1 DEF TypeInv, Knows, Rests
  <2>3. orders' \in [Pickups -> OrderStates] /\ \A p \in Pickups : orders'[p] # "none" => Booked(p)
    BY <1>6, <2>1, <2>2 DEF BookOrder, TypeInv, TypeOK, OrderStates
  <2> QED
    BY <1>0, <1>6, <2>3, IdleTyped, StepTyped DEF BookOrder, Finish, Knows, Rests, Booked, TypeInv, TypeOK
<1> QED
  BY <1>1, <1>3, <1>4, <1>5, <1>6 DEF BookStep

LEMMA CancelTyped ==
  ASSUME TypeInv, NEW r \in Requests, CancelStep(r)
  PROVE  TypeInv'
<1> DEFINE j == req[r]
<1>0. /\ j \in Jobs /\ TypeOK /\ j.op = "cancel" /\ j \in CancelJobs
      /\ j.p \in Pickups /\ j.pickup \in Pickup /\ Booked(j.p)
  <2>1. j \in Jobs /\ TypeOK /\ j.op = "cancel" /\ j \in CancelJobs
    BY JobOf DEF TypeInv, CancelStep, CancelRead, CancelFee, CancelRelease, CancelPickup, CancelOrder, At
  <2> QED
    BY <2>1 DEF TypeInv, Knows, Rests, CancelJobs
<1>1. ASSUME NEW pc \in {"release", "pickup", "order"}, j.pc # "read", Goto(r, pc)
      PROVE  /\ [j EXCEPT !.pc = pc] \in Jobs /\ req' = [req EXCEPT ![r] = [j EXCEPT !.pc = pc]]
             /\ [j EXCEPT !.pc = pc].p = j.p
  BY <1>0, <1>1 DEF CancelJobs, Jobs, Goto
<1>2. CASE CancelRead(r)
  <2> DEFINE job == [op |-> "cancel", pc |-> IF orders[j.p] = "scheduled" THEN "fee" ELSE "release",
                     p |-> j.p, pickup |-> j.pickup, order |-> orders[j.p]]
  <2>1. req' = [req EXCEPT ![r] = job]
    BY <1>2 DEF CancelRead
  <2>2. job \in Jobs /\ job.p = j.p
    BY <1>0 DEF CancelJobs, Jobs, TypeOK
  <2> HIDE DEF job
  <2> QED
    BY <1>0, <1>2, <2>1, <2>2, StepTyped DEF CancelRead, Knows, Booked, TypeInv, TypeOK
<1>3. CASE CancelFee(r)
  <2>1. j.pc # "read" /\ Goto(r, "release")
    BY <1>3 DEF CancelFee, At
  <2> DEFINE job == [j EXCEPT !.pc = "release"]
  <2>2. job \in Jobs /\ req' = [req EXCEPT ![r] = job] /\ job.p = j.p
    BY <1>1, <2>1
  <2>3. fees' \in [Pickups -> Nat]
    BY <1>0, <1>3 DEF CancelFee, TypeOK
  <2> HIDE DEF job
  <2> QED
    BY <1>0, <1>3, <2>2, <2>3, StepTyped DEF CancelFee, Knows, Booked, TypeInv, TypeOK
<1>4. CASE CancelRelease(r)
  <2>1. j.pc # "read" /\ Goto(r, "pickup")
    BY <1>4 DEF CancelRelease, At
  <2> DEFINE job == [j EXCEPT !.pc = "pickup"]
  <2>2. job \in Jobs /\ req' = [req EXCEPT ![r] = job] /\ job.p = j.p
    BY <1>1, <2>1
  <2>3. slots' \in [Slots -> Slot \union {NoSlot}]
    BY <1>0, <1>4, Capacity DEF CancelRelease, Pickup
  <2> HIDE DEF job
  <2> QED
    BY <1>0, <1>4, <2>2, <2>3, StepTyped DEF CancelRelease, Knows, Booked, TypeInv, TypeOK
<1>5. CASE CancelPickup(r)
  <2> DEFINE doc == [j.pickup EXCEPT !.status = "cancelled"]
  <2>1. doc \in Pickup
    BY <1>0 DEF Pickup
  <2>2. pickups' = [pickups EXCEPT ![j.p] = doc]
    BY <1>5 DEF CancelPickup
  <2> HIDE DEF doc
  <2>3. /\ pickups' \in [Pickups -> Pickup \union {NoPickup}]
        /\ \A q \in Pickups : Booked(q) => Booked(q)'
        /\ pickups'[j.p] # NoPickup
    BY <1>0, <2>1, <2>2, PutPickup DEF Booked
  <2>4. PICK job \in Jobs : req' = [req EXCEPT ![r] = job] /\ (Rests(job) => job.p = j.p)
    <3>1. CASE Finish(r)
      BY <3>1, IdleTyped DEF Finish, Rests
    <3>2. CASE Goto(r, "order")
      BY <1>1, <1>5, <3>2 DEF CancelPickup, At
    <3> QED
      BY <1>5, <3>1, <3>2 DEF CancelPickup
  <2> QED
    BY <1>0, <1>5, <2>3, <2>4, StepTyped DEF CancelPickup, Knows, Rests, Booked, TypeInv, TypeOK
<1>6. CASE CancelOrder(r)
  <2>1. orders' \in [Pickups -> OrderStates] /\ \A p \in Pickups : orders'[p] # "none" => Booked(p)
    BY <1>0, <1>6 DEF CancelOrder, TypeInv, TypeOK, OrderStates
  <2> QED
    BY <1>0, <1>6, <2>1, IdleTyped, StepTyped DEF CancelOrder, Finish, Knows, Rests, Booked, TypeInv, TypeOK
<1> QED
  BY <1>2, <1>3, <1>4, <1>5, <1>6 DEF CancelStep

LEMMA MoveTyped ==
  ASSUME TypeInv, NEW r \in Requests, MoveStep(r) \/ MoveReject(r)
  PROVE  TypeInv'
<1> DEFINE j == req[r]
<1>0. /\ j \in Jobs /\ TypeOK /\ j.op = "move" /\ j \in MoveJobs
      /\ j.p \in Pickups /\ j.pickup \in Pickup /\ j.s \in Slots /\ Booked(j.p)
  <2>1. j \in Jobs /\ TypeOK /\ j.op = "move" /\ j \in MoveJobs
    BY JobOf DEF TypeInv, MoveStep, MoveTarget, MoveReserve, MoveRelease, MovePickup, MoveOrder,
      MoveOrderPut, MoveUndo, MoveReject, At
  <2> QED
    BY <2>1 DEF TypeInv, Knows, Rests, MoveJobs
<1>1. ASSUME NEW pc \in {"pickup", "order", "orderPut", "undo"}, j.pc \notin {"target", "reserve"}, Goto(r, pc)
      PROVE  /\ [j EXCEPT !.pc = pc] \in Jobs /\ req' = [req EXCEPT ![r] = [j EXCEPT !.pc = pc]]
             /\ [j EXCEPT !.pc = pc].p = j.p
  BY <1>0, <1>1 DEF MoveJobs, Jobs, Goto
<1>2. CASE MoveTarget(r)
  <2>1. PICK job \in Jobs : req' = [req EXCEPT ![r] = job] /\ (Rests(job) => job.p = j.p)
    <3>1. CASE Finish(r)
      BY <3>1, IdleTyped DEF Finish, Rests
    <3>2. CASE Goto(r, "reserve")
      <4>1. j.pc = "target"
        BY <1>2 DEF MoveTarget, At
      <4>2. [j EXCEPT !.pc = "reserve"] \in Jobs /\ [j EXCEPT !.pc = "reserve"].p = j.p
        BY <1>0, <4>1 DEF MoveJobs, Jobs
      <4> QED
        BY <3>2, <4>2 DEF Goto
    <3> QED
      BY <1>2, <3>1, <3>2 DEF MoveTarget
  <2> QED
    BY <1>0, <1>2, <2>1, StepTyped DEF MoveTarget, Knows, Booked, TypeInv, TypeOK
<1>3. CASE MoveReserve(r)
  <2>1. CASE CanReserve(j.s)
    <3> DEFINE job == [op |-> "move", pc |-> "release", p |-> j.p, pickup |-> j.pickup, s |-> j.s,
                       slot |-> slots'[j.s]]
    <3>1. slots' = Reserved(j.s) /\ req' = [req EXCEPT ![r] = job]
      BY <1>3, <2>1 DEF MoveReserve
    <3>2. slots' \in [Slots -> Slot \union {NoSlot}] /\ slots'[j.s] \in Slot
      BY <1>0, <2>1, <3>1, Capacity
    <3>3. job \in Jobs /\ job.p = j.p
      BY <1>0, <3>2 DEF MoveJobs, Jobs
    <3> HIDE DEF job
    <3> QED
      BY <1>0, <1>3, <3>1, <3>2, <3>3, StepTyped DEF MoveReserve, Knows, Booked, TypeInv, TypeOK
  <2>2. CASE ~CanReserve(j.s)
    BY <1>0, <1>3, <2>2, IdleTyped, StepTyped DEF MoveReserve, Finish, Knows, Rests, Booked, TypeInv, TypeOK
  <2> QED
    BY <2>1, <2>2
<1>4. CASE MoveRelease(r)
  <2>1. j.pc \notin {"target", "reserve"} /\ Goto(r, "pickup")
    BY <1>4 DEF MoveRelease, At
  <2> DEFINE job == [j EXCEPT !.pc = "pickup"]
  <2>2. job \in Jobs /\ req' = [req EXCEPT ![r] = job] /\ job.p = j.p
    BY <1>1, <2>1
  <2>3. slots' \in [Slots -> Slot \union {NoSlot}]
    BY <1>0, <1>4, Capacity DEF MoveRelease, Pickup
  <2> HIDE DEF job
  <2> QED
    BY <1>0, <1>4, <2>2, <2>3, StepTyped DEF MoveRelease, Knows, Booked, TypeInv, TypeOK
<1>5. CASE MovePickup(r)
  <2>1. j.pc \notin {"target", "reserve"} /\ j.slot \in Slot /\ Goto(r, "order")
    BY <1>0, <1>5 DEF MovePickup, At, MoveJobs
  <2> DEFINE doc == [status |-> "rescheduled", slot |-> j.s, scheduledFor |-> ScheduledFor(j.slot)]
             job == [j EXCEPT !.pc = "order"]
  <2>2. doc \in Pickup
    BY <1>0, <2>1, TimesAreTicks DEF Pickup, Pending, ScheduledFor, Slot
  <2>3. job \in Jobs /\ req' = [req EXCEPT ![r] = job] /\ job.p = j.p
    BY <1>1, <2>1
  <2>4. pickups' = [pickups EXCEPT ![j.p] = doc]
    BY <1>5 DEF MovePickup
  <2> HIDE DEF job, doc
  <2>5. /\ pickups' \in [Pickups -> Pickup \union {NoPickup}]
        /\ \A q \in Pickups : Booked(q) => Booked(q)'
        /\ pickups'[j.p] # NoPickup
    BY <1>0, <2>2, <2>4, PutPickup DEF Booked
  <2> QED
    BY <1>0, <1>5, <2>3, <2>5, StepTyped DEF MovePickup, Knows, Booked, TypeInv, TypeOK
<1>6. CASE MoveOrder(r) \/ MoveReject(r)
  <2>1. PICK job \in Jobs : req' = [req EXCEPT ![r] = job] /\ (Rests(job) => job.p = j.p)
    <3>1. CASE Finish(r)
      BY <3>1, IdleTyped DEF Finish, Rests
    <3>2. CASE Goto(r, "orderPut") \/ Goto(r, "undo")
      BY <1>1, <1>6, <3>2 DEF MoveOrder, MoveReject, At
    <3> QED
      BY <1>6, <3>1, <3>2 DEF MoveOrder, MoveReject
  <2>2. spoiled' \subseteq Slots
    <3>1. CASE MoveOrder(r)
      BY <1>0, <3>1 DEF MoveOrder, TypeOK
    <3>2. CASE MoveReject(r)
      BY <1>0, <3>2 DEF MoveReject, TypeOK, Pickup
    <3> QED
      BY <1>6, <3>1, <3>2
  <2> QED
    BY <1>0, <1>6, <2>1, <2>2, StepTyped DEF MoveOrder, MoveReject, Knows, Booked, TypeInv, TypeOK
<1>7. CASE MoveOrderPut(r)
  <2>1. orders' \in [Pickups -> OrderStates] /\ \A p \in Pickups : orders'[p] # "none" => Booked(p)
    BY <1>0, <1>7 DEF MoveOrderPut, TypeInv, TypeOK, OrderStates
  <2> QED
    BY <1>0, <1>7, <2>1, IdleTyped, StepTyped DEF MoveOrderPut, Finish, Knows, Rests, Booked, TypeInv, TypeOK
<1>8. CASE MoveUndo(r)
  <2>1. slots' \in [Slots -> Slot \union {NoSlot}]
    BY <1>0, <1>8, Capacity DEF MoveUndo
  <2> QED
    BY <1>0, <1>8, <2>1, IdleTyped, StepTyped DEF MoveUndo, Finish, Knows, Rests, Booked, TypeInv, TypeOK
<1> QED
  BY <1>2, <1>3, <1>4, <1>5, <1>6, <1>7, <1>8 DEF MoveStep

LEMMA StaffTyped ==
  ASSUME TypeInv, NEW r \in Requests, StaffStep(r)
  PROVE  TypeInv'
<1> DEFINE j == req[r]
<1>0. j \in Jobs /\ TypeOK
  BY DEF TypeInv
<1>1. ASSUME j.op \in {"create", "update", "shut"}
      PROVE  j.s \in Slots /\ j.slot \in Slot /\ slots[j.s] \in Slot \union {NoSlot}
  BY <1>0, <1>1, JobOf DEF CreateJobs, UpdateJobs, ShutJobs, TypeOK
<1>2. CASE CreateFind(r)
  <2>1. PICK job \in Jobs : req' = [req EXCEPT ![r] = job] /\ ~Rests(job)
    <3>1. CASE Finish(r)
      BY <3>1, IdleTyped DEF Finish, Rests
    <3>2. CASE Goto(r, "put")
      <4>1. j \in CreateJobs
        BY <1>0, <1>2, JobOf DEF CreateFind, At
      <4>2. [j EXCEPT !.pc = "put"] \in CreateJobs /\ [j EXCEPT !.pc = "put"].op = "create"
        BY <4>1 DEF CreateJobs
      <4> QED
        BY <3>2, <4>2 DEF Goto, Rests, Jobs
    <3> QED
      BY <1>2, <3>1, <3>2 DEF CreateFind
  <2> QED
    BY <1>0, <1>2, <2>1, StepTyped DEF CreateFind, Knows, Booked, TypeInv, TypeOK
<1>3. CASE CreatePut(r) \/ UpdatePut(r)
  <2>1. slots' \in [Slots -> Slot \union {NoSlot}]
    BY <1>1, <1>3, Capacity DEF CreatePut, UpdatePut, At
  <2>2. spoiled' \subseteq Slots
    BY <1>0, <1>1, <1>3 DEF CreatePut, UpdatePut, At, TypeOK
  <2> QED
    BY <1>0, <1>3, <2>1, <2>2, IdleTyped, StepTyped
    DEF CreatePut, UpdatePut, Finish, Knows, Rests, Booked, TypeInv, TypeOK
<1>4. ASSUME j.op = "shut" PROVE j \in ShutJobs
  BY <1>0, <1>4, JobOf
<1>5. CASE ShutFind(r)
  <2> DEFINE found == {p \in Pickups : pickups[p].status \in Pending /\ pickups[p].slot = j.s}
             job == [op |-> "shut", pc |-> "next", s |-> j.s, slot |-> j.slot,
                     todo |-> {[p |-> p, pickup |-> pickups[p]] : p \in found}]
  <2>1. req' = [req EXCEPT ![r] = job]
    BY <1>5 DEF ShutFind
  <2>2. \A p \in found : pickups[p] \in Pickup
    <3>1. "status" \in DOMAIN NoPickup /\ NoPickup.status \notin Pending
      BY DEF NoPickup, Pending
    <3> QED
      BY <1>0, <3>1 DEF TypeOK
  <2>3. job \in ShutJobs /\ ~Rests(job)
    BY <1>1, <1>5, <2>2 DEF ShutFind, At, ShutJobs, Found, Rests
  <2> HIDE DEF job
  <2> QED
    BY <1>0, <1>5, <2>1, <2>3, StepTyped DEF ShutFind, Jobs, Knows, Booked, TypeInv, TypeOK
<1>6. CASE ShutPickup(r)
  <2>1. PICK t \in j.todo :
          /\ pickups' = [pickups EXCEPT ![t.p] = [t.pickup EXCEPT !.status = "cancelled"]]
          /\ req' = [req EXCEPT ![r] = [op |-> "shut", pc |-> "order", s |-> j.s, slot |-> j.slot,
                                        todo |-> j.todo \ {t}, p |-> t.p]]
    BY <1>6 DEF ShutPickup
  <2> DEFINE job == [op |-> "shut", pc |-> "order", s |-> j.s, slot |-> j.slot,
                     todo |-> j.todo \ {t}, p |-> t.p]
             doc == [t.pickup EXCEPT !.status = "cancelled"]
  <2>2. j.todo \subseteq Found
    <3>1. j \in ShutJobs /\ j.pc = "next"
      BY <1>4, <1>6 DEF ShutPickup, At
    <3>2. CASE j \in [op : {"shut"}, pc : {"next"}, s : Slots, slot : Slot, todo : SUBSET Found]
      BY <3>2
    <3>3. CASE j \in [op : {"shut"}, pc : {"next", "order", "orderPut"}, s : Slots, slot : Slot,
                      todo : SUBSET Found, p : Pickups]
      BY <3>3
    <3>4. CASE j \in [op : {"shut"}, pc : {"find"}, s : Slots, slot : Slot]
      BY <3>1, <3>4
    <3> QED
      BY <3>1, <3>2, <3>3, <3>4 DEF ShutJobs
  <2>3. t.p \in Pickups /\ t.pickup \in Pickup
    BY <2>2 DEF Found
  <2>4. doc \in Pickup
    BY <2>3 DEF Pickup
  <2>5. job \in ShutJobs /\ job.p = t.p
    BY <1>1, <1>6, <2>2, <2>3 DEF ShutPickup, At, ShutJobs
  <2>6. pickups' = [pickups EXCEPT ![t.p] = doc] /\ req' = [req EXCEPT ![r] = job]
    BY <2>1
  <2> HIDE DEF job, doc
  <2>7. /\ pickups' \in [Pickups -> Pickup \union {NoPickup}]
        /\ \A q \in Pickups : Booked(q) => Booked(q)'
        /\ pickups'[t.p] # NoPickup
    BY <2>3, <2>4, <2>6, PutPickup DEF Booked
  <2> QED
    BY <1>0, <1>6, <2>5, <2>6, <2>7, StepTyped DEF ShutPickup, Jobs, Knows, Booked, TypeInv, TypeOK
<1>7. ASSUME j.op = "shut", j.pc \in {"order", "orderPut"}
      PROVE  /\ \A pc \in {"next", "orderPut"} :
                  /\ [j EXCEPT !.pc = pc] \in Jobs
                  /\ [j EXCEPT !.pc = pc].p = j.p
             /\ j.p \in Pickups /\ Booked(j.p)
  <2>1. j \in ShutJobs
    BY <1>4, <1>7
  <2>2. j \in [op : {"shut"}, pc : {"next", "order", "orderPut"}, s : Slots, slot : Slot,
               todo : SUBSET Found, p : Pickups]
    BY <1>7, <2>1 DEF ShutJobs
  <2>3. Booked(j.p)
    BY <1>7 DEF TypeInv, Knows, Rests
  <2>4. ASSUME NEW pc \in {"next", "orderPut"}
        PROVE  [j EXCEPT !.pc = pc] \in ShutJobs /\ [j EXCEPT !.pc = pc].p = j.p
    BY <2>2 DEF ShutJobs
  <2> QED
    BY <2>2, <2>3, <2>4 DEF Jobs
<1>8. CASE ShutOrder(r) \/ ShutOrderPut(r)
  <2>1. j.op = "shut" /\ j.pc \in {"order", "orderPut"}
    BY <1>8 DEF ShutOrder, ShutOrderPut, At
  <2>2. PICK pc \in {"next", "orderPut"} : req' = [req EXCEPT ![r] = [j EXCEPT !.pc = pc]]
    BY <1>8 DEF ShutOrder, ShutOrderPut, Goto
  <2> DEFINE job == [j EXCEPT !.pc = pc]
  <2>3. job \in Jobs /\ req' = [req EXCEPT ![r] = job] /\ job.p = j.p /\ j.p \in Pickups /\ Booked(j.p)
    BY <1>7, <2>1, <2>2
  <2>4. orders' \in [Pickups -> OrderStates] /\ \A p \in Pickups : orders'[p] # "none" => Booked(p)
    BY <1>0, <1>8, <2>3 DEF ShutOrder, ShutOrderPut, TypeInv, TypeOK, OrderStates
  <2> HIDE DEF job
  <2> QED
    BY <1>0, <1>8, <2>3, <2>4, StepTyped DEF ShutOrder, ShutOrderPut, Knows, Booked, TypeInv, TypeOK
<1>9. CASE ShutPut(r)
  <2> DEFINE doc == [j.slot EXCEPT !.active = FALSE, !.remaining = j.slot.total]
  <2>1. doc \in Slot
    BY <1>1, <1>9 DEF ShutPut, At, Slot
  <2>2. slots' = [slots EXCEPT ![j.s] = doc]
    BY <1>9 DEF ShutPut
  <2> HIDE DEF doc
  <2>3. slots' \in [Slots -> Slot \union {NoSlot}]
    BY <1>1, <1>9, <2>1, <2>2, Capacity DEF ShutPut, At
  <2>4. spoiled' \subseteq Slots
    BY <1>0, <1>1, <1>9 DEF ShutPut, At, TypeOK
  <2> QED
    BY <1>0, <1>9, <2>3, <2>4, IdleTyped, StepTyped DEF ShutPut, Finish, Knows, Rests, Booked, TypeInv, TypeOK
<1> QED
  BY <1>2, <1>3, <1>5, <1>6, <1>8, <1>9 DEF StaffStep

LEMMA DoorTyped ==
  ASSUME TypeInv, NEW r \in Requests, DoorStep(r)
  PROVE  TypeInv'
<1> DEFINE j == req[r]
<1>0. /\ j \in Jobs /\ TypeOK /\ j.p \in Pickups /\ Booked(j.p)
      /\ pickups[j.p] \in Pickup
      /\ j.op = "collect" => j \in CollectJobs
      /\ j.op = "fail" => j \in FailJobs
  <2>1. j \in Jobs /\ TypeOK /\ j.op \in {"collect", "fail"}
    BY DEF TypeInv, DoorStep, CollectRead, CollectOrder, CollectPickup, FailOrder, FailRead, FailPickup, At
  <2>2. j.p \in Pickups /\ Booked(j.p)
    BY <2>1, JobOf DEF TypeInv, Knows, Rests, CollectJobs, FailJobs
  <2> QED
    BY <2>1, <2>2, JobOf DEF TypeOK, Booked
<1>1. CASE CollectRead(r)
  <2>1. PICK job \in Jobs : req' = [req EXCEPT ![r] = job] /\ (Rests(job) => job.p = j.p)
    <3>1. CASE Finish(r)
      BY <3>1, IdleTyped DEF Finish, Rests
    <3>2. CASE ~Finish(r)
      <4> DEFINE job == [op |-> "collect", pc |-> "order", p |-> j.p, pickup |-> pickups[j.p]]
      <4>1. req' = [req EXCEPT ![r] = job]
        BY <1>1, <3>2 DEF CollectRead
      <4>2. job \in Jobs /\ job.p = j.p
        BY <1>0 DEF CollectJobs, Jobs
      <4> QED
        BY <4>1, <4>2
    <3> QED
      BY <3>1, <3>2
  <2> QED
    BY <1>0, <1>1, <2>1, StepTyped DEF CollectRead, Knows, Booked, TypeInv, TypeOK
<1>2. ASSUME NEW pc, Goto(r, pc),
             \/ j.op = "collect" /\ j.pc = "order" /\ pc = "pickup"
             \/ j.op = "fail" /\ j.pc = "order" /\ pc = "read"
      PROVE  /\ [j EXCEPT !.pc = pc] \in Jobs /\ req' = [req EXCEPT ![r] = [j EXCEPT !.pc = pc]]
             /\ [j EXCEPT !.pc = pc].p = j.p
  BY <1>0, <1>2 DEF CollectJobs, FailJobs, Jobs, Goto
<1>3. CASE CollectOrder(r) \/ FailOrder(r)
  <2>1. PICK job \in Jobs : req' = [req EXCEPT ![r] = job] /\ job.p = j.p
    <3>1. CASE CollectOrder(r)
      BY <1>2, <3>1 DEF CollectOrder, At
    <3>2. CASE FailOrder(r)
      BY <1>2, <3>2 DEF FailOrder, At
    <3> QED
      BY <1>3, <3>1, <3>2
  <2>2. orders' \in [Pickups -> OrderStates] /\ \A p \in Pickups : orders'[p] # "none" => Booked(p)
    BY <1>0, <1>3 DEF CollectOrder, FailOrder, TypeInv, TypeOK, OrderStates
  <2>3. UNCHANGED <<now, slots, pickups, fees, issued, spoiled>>
    BY <1>3 DEF CollectOrder, FailOrder
  <2>4. issued' \in 0..MaxRequests /\ slots' \in [Slots -> Slot \union {NoSlot}] /\ fees' \in [Pickups -> Nat]
        /\ pickups' \in [Pickups -> Pickup \union {NoPickup}] /\ spoiled' \subseteq Slots
    BY <1>0, <2>3 DEF TypeOK
  <2>5. Knows(job)' /\ \A p \in Pickups : Booked(p) => Booked(p)'
    BY <1>0, <2>1, <2>3 DEF Knows, Booked
  <2>6. \A p \in Pickups : (Booked(p) \/ orders'[p] # "none") => Booked(p)'
    BY <2>2, <2>5
  <2> QED
    BY <2>1, <2>2, <2>3, <2>4, <2>5, <2>6, StepTyped DEF Knows, Booked
<1>4. CASE FailRead(r)
  <2> DEFINE job == [op |-> "fail", pc |-> "pickup", p |-> j.p, pickup |-> pickups[j.p]]
  <2>1. req' = [req EXCEPT ![r] = job]
    BY <1>4 DEF FailRead
  <2>2. job \in Jobs /\ job.p = j.p
    BY <1>0 DEF FailJobs, Jobs
  <2> HIDE DEF job
  <2>3. UNCHANGED <<now, slots, pickups, orders, fees, issued, spoiled>>
    BY <1>4 DEF FailRead
  <2> QED
    BY <1>0, <2>1, <2>2, <2>3, StepTyped DEF Knows, Booked, TypeInv, TypeOK
<1>5. CASE CollectPickup(r) \/ FailPickup(r)
  <2>1. j.pickup \in Pickup
    BY <1>0, <1>5 DEF CollectPickup, FailPickup, At, CollectJobs, FailJobs
  <2>2. PICK doc \in Pickup : pickups' = [pickups EXCEPT ![j.p] = doc]
    <3>1. \A status \in {"completed", "failed"} : [j.pickup EXCEPT !.status = status] \in Pickup
      BY <2>1 DEF Pickup
    <3> QED
      BY <1>5, <3>1 DEF CollectPickup, FailPickup
  <2>3. /\ pickups' \in [Pickups -> Pickup \union {NoPickup}]
        /\ \A q \in Pickups : Booked(q) => Booked(q)'
    BY <1>0, <2>2, PutPickup
  <2> QED
    BY <1>0, <1>5, <2>3, IdleTyped, StepTyped
    DEF CollectPickup, FailPickup, Finish, Knows, Rests, Booked, TypeInv, TypeOK
<1> QED
  BY <1>1, <1>3, <1>4, <1>5 DEF DoorStep

\* A new request.
LEMMA BeginTyped ==
  ASSUME TypeInv, NEW r \in Requests, NEW op, NEW job \in Jobs, Begin(r, op, job),
         UNCHANGED <<now, slots, pickups, orders, fees, spoiled>>,
         Rests(job) => Booked(job.p)
  PROVE  TypeInv'
<1>1. issued' \in 0..MaxRequests
  BY BoundsAreNatural DEF Begin, TypeInv, TypeOK
<1>2. req' = [req EXCEPT ![r] = job]
  BY DEF Begin
<1> QED
  BY <1>1, <1>2, StepTyped DEF Knows, Booked, TypeInv, TypeOK

LEMMA StartTyped ==
  ASSUME TypeInv, NEW r \in Requests, Start(r)
  PROVE  TypeInv'
<1>0. TypeOK /\ \A p \in Pickups : Booked(p) => pickups[p] \in Pickup
  BY DEF TypeInv, TypeOK, Booked
<1>1. CASE BookStart(r)
  <2>1. PICK p \in Pickups, s \in Slots :
          Begin(r, "book", [op |-> "book", pc |-> "reserve", p |-> p, s |-> s])
    BY <1>1 DEF BookStart
  <2> DEFINE job == [op |-> "book", pc |-> "reserve", p |-> p, s |-> s]
  <2>2. job \in Jobs /\ ~Rests(job)
    BY DEF Jobs, BookJobs, Rests
  <2> HIDE DEF job
  <2>3. Begin(r, "book", job)
    BY <2>1 DEF job
  <2> QED
    BY <1>1, <2>2, <2>3, BeginTyped DEF BookStart
<1>2. CASE CancelStart(r)
  <2>1. PICK p \in Pickups :
          Booked(p) /\ Begin(r, "cancel", [op |-> "cancel", pc |-> "read", p |-> p, pickup |-> pickups[p]])
    BY <1>2 DEF CancelStart
  <2> DEFINE job == [op |-> "cancel", pc |-> "read", p |-> p, pickup |-> pickups[p]]
  <2>2. job \in Jobs /\ job.p = p
    BY <1>0, <2>1 DEF Jobs, CancelJobs
  <2> HIDE DEF job
  <2>3. Begin(r, "cancel", job) /\ Booked(job.p)
    BY <2>1, <2>2 DEF job
  <2> QED
    BY <1>2, <2>2, <2>3, BeginTyped DEF CancelStart
<1>3. CASE MoveStart(r)
  <2>1. PICK p \in Pickups, s \in Slots :
          /\ Booked(p)
          /\ Begin(r, "move", [op |-> "move", pc |-> "target", p |-> p, pickup |-> pickups[p], s |-> s])
    BY <1>3 DEF MoveStart
  <2> DEFINE job == [op |-> "move", pc |-> "target", p |-> p, pickup |-> pickups[p], s |-> s]
  <2>2. job \in Jobs /\ job.p = p
    BY <1>0, <2>1 DEF Jobs, MoveJobs
  <2> HIDE DEF job
  <2>3. Begin(r, "move", job) /\ Booked(job.p)
    BY <2>1, <2>2 DEF job
  <2> QED
    BY <1>3, <2>2, <2>3, BeginTyped DEF MoveStart
<1>4. CASE CreateStart(r)
  <2>1. PICK s \in Slots, society \in Societies, w \in Windows, c \in Capacities, sub \in BOOLEAN :
          Begin(r, "create", [op |-> "create", pc |-> "find", s |-> s, slot |->
            [society |-> society, window |-> w, total |-> c, remaining |-> c,
             active |-> TRUE, subscribersOnly |-> sub]])
    BY <1>4 DEF CreateStart
  <2> DEFINE slot == [society |-> society, window |-> w, total |-> c, remaining |-> c,
                      active |-> TRUE, subscribersOnly |-> sub]
             job == [op |-> "create", pc |-> "find", s |-> s, slot |-> slot]
  <2>2. slot \in Slot
    BY CapacitiesAreNatural DEF Slot
  <2>3. Begin(r, "create", job)
    BY <2>1
  <2> HIDE DEF slot
  <2>4. job \in Jobs /\ ~Rests(job)
    BY <2>2 DEF Jobs, CreateJobs, Rests
  <2> HIDE DEF job
  <2> QED
    BY <1>4, <2>3, <2>4, BeginTyped DEF CreateStart
<1>5. CASE UpdateRead(r)
  <2>1. PICK s \in Slots, c \in Capacities, w \in Windows, a \in BOOLEAN :
          /\ Exists(s)
          /\ c >= Taken(slots[s])
          /\ Begin(r, "update", [op |-> "update", pc |-> "put", s |-> s, slot |-> Patched(slots[s], c, w, a)])
    BY <1>5 DEF UpdateRead
  <2> DEFINE slot == Patched(slots[s], c, w, a)
             job == [op |-> "update", pc |-> "put", s |-> s, slot |-> slot]
  <2>2. slot \in Slot
    <3>1. slots[s] \in Slot /\ c \in Nat
      BY <1>0, <2>1, CapacitiesAreNatural DEF TypeOK, Exists
    <3>2. c - (Taken(slots[s])) \in Nat
      BY <2>1, <3>1 DEF Slot, Taken
    <3> QED
      BY <3>1, <3>2 DEF Slot, Patched
  <2>3. Begin(r, "update", job)
    BY <2>1
  <2> HIDE DEF slot
  <2>4. job \in Jobs /\ ~Rests(job)
    BY <2>2 DEF Jobs, UpdateJobs, Rests
  <2> HIDE DEF job
  <2> QED
    BY <1>5, <2>3, <2>4, BeginTyped DEF UpdateRead
<1>6. CASE ShutStart(r)
  <2>1. PICK s \in Slots :
          Exists(s) /\ Begin(r, "shut", [op |-> "shut", pc |-> "find", s |-> s, slot |-> slots[s]])
    BY <1>6 DEF ShutStart
  <2> DEFINE job == [op |-> "shut", pc |-> "find", s |-> s, slot |-> slots[s]]
  <2>2. job \in Jobs /\ ~Rests(job)
    BY <1>0, <2>1 DEF Jobs, ShutJobs, Rests, TypeOK, Exists
  <2>3. Begin(r, "shut", job)
    BY <2>1
  <2> HIDE DEF job
  <2> QED
    BY <1>6, <2>2, <2>3, BeginTyped DEF ShutStart
<1>7. CASE CollectStart(r)
  <2>1. PICK p \in Pickups, early \in BOOLEAN :
          /\ orders[p] = "scheduled"
          /\ Begin(r, "collect", [op |-> "collect", pc |-> "read", p |-> p, early |-> early])
    BY <1>7 DEF CollectStart
  <2> DEFINE job == [op |-> "collect", pc |-> "read", p |-> p, early |-> early]
  <2>2. job \in Jobs /\ job.p = p
    BY DEF Jobs, CollectJobs
  <2>3. Begin(r, "collect", job) /\ Booked(p)
    BY <2>1 DEF TypeInv
  <2> HIDE DEF job
  <2> QED
    BY <1>7, <2>2, <2>3, BeginTyped DEF CollectStart
<1>8. CASE FailStart(r)
  <2>1. PICK p \in Pickups :
          orders[p] = "scheduled" /\ Begin(r, "fail", [op |-> "fail", pc |-> "order", p |-> p])
    BY <1>8 DEF FailStart
  <2> DEFINE job == [op |-> "fail", pc |-> "order", p |-> p]
  <2>2. job \in Jobs /\ job.p = p
    BY DEF Jobs, FailJobs
  <2>3. Begin(r, "fail", job) /\ Booked(p)
    BY <2>1 DEF TypeInv
  <2> HIDE DEF job
  <2> QED
    BY <1>8, <2>2, <2>3, BeginTyped DEF FailStart
<1> QED
  BY <1>1, <1>2, <1>3, <1>4, <1>5, <1>6, <1>7, <1>8 DEF Start

LEMMA InitTyped == Init => TypeInv
<1> SUFFICES ASSUME Init PROVE TypeInv
  OBVIOUS
<1>1. slots \in [Slots -> Slot \union {NoSlot}]
  BY FirstSlotsAreFree DEF Init
<1>2. TypeOK
  BY <1>1, BoundsAreNatural, IdleTyped DEF Init, TypeOK, OrderStates, Ops
<1>3. \A r \in Requests : req[r] = Idle /\ ~Rests(req[r])
  BY IdleTyped DEF Init, Rests
<1> QED
  BY <1>2, <1>3, IdleTyped DEF Init, TypeInv, Knows

LEMMA NextTyped == TypeInv /\ [Next]_vars => TypeInv'
<1> SUFFICES ASSUME TypeInv, [Next]_vars PROVE TypeInv'
  OBVIOUS
<1>1. ASSUME NEW r \in Requests, Lose(r) PROVE TypeInv'
  <2>1. spoiled' \subseteq Slots
    BY <1>1 DEF Lose, TypeInv, TypeOK
  <2> QED
    BY <1>1, <2>1, IdleTyped, StepTyped DEF Lose, Finish, Knows, Rests, Booked, TypeInv, TypeOK
<1>2. CASE Tick \/ UNCHANGED vars
  <2>1. now' \in 0..MaxTime
    BY <1>2, BoundsAreNatural DEF Tick, vars, TypeInv, TypeOK
  <2>2. UNCHANGED <<slots, pickups, orders, fees, req, issued, spoiled>>
    BY <1>2 DEF Tick, vars
  <2> QED
    BY <2>1, <2>2 DEF TypeInv, TypeOK, Knows, Booked
<1> QED
  BY <1>1, <1>2, BookTyped, CancelTyped, MoveTyped, StaffTyped, DoorTyped, StartTyped DEF Next, Continue

\* Every document keeps its shape, the counter of a slot among it, whatever stale
\* document a handler puts back and wherever it fails.
THEOREM TypeCorrectness == Spec => []TypeOK
<1>1. Spec => []TypeInv
  BY InitTyped, NextTyped, PTL DEF Spec
<1>2. TypeInv => TypeOK
  BY DEF TypeInv
<1> QED
  BY <1>1, <1>2, PTL

(***************************************************************************)
(* Overselling.  Every place of a slot that is open is free, or spoken for *)
(* by a booking under way, or a pickup stands in it; of a closed slot only *)
(* the free ones are forgotten.  A booking that dies loses its place and   *)
(* never gives one too many, so this bounds and does not count.            *)
(***************************************************************************)
Stands(s) == {p \in Pickups : Booked(p) /\ pickups[p].slot = s}
Holders(s) == {r \in Requests : Holds(r, s)}
Left(slot) == IF slot.active THEN slot.remaining ELSE 0
Fits(s) == Cardinality(Stands(s)) + Cardinality(Holders(s)) + Left(slots[s]) <= slots[s].total

Places ==
  /\ \A s \in Slots : Exists(s) => Fits(s)
  /\ \A p \in Pickups : Booked(p) => Exists(pickups[p].slot)

\* What a request goes by is still so when it acts on it: no one else books its pickup or
\* opens its slot, and the documents it has read name the slots the stored ones name.
Coming(job) == job.op = "book" /\ job.pc # "order"
Seeks(job) == job.op = "book" /\ job.pc \in {"check", "giveBack", "pickup"}
Read(job) ==
  \/ job.op = "collect" /\ job.pc # "read"
  \/ job.op = "fail" /\ job.pc = "pickup"

Right(job) ==
  /\ job.op \notin {"cancel", "move", "update"}
  /\ Coming(job) => ~Booked(job.p)
  /\ Seeks(job) => Exists(job.s)
  /\ job.op = "create" => ~Exists(job.s) /\ job.slot.remaining <= job.slot.total
  /\ job.op = "shut" => Exists(job.s) /\ job.slot.total = slots[job.s].total
  /\ job.op = "shut" /\ job.pc # "find" =>
       \A t \in job.todo : Booked(t.p) /\ t.pickup.slot = pickups[t.p].slot
  /\ Read(job) => job.pickup.slot = pickups[job.p].slot

Apart(one, other) ==
  /\ one.op = "book" /\ other.op = "book" => one.p # other.p
  /\ one.op = "create" /\ other.op = "create" => one.s # other.s

IInv ==
  /\ TypeInv
  /\ Places
  /\ \A r \in Requests : Right(req[r])
  /\ \A q, r \in Requests : q # r => Apart(req[q], req[r])

-----------------------------------------------------------------------------
(* What a step of one request leaves of what the others go by *)

LEMMA Fields ==
  ASSUME NEW job \in Jobs
  PROVE  /\ job.op \in {"book", "collect", "fail"} => job.p \in Pickups
         /\ job.op \in {"book", "create", "shut"} => job.s \in Slots
         /\ job.op = "shut" /\ job.pc # "find" => job.todo \subseteq Found
         /\ Read(job) => job.pickup \in Pickup
<1>1. job.op = "book" => job.p \in Pickups /\ job.s \in Slots
  BY JobOf DEF BookJobs
<1>2. job.op \in {"collect", "fail"} => job.p \in Pickups /\ (Read(job) => job.pickup \in Pickup)
  BY JobOf DEF CollectJobs, FailJobs, Read
<1>3. job.op = "create" => job.s \in Slots
  BY JobOf DEF CreateJobs
<1>4. job.op = "shut" => job.s \in Slots /\ (job.pc # "find" => job.todo \subseteq Found)
  BY JobOf DEF ShutJobs
<1> QED
  BY <1>1, <1>2, <1>3, <1>4 DEF Read

LEMMA StepRight ==
  ASSUME IInv, NEW r \in Requests, NEW job \in Jobs, req' = [req EXCEPT ![r] = job],
         Right(job)',
         \A s \in Slots : Exists(s) => Exists(s)' /\ slots'[s].total = slots[s].total,
         \A s \in Slots : Exists(s)' => Exists(s) \/ (req[r].op = "create" /\ s = req[r].s),
         \A p \in Pickups : Booked(p) => Booked(p)' /\ pickups'[p].slot = pickups[p].slot,
         \A p \in Pickups : Booked(p)' => Booked(p) \/ (Coming(req[r]) /\ p = req[r].p),
         \A q \in Requests \ {r} : Apart(req[q], job) /\ Apart(job, req[q])
  PROVE  (/\ \A q \in Requests : Right(req[q])
          /\ \A p, q \in Requests : p # q => Apart(req[p], req[q]))'
<1>1. /\ req \in [Requests -> Jobs] /\ req'[r] = job
      /\ \A q \in Requests \ {r} : req'[q] = req[q]
  BY Moved DEF IInv, TypeInv
<1>2. ASSUME NEW q \in Requests \ {r} PROVE Right(req[q])'
  <2> DEFINE j == req[q]
  <2>1. j \in Jobs /\ Right(j) /\ Knows(j) /\ Apart(j, req[r]) /\ j = req'[q]
    BY <1>1 DEF IInv, TypeInv
  <2>2. Coming(j) => pickups'[j.p] = NoPickup
    BY <2>1, Fields DEF Right, Coming, Apart, Booked
  <2>3. Seeks(j) => slots'[j.s] # NoSlot
    BY <2>1, Fields DEF Right, Seeks, Exists
  <2>4. j.op = "create" => slots'[j.s] = NoSlot /\ j.slot.remaining <= j.slot.total
    BY <2>1, Fields DEF Right, Apart, Exists
  <2>5. j.op = "shut" => slots'[j.s] # NoSlot /\ j.slot.total = slots'[j.s].total
    BY <2>1, Fields DEF Right, Exists
  <2>6. j.op = "shut" /\ j.pc # "find" =>
          \A t \in j.todo : pickups'[t.p] # NoPickup /\ t.pickup.slot = pickups'[t.p].slot
    BY <2>1, Fields DEF Right, Found, Booked
  <2>7. Read(j) => j.pickup.slot = pickups'[j.p].slot
    BY <2>1, Fields DEF Right, Read, Knows, Rests, Booked
  <2> QED
    BY <2>1, <2>2, <2>3, <2>4, <2>5, <2>6, <2>7 DEF Right, Coming, Seeks, Read, Booked, Exists
<1>3. Right(req[r])'
  BY <1>1 DEF Right, Coming, Seeks, Read, Booked, Exists
<1>4. ASSUME NEW p \in Requests, NEW q \in Requests, p # q PROVE Apart(req'[p], req'[q])
  BY <1>1, <1>4 DEF IInv
<1> QED
  BY <1>2, <1>3, <1>4 DEF Apart

\* Where the places of a slot are after a request has moved on.
Keeps(job, s) ==
  \/ job.op = "book" /\ job.pc \in {"check", "giveBack", "pickup"} /\ job.s = s
  \/ job.op = "move" /\ job.pc \in {"release", "pickup", "undo"} /\ job.s = s

LEMMA HoldersAfter ==
  ASSUME TypeInv, NEW r \in Requests, NEW job \in Jobs, req' = [req EXCEPT ![r] = job], NEW s
  PROVE  /\ Holders(s)' = IF Keeps(job, s) THEN Holders(s) \union {r} ELSE Holders(s) \ {r}
         /\ r \in Holders(s) <=> Keeps(req[r], s)
         /\ IsFiniteSet(Holders(s)) /\ Cardinality(Holders(s)) \in Nat
<1>1. req'[r] = job /\ \A q \in Requests \ {r} : req'[q] = req[q]
  BY Moved DEF TypeInv
<1>2. \A q \in Requests : Holds(q, s) <=> Keeps(req[q], s)
  BY DEF Holds, Keeps
<1>3. \A q \in Requests : Holds(q, s)' <=> Keeps(req'[q], s)
  BY DEF Holds, Keeps
<1>4. IsFiniteSet(Holders(s)) /\ Cardinality(Holders(s)) \in Nat
  BY NamesAreFinite, FS_Subset, FS_CardinalityType DEF Holders
<1>5. Holders(s)' = {q \in Requests : Holds(q, s)'}
  BY DEF Holders
<1>6. Holders(s)' = {q \in Requests : Keeps(req'[q], s)} /\ Holders(s) = {q \in Requests : Keeps(req[q], s)}
  BY <1>2, <1>3, <1>5 DEF Holders
<1> QED
  BY <1>1, <1>4, <1>6

LEMMA StandsAreFinite ==
  ASSUME NEW s
  PROVE  IsFiniteSet(Stands(s)) /\ Cardinality(Stands(s)) \in Nat
BY NamesAreFinite, FS_Subset, FS_CardinalityType DEF Stands

LEMMA IdleRight ==
  /\ Right(Idle)' /\ \A s : ~Keeps(Idle, s)
  /\ \A job : Apart(job, Idle) /\ Apart(Idle, job)
BY IdleTyped DEF Right, Coming, Seeks, Read, Keeps, Apart

\* No pickup appears or changes its slot, no slot changes, and no place is taken.
LEMMA QuietStep ==
  ASSUME IInv, TypeInv', NEW r \in Requests, NEW job \in Jobs, req' = [req EXCEPT ![r] = job],
         slots' = slots,
         \A p \in Pickups : Booked(p)' <=> Booked(p),
         \A p \in Pickups : Booked(p) => pickups'[p].slot = pickups[p].slot,
         Right(job)',
         \A s \in Slots : Keeps(job, s) => Keeps(req[r], s),
         \A q \in Requests \ {r} : Apart(req[q], job) /\ Apart(job, req[q])
  PROVE  IInv'
<1>1. ASSUME NEW s \in Slots, Exists(s)' PROVE Fits(s)'
  <2>1. Exists(s) /\ Fits(s)
    BY <1>1 DEF Exists, IInv, Places
  <2>2. Stands(s)' = Stands(s)
    BY DEF Stands, Booked
  <2>3. Cardinality(Holders(s)') <= Cardinality(Holders(s)) /\ Cardinality(Holders(s)') \in Nat
        /\ Cardinality(Holders(s)) \in Nat
    <3>0. TypeInv
      BY DEF IInv
    <3>1. Holders(s)' = IF Keeps(job, s) THEN Holders(s) \union {r} ELSE Holders(s) \ {r}
      BY <3>0, HoldersAfter
    <3>2. IsFiniteSet(Holders(s)) /\ Cardinality(Holders(s)) \in Nat /\ (r \in Holders(s) <=> Keeps(req[r], s))
      BY <3>0, HoldersAfter
    <3>3. Holders(s)' \in SUBSET Holders(s)
      BY <3>1, <3>2
    <3> QED
      BY <3>2, <3>3, FS_Subset, FS_CardinalityType
  <2>4. Left(slots[s]) \in Nat /\ slots[s].total \in Nat
    BY <2>1 DEF IInv, TypeInv, TypeOK, Exists, Slot, Left
  <2>5. Cardinality(Stands(s)') + Cardinality(Holders(s)') + Left(slots'[s]) <= slots'[s].total
    BY <2>1, <2>2, <2>3, <2>4, StandsAreFinite DEF Fits
  <2> QED
    BY <2>5 DEF Fits, Left
<1>2. \A p \in Pickups : Booked(p)' => slots'[pickups'[p].slot] # NoSlot
  BY DEF IInv, Places, Exists
<1>3. Places'
  BY <1>1, <1>2 DEF Places, Booked, Exists
<1>4. \A s \in Slots : Exists(s) <=> Exists(s)'
  BY DEF Exists
<1> QED
  BY <1>3, <1>4, StepRight DEF IInv

\* A request that ends, or dies, with the tables as they are.
LEMMA QuietEnd ==
  ASSUME IInv, TypeInv', NEW r \in Requests, Finish(r), slots' = slots,
         \A p \in Pickups : Booked(p)' <=> Booked(p),
         \A p \in Pickups : Booked(p) => pickups'[p].slot = pickups[p].slot
  PROVE  IInv'
BY IdleTyped, IdleRight, QuietStep DEF Finish

\* A slot the step does not touch.
LEMMA Untouched ==
  ASSUME TypeInv, NEW r \in Requests, NEW job \in Jobs, req' = [req EXCEPT ![r] = job],
         NEW s \in Slots, Fits(s), slots'[s] = slots[s], Stands(s)' = Stands(s),
         Keeps(job, s) <=> Keeps(req[r], s)
  PROVE  Fits(s)'
<1>1. Holders(s)' = Holders(s)
  <2>1. Holders(s)' = IF Keeps(job, s) THEN Holders(s) \union {r} ELSE Holders(s) \ {r}
    BY HoldersAfter
  <2>2. r \in Holders(s) <=> Keeps(req[r], s)
    BY HoldersAfter
  <2> QED
    BY <2>1, <2>2
<1> QED
  BY <1>1 DEF Fits, Left

LEMMA ReserveFits ==
  ASSUME IInv, TypeInv', NEW r \in Requests, BookReserve(r)
  PROVE  IInv'
<1> DEFINE j == req[r]
<1>0. /\ TypeInv /\ TypeOK /\ j \in Jobs /\ j.op = "book" /\ j.pc = "reserve" /\ Right(j)
      /\ j.p \in Pickups /\ j.s \in Slots
      /\ UNCHANGED pickups
  BY Fields DEF IInv, TypeInv, BookReserve, At
<1>1. CASE ~CanReserve(j.s)
  <2>1. Finish(r) /\ slots' = slots
    BY <1>1 DEF BookReserve
  <2> QED
    BY <1>0, <2>1, QuietEnd DEF Booked
<1>2. CASE CanReserve(j.s)
  <2>0. PICK t \in Slots : t = j.s
    BY <1>0
  <2>1. slots' = Reserved(t)
    BY <1>2, <2>0 DEF BookReserve
  <2>2. slots[t] \in Slot /\ slots[t].active /\ slots[t].remaining > 0 /\ Exists(t)
    BY <1>0, <1>2, <2>0 DEF CanReserve, Exists, TypeOK
  <2>3. /\ slots'[t] = [slots[t] EXCEPT !.remaining = @ - 1]
        /\ \A s \in Slots \ {t} : slots'[s] = slots[s]
    BY <1>0, <2>1 DEF Reserved, TypeOK
  <2>4. /\ slots'[t] \in Slot /\ slots'[t].active /\ slots'[t].total = slots[t].total
        /\ slots'[t].remaining = slots[t].remaining - 1
    BY <2>2, <2>3 DEF Slot
  <2> DEFINE first == [op |-> "book", pc |-> "check", p |-> j.p, s |-> t, slot |-> slots'[t]]
  <2>5. first \in Jobs /\ first.op = "book" /\ first.pc = "check" /\ first.p = j.p /\ first.s = t
    BY <1>0, <2>4 DEF BookJobs, Jobs
  <2>6. PICK job \in Jobs : /\ req' = [req EXCEPT ![r] = job]
                            /\ job.op = "book" /\ job.pc = "check" /\ job.p = j.p /\ job.s = t
    BY <1>2, <2>0, <2>5 DEF BookReserve
  <2>7. \A s \in Slots : Stands(s)' = Stands(s)
    BY <1>0 DEF Stands, Booked
  <2>8. Fits(t)'
    <3>1. Holders(t)' = Holders(t) \union {r} /\ r \notin Holders(t)
      <4>1. Keeps(job, t) /\ ~Keeps(j, t)
        BY <1>0, <2>6 DEF Keeps
      <4>2. Holders(t)' = IF Keeps(job, t) THEN Holders(t) \union {r} ELSE Holders(t) \ {r}
        BY <1>0, <2>6, HoldersAfter
      <4>3. r \in Holders(t) <=> Keeps(j, t)
        BY <1>0, <2>6, HoldersAfter
      <4> QED
        BY <4>1, <4>2, <4>3
    <3>2. IsFiniteSet(Holders(t)) /\ Cardinality(Holders(t)) \in Nat
      BY <1>0, <2>6, HoldersAfter
    <3>3. Cardinality(Holders(t) \union {r}) = Cardinality(Holders(t)) + 1
      BY <3>1, <3>2, FS_AddElement
    <3>4. Cardinality(Stands(t)) + Cardinality(Holders(t)) + slots[t].remaining <= slots[t].total
      BY <2>2 DEF IInv, Places, Fits, Left
    <3>5. slots[t].remaining \in Nat /\ slots[t].total \in Nat /\ Cardinality(Stands(t)) \in Nat
      BY <2>2, StandsAreFinite DEF Slot
    <3>6. Cardinality(Stands(t)) + Cardinality(Holders(t) \union {r}) + slots'[t].remaining <= slots'[t].total
      BY <2>4, <3>2, <3>3, <3>4, <3>5
    <3> QED
      BY <2>4, <2>7, <3>1, <3>6 DEF Fits, Left
  <2>9. ASSUME NEW s \in Slots, Exists(s)' PROVE Fits(s)'
    <3>1. CASE s = t
      BY <2>8, <3>1
    <3>2. CASE s # t
      <4>1. Fits(s) /\ slots'[s] = slots[s]
        BY <2>3, <2>9, <3>2 DEF IInv, Places, Exists
      <4>2. ~Keeps(job, s) /\ ~Keeps(j, s)
        BY <1>0, <2>6, <3>2 DEF Keeps
      <4> QED
        BY <1>0, <2>6, <2>7, <4>1, <4>2, Untouched
    <3> QED
      BY <3>1, <3>2
  <2>10. \A s \in Slots : (Exists(s)' <=> Exists(s)) /\ (Exists(s) => slots'[s].total = slots[s].total)
    BY <2>2, <2>3, <2>4, SlotsAndPickups DEF Exists
  <2>11. Right(job)'
    BY <1>0, <2>2, <2>4, <2>6, SlotsAndPickups DEF Right, Coming, Seeks, Read, Booked, Exists
  <2>12. \A q \in Requests \ {r} : Apart(req[q], job) /\ Apart(job, req[q])
    BY <1>0, <2>6 DEF IInv, Apart
  <2>13. \A p \in Pickups : Booked(p) => slots'[pickups'[p].slot] # NoSlot
    BY <1>0, <2>10 DEF IInv, Places, Booked, Exists, TypeOK, Pickup
  <2> QED
    BY <1>0, <2>6, <2>9, <2>10, <2>11, <2>12, <2>13, StepRight DEF IInv, Places, Booked, Exists
<1> QED
  BY <1>1, <1>2

\* A request that ends with one slot put, or given a place back.
LEMMA SlotEnd ==
  ASSUME IInv, TypeInv', NEW r \in Requests, Finish(r), UNCHANGED pickups,
         NEW t \in Slots, req[r].op = "create" => req[r].s = t,
         slots'[t] \in Slot, \A s \in Slots \ {t} : slots'[s] = slots[s],
         Exists(t) \/ req[r].op = "create",
         Exists(t) => slots'[t].total = slots[t].total,
         \A s \in Slots \ {t} : ~Keeps(req[r], s),
         Fits(t)'
  PROVE  IInv'
<1>0. TypeInv /\ TypeOK /\ req' = [req EXCEPT ![r] = Idle]
  BY DEF IInv, TypeInv, Finish
<1>1. \A s \in Slots : Stands(s)' = Stands(s)
  BY DEF Stands, Booked
<1>2. ASSUME NEW s \in Slots, Exists(s)' PROVE Fits(s)'
  <2>1. CASE s = t
    BY <2>1
  <2>2. CASE s # t
    <3>1. Fits(s) /\ slots'[s] = slots[s]
      BY <1>2, <2>2 DEF IInv, Places, Exists
    <3> QED
      BY <1>0, <1>1, <2>2, <3>1, IdleTyped, IdleRight, Untouched
  <2> QED
    BY <2>1, <2>2
<1>3. \A s \in Slots : Exists(s) => Exists(s)' /\ slots'[s].total = slots[s].total
  BY SlotsAndPickups DEF Exists
<1>4. \A s \in Slots : Exists(s)' => Exists(s) \/ (req[r].op = "create" /\ s = req[r].s)
  BY DEF Exists
<1>5. \A p \in Pickups : Booked(p) => slots'[pickups'[p].slot] # NoSlot
  BY <1>0, <1>3 DEF IInv, Places, Booked, Exists, TypeOK, Pickup
<1> QED
  BY <1>0, <1>2, <1>3, <1>4, <1>5, IdleTyped, IdleRight, StepRight DEF IInv, Places, Booked, Exists

\* How many hold a place of a slot after one of them has ended.
LEMMA HoldersLeave ==
  ASSUME TypeInv, NEW r \in Requests, NEW job \in Jobs, req' = [req EXCEPT ![r] = job],
         NEW s, ~Keeps(job, s)
  PROVE  /\ Cardinality(Holders(s)') = IF Keeps(req[r], s) THEN Cardinality(Holders(s)) - 1
                                       ELSE Cardinality(Holders(s))
         /\ Cardinality(Holders(s)) \in Nat
<1>1. Holders(s)' = IF Keeps(job, s) THEN Holders(s) \union {r} ELSE Holders(s) \ {r}
  BY HoldersAfter
<1>2. (r \in Holders(s) <=> Keeps(req[r], s)) /\ IsFiniteSet(Holders(s)) /\ Cardinality(Holders(s)) \in Nat
  BY HoldersAfter
<1> QED
  BY <1>1, <1>2, FS_RemoveElement

LEMMA GiveBackFits ==
  ASSUME IInv, TypeInv', NEW r \in Requests, BookGiveBack(r)
  PROVE  IInv'
<1> DEFINE j == req[r]
<1>0. /\ TypeInv /\ TypeOK /\ j \in Jobs /\ j.op = "book" /\ j.pc = "giveBack" /\ Right(j) /\ j.s \in Slots
      /\ UNCHANGED pickups /\ Finish(r) /\ req' = [req EXCEPT ![r] = Idle]
  BY Fields DEF IInv, TypeInv, BookGiveBack, At, Finish
<1>1. PICK t \in Slots : t = j.s
  BY <1>0
<1>2. Exists(t) /\ slots[t] \in Slot
  BY <1>0, <1>1 DEF Right, Seeks, Exists, TypeOK
<1>3. slots' = [slots EXCEPT ![t].remaining = @ + 1]
  BY <1>1, <1>2 DEF BookGiveBack, Released
<1>4. /\ slots'[t] \in Slot /\ slots'[t].total = slots[t].total /\ slots'[t].active = slots[t].active
      /\ slots'[t].remaining = slots[t].remaining + 1
      /\ \A s \in Slots \ {t} : slots'[s] = slots[s]
  BY <1>0, <1>2, <1>3 DEF TypeOK, Slot
<1>5. Keeps(j, t) /\ \A s \in Slots \ {t} : ~Keeps(j, s)
  BY <1>0, <1>1 DEF Keeps
<1>6. Fits(t)'
  <2>1. Cardinality(Holders(t)') = Cardinality(Holders(t)) - 1 /\ Cardinality(Holders(t)) \in Nat
    BY <1>0, <1>5, IdleTyped, IdleRight, HoldersLeave
  <2>2. Stands(t)' = Stands(t) /\ Cardinality(Stands(t)) \in Nat
    BY <1>0, StandsAreFinite DEF Stands, Booked
  <2>3. Cardinality(Stands(t)) + Cardinality(Holders(t)) + Left(slots[t]) <= slots[t].total
    BY <1>2 DEF IInv, Places, Fits
  <2>4. Left(slots'[t]) <= Left(slots[t]) + 1 /\ Left(slots'[t]) \in Nat /\ Left(slots[t]) \in Nat
        /\ slots[t].total \in Nat
    BY <1>2, <1>4 DEF Left, Slot
  <2>5. Cardinality(Stands(t)) + (Cardinality(Holders(t)) - 1) + Left(slots'[t]) <= slots'[t].total
    BY <1>4, <2>1, <2>2, <2>3, <2>4
  <2> QED
    BY <2>1, <2>2, <2>5 DEF Fits, Left
<1> QED
  BY <1>0, <1>2, <1>4, <1>5, <1>6, SlotEnd

LEMMA StandFits ==
  ASSUME IInv, TypeInv', NEW r \in Requests, BookPickup(r)
  PROVE  IInv'
<1> DEFINE j == req[r]
<1>0. /\ TypeInv /\ TypeOK /\ j \in Jobs /\ j.op = "book" /\ j.pc = "pickup" /\ Right(j)
      /\ j.s \in Slots /\ j.p \in Pickups /\ j \in BookJobs /\ UNCHANGED slots
  BY Fields, JobOf DEF IInv, TypeInv, BookPickup, At
<1>1. PICK t \in Slots, p \in Pickups : t = j.s /\ p = j.p
  BY <1>0
<1>2. PICK job \in Jobs : /\ req' = [req EXCEPT ![r] = job]
                         /\ job.op = "book" /\ job.pc = "order" /\ job.p = p
  <2>1. [j EXCEPT !.pc = "order"] \in BookJobs /\ [j EXCEPT !.pc = "order"].op = "book"
        /\ [j EXCEPT !.pc = "order"].pc = "order" /\ [j EXCEPT !.pc = "order"].p = p
    BY <1>0, <1>1 DEF BookJobs
  <2> QED
    BY <2>1 DEF BookPickup, Goto, Jobs
<1>3. Exists(t) /\ slots[t] \in Slot /\ ~Booked(p)
  BY <1>0, <1>1 DEF Right, Seeks, Coming, Exists, TypeOK
<1>4. /\ pickups'[p].slot = t /\ \A q \in Pickups \ {p} : pickups'[q] = pickups[q]
      /\ pickups'[p] # NoPickup
  <2> DEFINE doc == [status |-> "scheduled", slot |-> t, scheduledFor |-> ScheduledFor(j.slot)]
  <2>1. pickups' = [pickups EXCEPT ![p] = doc]
    BY <1>1 DEF BookPickup
  <2>2. doc # NoPickup
    <3>1. "slot" \in DOMAIN doc /\ "slot" \notin DOMAIN NoPickup
      BY DEF NoPickup
    <3> QED
      BY <3>1
  <2>3. doc.slot = t
    OBVIOUS
  <2> HIDE DEF doc
  <2> QED
    BY <1>0, <2>1, <2>2, <2>3 DEF TypeOK
<1>5. /\ Stands(t)' = Stands(t) \union {p} /\ p \notin Stands(t)
      /\ \A s \in Slots \ {t} : Stands(s)' = Stands(s)
  BY <1>3, <1>4 DEF Stands, Booked
<1>6. ~Keeps(job, t) /\ Keeps(j, t) /\ \A s \in Slots \ {t} : ~Keeps(j, s) /\ ~Keeps(job, s)
  BY <1>0, <1>1, <1>2 DEF Keeps
<1>7. Fits(t)'
  <2>1. Cardinality(Holders(t)') = Cardinality(Holders(t)) - 1 /\ Cardinality(Holders(t)) \in Nat
    BY <1>0, <1>2, <1>6, HoldersLeave
  <2>2. Cardinality(Stands(t)') = Cardinality(Stands(t)) + 1 /\ Cardinality(Stands(t)) \in Nat
    BY <1>5, StandsAreFinite, FS_AddElement
  <2>3. Cardinality(Stands(t)) + Cardinality(Holders(t)) + Left(slots[t]) <= slots[t].total
    BY <1>3 DEF IInv, Places, Fits
  <2>4. Left(slots[t]) \in Nat /\ slots[t].total \in Nat
    BY <1>3 DEF Left, Slot
  <2>5. (Cardinality(Stands(t)) + 1) + (Cardinality(Holders(t)) - 1) + Left(slots[t]) <= slots[t].total
    BY <2>1, <2>2, <2>3, <2>4
  <2> QED
    BY <1>0, <2>1, <2>2, <2>5 DEF Fits, Left
<1>8. ASSUME NEW s \in Slots, Exists(s)' PROVE Fits(s)'
  <2>1. CASE s = t
    BY <1>7, <2>1
  <2>2. CASE s # t
    <3>1. Fits(s) /\ slots'[s] = slots[s] /\ Stands(s)' = Stands(s)
      BY <1>0, <1>5, <1>8, <2>2 DEF IInv, Places, Exists
    <3> QED
      BY <1>0, <1>2, <1>6, <2>2, <3>1, Untouched
  <2> QED
    BY <2>1, <2>2
<1>9. Right(job)'
  BY <1>2 DEF Right, Coming, Seeks, Read
<1>10. \A q \in Requests \ {r} : Apart(req[q], job) /\ Apart(job, req[q])
  BY <1>0, <1>1, <1>2 DEF IInv, Apart
<1>11. /\ \A q \in Pickups : Booked(q) => Booked(q)' /\ pickups'[q].slot = pickups[q].slot
       /\ \A q \in Pickups : Booked(q)' => Booked(q) \/ (Coming(j) /\ q = j.p)
  BY <1>0, <1>1, <1>3, <1>4 DEF Booked, Coming
<1>12. \A q \in Pickups : pickups'[q] # NoPickup => slots'[pickups'[q].slot] # NoSlot
  BY <1>0, <1>3, <1>4 DEF IInv, Places, Booked, Exists
<1>13. /\ \A s \in Slots : Exists(s) => Exists(s)' /\ slots'[s].total = slots[s].total
       /\ \A s \in Slots : Exists(s)' => Exists(s)
  BY <1>0 DEF Exists
<1> QED
  BY <1>0, <1>2, <1>8, <1>9, <1>10, <1>11, <1>12, <1>13, StepRight DEF IInv, Places, Booked, Exists

LEMMA CreateFits ==
  ASSUME IInv, TypeInv', NEW r \in Requests, CreatePut(r)
  PROVE  IInv'
<1> DEFINE j == req[r]
<1>0. /\ TypeInv /\ TypeOK /\ j \in Jobs /\ j.op = "create" /\ Right(j)
      /\ j.s \in Slots /\ j \in CreateJobs /\ UNCHANGED pickups
      /\ Finish(r) /\ req' = [req EXCEPT ![r] = Idle]
  BY Fields, JobOf DEF IInv, TypeInv, CreatePut, At, Finish
<1>1. PICK t \in Slots : t = j.s
  BY <1>0
<1>2. /\ slots'[t] = j.slot /\ \A s \in Slots \ {t} : slots'[s] = slots[s]
      /\ j.slot \in Slot
  BY <1>0, <1>1 DEF CreatePut, TypeOK, CreateJobs
<1>3. ~Exists(t) /\ slots'[t] \in Slot /\ slots'[t].remaining <= slots'[t].total
  BY <1>0, <1>1, <1>2 DEF Right
<1>4. \A s \in Slots : ~Keeps(j, s)
  BY <1>0 DEF Keeps
<1>5. Fits(t)'
  <2>1. Stands(t)' = {}
    BY <1>0, <1>3 DEF Stands, Booked, IInv, Places
  <2>2. Holders(t) = {}
    <3>1. ASSUME NEW q \in Requests PROVE ~Holds(q, t)
      BY <1>3, <3>1 DEF IInv, Right, Seeks, Holds
    <3> QED
      BY <3>1 DEF Holders
  <2>3. Holders(t)' = {}
    <3>1. Holders(t)' = IF Keeps(Idle, t) THEN Holders(t) \union {r} ELSE Holders(t) \ {r}
      BY <1>0, IdleTyped, HoldersAfter
    <3> QED
      BY <2>2, <3>1, IdleRight
  <2>4. Cardinality({}) = 0
    BY FS_EmptySet
  <2>5. Left(slots'[t]) <= slots'[t].total /\ Left(slots'[t]) \in Nat
    BY <1>3 DEF Left, Slot
  <2>6. Cardinality(Stands(t)') + Cardinality(Holders(t)') + Left(slots'[t]) <= slots'[t].total
    BY <2>1, <2>3, <2>4, <2>5
  <2> QED
    BY <2>6 DEF Fits, Left
<1> QED
  BY <1>0, <1>1, <1>2, <1>3, <1>4, <1>5, SlotEnd

\* The slot is closed with every place forgotten: those who stand in it are as many as before.
LEMMA ShutFits ==
  ASSUME IInv, TypeInv', NEW r \in Requests, ShutPut(r)
  PROVE  IInv'
<1> DEFINE j == req[r]
<1>0. /\ TypeInv /\ TypeOK /\ j \in Jobs /\ j.op = "shut" /\ Right(j)
      /\ j.s \in Slots /\ j \in ShutJobs /\ UNCHANGED pickups
      /\ Finish(r) /\ req' = [req EXCEPT ![r] = Idle]
  BY Fields, JobOf DEF IInv, TypeInv, ShutPut, At, Finish
<1>1. PICK t \in Slots : t = j.s
  BY <1>0
<1>2. /\ slots'[t] = [j.slot EXCEPT !.active = FALSE, !.remaining = j.slot.total]
      /\ \A s \in Slots \ {t} : slots'[s] = slots[s]
  BY <1>0, <1>1 DEF ShutPut, TypeOK
<1>3. j.slot \in Slot
  BY <1>0 DEF ShutJobs
<1>4. /\ slots'[t] \in Slot /\ slots'[t].active = FALSE /\ slots'[t].total = j.slot.total
  BY <1>2, <1>3 DEF Slot
<1>5. Exists(t) /\ slots[t] \in Slot /\ slots'[t].total = slots[t].total
  BY <1>0, <1>1, <1>4 DEF Right, Exists, TypeOK
<1>6. \A s \in Slots : ~Keeps(j, s)
  BY <1>0 DEF Keeps
<1>7. Fits(t)'
  <2>1. Cardinality(Holders(t)') = Cardinality(Holders(t)) /\ Cardinality(Holders(t)) \in Nat
    BY <1>0, <1>6, IdleTyped, IdleRight, HoldersLeave
  <2>2. Stands(t)' = Stands(t) /\ Cardinality(Stands(t)) \in Nat
    BY <1>0, StandsAreFinite DEF Stands, Booked
  <2>3. Cardinality(Stands(t)) + Cardinality(Holders(t)) + Left(slots[t]) <= slots[t].total
    BY <1>5 DEF IInv, Places, Fits
  <2>4. Left(slots'[t]) = 0 /\ Left(slots[t]) \in Nat /\ slots[t].total \in Nat
    BY <1>4, <1>5 DEF Left, Slot
  <2>5. Cardinality(Stands(t)) + Cardinality(Holders(t)) + Left(slots'[t]) <= slots'[t].total
    BY <1>5, <2>1, <2>2, <2>3, <2>4
  <2> QED
    BY <2>1, <2>2, <2>5 DEF Fits, Left
<1> QED
  BY <1>0, <1>1, <1>2, <1>4, <1>5, <1>6, <1>7, SlotEnd

\* A request that does not look for a place and seeks nothing of its own to come.
LEMMA Aside ==
  ASSUME IInv, NEW r \in Requests, NEW job, job.op \notin {"book", "create"}
  PROVE  \A q \in Requests \ {r} : Apart(req[q], job) /\ Apart(job, req[q])
BY DEF Apart

LEMMA BookQuiet ==
  ASSUME IInv, TypeInv', NEW r \in Requests, BookCheck(r) \/ BookOrder(r)
  PROVE  IInv'
<1> DEFINE j == req[r]
<1>0. /\ TypeInv /\ TypeOK /\ j \in Jobs /\ j.op = "book" /\ Right(j) /\ j \in BookJobs
      /\ UNCHANGED <<slots, pickups>>
  BY JobOf DEF IInv, TypeInv, BookCheck, BookOrder, At
<1>1. CASE BookCheck(r)
  <2>1. PICK pc \in {"pickup", "giveBack"} : Goto(r, pc)
    BY <1>1 DEF BookCheck
  <2>2. j.pc = "check"
    BY <1>1 DEF BookCheck, At
  <2>3. /\ [j EXCEPT !.pc = pc] \in BookJobs
        /\ [j EXCEPT !.pc = pc].pc = pc
        /\ [j EXCEPT !.pc = pc].op = "book"
        /\ [j EXCEPT !.pc = pc].p = j.p
        /\ [j EXCEPT !.pc = pc].s = j.s
    BY <1>0, <2>2 DEF BookJobs
  <2>4. PICK job \in Jobs : /\ req' = [req EXCEPT ![r] = job]
                            /\ job.op = "book" /\ job.pc = pc /\ job.p = j.p /\ job.s = j.s
    BY <2>1, <2>3 DEF Goto, Jobs
  <2>5. ~Booked(j.p) /\ Exists(j.s)
    BY <1>0, <2>2 DEF Right, Coming, Seeks
  <2>6. pickups'[job.p] = NoPickup /\ slots'[job.s] # NoSlot
    BY <1>0, <2>4, <2>5 DEF Booked, Exists
  <2>7. Right(job)'
    BY <2>4, <2>6 DEF Right, Coming, Seeks, Read, Booked, Exists
  <2>8. \A s \in Slots : Keeps(job, s) => Keeps(j, s)
    BY <1>0, <2>2, <2>4 DEF Keeps
  <2>9. \A q \in Requests \ {r} : Apart(req[q], job) /\ Apart(job, req[q])
    BY <1>0, <2>4 DEF IInv, Apart
  <2> QED
    BY <1>0, <2>4, <2>7, <2>8, <2>9, QuietStep DEF Booked
<1>2. CASE BookOrder(r)
  BY <1>0, <1>2, QuietEnd DEF BookOrder, Booked
<1> QED
  BY <1>1, <1>2

LEMMA CreateQuiet ==
  ASSUME IInv, TypeInv', NEW r \in Requests, CreateFind(r)
  PROVE  IInv'
<1> DEFINE j == req[r]
<1>0. /\ TypeInv /\ TypeOK /\ j \in Jobs /\ j.op = "create" /\ Right(j) /\ j \in CreateJobs
      /\ UNCHANGED <<slots, pickups>>
  BY JobOf DEF IInv, TypeInv, CreateFind, At
<1>1. CASE Finish(r)
  BY <1>0, <1>1, QuietEnd DEF Booked
<1>2. CASE Goto(r, "put")
  <2>1. /\ [j EXCEPT !.pc = "put"] \in CreateJobs
        /\ [j EXCEPT !.pc = "put"].op = "create"
        /\ [j EXCEPT !.pc = "put"].s = j.s
        /\ [j EXCEPT !.pc = "put"].slot = j.slot
    BY <1>0 DEF CreateJobs
  <2>2. PICK job \in Jobs : /\ req' = [req EXCEPT ![r] = job]
                            /\ job.op = "create" /\ job.s = j.s /\ job.slot = j.slot
    BY <1>2, <2>1 DEF Goto, Jobs
  <2>3. slots[j.s] = NoSlot /\ j.slot.remaining <= j.slot.total
    BY <1>0 DEF Right, Exists
  <2>4. Right(job)'
    BY <1>0, <2>2, <2>3 DEF Right, Coming, Seeks, Read, Exists
  <2>5. \A s \in Slots : ~Keeps(job, s)
    BY <2>2 DEF Keeps
  <2>6. \A q \in Requests \ {r} : Apart(req[q], job) /\ Apart(job, req[q])
    BY <1>0, <2>2 DEF IInv, Apart
  <2> QED
    BY <1>0, <2>2, <2>4, <2>5, <2>6, QuietStep DEF Booked
<1> QED
  BY <1>1, <1>2 DEF CreateFind

LEMMA ShutQuiet ==
  ASSUME IInv, TypeInv', NEW r \in Requests,
         ShutFind(r) \/ ShutPickup(r) \/ ShutOrder(r) \/ ShutOrderPut(r)
  PROVE  IInv'
<1> DEFINE j == req[r]
<1>0. /\ TypeInv /\ TypeOK /\ j \in Jobs /\ j.op = "shut" /\ Right(j) /\ j \in ShutJobs
      /\ j.s \in Slots /\ j.slot \in Slot /\ slots' = slots
      /\ j.pc # "find" => j.todo \subseteq Found
  <2>1. TypeInv /\ TypeOK /\ j \in Jobs /\ j.op = "shut" /\ Right(j) /\ slots' = slots
    BY DEF IInv, TypeInv, ShutFind, ShutPickup, ShutOrder, ShutOrderPut, At
  <2>2. j \in ShutJobs
    BY <2>1, JobOf
  <2> QED
    BY <2>1, <2>2, Fields DEF ShutJobs
<1>1. ASSUME NEW job \in Jobs, req' = [req EXCEPT ![r] = job],
             job.op = "shut", job.s = j.s, job.slot = j.slot,
             job.pc # "find" => \A t \in job.todo : Booked(t.p)' /\ t.pickup.slot = pickups'[t.p].slot,
             \A p \in Pickups : Booked(p)' <=> Booked(p),
             \A p \in Pickups : Booked(p) => pickups'[p].slot = pickups[p].slot
      PROVE  IInv'
  <2>1. slots[j.s] # NoSlot /\ j.slot.total = slots[j.s].total
    BY <1>0 DEF Right, Exists
  <2>2. slots'[job.s] # NoSlot /\ job.slot.total = slots'[job.s].total
    BY <1>0, <1>1, <2>1
  <2>3. Right(job)'
    BY <1>1, <2>2 DEF Right, Coming, Seeks, Read, Exists
  <2>4. \A s \in Slots : ~Keeps(job, s)
    BY <1>1 DEF Keeps
  <2>5. \A q \in Requests \ {r} : Apart(req[q], job) /\ Apart(job, req[q])
    BY <1>1, Aside
  <2> QED
    BY <1>0, <1>1, <2>3, <2>4, <2>5, QuietStep
<1>2. CASE ShutFind(r)
  <2> DEFINE found == {p \in Pickups : pickups[p].status \in Pending /\ pickups[p].slot = j.s}
             todo == {[p |-> p, pickup |-> pickups[p]] : p \in found}
             job == [op |-> "shut", pc |-> "next", s |-> j.s, slot |-> j.slot, todo |-> todo]
  <2>1. req' = [req EXCEPT ![r] = job] /\ UNCHANGED pickups
    BY <1>2 DEF ShutFind
  <2>2. \A p \in found : p \in Pickups /\ Booked(p)
    BY DEF Booked, NoPickup, Pending
  <2>3. \A t \in todo : t \in Found /\ Booked(t.p) /\ t.pickup.slot = pickups[t.p].slot
    BY <1>0, <2>2 DEF Found, Booked, TypeOK
  <2>4. job \in ShutJobs
    BY <1>0, <2>3 DEF ShutJobs
  <2>5. job.op = "shut" /\ job.s = j.s /\ job.slot = j.slot /\ job.todo = todo
    OBVIOUS
  <2> HIDE DEF todo, job
  <2>6. \A t \in job.todo : pickups'[t.p] # NoPickup /\ t.pickup.slot = pickups'[t.p].slot
    BY <2>1, <2>3, <2>5 DEF Booked
  <2>7. job \in Jobs
    BY <2>4 DEF Jobs
  <2> QED
    BY <1>1, <2>1, <2>5, <2>6, <2>7 DEF Booked
<1>3. CASE ShutPickup(r)
  <2>0. j.pc = "next" /\ j.todo \subseteq Found
    BY <1>0, <1>3 DEF ShutPickup, At
  <2>1. PICK t \in j.todo :
          /\ pickups' = [pickups EXCEPT ![t.p] = [t.pickup EXCEPT !.status = "cancelled"]]
          /\ req' = [req EXCEPT ![r] =
               [op |-> "shut", pc |-> "order", s |-> @.s, slot |-> @.slot, todo |-> @.todo \ {t}, p |-> t.p]]
    BY <1>3 DEF ShutPickup
  <2> DEFINE doc == [t.pickup EXCEPT !.status = "cancelled"]
             job == [op |-> "shut", pc |-> "order", s |-> j.s, slot |-> j.slot,
                     todo |-> j.todo \ {t}, p |-> t.p]
  <2>2. t.p \in Pickups /\ t.pickup \in Pickup
    BY <2>0 DEF Found
  <2>3. Booked(t.p) /\ t.pickup.slot = pickups[t.p].slot
    BY <1>0, <2>0 DEF Right
  <2>4. doc \in Pickup /\ doc.slot = t.pickup.slot
    BY <2>2 DEF Pickup
  <2>5. pickups' = [pickups EXCEPT ![t.p] = doc] /\ req' = [req EXCEPT ![r] = job]
    BY <2>1
  <2>6. job \in ShutJobs /\ job.op = "shut" /\ job.s = j.s /\ job.slot = j.slot /\ job.todo = j.todo \ {t}
    BY <1>0, <2>0, <2>2 DEF ShutJobs
  <2>7. \A u \in j.todo : u.p \in Pickups /\ Booked(u.p) /\ u.pickup.slot = pickups[u.p].slot
    BY <1>0, <2>0 DEF Right, Found
  <2> HIDE DEF job, doc
  <2>8. /\ \A p \in Pickups : pickups'[p] # NoPickup <=> pickups[p] # NoPickup
        /\ \A p \in Pickups : pickups[p] # NoPickup => pickups'[p].slot = pickups[p].slot
    BY <1>0, <2>2, <2>3, <2>4, <2>5, SlotsAndPickups DEF TypeOK, Booked
  <2>9. \A u \in job.todo : pickups'[u.p] # NoPickup /\ u.pickup.slot = pickups'[u.p].slot
    BY <2>6, <2>7, <2>8 DEF Booked
  <2>10. job \in Jobs
    BY <2>6 DEF Jobs
  <2> QED
    BY <1>1, <2>5, <2>6, <2>8, <2>9, <2>10 DEF Booked
<1>4. CASE ShutOrder(r) \/ ShutOrderPut(r)
  <2>1. j.pc \in {"order", "orderPut"} /\ UNCHANGED pickups
    BY <1>4 DEF ShutOrder, ShutOrderPut, At
  <2>2. PICK pc \in {"next", "orderPut"} : req' = [req EXCEPT ![r] = [j EXCEPT !.pc = pc]]
    BY <1>4 DEF ShutOrder, ShutOrderPut, Goto
  <2>3. j \in [op : {"shut"}, pc : {"next", "order", "orderPut"}, s : Slots, slot : Slot,
               todo : SUBSET Found, p : Pickups]
    BY <1>0, <2>1 DEF ShutJobs
  <2>4. /\ [j EXCEPT !.pc = pc] \in ShutJobs
        /\ [j EXCEPT !.pc = pc].op = "shut"
        /\ [j EXCEPT !.pc = pc].s = j.s
        /\ [j EXCEPT !.pc = pc].slot = j.slot
        /\ [j EXCEPT !.pc = pc].todo = j.todo
    BY <2>3 DEF ShutJobs
  <2>5. PICK job \in Jobs : /\ req' = [req EXCEPT ![r] = job]
                            /\ job.op = "shut" /\ job.s = j.s /\ job.slot = j.slot /\ job.todo = j.todo
    BY <2>2, <2>4 DEF Jobs
  <2>6. \A t \in j.todo : pickups[t.p] # NoPickup /\ t.pickup.slot = pickups[t.p].slot
    BY <1>0, <2>1 DEF Right, Booked
  <2>7. \A t \in job.todo : pickups'[t.p] # NoPickup /\ t.pickup.slot = pickups'[t.p].slot
    BY <2>1, <2>5, <2>6
  <2> QED
    BY <1>1, <2>1, <2>5, <2>7 DEF Booked
<1> QED
  BY <1>2, <1>3, <1>4

LEMMA DoorQuiet ==
  ASSUME IInv, TypeInv', NEW r \in Requests, DoorStep(r)
  PROVE  IInv'
<1> DEFINE j == req[r]
<1>0. /\ TypeInv /\ TypeOK /\ j \in Jobs /\ j.op \in {"collect", "fail"} /\ Right(j)
      /\ j.p \in Pickups /\ Booked(j.p) /\ slots' = slots
      /\ j.op = "collect" => j \in CollectJobs
      /\ j.op = "fail" => j \in FailJobs
  <2>1. TypeInv /\ TypeOK /\ j \in Jobs /\ j.op \in {"collect", "fail"} /\ Right(j) /\ slots' = slots
    BY DEF IInv, TypeInv, DoorStep, CollectRead, CollectOrder, CollectPickup, FailOrder, FailRead,
           FailPickup, At
  <2>2. j.p \in Pickups /\ Booked(j.p)
    BY <2>1, Fields DEF TypeInv, Knows, Rests
  <2> QED
    BY <2>1, <2>2, JobOf
<1>1. PICK p \in Pickups : p = j.p
  BY <1>0
\* It goes on with what it has read of its pickup.
<1>2. ASSUME NEW job \in Jobs, req' = [req EXCEPT ![r] = job], UNCHANGED pickups,
             job.op \in {"collect", "fail"}, job.p = p,
             Read(job) => job.pickup.slot = pickups[p].slot
      PROVE  IInv'
  <2>1. Right(job)'
    BY <1>2 DEF Right, Coming, Seeks, Read
  <2>2. \A s \in Slots : ~Keeps(job, s)
    BY <1>2 DEF Keeps
  <2>3. \A q \in Requests \ {r} : Apart(req[q], job) /\ Apart(job, req[q])
    BY <1>2, Aside
  <2> QED
    BY <1>0, <1>2, <2>1, <2>2, <2>3, QuietStep DEF Booked
\* It puts its pickup with another status.
<1>3. ASSUME NEW doc \in Pickup, doc.slot = pickups[p].slot, pickups' = [pickups EXCEPT ![p] = doc],
             Finish(r)
      PROVE  IInv'
  <2>1. /\ \A q \in Pickups : pickups'[q] # NoPickup <=> pickups[q] # NoPickup
        /\ \A q \in Pickups : pickups[q] # NoPickup => pickups'[q].slot = pickups[q].slot
    BY <1>0, <1>1, <1>3, SlotsAndPickups DEF TypeOK, Booked
  <2> QED
    BY <1>0, <1>3, <2>1, QuietEnd DEF Booked
<1>4. CASE CollectRead(r)
  <2>1. UNCHANGED pickups
    BY <1>4 DEF CollectRead
  <2>2. CASE Finish(r)
    BY <1>0, <2>1, <2>2, QuietEnd DEF Booked
  <2>3. CASE ~Finish(r)
    <3> DEFINE job == [op |-> "collect", pc |-> "order", p |-> p, pickup |-> pickups[p]]
    <3>1. req' = [req EXCEPT ![r] = job]
      BY <1>1, <1>4, <2>3 DEF CollectRead
    <3>2. job \in Jobs /\ job.op = "collect" /\ job.p = p /\ job.pickup.slot = pickups[p].slot
      BY <1>0, <1>1 DEF Jobs, CollectJobs, TypeOK, Booked
    <3> HIDE DEF job
    <3> QED
      BY <1>2, <2>1, <3>1, <3>2
  <2> QED
    BY <2>2, <2>3
<1>5. CASE CollectOrder(r)
  <2>1. j.op = "collect" /\ j.pc = "order" /\ Goto(r, "pickup") /\ UNCHANGED pickups
    BY <1>5 DEF CollectOrder, At
  <2>2. /\ [j EXCEPT !.pc = "pickup"] \in CollectJobs
        /\ [j EXCEPT !.pc = "pickup"].op = "collect"
        /\ [j EXCEPT !.pc = "pickup"].p = p
        /\ [j EXCEPT !.pc = "pickup"].pickup = j.pickup
    BY <1>0, <1>1, <2>1 DEF CollectJobs
  <2>3. j.pickup.slot = pickups[p].slot
    BY <1>0, <1>1, <2>1 DEF Right, Read
  <2>4. PICK job \in Jobs : /\ req' = [req EXCEPT ![r] = job]
                            /\ job.op = "collect" /\ job.p = p /\ job.pickup = j.pickup
    BY <2>1, <2>2 DEF Goto, Jobs
  <2> QED
    BY <1>2, <2>1, <2>3, <2>4
<1>6. CASE FailOrder(r)
  <2>1. j.op = "fail" /\ j.pc = "order" /\ Goto(r, "read") /\ UNCHANGED pickups
    BY <1>6 DEF FailOrder, At
  <2>2. /\ [j EXCEPT !.pc = "read"] \in FailJobs
        /\ [j EXCEPT !.pc = "read"].op = "fail"
        /\ [j EXCEPT !.pc = "read"].pc = "read"
        /\ [j EXCEPT !.pc = "read"].p = p
    BY <1>0, <1>1, <2>1 DEF FailJobs
  <2>3. PICK job \in Jobs : /\ req' = [req EXCEPT ![r] = job]
                            /\ job.op = "fail" /\ job.pc = "read" /\ job.p = p
    BY <2>1, <2>2 DEF Goto, Jobs
  <2> QED
    BY <1>2, <2>1, <2>3 DEF Read
<1>7. CASE FailRead(r)
  <2> DEFINE job == [op |-> "fail", pc |-> "pickup", p |-> p, pickup |-> pickups[p]]
  <2>1. req' = [req EXCEPT ![r] = job] /\ UNCHANGED pickups
    BY <1>1, <1>7 DEF FailRead
  <2>2. job \in Jobs /\ job.op = "fail" /\ job.p = p /\ job.pickup.slot = pickups[p].slot
    BY <1>0, <1>1 DEF Jobs, FailJobs, TypeOK, Booked
  <2> HIDE DEF job
  <2> QED
    BY <1>2, <2>1, <2>2
<1>8. ASSUME NEW status \in {"completed", "failed"}, Read(j),
             pickups' = [pickups EXCEPT ![j.p] = [j.pickup EXCEPT !.status = status]], Finish(r)
      PROVE  IInv'
  <2> DEFINE doc == [j.pickup EXCEPT !.status = status]
  <2>1. j.pickup \in Pickup /\ j.pickup.slot = pickups[p].slot
    BY <1>0, <1>1, <1>8, Fields DEF Right
  <2>2. doc \in Pickup /\ doc.slot = pickups[p].slot
    BY <2>1 DEF Pickup
  <2> HIDE DEF doc
  <2>3. pickups' = [pickups EXCEPT ![p] = doc]
    BY <1>1, <1>8 DEF doc
  <2> QED
    BY <1>3, <1>8, <2>2, <2>3
<1>9. CASE CollectPickup(r)
  BY <1>8, <1>9 DEF CollectPickup, At, Read
<1>10. CASE FailPickup(r)
  BY <1>8, <1>10 DEF FailPickup, At, Read
<1> QED
  BY <1>4, <1>5, <1>6, <1>7, <1>9, <1>10 DEF DoorStep

\* A client calls a handler.
LEMMA StartFits ==
  ASSUME IInv, TypeInv', NEW r \in Requests, Start(r),
         Operations \subseteq {"book", "create", "shut", "collect", "fail"}
  PROVE  IInv'
<1>0. TypeInv /\ TypeOK /\ UNCHANGED <<slots, pickups>>
  BY DEF IInv, TypeInv, Start, BookStart, CancelStart, MoveStart, CreateStart, UpdateRead, ShutStart,
         CollectStart, FailStart
<1>1. ASSUME NEW job \in Jobs, req' = [req EXCEPT ![r] = job], Right(job)', \A s \in Slots : ~Keeps(job, s),
             \A q \in Requests \ {r} : Apart(req[q], job) /\ Apart(job, req[q])
      PROVE  IInv'
  BY <1>0, <1>1, QuietStep DEF Booked
<1>2. CASE BookStart(r)
  <2>1. PICK p \in Pickups, s \in Slots :
          FreshPickup(p) /\ Begin(r, "book", [op |-> "book", pc |-> "reserve", p |-> p, s |-> s])
    BY <1>2 DEF BookStart
  <2> DEFINE job == [op |-> "book", pc |-> "reserve", p |-> p, s |-> s]
  <2>2. job \in Jobs /\ job.op = "book" /\ job.pc = "reserve" /\ job.p = p
    BY DEF Jobs, BookJobs
  <2>3. req' = [req EXCEPT ![r] = job]
    BY <2>1 DEF Begin
  <2> HIDE DEF job
  <2>4. pickups'[p] = NoPickup
    BY <1>0, <2>1 DEF FreshPickup, Booked
  <2>5. Right(job)'
    BY <2>2, <2>4 DEF Right, Coming, Seeks, Read, Booked
  <2>6. \A t \in Slots : ~Keeps(job, t)
    BY <2>2 DEF Keeps
  <2>7. \A q \in Requests \ {r} : Apart(req[q], job) /\ Apart(job, req[q])
    BY <2>1, <2>2 DEF FreshPickup, Apart
  <2> QED
    BY <1>1, <2>2, <2>3, <2>5, <2>6, <2>7
<1>3. CASE CancelStart(r) \/ MoveStart(r) \/ UpdateRead(r)
  BY <1>3 DEF CancelStart, MoveStart, UpdateRead, Begin
<1>4. CASE CreateStart(r)
  <2>1. PICK s \in Slots, society \in Societies, w \in Windows, c \in Capacities, sub \in BOOLEAN :
          /\ FreshSlot(s)
          /\ Begin(r, "create", [op |-> "create", pc |-> "find", s |-> s, slot |->
               [society |-> society, window |-> w, total |-> c, remaining |-> c,
                active |-> TRUE, subscribersOnly |-> sub]])
    BY <1>4 DEF CreateStart
  <2> DEFINE slot == [society |-> society, window |-> w, total |-> c, remaining |-> c,
                      active |-> TRUE, subscribersOnly |-> sub]
             job == [op |-> "create", pc |-> "find", s |-> s, slot |-> slot]
  <2>2. slot \in Slot /\ slot.remaining <= slot.total
    BY CapacitiesAreNatural DEF Slot
  <2>3. req' = [req EXCEPT ![r] = job]
    BY <2>1 DEF Begin
  <2> HIDE DEF slot
  <2>4. job \in Jobs /\ job.op = "create" /\ job.s = s /\ job.slot = slot
    BY <2>2 DEF Jobs, CreateJobs
  <2> HIDE DEF job
  <2>5. slots'[s] = NoSlot
    BY <1>0, <2>1 DEF FreshSlot, Exists
  <2>6. Right(job)'
    BY <2>2, <2>4, <2>5 DEF Right, Coming, Seeks, Read, Exists
  <2>7. \A t \in Slots : ~Keeps(job, t)
    BY <2>4 DEF Keeps
  <2>8. \A q \in Requests \ {r} : Apart(req[q], job) /\ Apart(job, req[q])
    BY <2>1, <2>4 DEF FreshSlot, Apart
  <2> QED
    BY <1>1, <2>3, <2>4, <2>6, <2>7, <2>8
<1>5. CASE ShutStart(r)
  <2>1. PICK s \in Slots :
          Exists(s) /\ Begin(r, "shut", [op |-> "shut", pc |-> "find", s |-> s, slot |-> slots[s]])
    BY <1>5 DEF ShutStart
  <2> DEFINE first == [op |-> "shut", pc |-> "find", s |-> s, slot |-> slots[s]]
  <2>2. /\ first \in Jobs /\ first.op = "shut" /\ first.pc = "find" /\ first.s = s
        /\ first.slot.total = slots[s].total
    BY <1>0, <2>1 DEF Jobs, ShutJobs, TypeOK, Exists
  <2>3. PICK job \in Jobs : /\ req' = [req EXCEPT ![r] = job]
                            /\ job.op = "shut" /\ job.pc = "find" /\ job.s = s
                            /\ job.slot.total = slots[s].total
    BY <2>1, <2>2 DEF Begin
  <2> HIDE DEF first
  <2>4. slots'[s] # NoSlot /\ job.slot.total = slots'[s].total
    BY <1>0, <2>1, <2>3 DEF Exists
  <2>5. Right(job)'
    BY <2>3, <2>4 DEF Right, Coming, Seeks, Read, Exists
  <2>6. \A t \in Slots : ~Keeps(job, t)
    BY <2>3 DEF Keeps
  <2>7. \A q \in Requests \ {r} : Apart(req[q], job) /\ Apart(job, req[q])
    BY <2>3, Aside
  <2> QED
    BY <1>1, <2>3, <2>5, <2>6, <2>7
<1>6. CASE CollectStart(r) \/ FailStart(r)
  <2>1. PICK job \in Jobs : /\ req' = [req EXCEPT ![r] = job]
                            /\ \/ job.op = "collect" /\ job.pc = "read"
                               \/ job.op = "fail" /\ job.pc = "order"
    <3>1. CASE CollectStart(r)
      <4>1. PICK p \in Pickups, early \in BOOLEAN :
              Begin(r, "collect", [op |-> "collect", pc |-> "read", p |-> p, early |-> early])
        BY <3>1 DEF CollectStart
      <4> DEFINE first == [op |-> "collect", pc |-> "read", p |-> p, early |-> early]
      <4>2. first \in Jobs /\ first.op = "collect" /\ first.pc = "read"
        BY DEF Jobs, CollectJobs
      <4>3. req' = [req EXCEPT ![r] = first]
        BY <4>1 DEF Begin
      <4> HIDE DEF first
      <4> QED
        BY <4>2, <4>3
    <3>2. CASE FailStart(r)
      <4>1. PICK p \in Pickups : Begin(r, "fail", [op |-> "fail", pc |-> "order", p |-> p])
        BY <3>2 DEF FailStart
      <4>2. [op |-> "fail", pc |-> "order", p |-> p] \in Jobs
        BY DEF Jobs, FailJobs
      <4> QED
        BY <4>1, <4>2 DEF Begin
    <3> QED
      BY <1>6, <3>1, <3>2
  <2>2. Right(job)'
    BY <2>1 DEF Right, Coming, Seeks, Read
  <2>3. \A t \in Slots : ~Keeps(job, t)
    BY <2>1 DEF Keeps
  <2>4. \A q \in Requests \ {r} : Apart(req[q], job) /\ Apart(job, req[q])
    BY <2>1, Aside
  <2> QED
    BY <1>1, <2>1, <2>2, <2>3, <2>4
<1> QED
  BY <1>2, <1>3, <1>4, <1>5, <1>6 DEF Start

LEMMA InitFits == Init => IInv
<1> SUFFICES ASSUME Init PROVE IInv
  OBVIOUS
<1>1. TypeInv /\ TypeOK
  BY InitTyped DEF TypeInv
<1>2. \A r \in Requests : req[r] = Idle
  BY DEF Init
<1>3. \A p \in Pickups : ~Booked(p)
  BY DEF Init, Booked
<1>4. ASSUME NEW s \in Slots, Exists(s) PROVE Fits(s)
  <2>1. Stands(s) = {} /\ Holders(s) = {}
    BY <1>2, <1>3, IdleTyped DEF Stands, Holders, Holds
  <2>2. slots[s] \in Slot /\ slots[s].remaining = slots[s].total
    BY <1>1, <1>4, FirstSlotsAreFree DEF Init, Exists, TypeOK
  <2>3. Left(slots[s]) <= slots[s].total /\ Left(slots[s]) \in Nat
    BY <2>2 DEF Left, Slot
  <2> QED
    BY <2>1, <2>3, FS_EmptySet DEF Fits
<1>5. \A r \in Requests : Right(req[r])
  BY <1>2, IdleTyped DEF Right, Coming, Seeks, Read
<1>6. \A q, r \in Requests : Apart(req[q], req[r])
  BY <1>2, IdleTyped DEF Apart
<1> QED
  BY <1>1, <1>3, <1>4, <1>5, <1>6 DEF IInv, Places

LEMMA NextFits ==
  ASSUME Operations \subseteq {"book", "create", "shut", "collect", "fail"}, IInv, [Next]_vars
  PROVE  IInv'
<1>0. TypeInv /\ TypeInv'
  BY NextTyped DEF IInv
<1>1. CASE Tick \/ UNCHANGED vars
  <2>1. UNCHANGED <<slots, pickups, req>>
    BY <1>1 DEF Tick, vars
  <2>2. \A s \in Slots : Stands(s)' = Stands(s) /\ Holders(s)' = Holders(s)
    BY <2>1 DEF Stands, Holders, Booked, Holds
  <2>3. Places'
    BY <2>1, <2>2 DEF IInv, Places, Fits, Left, Booked, Exists
  <2>4. \A r \in Requests : Right(req[r])'
    BY <2>1 DEF IInv, Right, Coming, Seeks, Read, Booked, Exists
  <2>5. \A q, r \in Requests : q # r => Apart(req[q], req[r])'
    BY <2>1 DEF IInv, Apart
  <2> QED
    BY <1>0, <2>3, <2>4, <2>5 DEF IInv
<1>2. ASSUME NEW r \in Requests, Start(r) \/ Continue(r) \/ MoveReject(r) \/ Lose(r)
      PROVE  IInv'
  <2>0. req[r].op \notin {"cancel", "move", "update"}
    BY DEF IInv, Right
  <2>1. CASE Start(r)
    BY <1>0, <2>1, StartFits
  <2>2. CASE BookStep(r)
    BY <1>0, <2>2, ReserveFits, BookQuiet, GiveBackFits, StandFits DEF BookStep
  <2>3. CASE CancelStep(r) \/ MoveStep(r) \/ MoveReject(r) \/ UpdatePut(r)
    BY <2>0, <2>3 DEF CancelStep, CancelRead, CancelFee, CancelRelease, CancelPickup, CancelOrder,
       MoveStep, MoveTarget, MoveReserve, MoveRelease, MovePickup, MoveOrder, MoveOrderPut, MoveUndo,
       MoveReject, UpdatePut, At
  <2>4. CASE StaffStep(r) /\ ~UpdatePut(r)
    BY <1>0, <2>4, CreateQuiet, CreateFits, ShutQuiet, ShutFits DEF StaffStep
  <2>5. CASE DoorStep(r)
    BY <1>0, <2>5, DoorQuiet
  <2>6. CASE Lose(r)
    BY <1>0, <2>6, QuietEnd DEF Lose, Booked
  <2> QED
    BY <1>2, <2>1, <2>2, <2>3, <2>4, <2>5, <2>6 DEF Continue
<1> QED
  BY <1>1, <1>2 DEF Next

\* "Atomic slot booking that cannot oversell capacity": whoever books, collects, opens and
\* closes slots at once, and whichever of those requests die half way, a slot never holds
\* more pickups than its capacity.
THEOREM NoOverselling ==
  ASSUME Operations \subseteq {"book", "create", "shut", "collect", "fail"}
  PROVE  Spec => []NeverOversold
<1>1. IInv => NeverOversold
  <2> SUFFICES ASSUME IInv, NEW s \in Slots, Exists(s) PROVE Cardinality(Seated(s)) <= slots[s].total
    BY DEF NeverOversold
  <2>1. Seated(s) \in SUBSET Stands(s)
    BY DEF Seated, Stands
  <2>2. Cardinality(Seated(s)) <= Cardinality(Stands(s)) /\ Cardinality(Seated(s)) \in Nat
    BY <2>1, StandsAreFinite, FS_Subset, FS_CardinalityType
  <2>3. Cardinality(Holders(s)) \in Nat /\ Cardinality(Stands(s)) \in Nat
    BY NamesAreFinite, FS_Subset, FS_CardinalityType, StandsAreFinite DEF Holders
  <2>4. slots[s] \in Slot
    BY DEF IInv, TypeInv, TypeOK, Exists
  <2>5. Left(slots[s]) \in Nat /\ slots[s].total \in Nat
    BY <2>4 DEF Left, Slot
  <2>6. Cardinality(Stands(s)) + Cardinality(Holders(s)) + Left(slots[s]) <= slots[s].total
    BY DEF IInv, Places, Fits
  <2> QED
    BY <2>2, <2>3, <2>5, <2>6
<1>2. IInv /\ [Next]_vars => IInv'
  BY NextFits
<1> QED
  BY <1>1, <1>2, InitFits, PTL DEF Spec

-----------------------------------------------------------------------------
(* One window, one slot *)

\* A creation past the queue has no slot beside it, and no other creation.
InQueue(job) == job.op = "create" /\ job.pc = "put"

WindowInv ==
  /\ TypeInv
  /\ OneSlotPerWindow
  /\ \A r \in Requests : req[r].op # "update"
  /\ \A r \in Requests : InQueue(req[r]) => ~Clash(req[r].slot)
  /\ \A q, r \in Requests :
       q # r /\ InQueue(req[q]) /\ InQueue(req[r]) => ~SameKey(req[q].slot, req[r].slot)

\* A step that opens no slot and lets no creation past the queue: an open slot was open
\* before, for the same hours.
LEMMA NothingOpens ==
  ASSUME WindowInv, TypeInv', NEW r \in Requests, NEW job \in Jobs, req' = [req EXCEPT ![r] = job],
         job.op # "update", ~InQueue(job),
         \A s \in Slots : Exists(s)' /\ slots'[s].active =>
           Exists(s) /\ slots[s].active /\ SameKey(slots'[s], slots[s])
  PROVE  WindowInv'
<1>1. /\ req'[r] = job /\ \A q \in Requests \ {r} : req'[q] = req[q]
  BY Moved DEF WindowInv, TypeInv
<1>2. OneSlotPerWindow'
  BY DEF WindowInv, OneSlotPerWindow, SameKey, Exists
<1>3. \A q \in Requests : req'[q].op # "update" /\ (InQueue(req'[q]) => q # r /\ req'[q] = req[q])
  BY <1>1 DEF WindowInv
<1>4. ASSUME NEW q \in Requests, InQueue(req'[q])
      PROVE  ~\E t \in Slots : Exists(t)' /\ slots'[t].active /\ SameKey(slots'[t], req'[q].slot)
  <2>1. ~Clash(req[q].slot) /\ req'[q] = req[q]
    BY <1>3, <1>4 DEF WindowInv
  <2> QED
    BY <2>1 DEF Clash, SameKey
<1>5. ASSUME NEW p \in Requests, NEW q \in Requests, p # q, InQueue(req'[p]), InQueue(req'[q])
      PROVE  ~SameKey(req'[p].slot, req'[q].slot)
  BY <1>3, <1>5 DEF WindowInv
<1>6. \A q \in Requests : (InQueue(req[q]) => ~Clash(req[q].slot))'
  BY <1>4 DEF InQueue, Clash, Exists
<1>7. \A p, q \in Requests : (p # q /\ InQueue(req[p]) /\ InQueue(req[q]) => ~SameKey(req[p].slot, req[q].slot))'
  BY <1>5 DEF InQueue, SameKey
<1> QED
  BY <1>2, <1>3, <1>6, <1>7 DEF WindowInv

\* Taking a place and giving one back leave a slot its hours.
LEMMA CountsOnly ==
  ASSUME TypeInv, NEW t, NEW s \in Slots
  PROVE  /\ Released(t)[s] # NoSlot /\ Released(t)[s].active =>
              Exists(s) /\ slots[s].active /\ SameKey(Released(t)[s], slots[s])
         /\ Exists(t) /\ Reserved(t)[s] # NoSlot /\ Reserved(t)[s].active =>
              Exists(s) /\ slots[s].active /\ SameKey(Reserved(t)[s], slots[s])
<1>1. slots \in [Slots -> Slot \union {NoSlot}]
  BY DEF TypeInv, TypeOK
<1>2. CASE t = s
  <2>1. CASE Exists(s)
    <3>1. slots[s] \in Slot
      BY <1>1, <2>1 DEF Exists
    <3>2. /\ Released(t)[s] = [slots[s] EXCEPT !.remaining = @ + 1]
          /\ Reserved(t)[s] = [slots[s] EXCEPT !.remaining = @ - 1]
      BY <1>1, <1>2, <2>1 DEF Released, Reserved
    <3> QED
      BY <2>1, <3>1, <3>2 DEF SameKey, Slot
  <2>2. CASE ~Exists(s)
    BY <1>2, <2>2 DEF Released, Exists
  <2> QED
    BY <2>1, <2>2
<1>3. CASE t # s
  <2>1. Released(t)[s] = slots[s] /\ Reserved(t)[s] = slots[s]
    BY <1>1, <1>3 DEF Released, Reserved
  <2> QED
    BY <2>1 DEF Exists, SameKey
<1> QED
  BY <1>2, <1>3

\* Every step of a booking, a cancellation and a reschedule, and the steps that close a slot.
LEMMA SameHours ==
  ASSUME TypeInv, NEW r \in Requests,
         Start(r) \/ BookStep(r) \/ CancelStep(r) \/ MoveStep(r) \/ DoorStep(r) \/ MoveReject(r) \/ Lose(r)
           \/ CreateFind(r) \/ ShutFind(r) \/ ShutPickup(r) \/ ShutOrder(r) \/ ShutOrderPut(r) \/ ShutPut(r),
         NEW s \in Slots, Exists(s)', slots'[s].active
  PROVE  Exists(s) /\ slots[s].active /\ SameKey(slots'[s], slots[s])
<1>1. CASE slots' = slots
  BY <1>1 DEF Exists, SameKey
<1>2. ASSUME NEW t, slots' = Released(t) \/ (Exists(t) /\ slots' = Reserved(t))
      PROVE  Exists(s) /\ slots[s].active /\ SameKey(slots'[s], slots[s])
  BY <1>2, CountsOnly DEF Exists
<1>3. CASE ShutPut(r)
  <2>1. req[r] \in ShutJobs
    BY <1>3, JobOf DEF ShutPut, At, TypeInv
  <2>2. req[r].slot \in Slot
    BY <2>1 DEF ShutJobs
  <2>3. [req[r].slot EXCEPT !.active = FALSE, !.remaining = req[r].slot.total].active = FALSE
    BY <2>2 DEF Slot
  <2>4. s # req[r].s /\ slots'[s] = slots[s]
    BY <1>3, <2>3 DEF ShutPut, TypeInv, TypeOK
  <2> QED
    BY <2>4 DEF Exists, SameKey
<1>4. CASE BookStep(r)
  BY <1>1, <1>2, <1>4 DEF BookStep, BookReserve, BookCheck, BookGiveBack, BookPickup, BookOrder, CanReserve
<1>5. CASE CancelStep(r)
  BY <1>1, <1>2, <1>5 DEF CancelStep, CancelRead, CancelFee, CancelRelease, CancelPickup, CancelOrder
<1>6. CASE MoveStep(r) \/ MoveReject(r)
  BY <1>1, <1>2, <1>6 DEF MoveStep, MoveTarget, MoveReserve, MoveRelease, MovePickup, MoveOrder,
     MoveOrderPut, MoveUndo, MoveReject, CanReserve
<1>7. CASE Start(r)
  BY <1>1, <1>7 DEF Start, BookStart, CancelStart, MoveStart, CreateStart, UpdateRead, ShutStart,
     CollectStart, FailStart
<1>8. CASE DoorStep(r) \/ Lose(r)
  BY <1>1, <1>8 DEF DoorStep, CollectRead, CollectOrder, CollectPickup, FailOrder, FailRead, FailPickup, Lose
<1>9. CASE CreateFind(r) \/ ShutFind(r) \/ ShutPickup(r) \/ ShutOrder(r) \/ ShutOrderPut(r)
  BY <1>1, <1>9 DEF CreateFind, ShutFind, ShutPickup, ShutOrder, ShutOrderPut
<1> QED
  BY <1>3, <1>4, <1>5, <1>6, <1>7, <1>8, <1>9

\* A request at work stays with its handler or ends.
LEMMA StaysWith ==
  ASSUME TypeInv, NEW r \in Requests, Continue(r) \/ MoveReject(r) \/ Lose(r)
  PROVE  /\ req' = [req EXCEPT ![r] = req'[r]]
         /\ req'[r].op = "none" \/ req'[r].op = req[r].op
<1> DEFINE j == req[r]
<1>0. req \in [Requests -> Jobs] /\ j \in Jobs
  BY DEF TypeInv
<1>1. ASSUME NEW job, req' = [req EXCEPT ![r] = job], job.op = "none" \/ job.op = j.op
      PROVE  req' = [req EXCEPT ![r] = req'[r]] /\ (req'[r].op = "none" \/ req'[r].op = j.op)
  BY <1>0, <1>1
<1>2. CASE Finish(r)
  BY <1>1, <1>2, IdleTyped DEF Finish
<1>3. ASSUME NEW pc, Goto(r, pc)
      PROVE  req' = [req EXCEPT ![r] = req'[r]] /\ (req'[r].op = "none" \/ req'[r].op = j.op)
  <2>1. [j EXCEPT !.pc = pc].op = j.op
    BY <1>0 DEF Jobs, BookJobs, CancelJobs, MoveJobs, CreateJobs, UpdateJobs, ShutJobs, CollectJobs, FailJobs, Idle
  <2> QED
    BY <1>1, <1>3, <2>1 DEF Goto
<1>4. CASE BookStep(r)
  BY <1>1, <1>2, <1>3, <1>4 DEF BookStep, BookReserve, BookCheck, BookGiveBack, BookPickup, BookOrder, At
<1>5. CASE CancelStep(r)
  BY <1>1, <1>2, <1>3, <1>5 DEF CancelStep, CancelRead, CancelFee, CancelRelease, CancelPickup, CancelOrder, At
<1>6. CASE MoveStep(r) \/ MoveReject(r)
  BY <1>1, <1>2, <1>3, <1>6 DEF MoveStep, MoveTarget, MoveReserve, MoveRelease, MovePickup, MoveOrder,
     MoveOrderPut, MoveUndo, MoveReject, At
<1>7. CASE StaffStep(r)
  BY <1>1, <1>2, <1>3, <1>7 DEF StaffStep, CreateFind, CreatePut, UpdatePut, ShutFind, ShutPickup,
     ShutOrder, ShutOrderPut, ShutPut, At
<1>8. CASE DoorStep(r) \/ Lose(r)
  BY <1>1, <1>2, <1>3, <1>8 DEF DoorStep, CollectRead, CollectOrder, CollectPickup, FailOrder, FailRead,
     FailPickup, Lose, At
<1> QED
  BY <1>4, <1>5, <1>6, <1>7, <1>8 DEF Continue

LEMMA StartsWith ==
  ASSUME TypeInv, NEW r \in Requests, Start(r)
  PROVE  /\ req' = [req EXCEPT ![r] = req'[r]] /\ req[r] = Idle
         /\ req'[r].op \in Operations
         /\ req'[r].op = "create" => req'[r].pc = "find"
<1>0. req \in [Requests -> Jobs]
  BY DEF TypeInv
<1>1. ASSUME NEW op, NEW job, Begin(r, op, job), job.op = op, op = "create" => job.pc = "find"
      PROVE  /\ req' = [req EXCEPT ![r] = req'[r]] /\ req[r] = Idle
             /\ req'[r].op \in Operations
             /\ req'[r].op = "create" => req'[r].pc = "find"
  BY <1>0, <1>1 DEF Begin
<1> QED
  BY <1>1 DEF Start, BookStart, CancelStart, MoveStart, CreateStart, UpdateRead, ShutStart,
     CollectStart, FailStart

LEMMA NextWindow ==
  ASSUME "update" \notin Operations, WindowInv, [Next]_vars
  PROVE  WindowInv'
<1>0. TypeInv /\ TypeInv'
  BY NextTyped DEF WindowInv
<1>1. CASE Tick \/ UNCHANGED vars
  <2>1. slots' = slots /\ req' = req
    BY <1>1 DEF Tick, vars
  <2>2. OneSlotPerWindow'
    BY <2>1 DEF WindowInv, OneSlotPerWindow, SameKey, Exists
  <2>3. \A r \in Requests : (InQueue(req[r]) => ~Clash(req[r].slot))'
    BY <2>1 DEF WindowInv, InQueue, Clash, SameKey, Exists
  <2> QED
    BY <1>0, <2>1, <2>2, <2>3 DEF WindowInv, InQueue, SameKey
<1>2. ASSUME NEW r \in Requests, Start(r) \/ Continue(r) \/ MoveReject(r) \/ Lose(r)
      PROVE  WindowInv'
  <2> DEFINE j == req[r]
             job == req'[r]
  <2>0. j \in Jobs /\ j.op # "update" /\ req \in [Requests -> Jobs] /\ req' \in [Requests -> Jobs] /\ job \in Jobs
    BY <1>0 DEF WindowInv, TypeInv
  <2>1. req' = [req EXCEPT ![r] = job] /\ job.op # "update"
    BY <1>0, <1>2, <2>0, StaysWith, StartsWith
  <2>2. CASE CreateFind(r) /\ Goto(r, "put")
    <3>1. /\ j.op = "create" /\ j.pc = "find" /\ slots' = slots
          /\ ~Clash(j.slot) /\ ~InCreation(j.slot) /\ j \in CreateJobs
      <4>1. j.op = "create" /\ j.pc = "find" /\ slots' = slots /\ ~InCreation(j.slot)
        BY <2>2 DEF CreateFind, At
      <4>2. j \in CreateJobs
        BY <2>0, <4>1, JobOf
      <4>3. ~Finish(r)
        <5>1. [j EXCEPT !.pc = "put"].op = "create"
          BY <4>2 DEF CreateJobs
        <5> QED
          BY <2>0, <2>2, <5>1, IdleTyped DEF Finish, Goto
      <4> QED
        BY <2>2, <4>1, <4>2, <4>3 DEF CreateFind
    <3>2. job = [j EXCEPT !.pc = "put"]
      BY <2>0, <2>2 DEF Goto
    <3>3. job.op = "create" /\ job.pc = "put" /\ job.slot = j.slot
      BY <3>1, <3>2 DEF CreateJobs
    <3>4. \A q \in Requests \ {r} : req'[q] = req[q]
      BY <2>0, <2>1
    <3>5. OneSlotPerWindow'
      BY <3>1 DEF WindowInv, OneSlotPerWindow, SameKey, Exists
    <3>6. \A q \in Requests : ~\E t \in Slots : InQueue(req'[q]) /\ Exists(t) /\ slots[t].active /\ SameKey(slots[t], req'[q].slot)
      BY <3>1, <3>3, <3>4 DEF WindowInv, Clash
    <3>7. \A q \in Requests : (InQueue(req[q]) => ~Clash(req[q].slot))'
      BY <3>1, <3>6 DEF InQueue, Clash, SameKey, Exists
    <3>8. \A q \in Requests \ {r} : InQueue(req[q]) => ~SameKey(req[q].slot, j.slot)
      BY <3>1 DEF InCreation, InQueue, At
    <3>9. ASSUME NEW p \in Requests, NEW q \in Requests, p # q, InQueue(req'[p]), InQueue(req'[q])
          PROVE  ~SameKey(req'[p].slot, req'[q].slot)
      BY <3>3, <3>4, <3>8, <3>9 DEF WindowInv, SameKey
    <3>10. \A p, q \in Requests : (p # q /\ InQueue(req[p]) /\ InQueue(req[q]) => ~SameKey(req[p].slot, req[q].slot))'
      BY <3>9 DEF InQueue, SameKey
    <3>11. \A q \in Requests : req'[q].op # "update"
      BY <2>1, <3>4 DEF WindowInv
    <3> QED
      BY <1>0, <3>5, <3>7, <3>10, <3>11 DEF WindowInv
  <2>3. CASE CreatePut(r)
    <3>1. /\ InQueue(j) /\ slots' = [slots EXCEPT ![j.s] = j.slot] /\ job = Idle /\ j \in CreateJobs
      BY <2>0, <2>3, JobOf DEF CreatePut, At, Finish, InQueue
    <3>2. PICK t \in Slots : t = j.s
      BY <3>1 DEF CreateJobs
    <3>3. slots'[t] = j.slot /\ \A s \in Slots \ {t} : slots'[s] = slots[s]
      BY <1>0, <3>1, <3>2 DEF TypeInv, TypeOK
    <3>4. \A q \in Requests \ {r} : req'[q] = req[q]
      BY <2>0, <2>1
    <3>5. ~InQueue(job) /\ ~Clash(j.slot) /\ \A q \in Requests \ {r} : InQueue(req[q]) => ~SameKey(req[q].slot, j.slot)
      BY <3>1, IdleTyped DEF WindowInv, InQueue
    <3>6. ASSUME NEW s \in Slots \ {t}, slots'[s] # NoSlot, slots'[s].active
          PROVE  ~SameKey(slots'[s], slots'[t]) /\ ~SameKey(slots'[t], slots'[s])
      BY <3>3, <3>5, <3>6 DEF Clash, Exists, SameKey
    <3>7. \A s, u \in Slots \ {t} : s # u /\ slots'[s] # NoSlot /\ slots'[u] # NoSlot /\ slots'[s].active /\ slots'[u].active =>
            ~SameKey(slots'[s], slots'[u])
      BY <3>3 DEF WindowInv, OneSlotPerWindow, Exists
    <3>8. OneSlotPerWindow'
      BY <3>6, <3>7 DEF OneSlotPerWindow, Exists, SameKey
    <3>9. ASSUME NEW q \in Requests, InQueue(req'[q]), NEW s \in Slots, slots'[s] # NoSlot, slots'[s].active
          PROVE  ~SameKey(slots'[s], req'[q].slot)
      <4>1. q # r /\ req'[q] = req[q] /\ ~Clash(req[q].slot) /\ ~SameKey(req[q].slot, j.slot)
        BY <3>4, <3>5, <3>9 DEF WindowInv
      <4> QED
        BY <3>3, <3>9, <4>1 DEF Clash, Exists, SameKey
    <3>10. \A q \in Requests : (InQueue(req[q]) => ~Clash(req[q].slot))'
      BY <3>9 DEF InQueue, Clash, SameKey, Exists
    <3>11. \A p, q \in Requests : (p # q /\ InQueue(req[p]) /\ InQueue(req[q]) => ~SameKey(req[p].slot, req[q].slot))'
      BY <3>4, <3>5 DEF WindowInv, InQueue, SameKey
    <3>12. \A q \in Requests : req'[q].op # "update"
      BY <2>1, <3>4 DEF WindowInv
    <3> QED
      BY <1>0, <3>8, <3>10, <3>11, <3>12 DEF WindowInv
  <2>4. CASE ~CreatePut(r) /\ ~(CreateFind(r) /\ Goto(r, "put"))
    <3>1. ~UpdatePut(r)
      BY <2>0 DEF UpdatePut, At
    <3>2. \A s \in Slots : Exists(s)' /\ slots'[s].active => Exists(s) /\ slots[s].active /\ SameKey(slots'[s], slots[s])
      BY <1>0, <1>2, <2>4, <3>1, SameHours DEF Continue, StaffStep
    <3>3. ~InQueue(job)
      <4>1. CASE Start(r)
        BY <1>0, <4>1, StartsWith DEF InQueue
      <4>2. CASE CreateFind(r)
        BY <2>0, <2>4, <4>2, IdleTyped DEF CreateFind, Finish, InQueue
      <4>3. CASE Lose(r)
        BY <2>0, <4>3, IdleTyped DEF Lose, Finish, InQueue
      <4>4. CASE (Continue(r) \/ MoveReject(r)) /\ ~CreateFind(r)
        <5>1. req[r].op # "create"
          BY <2>4, <3>1, <4>4 DEF Continue, MoveReject, StaffStep, BookStep, CancelStep, MoveStep, DoorStep,
             BookReserve, BookCheck, BookGiveBack, BookPickup, BookOrder,
             CancelRead, CancelFee, CancelRelease, CancelPickup, CancelOrder,
             MoveTarget, MoveReserve, MoveRelease, MovePickup, MoveOrder, MoveOrderPut, MoveUndo,
             ShutFind, ShutPickup, ShutOrder, ShutOrderPut, ShutPut,
             CollectRead, CollectOrder, CollectPickup, FailOrder, FailRead, FailPickup, At
        <5> QED
          BY <1>0, <4>4, <5>1, StaysWith DEF InQueue
      <4> QED
        BY <1>2, <4>1, <4>2, <4>3, <4>4
    <3> HIDE DEF job
    <3> QED
      BY <1>0, <2>0, <2>1, <3>2, <3>3, NothingOpens
  <2> QED
    BY <2>2, <2>3, <2>4
<1> QED
  BY <1>1, <1>2 DEF Next

\* "One slot per society, per day, per window": the look for a clash and the write of a new
\* slot are two store calls, and with the queue in front of them no two creations leave two
\* open slots for the same hours, whatever is booked, moved, collected and closed meanwhile
\* and whichever requests die half way.  (An edit of a slot looks for no clash.)
THEOREM OneSlotEach ==
  ASSUME "update" \notin Operations,
         \A first \in FirstSlots, s, t \in Slots :
           s # t /\ first[s] # NoSlot /\ first[t] # NoSlot /\ first[s].active /\ first[t].active =>
             ~SameKey(first[s], first[t])
  PROVE  Spec => []OneSlotPerWindow
<1>1. Init => WindowInv
  <2> SUFFICES ASSUME Init PROVE WindowInv
    OBVIOUS
  <2>1. \A r \in Requests : req[r] = Idle
    BY DEF Init
  <2> QED
    BY <2>1, InitTyped, IdleTyped DEF Init, WindowInv, OneSlotPerWindow, InQueue, Exists
<1>2. WindowInv /\ [Next]_vars => WindowInv'
  BY NextWindow
<1> QED
  BY <1>1, <1>2, PTL DEF Spec, WindowInv

-----------------------------------------------------------------------------
(* A pickup in one request's hands *)

\* A request about one pickup.
On(job) == job.op \in {"book", "cancel", "move", "collect", "fail"}

\* What its pickup, the order and the fees are while a request is at work on them.
Midst(job, pickup, order, fee) ==
  /\ job.op = "book" =>
       /\ order = "none" /\ fee = 0
       /\ IF job.pc = "order" THEN pickup.status \in Pending ELSE pickup = NoPickup
  /\ job.op = "cancel" =>
       /\ order = "scheduled"
       /\ fee <= IF job.pc \in {"read", "fee"} THEN 0 ELSE 1
       /\ job.pc # "read" => job.order = "scheduled"
       /\ IF job.pc = "order" THEN pickup.status = "cancelled"
          ELSE pickup.status \in Pending /\ pickup = job.pickup
  /\ job.op = "move" =>
       /\ order = "scheduled" /\ fee = 0 /\ pickup.status \in Pending
       /\ job.pc \in {"target", "reserve", "release", "pickup"} => pickup = job.pickup
       /\ job.pc \in {"order", "orderPut"} => pickup.slot = job.s
  /\ job.op = "collect" =>
       /\ order = (IF job.pc = "pickup" THEN "picked_up" ELSE "scheduled")
       /\ fee = 0 /\ pickup.status \in Pending
       /\ job.pc # "read" => pickup = job.pickup
  /\ job.op = "fail" =>
       /\ order = (IF job.pc = "order" THEN "scheduled" ELSE "pickup_failed")
       /\ fee = 0 /\ pickup.status \in Pending
       /\ job.pc = "pickup" => pickup = job.pickup

\* A request that was lost has written one of the two documents.
HalfWritten(pickup, order) ==
  /\ pickup.status \in Pending
  /\ \/ order = "none" /\ "book" \in Faults
     \/ order = "picked_up" /\ "collect" \in Faults
     \/ order = "pickup_failed" /\ "fail" \in Faults

\* And what they are when nobody is.
Told(pickup, order, fee) ==
  /\ fee <= IF order = "cancelled" THEN 1 ELSE 0
  /\ SameStory(pickup, order) \/ HalfWritten(pickup, order)

StoryInv ==
  /\ TypeInv
  /\ \A r \in Requests : req[r].op # "shut"
  /\ \A q, r \in Requests : q # r /\ On(req[q]) /\ On(req[r]) => req[q].p # req[r].p
  /\ \A r \in Requests : On(req[r]) =>
       Midst(req[r], pickups[req[r].p], orders[req[r].p], fees[req[r].p])
  /\ \A p \in Pickups : (\A r \in Requests : On(req[r]) => req[r].p # p) =>
       Told(pickups[p], orders[p], fees[p])

\* A place taken that no pickup stands for yet is in a slot there is; a slot being created is
\* not there yet and its counter starts full.
Roomed(job) ==
  /\ \A s \in Slots : Keeps(job, s) => Exists(s)
  /\ job.op = "create" => ~Exists(job.s) /\ job.slot.remaining = job.slot.total
  /\ job.op = "update" => Exists(job.s)

SeatInv ==
  /\ StoryInv
  /\ \A p \in Pickups : Booked(p) => Exists(pickups[p].slot)
  /\ \A r \in Requests : Roomed(req[r])
  /\ \A q, r \in Requests :
       q # r /\ req[q].op = "create" /\ req[r].op = "create" => req[q].s # req[r].s
  /\ SeatAccounting

LEMMA OnFields ==
  ASSUME NEW job \in Jobs
  PROVE  /\ On(job) => job.p \in Pickups
         /\ job.op \in {"book", "move", "create", "update"} => job.s \in Slots
         /\ job.op \in {"cancel", "move"} => job.pickup \in Pickup /\ job.pickup.slot \in Slots
         /\ job.op \in {"create", "update"} => job.slot \in Slot
<1>1. job.op = "book" => job.p \in Pickups /\ job.s \in Slots
  BY JobOf DEF BookJobs
<1>2. job.op = "cancel" => job.p \in Pickups /\ job.pickup \in Pickup
  BY JobOf DEF CancelJobs
<1>3. job.op = "move" => job.p \in Pickups /\ job.s \in Slots /\ job.pickup \in Pickup
  BY JobOf DEF MoveJobs
<1>4. job.op \in {"create", "update"} => job.s \in Slots /\ job.slot \in Slot
  BY JobOf DEF CreateJobs, UpdateJobs
<1>5. job.op \in {"collect", "fail"} => job.p \in Pickups
  BY JobOf DEF CollectJobs, FailJobs
<1>6. \A pickup \in Pickup : pickup.slot \in Slots
  BY DEF Pickup
<1> QED
  BY <1>1, <1>2, <1>3, <1>4, <1>5, <1>6 DEF On

\* Request r is the only one on p, before and after it moves on to `job`.
Hands(r, job, p) ==
  /\ On(req[r]) => req[r].p = p
  /\ On(job) => job.p = p
  /\ \A q \in Requests \ {r} : On(req[q]) => req[q].p # p

\* A step writes the documents of p, if any.
Writes(p, pickup, order, fee) ==
  /\ pickups'[p] = pickup /\ orders'[p] = order /\ fees'[p] = fee
  /\ \A x \in Pickups \ {p} : pickups'[x] = pickups[x] /\ orders'[x] = orders[x] /\ fees'[x] = fees[x]

Leaves(job, pickup, order, fee) ==
  IF On(job) THEN Midst(job, pickup, order, fee) ELSE Told(pickup, order, fee)

\* Request r, which is on p or is about to be, moves on to `job`.
LEMMA StoryTurn ==
  ASSUME StoryInv, TypeInv', NEW r \in Requests, NEW job \in Jobs, req' = [req EXCEPT ![r] = job],
         job.op # "shut", NEW p \in Pickups, NEW pickup, NEW order, NEW fee,
         Hands(r, job, p), Writes(p, pickup, order, fee), Leaves(job, pickup, order, fee)
  PROVE  StoryInv'
<1>0. /\ On(req[r]) => req[r].p = p
      /\ On(job) => job.p = p
      /\ \A q \in Requests \ {r} : On(req[q]) => req[q].p # p
      /\ pickups'[p] = pickup /\ orders'[p] = order /\ fees'[p] = fee
      /\ \A x \in Pickups \ {p} : pickups'[x] = pickups[x] /\ orders'[x] = orders[x] /\ fees'[x] = fees[x]
      /\ On(job) => Midst(job, pickup, order, fee)
      /\ ~On(job) => Told(pickup, order, fee)
  BY DEF Hands, Writes, Leaves
<1>1. req'[r] = job /\ \A q \in Requests \ {r} : req'[q] = req[q]
  BY Moved DEF StoryInv, TypeInv
<1>2. \A q \in Requests : req'[q].op # "shut"
  BY <1>1 DEF StoryInv
<1>3. ASSUME NEW q \in Requests, NEW s \in Requests, q # s, On(req'[q]), On(req'[s])
      PROVE  req'[q].p # req'[s].p
  BY <1>0, <1>1, <1>3 DEF StoryInv
<1>4. ASSUME NEW q \in Requests, On(req'[q])
      PROVE  Midst(req'[q], pickups'[req'[q].p], orders'[req'[q].p], fees'[req'[q].p])
  <2>1. CASE q = r
    BY <1>0, <1>1, <1>4, <2>1
  <2>2. CASE q # r
    <3>1. req'[q] = req[q] /\ On(req[q]) /\ req[q].p # p /\ req[q] \in Jobs
      BY <1>0, <1>1, <1>4, <2>2 DEF StoryInv, TypeInv
    <3>2. req[q].p \in Pickups \ {p}
      BY <3>1, OnFields
    <3>3. Midst(req[q], pickups[req[q].p], orders[req[q].p], fees[req[q].p])
      BY <3>1 DEF StoryInv
    <3> QED
      BY <1>0, <3>1, <3>2, <3>3
  <2> QED
    BY <2>1, <2>2
<1>5. ASSUME NEW x \in Pickups, \A q \in Requests : On(req'[q]) => req'[q].p # x
      PROVE  Told(pickups'[x], orders'[x], fees'[x])
  <2>1. CASE x = p
    BY <1>0, <1>1, <1>5, <2>1
  <2>2. CASE x # p
    BY <1>0, <1>1, <1>5, <2>2 DEF StoryInv
  <2> QED
    BY <2>1, <2>2
<1>6. (\A q, s \in Requests : q # s /\ On(req[q]) /\ On(req[s]) => req[q].p # req[s].p)'
  BY <1>3 DEF On
<1>7. (\A q \in Requests : On(req[q]) =>
         Midst(req[q], pickups[req[q].p], orders[req[q].p], fees[req[q].p]))'
  BY <1>4 DEF On, Midst
<1>8. (\A x \in Pickups : (\A q \in Requests : On(req[q]) => req[q].p # x) =>
         Told(pickups[x], orders[x], fees[x]))'
  BY <1>5 DEF On, Told, SameStory, HalfWritten
<1> QED
  BY <1>2, <1>6, <1>7, <1>8 DEF StoryInv

\* A request on no pickup moves on, and the pickups are as they were.
LEMMA StoryAside ==
  ASSUME StoryInv, TypeInv', NEW r \in Requests, NEW job \in Jobs, req' = [req EXCEPT ![r] = job],
         job.op # "shut", ~On(req[r]), ~On(job), pickups' = pickups, orders' = orders, fees' = fees
  PROVE  StoryInv'
<1>1. req'[r] = job /\ \A q \in Requests \ {r} : req'[q] = req[q]
  BY Moved DEF StoryInv, TypeInv
<1>2. \A q \in Requests : req'[q].op # "shut" /\ (On(req'[q]) <=> On(req[q])) /\ (On(req'[q]) => req'[q] = req[q])
  BY <1>1 DEF StoryInv
<1>6. (\A q, s \in Requests : q # s /\ On(req[q]) /\ On(req[s]) => req[q].p # req[s].p)'
  <2>1. \A q, s \in Requests : q # s /\ On(req'[q]) /\ On(req'[s]) => req'[q].p # req'[s].p
    BY <1>2 DEF StoryInv
  <2> QED
    BY <2>1 DEF On
<1>7. (\A q \in Requests : On(req[q]) =>
         Midst(req[q], pickups[req[q].p], orders[req[q].p], fees[req[q].p]))'
  <2>1. \A q \in Requests : On(req'[q]) => Midst(req'[q], pickups'[req'[q].p], orders'[req'[q].p], fees'[req'[q].p])
    BY <1>2 DEF StoryInv
  <2> QED
    BY <2>1 DEF On, Midst
<1>8. (\A x \in Pickups : (\A q \in Requests : On(req[q]) => req[q].p # x) =>
         Told(pickups[x], orders[x], fees[x]))'
  <2>1. \A x \in Pickups : (\A q \in Requests : On(req'[q]) => req'[q].p # x) => Told(pickups'[x], orders'[x], fees'[x])
    BY <1>2 DEF StoryInv
  <2> QED
    BY <2>1 DEF On, Told, SameStory, HalfWritten
<1> QED
  BY <1>2, <1>6, <1>7, <1>8 DEF StoryInv

-----------------------------------------------------------------------------
(* What a step does to the count of a slot *)

\* A change has given the place of its pickup back.
Away(job) == job.op \in {"cancel", "move"} /\ job.pc = "pickup"

Firm(s) == {p \in Seated(s) : ~Freed(p)}

\* The place of a slot that a pickup has while `job` is at work on it, and the one the job has.
Place(pickup, job, s) ==
  IF pickup # NoPickup /\ pickup.slot = s /\ pickup.status # "cancelled" /\ ~Away(job) THEN 1 ELSE 0
Hand(job, s) == IF Keeps(job, s) THEN 1 ELSE 0

\* Two finite sets that differ in x at most.
LEMMA DifferInOne ==
  ASSUME NEW A, NEW B, NEW x, IsFiniteSet(A), A \ {x} = B \ {x}
  PROVE  /\ Cardinality(A) \in Nat /\ Cardinality(B) \in Nat
         /\ Cardinality(B) + (IF x \in A THEN 1 ELSE 0) = Cardinality(A) + (IF x \in B THEN 1 ELSE 0)
<1> DEFINE C == A \ {x}
<1>1. IsFiniteSet(C) /\ x \notin C /\ Cardinality(C) \in Nat
  BY FS_RemoveElement, FS_Subset, FS_CardinalityType
<1>2. Cardinality(C \union {x}) = Cardinality(C) + 1
  BY <1>1, FS_AddElement
<1>3. A = (IF x \in A THEN C \union {x} ELSE C) /\ B = (IF x \in B THEN C \union {x} ELSE C)
  OBVIOUS
<1> HIDE DEF C
<1> QED
  BY <1>1, <1>2, <1>3

LEMMA FirmIsFinite ==
  ASSUME NEW s
  PROVE  IsFiniteSet(Firm(s)) /\ Cardinality(Firm(s)) \in Nat
BY NamesAreFinite, FS_Subset, FS_CardinalityType DEF Firm, Seated

\* What SeatAccounting counts.
LEMMA Counted ==
  ASSUME NEW s \in Slots
  PROVE  /\ SeatsTaken(s) = Cardinality(Firm(s)) + Cardinality(Holders(s))
         /\ SeatsTaken(s)' = Cardinality(Firm(s)') + Cardinality(Holders(s)')
BY DEF SeatsTaken, Firm, Holders

\* A slot keeps its count when the pickup, the request on it and the counter change together.
Counts(r, job, p, pickup) ==
  /\ pickup # NoPickup => Exists(pickup.slot)
  /\ \A s \in Slots :
       /\ Exists(s)' <=> Exists(s)
       /\ Keeps(job, s) => Exists(s)
       /\ Exists(s) /\ s \notin spoiled' =>
            /\ s \notin spoiled
            /\ slots'[s].remaining + Place(pickup, job, s) + Hand(job, s) - slots'[s].total
               = slots[s].remaining + Place(pickups[p], req[r], s) + Hand(req[r], s) - slots[s].total

LEMMA SeatTurn ==
  ASSUME SeatInv, StoryInv', TypeInv', NEW r \in Requests, NEW job \in Jobs,
         req' = [req EXCEPT ![r] = job], job.op \notin {"create", "update"},
         NEW p \in Pickups, NEW pickup, NEW order, NEW fee,
         Hands(r, job, p), Writes(p, pickup, order, fee), Counts(r, job, p, pickup)
  PROVE  SeatInv'
<1>00. /\ On(req[r]) => req[r].p = p
       /\ On(job) => job.p = p
       /\ \A q \in Requests \ {r} : On(req[q]) => req[q].p # p
       /\ pickups'[p] = pickup
       /\ \A x \in Pickups \ {p} : pickups'[x] = pickups[x]
  BY DEF Hands, Writes
<1>01. /\ pickup # NoPickup => Exists(pickup.slot)
       /\ \A s \in Slots : (Exists(s)' <=> Exists(s)) /\ (Keeps(job, s) => Exists(s))
  BY DEF Counts
<1>0. TypeInv /\ StoryInv
  BY DEF SeatInv, StoryInv
<1>1. req'[r] = job /\ \A q \in Requests \ {r} : req'[q] = req[q]
  BY <1>0, Moved DEF TypeInv
<1>2. \A q \in Requests : req[q] \in Jobs /\ (Away(req[q]) => On(req[q]) /\ req[q].p \in Pickups)
  BY <1>0, OnFields DEF TypeInv, Away, On
<1>3. ASSUME NEW s \in Slots, Exists(s)', s \notin spoiled' PROVE slots'[s].remaining + SeatsTaken(s)' = slots'[s].total
  <2>1. Exists(s) /\ s \notin spoiled /\ slots[s].remaining + SeatsTaken(s) = slots[s].total
    BY <1>01, <1>3 DEF SeatInv, SeatAccounting, Counts
  <2>2. slots[s] \in Slot /\ slots'[s] \in Slot
    BY <1>0, <1>3, <2>1 DEF TypeInv, TypeOK, Exists
  <2>3. \A x \in Pickups : Freed(x) <=> \E q \in Requests : Away(req[q]) /\ req[q].p = x
    BY DEF Freed, Away
  <2>4. \A x \in Pickups : Freed(x)' <=> \E q \in Requests : Away(req'[q]) /\ req'[q].p = x
    BY DEF Freed, Away
  <2>5. \A x \in Pickups \ {p} : Freed(x)' <=> Freed(x)
    BY <1>00, <1>1, <1>2, <2>3, <2>4 DEF Away, On
  <2>6. (Freed(p) <=> Away(req[r])) /\ (Freed(p)' <=> Away(job))
    BY <1>00, <1>1, <1>2, <2>3, <2>4 DEF Away, On
  <2>7. Firm(s) = {x \in Pickups : pickups[x] # NoPickup /\ pickups[x].slot = s /\ pickups[x].status # "cancelled" /\ ~Freed(x)}
    BY DEF Firm, Seated, Booked
  <2>8. Firm(s)' = {x \in Pickups : pickups'[x] # NoPickup /\ pickups'[x].slot = s /\ pickups'[x].status # "cancelled" /\ ~Freed(x)'}
    BY DEF Firm, Seated, Booked
  <2>9. Firm(s) \ {p} = Firm(s)' \ {p}
    BY <1>00, <2>5, <2>7, <2>8
  <2>10. (IF p \in Firm(s) THEN 1 ELSE 0) = Place(pickups[p], req[r], s)
    BY <2>6, <2>7 DEF Place
  <2>11. (IF p \in Firm(s)' THEN 1 ELSE 0) = Place(pickup, job, s)
    BY <1>00, <2>6, <2>8 DEF Place
  <2>12. /\ Cardinality(Firm(s)') + Place(pickups[p], req[r], s) = Cardinality(Firm(s)) + Place(pickup, job, s)
         /\ Cardinality(Firm(s)) \in Nat /\ Cardinality(Firm(s)') \in Nat
    BY <2>9, <2>10, <2>11, FirmIsFinite, DifferInOne
  <2>13. /\ Holders(s)' = IF Keeps(job, s) THEN Holders(s) \union {r} ELSE Holders(s) \ {r}
         /\ r \in Holders(s) <=> Keeps(req[r], s)
         /\ IsFiniteSet(Holders(s))
    BY <1>0, HoldersAfter
  <2>14. /\ Cardinality(Holders(s)') + Hand(req[r], s) = Cardinality(Holders(s)) + Hand(job, s)
         /\ Cardinality(Holders(s)) \in Nat /\ Cardinality(Holders(s)') \in Nat
    <3>1. Holders(s) \ {r} = Holders(s)' \ {r}
      BY <2>13
    <3>2. (IF r \in Holders(s) THEN 1 ELSE 0) = Hand(req[r], s)
      BY <2>13 DEF Hand
    <3>3. (IF r \in Holders(s)' THEN 1 ELSE 0) = Hand(job, s)
      BY <2>13 DEF Hand
    <3> QED
      BY <2>13, <3>1, <3>2, <3>3, DifferInOne
  <2>15. /\ Place(pickups[p], req[r], s) \in {0, 1} /\ Place(pickup, job, s) \in {0, 1}
         /\ Hand(req[r], s) \in {0, 1} /\ Hand(job, s) \in {0, 1}
    BY DEF Place, Hand
  <2>16. /\ slots[s].remaining \in Nat /\ slots[s].total \in Nat
         /\ slots'[s].remaining \in Nat /\ slots'[s].total \in Nat
    BY <2>2 DEF Slot
  <2>17. slots'[s].remaining + Place(pickup, job, s) + Hand(job, s) - slots'[s].total
         = slots[s].remaining + Place(pickups[p], req[r], s) + Hand(req[r], s) - slots[s].total
    BY <1>3, <2>1 DEF Counts
  <2>18. SeatsTaken(s) = Cardinality(Firm(s)) + Cardinality(Holders(s))
    BY Counted
  <2>19. SeatsTaken(s)' = Cardinality(Firm(s)') + Cardinality(Holders(s)')
    BY Counted
  <2> DEFINE f == Cardinality(Firm(s))
             g == Cardinality(Firm(s)')
             h == Cardinality(Holders(s))
             k == Cardinality(Holders(s)')
             p0 == Place(pickups[p], req[r], s)
             p1 == Place(pickup, job, s)
             h0 == Hand(req[r], s)
             h1 == Hand(job, s)
             a0 == slots[s].remaining
             t0 == slots[s].total
             a1 == slots'[s].remaining
             t1 == slots'[s].total
  <2>20. /\ f \in Nat /\ g \in Nat /\ h \in Nat /\ k \in Nat
         /\ p0 \in Nat /\ p1 \in Nat /\ h0 \in Nat /\ h1 \in Nat
         /\ g + p0 = f + p1 /\ k + h0 = h + h1
         /\ a0 \in Nat /\ t0 \in Nat /\ a1 \in Nat /\ t1 \in Nat
         /\ a1 + p1 + h1 - t1 = a0 + p0 + h0 - t0 /\ a0 + (f + h) = t0
    BY <2>1, <2>12, <2>14, <2>15, <2>16, <2>17, <2>18
  <2> HIDE DEF f, g, h, k, p0, p1, h0, h1, a0, t0, a1, t1
  <2>21. a1 + (g + k) = t1
    BY <2>20
  <2> QED
    BY <2>19, <2>21 DEF g, k, a1, t1
<1>4. SeatAccounting'
  BY <1>3 DEF SeatAccounting
<1>5. (\A x \in Pickups : Booked(x) => Exists(pickups[x].slot))'
  <2>1. ASSUME NEW x \in Pickups, pickups'[x] # NoPickup PROVE slots'[pickups'[x].slot] # NoSlot
    <3>1. pickups'[x].slot \in Slots
      BY <2>1 DEF TypeInv, TypeOK, Pickup
    <3>2. Exists(pickups'[x].slot)
      BY <1>00, <1>01, <2>1 DEF SeatInv, Booked
    <3> QED
      BY <1>01, <3>1, <3>2 DEF Exists
  <2> QED
    BY <2>1 DEF Booked, Exists
<1>6. ASSUME NEW q \in Requests PROVE Roomed(req[q])'
  <2>1. CASE q = r
    BY <1>01, <1>1, <2>1 DEF Roomed, Exists, Keeps
  <2>2. CASE q # r
    <3>1. req'[q] = req[q] /\ Roomed(req[q])
      BY <1>1, <2>2 DEF SeatInv
    <3>2. req[q].op \in {"create", "update"} => req[q].s \in Slots
      BY <1>2, OnFields
    <3> QED
      BY <1>01, <3>1, <3>2 DEF Roomed, Exists, Keeps
  <2> QED
    BY <2>1, <2>2
<1>7. (\A q, s \in Requests :
         q # s /\ req[q].op = "create" /\ req[s].op = "create" => req[q].s # req[s].s)'
  BY <1>1 DEF SeatInv
<1> QED
  BY <1>4, <1>5, <1>6, <1>7 DEF SeatInv

\* A request on no pickup moves on: a slot may be new, and a counter may move with its total.
LEMMA SeatAside ==
  ASSUME SeatInv, StoryInv', TypeInv', NEW r \in Requests, NEW job \in Jobs,
         req' = [req EXCEPT ![r] = job], ~On(req[r]), ~On(job), pickups' = pickups,
         Roomed(job)',
         job.op = "create" => \A q \in Requests \ {r} : req[q].op = "create" => req[q].s # job.s,
         \A s \in Slots : Exists(s) => Exists(s)',
         \A s \in Slots : Exists(s)' => Exists(s) \/ (req[r].op = "create" /\ s = req[r].s),
         \A s \in Slots : Exists(s)' /\ s \notin spoiled' =>
           IF Exists(s)
           THEN s \notin spoiled /\ slots'[s].remaining - slots'[s].total = slots[s].remaining - slots[s].total
           ELSE slots'[s].remaining = slots'[s].total
  PROVE  SeatInv'
<1>0. TypeInv /\ StoryInv
  BY DEF SeatInv, StoryInv
<1>1. req'[r] = job /\ \A q \in Requests \ {r} : req'[q] = req[q]
  BY <1>0, Moved DEF TypeInv
<1>2. \A q \in Requests : req[q] \in Jobs
  BY <1>0 DEF TypeInv
<1>3. ASSUME NEW s \in Slots, Exists(s)', s \notin spoiled' PROVE slots'[s].remaining + SeatsTaken(s)' = slots'[s].total
  <2>3. \A x \in Pickups : Freed(x) <=> \E q \in Requests : Away(req[q]) /\ req[q].p = x
    BY DEF Freed, Away
  <2>4. \A x \in Pickups : Freed(x)' <=> \E q \in Requests : Away(req'[q]) /\ req'[q].p = x
    BY DEF Freed, Away
  <2>5. \A x \in Pickups : Freed(x)' <=> Freed(x)
    BY <1>1, <2>3, <2>4 DEF Away, On
  <2>7. Firm(s) = {x \in Pickups : pickups[x] # NoPickup /\ pickups[x].slot = s /\ pickups[x].status # "cancelled" /\ ~Freed(x)}
    BY DEF Firm, Seated, Booked
  <2>8. Firm(s)' = {x \in Pickups : pickups'[x] # NoPickup /\ pickups'[x].slot = s /\ pickups'[x].status # "cancelled" /\ ~Freed(x)'}
    BY DEF Firm, Seated, Booked
  <2>9. Firm(s)' = Firm(s)
    BY <2>5, <2>7, <2>8
  <2>13. /\ Holders(s)' = IF Keeps(job, s) THEN Holders(s) \union {r} ELSE Holders(s) \ {r}
         /\ r \in Holders(s) <=> Keeps(req[r], s)
    BY <1>0, HoldersAfter
  <2>14. Holders(s)' = Holders(s)
    BY <2>13 DEF Keeps, On
  <2>15. SeatsTaken(s)' = SeatsTaken(s) /\ SeatsTaken(s) \in Nat
    <3>1. Cardinality(Firm(s)) \in Nat /\ Cardinality(Holders(s)) \in Nat
      BY <1>0, FirmIsFinite, HoldersAfter
    <3> QED
      BY <2>9, <2>14, <3>1, Counted
  <2>16. slots'[s] \in Slot /\ slots'[s].remaining \in Nat /\ slots'[s].total \in Nat
    BY <1>3 DEF TypeInv, TypeOK, Exists, Slot
  <2>17. CASE Exists(s)
    <3>1. s \notin spoiled /\ slots'[s].remaining - slots'[s].total = slots[s].remaining - slots[s].total
      BY <1>3, <2>17
    <3>2. slots[s].remaining + SeatsTaken(s) = slots[s].total
      BY <2>17, <3>1 DEF SeatInv, SeatAccounting
    <3>3. slots[s] \in Slot /\ slots[s].remaining \in Nat /\ slots[s].total \in Nat
      BY <1>0, <2>17 DEF TypeInv, TypeOK, Exists, Slot
    <3> QED
      BY <2>15, <2>16, <3>1, <3>2, <3>3
  <2>18. CASE ~Exists(s)
    <3>1. Firm(s) = {}
      BY <2>7, <2>18 DEF SeatInv, Booked
    <3>2. Holders(s) = {}
      <4>1. \A q \in Requests : Holds(q, s) => Keeps(req[q], s)
        BY DEF Holds, Keeps
      <4> QED
        BY <2>18, <4>1 DEF SeatInv, Roomed, Holders
    <3>3. SeatsTaken(s) = 0
      <4>1. Cardinality(Firm(s)) = 0 /\ Cardinality(Holders(s)) = 0
        BY <3>1, <3>2, FS_EmptySet
      <4> QED
        BY <4>1, Counted
    <3>4. slots'[s].remaining = slots'[s].total
      BY <1>3, <2>18
    <3> QED
      BY <2>15, <2>16, <3>3, <3>4
  <2> QED
    BY <2>17, <2>18
<1>4. SeatAccounting'
  BY <1>3 DEF SeatAccounting
<1>5. (\A x \in Pickups : Booked(x) => Exists(pickups[x].slot))'
  <2>1. ASSUME NEW x \in Pickups, pickups'[x] # NoPickup PROVE slots'[pickups'[x].slot] # NoSlot
    <3>1. pickups'[x].slot \in Slots
      BY <2>1 DEF TypeInv, TypeOK, Pickup
    <3>2. Exists(pickups'[x].slot)
      BY <2>1 DEF SeatInv, Booked
    <3> QED
      BY <3>1, <3>2 DEF Exists
  <2> QED
    BY <2>1 DEF Booked, Exists
<1>6. ASSUME NEW q \in Requests PROVE Roomed(req[q])'
  <2>1. CASE q = r
    BY <1>1, <2>1 DEF Roomed, Exists, Keeps
  <2>2. CASE q # r
    <3>1. req'[q] = req[q] /\ Roomed(req[q])
      BY <1>1, <2>2 DEF SeatInv
    <3>2. req[q].op \in {"create", "update"} => req[q].s \in Slots
      BY <1>2, OnFields
    <3>3. req[q].op = "create" /\ req[r].op = "create" => req[q].s # req[r].s
      BY <2>2 DEF SeatInv
    <3>4. \A s \in Slots : Keeps(req[q], s) => slots'[s] # NoSlot
      BY <3>1 DEF Roomed, Exists
    <3>5. req[q].op = "create" => slots'[req[q].s] = NoSlot /\ req[q].slot.remaining = req[q].slot.total
      BY <3>1, <3>2, <3>3 DEF Roomed, Exists
    <3>6. req[q].op = "update" => slots'[req[q].s] # NoSlot
      BY <3>1, <3>2 DEF Roomed, Exists
    <3> QED
      BY <3>1, <3>4, <3>5, <3>6 DEF Roomed, Exists, Keeps
  <2> QED
    BY <2>1, <2>2
<1>7. (\A q, s \in Requests :
         q # s /\ req[q].op = "create" /\ req[s].op = "create" => req[q].s # req[s].s)'
  BY <1>1 DEF SeatInv
<1> QED
  BY <1>4, <1>5, <1>6, <1>7 DEF SeatInv

\* What a request has read and keeps, when it moves on.
Same(j, job) ==
  /\ job.op = j.op /\ job.p = j.p
  /\ j.op \in {"book", "move"} => job.s = j.s
  /\ j.op \in {"cancel", "move"} => job.pickup = j.pickup
  /\ j.op = "cancel" /\ j.pc # "read" => job.order = j.order
  /\ j.op = "collect" /\ j.pc # "read" => job.pickup = j.pickup

LEMMA Further ==
  ASSUME TypeInv, TypeInv', NEW r \in Requests, On(req[r]), NEW pc, Goto(r, pc)
  PROVE  \E job \in Jobs : req' = [req EXCEPT ![r] = job] /\ Same(req[r], job) /\ job.pc = pc
<1> DEFINE j == req[r]
           job == [j EXCEPT !.pc = pc]
<1>0. j \in Jobs /\ req' = [req EXCEPT ![r] = job]
  BY DEF TypeInv, Goto
<1>1. req'[r] = job /\ job \in Jobs
  BY <1>0 DEF TypeInv
<1>2. Same(j, job) /\ job.pc = pc
  <2>1. CASE j.op = "book"
    <3>1. j \in BookJobs
      BY <1>0, <2>1, JobOf
    <3> QED
      BY <2>1, <3>1 DEF BookJobs, Same
  <2>2. CASE j.op = "cancel"
    <3>1. j \in CancelJobs
      BY <1>0, <2>2, JobOf
    <3> QED
      BY <2>2, <3>1 DEF CancelJobs, Same
  <2>3. CASE j.op = "move"
    <3>1. j \in MoveJobs
      BY <1>0, <2>3, JobOf
    <3> QED
      BY <2>3, <3>1 DEF MoveJobs, Same
  <2>4. CASE j.op = "collect"
    <3>1. j \in CollectJobs
      BY <1>0, <2>4, JobOf
    <3> QED
      BY <2>4, <3>1 DEF CollectJobs, Same
  <2>5. CASE j.op = "fail"
    <3>1. j \in FailJobs
      BY <1>0, <2>5, JobOf
    <3> QED
      BY <2>5, <3>1 DEF FailJobs, Same
  <2> QED
    BY <2>1, <2>2, <2>3, <2>4, <2>5 DEF On
<1> HIDE DEF job
<1> QED
  BY <1>0, <1>1, <1>2

-----------------------------------------------------------------------------
(* The steps of each handler keep the count *)

\* What a request at work on a pickup goes by.
LEMMA Working ==
  ASSUME SeatInv, NEW r \in Requests, On(req[r])
  PROVE  /\ TypeInv /\ req[r] \in Jobs /\ req[r].p \in Pickups
         /\ Midst(req[r], pickups[req[r].p], orders[req[r].p], fees[req[r].p])
         /\ \A q \in Requests \ {r} : On(req[q]) => req[q].p # req[r].p
         /\ \A s \in Slots : Keeps(req[r], s) => Exists(s)
         /\ \A s \in Slots : Exists(s) => slots[s].remaining \in Nat /\ slots[s].total \in Nat
         /\ Booked(req[r].p) => Exists(pickups[req[r].p].slot) /\ pickups[req[r].p].slot \in Slots
<1>1. TypeInv /\ StoryInv /\ req[r] \in Jobs /\ req[r].p \in Pickups
  BY OnFields DEF SeatInv, StoryInv, TypeInv
<1>2. \A s \in Slots : Exists(s) => slots[s].remaining \in Nat /\ slots[s].total \in Nat
  BY <1>1 DEF TypeInv, TypeOK, Exists, Slot
<1>3. Booked(req[r].p) => pickups[req[r].p].slot \in Slots
  BY <1>1 DEF TypeInv, TypeOK, Booked, Pickup
<1> QED
  BY <1>1, <1>2, <1>3 DEF SeatInv, StoryInv, Roomed

\* A step of a request at work on a pickup.
LEMMA PickupTurn ==
  ASSUME SeatInv, TypeInv', NEW r \in Requests, NEW job \in Jobs, req' = [req EXCEPT ![r] = job],
         On(req[r]), job.op = "none" \/ (On(job) /\ job.p = req[r].p),
         NEW pickup, NEW order, NEW fee,
         Writes(req[r].p, pickup, order, fee), Leaves(job, pickup, order, fee),
         Counts(r, job, req[r].p, pickup)
  PROVE  SeatInv'
<1>1. job.op \notin {"create", "update", "shut"} /\ StoryInv /\ req[r].p \in Pickups
  BY Working DEF SeatInv, On
<1>2. Hands(r, job, req[r].p)
  BY Working DEF Hands, On
<1>3. StoryInv'
  BY <1>1, <1>2, StoryTurn
<1> QED
  BY <1>1, <1>2, <1>3, SeatTurn

\* A place is taken, or given back.
LEMMA Counters ==
  ASSUME TypeInv, NEW t \in Slots, Exists(t), NEW s \in Slots
  PROVE  /\ CanReserve(t) => /\ Reserved(t)[s] # NoSlot <=> Exists(s)
                             /\ Exists(s) => /\ Reserved(t)[s].total = slots[s].total
                                             /\ Reserved(t)[s].remaining = slots[s].remaining - (IF s = t THEN 1 ELSE 0)
         /\ Released(t)[s] # NoSlot <=> Exists(s)
         /\ Exists(s) => /\ Released(t)[s].total = slots[s].total
                         /\ Released(t)[s].remaining = slots[s].remaining + (IF s = t THEN 1 ELSE 0)
<1>1. slots \in [Slots -> Slot \union {NoSlot}] /\ slots[t] \in Slot
  BY DEF TypeInv, TypeOK, Exists
<1>2. CASE s = t
  <2> DEFINE less == [slots[t] EXCEPT !.remaining = @ - 1]
             more == [slots[t] EXCEPT !.remaining = @ + 1]
  <2>1. Reserved(t)[s] = less /\ Released(t)[s] = more
    BY <1>1, <1>2 DEF Reserved, Released
  <2>2. /\ less.total = slots[t].total /\ less.remaining = slots[t].remaining - 1
        /\ more.total = slots[t].total /\ more.remaining = slots[t].remaining + 1 /\ more \in Slot
    BY <1>1 DEF Slot
  <2>3. CanReserve(t) => less \in Slot
    BY <1>1 DEF CanReserve, Slot
  <2> HIDE DEF less, more
  <2> QED
    BY <1>2, <2>1, <2>2, <2>3, SlotsAndPickups
<1>3. CASE s # t
  <2>1. Reserved(t)[s] = slots[s] /\ Released(t)[s] = slots[s]
    BY <1>1, <1>3 DEF Reserved, Released
  <2>2. Exists(s) => slots[s].remaining \in Nat
    BY <1>1 DEF Exists, Slot
  <2> QED
    BY <1>3, <2>1, <2>2 DEF Exists
<1> QED
  BY <1>2, <1>3

\* Who tells which story.
LEMMA Stories ==
  ASSUME NEW pickup
  PROVE  /\ SameStory(pickup, "none") <=> pickup = NoPickup
         /\ SameStory(pickup, "scheduled") <=> pickup.status \in Pending
         /\ SameStory(pickup, "cancelled") <=> pickup.status = "cancelled"
         /\ SameStory(pickup, "picked_up") <=> pickup.status = "completed"
         /\ SameStory(pickup, "pickup_failed") <=> pickup.status = "failed"
BY DEF SameStory

LEMMA IdleAway == ~On(Idle) /\ ~Away(Idle) /\ \A s : ~Keeps(Idle, s) /\ Hand(Idle, s) = 0
BY IdleTyped DEF On, Away, Keeps, Hand

\* A request that leaves the documents of its pickup as they are writes none.
LEMMA AsTheyAre ==
  ASSUME NEW p, pickups' = pickups, orders' = orders, fees' = fees
  PROVE  Writes(p, pickups[p], orders[p], fees[p])
BY DEF Writes

\* The steps of a booking.
LEMMA BookSeats ==
  ASSUME SeatInv, TypeInv', NEW r \in Requests, BookStep(r)
  PROVE  SeatInv'
<1> DEFINE j == req[r]
           here == pickups[j.p]
<1>0. /\ j.op = "book" /\ On(j) /\ TypeInv /\ TypeOK /\ j \in Jobs /\ j.p \in Pickups /\ j.s \in Slots
      /\ orders[j.p] = "none" /\ fees[j.p] = 0
      /\ IF j.pc = "order" THEN here.status \in Pending ELSE here = NoPickup
      /\ fees' = fees
      /\ \A s \in Slots : Keeps(j, s) => Exists(s)
      /\ Booked(j.p) => Exists(here.slot)
      /\ \A s \in Slots : Exists(s) => slots[s].remaining \in Nat /\ slots[s].total \in Nat
  <2>1. j.op = "book" /\ fees' = fees
    BY DEF BookStep, BookReserve, BookCheck, BookGiveBack, BookPickup, BookOrder, At
  <2>2. On(j)
    BY <2>1 DEF On
  <2>3. TypeInv /\ TypeOK
    BY <2>2, Working DEF TypeInv
  <2> QED
    BY <2>1, <2>2, <2>3, Working, OnFields DEF Midst
<1>1. CASE BookReserve(r) /\ CanReserve(j.s)
  <2>1. /\ j.pc = "reserve" /\ slots' = Reserved(j.s) /\ UNCHANGED <<pickups, orders, spoiled>>
    BY <1>1 DEF BookReserve, At
  <2>2. PICK job \in Jobs : req' = [req EXCEPT ![r] = job] /\ Same(j, job) /\ job.pc = "check"
    <3> DEFINE job == [op |-> "book", pc |-> "check", p |-> j.p, s |-> j.s, slot |-> slots'[j.s]]
    <3>1. req' = [req EXCEPT ![r] = job]
      BY <1>1 DEF BookReserve
    <3>2. req'[r] = job /\ job \in Jobs
      BY <1>0, <3>1 DEF TypeInv
    <3>3. Same(j, job) /\ job.pc = "check"
      BY <1>0 DEF Same
    <3> HIDE DEF job
    <3> QED
      BY <3>1, <3>2, <3>3
  <2>3. Exists(j.s)
    BY <1>1 DEF CanReserve
  <2>4. On(job) /\ job.p = j.p /\ Leaves(job, here, orders[j.p], fees[j.p])
    BY <1>0, <2>1, <2>2 DEF Same, On, Midst, Leaves
  <2>5. \A s \in Slots : /\ Exists(s)' <=> Exists(s)
                         /\ Keeps(job, s) => Exists(s)
                         /\ Hand(job, s) = (IF s = j.s THEN 1 ELSE 0) /\ Hand(j, s) = 0
                         /\ Place(here, job, s) = 0 /\ Place(here, j, s) = 0
    BY <1>0, <1>1, <2>1, <2>2, <2>3, Counters DEF Same, Keeps, Hand, Place, Exists
  <2>6. \A s \in Slots : Exists(s) => slots'[s].total = slots[s].total
                           /\ slots'[s].remaining = slots[s].remaining - (IF s = j.s THEN 1 ELSE 0)
    BY <1>0, <1>1, <2>1, <2>3, Counters
  <2>7. Counts(r, job, j.p, here)
    BY <1>0, <2>1, <2>5, <2>6 DEF Counts
  <2> QED
    BY <1>0, <2>1, <2>2, <2>4, <2>7, AsTheyAre, PickupTurn
<1>2. CASE BookReserve(r) /\ ~CanReserve(j.s)
  <2>1. j.pc = "reserve" /\ UNCHANGED <<slots, pickups, orders, spoiled>> /\ req' = [req EXCEPT ![r] = Idle]
    BY <1>2 DEF BookReserve, At, Finish
  <2>2. Leaves(Idle, here, orders[j.p], fees[j.p])
    BY <1>0, <2>1, Stories, IdleAway DEF Told, Leaves
  <2>3. \A s \in Slots : /\ Exists(s)' <=> Exists(s)
                         /\ Hand(j, s) = 0
                         /\ Place(here, Idle, s) = 0 /\ Place(here, j, s) = 0
    BY <1>0, <2>1 DEF Keeps, Hand, Place, Exists
  <2>4. Counts(r, Idle, j.p, here)
    BY <1>0, <2>1, <2>3, IdleAway DEF Counts
  <2> QED
    BY <1>0, <2>1, <2>2, <2>4, AsTheyAre, PickupTurn, IdleTyped
<1>3. CASE BookCheck(r)
  <2>1. /\ j.pc = "check" /\ UNCHANGED <<slots, pickups, orders, spoiled>>
        /\ \E pc \in {"pickup", "giveBack"} : Goto(r, pc)
    BY <1>3 DEF BookCheck, At
  <2>2. PICK job \in Jobs : req' = [req EXCEPT ![r] = job] /\ Same(j, job) /\ job.pc \in {"pickup", "giveBack"}
    BY <1>0, <2>1, Further
  <2>4. On(job) /\ job.p = j.p /\ Leaves(job, here, orders[j.p], fees[j.p])
    BY <1>0, <2>1, <2>2 DEF Same, On, Midst, Leaves
  <2>5. \A s \in Slots : /\ Exists(s)' <=> Exists(s)
                         /\ Keeps(job, s) => Exists(s)
                         /\ Hand(job, s) = Hand(j, s)
                         /\ Place(here, job, s) = 0 /\ Place(here, j, s) = 0
    BY <1>0, <2>1, <2>2 DEF Same, Keeps, Hand, Place, Exists
  <2>6. Counts(r, job, j.p, here)
    BY <1>0, <2>1, <2>5 DEF Counts
  <2> QED
    BY <1>0, <2>1, <2>2, <2>4, <2>6, AsTheyAre, PickupTurn
<1>4. CASE BookGiveBack(r)
  <2>1. /\ j.pc = "giveBack" /\ UNCHANGED <<pickups, orders, spoiled>> /\ slots' = Released(j.s)
        /\ req' = [req EXCEPT ![r] = Idle]
    BY <1>4 DEF BookGiveBack, At, Finish
  <2>2. Leaves(Idle, here, orders[j.p], fees[j.p])
    BY <1>0, <2>1, Stories, IdleAway DEF Told, Leaves
  <2>3. Keeps(j, j.s) /\ Exists(j.s)
    BY <1>0, <2>1 DEF Keeps
  <2>4. \A s \in Slots : /\ Exists(s)' <=> Exists(s)
                         /\ Hand(j, s) = (IF s = j.s THEN 1 ELSE 0)
                         /\ Place(here, Idle, s) = 0 /\ Place(here, j, s) = 0
    BY <1>0, <2>1, <2>3, Counters DEF Keeps, Hand, Place, Exists
  <2>5. \A s \in Slots : Exists(s) => slots'[s].total = slots[s].total
                           /\ slots'[s].remaining = slots[s].remaining + (IF s = j.s THEN 1 ELSE 0)
    BY <1>0, <2>1, <2>3, Counters
  <2>6. Counts(r, Idle, j.p, here)
    BY <1>0, <2>1, <2>4, <2>5, IdleAway DEF Counts
  <2> QED
    BY <1>0, <2>1, <2>2, <2>6, AsTheyAre, PickupTurn, IdleTyped
<1>5. CASE BookPickup(r)
  <2>1. /\ j.pc = "pickup" /\ UNCHANGED <<slots, orders, spoiled>> /\ Goto(r, "order")
    BY <1>5 DEF BookPickup, At
  <2>2. PICK job \in Jobs : req' = [req EXCEPT ![r] = job] /\ Same(j, job) /\ job.pc = "order"
    BY <1>0, <2>1, Further
  <2>3. PICK new : /\ new.status = "scheduled" /\ new.slot = j.s /\ new # NoPickup
                   /\ Writes(j.p, new, orders[j.p], fees[j.p])
    <3> DEFINE new == [status |-> "scheduled", slot |-> j.s, scheduledFor |-> ScheduledFor(j.slot)]
    <3>1. new.status = "scheduled" /\ new.slot = j.s /\ new # NoPickup
      BY DEF NoPickup
    <3>2. pickups' = [pickups EXCEPT ![j.p] = new]
      BY <1>5 DEF BookPickup
    <3> HIDE DEF new
    <3>3. Writes(j.p, new, orders[j.p], fees[j.p])
      BY <1>0, <2>1, <3>2 DEF Writes, TypeOK
    <3> QED
      BY <3>1, <3>3
  <2>4. On(job) /\ job.p = j.p /\ Leaves(job, new, orders[j.p], fees[j.p])
    BY <1>0, <2>1, <2>2, <2>3 DEF Same, On, Midst, Pending, Leaves
  <2>5. Exists(j.s) /\ Keeps(j, j.s)
    BY <1>0, <2>1 DEF Keeps
  <2>6. \A s \in Slots : /\ Exists(s)' <=> Exists(s)
                         /\ ~Keeps(job, s)
                         /\ Hand(job, s) = 0 /\ Hand(j, s) = (IF s = j.s THEN 1 ELSE 0)
                         /\ Place(new, job, s) = (IF s = j.s THEN 1 ELSE 0) /\ Place(here, j, s) = 0
    BY <1>0, <2>1, <2>2, <2>3 DEF Same, Keeps, Hand, Place, Exists, Away
  <2>7. Counts(r, job, j.p, new)
    BY <1>0, <2>1, <2>3, <2>5, <2>6 DEF Counts
  <2> QED
    BY <1>0, <2>2, <2>3, <2>4, <2>7, PickupTurn
<1>6. CASE BookOrder(r)
  <2>1. j.pc = "order" /\ UNCHANGED <<slots, pickups, spoiled>> /\ req' = [req EXCEPT ![r] = Idle]
    BY <1>6 DEF BookOrder, At, Finish
  <2>2. Writes(j.p, here, "scheduled", fees[j.p])
    BY <1>0, <1>6, <2>1 DEF BookOrder, TypeOK, Writes
  <2>3. Leaves(Idle, here, "scheduled", fees[j.p])
    BY <1>0, <2>1, Stories, IdleAway DEF Told, Leaves
  <2>4. \A s \in Slots : /\ Exists(s)' <=> Exists(s)
                         /\ Hand(j, s) = 0
                         /\ Place(here, Idle, s) = Place(here, j, s)
    BY <1>0, <2>1, IdleAway DEF Keeps, Hand, Place, Exists, Away
  <2>5. Counts(r, Idle, j.p, here)
    BY <1>0, <2>1, <2>4, IdleAway DEF Counts, Booked
  <2> QED
    BY <1>0, <2>1, <2>2, <2>3, <2>5, PickupTurn, IdleTyped
<1> QED
  BY <1>1, <1>2, <1>3, <1>4, <1>5, <1>6 DEF BookStep

\* A request that changes a pickup has one, in a slot there is.
LEMMA InHand ==
  ASSUME SeatInv, NEW r \in Requests, On(req[r]), req[r].op # "book"
  PROVE  /\ TypeInv /\ TypeOK /\ req[r] \in Jobs /\ req[r].p \in Pickups
         /\ Midst(req[r], pickups[req[r].p], orders[req[r].p], fees[req[r].p])
         /\ pickups[req[r].p] # NoPickup /\ pickups[req[r].p] \in Pickup
         /\ Exists(pickups[req[r].p].slot) /\ pickups[req[r].p].slot \in Slots
         /\ \A s \in Slots : Keeps(req[r], s) => Exists(s)
         /\ \A s \in Slots : Exists(s) => slots[s].remaining \in Nat /\ slots[s].total \in Nat
<1>1. /\ TypeInv /\ req[r] \in Jobs /\ req[r].p \in Pickups
      /\ Midst(req[r], pickups[req[r].p], orders[req[r].p], fees[req[r].p])
      /\ \A s \in Slots : Keeps(req[r], s) => Exists(s)
      /\ \A s \in Slots : Exists(s) => slots[s].remaining \in Nat /\ slots[s].total \in Nat
      /\ Booked(req[r].p) => Exists(pickups[req[r].p].slot) /\ pickups[req[r].p].slot \in Slots
  BY Working
<1>2. TypeOK
  BY <1>1 DEF TypeInv
<1>3. pickups[req[r].p].status \in Pending \union {"cancelled"}
  BY <1>1 DEF Midst, On
<1>4. pickups[req[r].p] # NoPickup
  BY <1>3 DEF Pending, NoPickup
<1> QED
  BY <1>1, <1>2, <1>4 DEF Booked, TypeOK

\* The pickup as it was read, with another status.
LEMMA Marked ==
  ASSUME NEW pickup \in Pickup, NEW status
  PROVE  /\ [pickup EXCEPT !.status = status].status = status
         /\ [pickup EXCEPT !.status = status].slot = pickup.slot
BY DEF Pickup

\* The steps of a cancellation.
LEMMA CancelSeats ==
  ASSUME SeatInv, TypeInv', NEW r \in Requests, CancelStep(r)
  PROVE  SeatInv'
<1> DEFINE j == req[r]
           here == pickups[j.p]
<1>0. /\ j.op = "cancel" /\ On(j) /\ TypeInv /\ TypeOK /\ j \in Jobs /\ j.p \in Pickups
      /\ orders[j.p] = "scheduled"
      /\ fees[j.p] \in Nat /\ fees[j.p] <= IF j.pc \in {"read", "fee"} THEN 0 ELSE 1
      /\ j.pc # "read" => j.order = "scheduled"
      /\ IF j.pc = "order" THEN here.status = "cancelled" ELSE here.status \in Pending /\ here = j.pickup
      /\ here # NoPickup /\ here \in Pickup /\ Exists(here.slot) /\ here.slot \in Slots
      /\ \A s \in Slots : Exists(s) => slots[s].remaining \in Nat /\ slots[s].total \in Nat
      /\ spoiled' = spoiled
  <2>1. j.op = "cancel" /\ spoiled' = spoiled
    BY DEF CancelStep, CancelRead, CancelFee, CancelRelease, CancelPickup, CancelOrder, At
  <2>2. On(j)
    BY <2>1 DEF On
  <2>3. TypeOK /\ j.p \in Pickups
    BY <2>1, <2>2, InHand
  <2>4. fees[j.p] \in Nat
    BY <2>3 DEF TypeOK
  <2> QED
    BY <2>1, <2>2, <2>4, InHand DEF Midst
<1>6. \A s \in Slots : Hand(j, s) = 0 /\ \A job : job.op = "cancel" => ~Keeps(job, s) /\ Hand(job, s) = 0
  BY <1>0 DEF Keeps, Hand
<1>1. CASE CancelRead(r)
  <2>1. j.pc = "read" /\ UNCHANGED <<slots, pickups, orders, fees>>
    BY <1>1 DEF CancelRead, At
  <2>2. PICK job \in Jobs : req' = [req EXCEPT ![r] = job] /\ Same(j, job) /\ job.pc = "fee" /\ job.order = "scheduled"
    <3> DEFINE job == [op |-> "cancel", pc |-> IF orders[j.p] = "scheduled" THEN "fee" ELSE "release",
                       p |-> j.p, pickup |-> j.pickup, order |-> orders[j.p]]
    <3>1. req' = [req EXCEPT ![r] = job]
      BY <1>1 DEF CancelRead
    <3>2. req'[r] = job /\ job \in Jobs
      BY <1>0, <3>1 DEF TypeInv
    <3>3. Same(j, job) /\ job.pc = "fee" /\ job.order = "scheduled"
      BY <1>0, <2>1 DEF Same
    <3> HIDE DEF job
    <3> QED
      BY <3>1, <3>2, <3>3
  <2>3. On(job) /\ job.p = j.p /\ Leaves(job, here, orders[j.p], fees[j.p])
    BY <1>0, <2>1, <2>2 DEF Same, On, Midst, Leaves
  <2>4. \A s \in Slots : (Exists(s)' <=> Exists(s)) /\ Place(here, job, s) = Place(here, j, s)
    BY <1>0, <2>1, <2>2 DEF Same, Place, Exists, Away
  <2>5. Counts(r, job, j.p, here)
    BY <1>0, <1>6, <2>1, <2>2, <2>4 DEF Counts, Same
  <2> QED
    BY <1>0, <2>1, <2>2, <2>3, <2>5, AsTheyAre, PickupTurn
<1>2. CASE CancelFee(r)
  <2>1. j.pc = "fee" /\ UNCHANGED <<slots, pickups, orders>> /\ Goto(r, "release")
    BY <1>2 DEF CancelFee, At
  <2>2. PICK job \in Jobs : req' = [req EXCEPT ![r] = job] /\ Same(j, job) /\ job.pc = "release"
    BY <1>0, <2>1, Further
  <2>3. PICK fee \in 0..1 : Writes(j.p, here, orders[j.p], fee)
    <3>1. PICK charged \in {0, 1} : fees' = [fees EXCEPT ![j.p] = @ + charged]
      BY <1>2 DEF CancelFee
    <3>2. fees[j.p] + charged \in 0..1
      BY <1>0, <2>1
    <3> QED
      BY <1>0, <2>1, <3>1, <3>2 DEF Writes, TypeOK
  <2>4. On(job) /\ job.p = j.p /\ Leaves(job, here, orders[j.p], fee)
    BY <1>0, <2>1, <2>2 DEF Same, On, Midst, Leaves
  <2>5. \A s \in Slots : (Exists(s)' <=> Exists(s)) /\ Place(here, job, s) = Place(here, j, s)
    BY <1>0, <2>1, <2>2 DEF Same, Place, Exists, Away
  <2>6. Counts(r, job, j.p, here)
    BY <1>0, <1>6, <2>1, <2>2, <2>5 DEF Counts, Same
  <2> QED
    BY <1>0, <2>2, <2>3, <2>4, <2>6, PickupTurn
<1>3. CASE CancelRelease(r)
  <2>1. /\ j.pc = "release" /\ UNCHANGED <<pickups, orders, fees>> /\ Goto(r, "pickup")
        /\ slots' = Released(here.slot)
    BY <1>0, <1>3 DEF CancelRelease, At
  <2>2. PICK job \in Jobs : req' = [req EXCEPT ![r] = job] /\ Same(j, job) /\ job.pc = "pickup"
    BY <1>0, <2>1, Further
  <2>3. On(job) /\ job.p = j.p /\ Leaves(job, here, orders[j.p], fees[j.p])
    BY <1>0, <2>1, <2>2 DEF Same, On, Midst, Leaves
  <2>4. \A s \in Slots : /\ Exists(s)' <=> Exists(s)
                         /\ Place(here, j, s) = (IF s = here.slot THEN 1 ELSE 0) /\ Place(here, job, s) = 0
    BY <1>0, <2>1, <2>2, Counters DEF Same, Place, Exists, Away, Pending
  <2>5. \A s \in Slots : Exists(s) => slots'[s].total = slots[s].total
                           /\ slots'[s].remaining = slots[s].remaining + (IF s = here.slot THEN 1 ELSE 0)
    BY <1>0, <2>1, Counters
  <2>6. Counts(r, job, j.p, here)
    BY <1>0, <1>6, <2>1, <2>2, <2>4, <2>5 DEF Counts, Same
  <2> QED
    BY <1>0, <2>1, <2>2, <2>3, <2>6, AsTheyAre, PickupTurn
<1>4. CASE CancelPickup(r)
  <2>1. j.pc = "pickup" /\ UNCHANGED <<slots, orders, fees>> /\ Goto(r, "order")
    BY <1>0, <1>4 DEF CancelPickup, At
  <2>2. PICK job \in Jobs : req' = [req EXCEPT ![r] = job] /\ Same(j, job) /\ job.pc = "order"
    BY <1>0, <2>1, Further
  <2>3. PICK new : /\ new.status = "cancelled" /\ new.slot = here.slot
                   /\ Writes(j.p, new, orders[j.p], fees[j.p])
    <3> DEFINE new == [here EXCEPT !.status = "cancelled"]
    <3>1. new.status = "cancelled" /\ new.slot = here.slot
      BY <1>0, Marked
    <3>2. pickups' = [pickups EXCEPT ![j.p] = new]
      BY <1>0, <1>4, <2>1 DEF CancelPickup
    <3> HIDE DEF new
    <3>3. Writes(j.p, new, orders[j.p], fees[j.p])
      BY <1>0, <2>1, <3>2 DEF Writes, TypeOK
    <3> QED
      BY <3>1, <3>3
  <2>4. On(job) /\ job.p = j.p /\ Leaves(job, new, orders[j.p], fees[j.p])
    BY <1>0, <2>1, <2>2, <2>3 DEF Same, On, Midst, Leaves
  <2>5. \A s \in Slots : (Exists(s)' <=> Exists(s)) /\ Place(here, j, s) = 0 /\ Place(new, job, s) = 0
    BY <1>0, <2>1, <2>2, <2>3 DEF Same, Place, Exists, Away
  <2>6. Counts(r, job, j.p, new)
    BY <1>0, <1>6, <2>1, <2>2, <2>3, <2>5 DEF Counts, Same
  <2> QED
    BY <1>0, <2>2, <2>3, <2>4, <2>6, PickupTurn
<1>5. CASE CancelOrder(r)
  <2>1. j.pc = "order" /\ UNCHANGED <<slots, pickups, fees>> /\ req' = [req EXCEPT ![r] = Idle]
    BY <1>5 DEF CancelOrder, At, Finish
  <2>2. Writes(j.p, here, "cancelled", fees[j.p])
    BY <1>0, <1>5, <2>1 DEF CancelOrder, TypeOK, Writes
  <2>3. Leaves(Idle, here, "cancelled", fees[j.p])
    BY <1>0, <2>1, Stories, IdleAway DEF Told, Leaves
  <2>4. \A s \in Slots : (Exists(s)' <=> Exists(s)) /\ Place(here, j, s) = 0 /\ Place(here, Idle, s) = 0
    BY <1>0, <2>1 DEF Place, Exists
  <2>5. Counts(r, Idle, j.p, here)
    BY <1>0, <1>6, <2>1, <2>4, IdleAway DEF Counts
  <2> QED
    BY <1>0, <2>1, <2>2, <2>3, <2>5, PickupTurn, IdleTyped
<1> QED
  BY <1>1, <1>2, <1>3, <1>4, <1>5 DEF CancelStep

\* The steps of a reschedule, and its undoing.
LEMMA MoveSeats ==
  ASSUME SeatInv, TypeInv', NEW r \in Requests, MoveStep(r) \/ MoveReject(r)
  PROVE  SeatInv'
<1> DEFINE j == req[r]
           here == pickups[j.p]
<1>0. /\ j.op = "move" /\ On(j) /\ TypeInv /\ TypeOK /\ j \in Jobs /\ j.p \in Pickups /\ j.s \in Slots
      /\ orders[j.p] = "scheduled" /\ fees[j.p] = 0 /\ fees' = fees /\ here.status \in Pending
      /\ here.status # "cancelled"
      /\ j.pc \in {"target", "reserve", "release", "pickup"} => here = j.pickup
      /\ j.pc \in {"order", "orderPut"} => here.slot = j.s
      /\ here # NoPickup /\ here \in Pickup /\ Exists(here.slot) /\ here.slot \in Slots
      /\ \A s \in Slots : Keeps(j, s) => Exists(s)
      /\ \A s \in Slots : Exists(s) => slots[s].remaining \in Nat /\ slots[s].total \in Nat
  <2>1. j.op = "move" /\ fees' = fees
    BY DEF MoveStep, MoveTarget, MoveReserve, MoveRelease, MovePickup, MoveOrder, MoveOrderPut, MoveUndo,
           MoveReject, At
  <2>2. On(j)
    BY <2>1 DEF On
  <2>3. Midst(j, here, orders[j.p], fees[j.p])
    BY <2>1, <2>2, InHand
  <2>4. here.status \in Pending /\ here.status # "cancelled"
    BY <2>1, <2>3 DEF Midst, Pending
  <2>5. j \in Jobs /\ j.s \in Slots
    BY <2>1, <2>2, InHand, OnFields
  <2> QED
    BY <2>1, <2>2, <2>3, <2>4, <2>5, InHand DEF Midst
\* The documents of the pickup stay as they are, and so do the counters.
<1>1. ASSUME NEW job \in Jobs, req' = [req EXCEPT ![r] = job], job = Idle \/ Same(j, job),
             UNCHANGED <<slots, pickups, orders>>, Leaves(job, here, orders[j.p], fees[j.p]),
             \A s \in Slots : Keeps(job, s) => Keeps(j, s),
             \A s \in Slots : s \notin spoiled' =>
               s \notin spoiled /\ Place(here, job, s) + Hand(job, s) = Place(here, j, s) + Hand(j, s)
      PROVE  SeatInv'
  <2>1. job.op = "none" \/ (On(job) /\ job.p = j.p)
    BY <1>0, <1>1, IdleTyped DEF Same, On
  <2>2. \A s \in Slots : /\ Place(here, job, s) \in Int /\ Hand(job, s) \in Int
                         /\ Place(here, j, s) \in Int /\ Hand(j, s) \in Int
    BY DEF Place, Hand
  <2>3. Counts(r, job, j.p, here)
    BY <1>0, <1>1, <2>2 DEF Counts, Exists
  <2> QED
    BY <1>0, <1>1, <2>1, <2>3, AsTheyAre, PickupTurn
<1>2. Told(here, orders[j.p], fees[j.p]) /\ Leaves(Idle, here, orders[j.p], fees[j.p])
  BY <1>0, Stories, IdleAway DEF Told, Leaves
<1>3. ASSUME NEW job, Same(j, job)
      PROVE  On(job) /\ job.op = "move" /\ job.p = j.p /\ job.s = j.s /\ job.pickup = j.pickup
  BY <1>0, <1>3 DEF Same, On
<1>4. ASSUME Finish(r), UNCHANGED <<slots, pickups, orders, spoiled>>, ~Away(j), \A s \in Slots : ~Keeps(j, s)
      PROVE  SeatInv'
  <2>1. req' = [req EXCEPT ![r] = Idle]
    BY <1>4 DEF Finish
  <2>2. \A s \in Slots : Place(here, Idle, s) = Place(here, j, s) /\ Hand(j, s) = 0 /\ Hand(Idle, s) = 0
    BY <1>4, IdleAway DEF Place, Hand
  <2> QED
    BY <1>1, <1>2, <1>4, <2>1, <2>2, IdleTyped, IdleAway
<1>5. CASE MoveTarget(r)
  <2>1. j.pc = "target" /\ UNCHANGED <<slots, pickups, orders, spoiled>>
    BY <1>5 DEF MoveTarget, At
  <2>2. CASE Finish(r)
    BY <2>1, <2>2, <1>4 DEF Away, Keeps
  <2>3. CASE Goto(r, "reserve")
    <3>1. PICK job \in Jobs : req' = [req EXCEPT ![r] = job] /\ Same(j, job) /\ job.pc = "reserve"
      BY <1>0, <2>3, Further
    <3>2. Leaves(job, here, orders[j.p], fees[j.p])
      BY <1>0, <1>3, <2>1, <3>1 DEF Leaves, Midst
    <3>3. \A s \in Slots : /\ ~Keeps(job, s) /\ Hand(job, s) = Hand(j, s)
                           /\ Place(here, job, s) = Place(here, j, s)
      BY <1>0, <1>3, <2>1, <3>1 DEF Keeps, Hand, Place, Away
    <3> QED
      BY <1>1, <2>1, <3>1, <3>2, <3>3
  <2> QED
    BY <1>5, <2>2, <2>3 DEF MoveTarget
<1>6. CASE MoveReserve(r) /\ ~CanReserve(j.s)
  <2>1. j.pc = "reserve" /\ UNCHANGED <<slots, pickups, orders, spoiled>> /\ Finish(r)
    BY <1>6 DEF MoveReserve, At
  <2> QED
    BY <1>4, <2>1 DEF Away, Keeps
<1>7. CASE MoveReserve(r) /\ CanReserve(j.s)
  <2>1. /\ j.pc = "reserve" /\ slots' = Reserved(j.s) /\ UNCHANGED <<pickups, orders, spoiled>>
    BY <1>7 DEF MoveReserve, At
  <2>2. PICK job \in Jobs : req' = [req EXCEPT ![r] = job] /\ Same(j, job) /\ job.pc = "release"
    <3> DEFINE job == [op |-> "move", pc |-> "release", p |-> j.p, pickup |-> j.pickup, s |-> j.s,
                       slot |-> slots'[j.s]]
    <3>1. req' = [req EXCEPT ![r] = job]
      BY <1>7 DEF MoveReserve
    <3>2. req'[r] = job /\ job \in Jobs
      BY <1>0, <3>1 DEF TypeInv
    <3>3. Same(j, job) /\ job.pc = "release"
      BY <1>0 DEF Same
    <3> HIDE DEF job
    <3> QED
      BY <3>1, <3>2, <3>3
  <2>3. Exists(j.s)
    BY <1>7 DEF CanReserve
  <2>4. Leaves(job, here, orders[j.p], fees[j.p])
    BY <1>0, <1>3, <2>1, <2>2 DEF Leaves, Midst
  <2>5. \A s \in Slots : /\ Exists(s)' <=> Exists(s)
                         /\ Keeps(job, s) => Exists(s)
                         /\ Hand(job, s) = (IF s = j.s THEN 1 ELSE 0) /\ Hand(j, s) = 0
                         /\ Place(here, job, s) = Place(here, j, s) /\ Place(here, j, s) \in Int
    BY <1>0, <1>3, <1>7, <2>1, <2>2, <2>3, Counters DEF Keeps, Hand, Place, Exists, Away
  <2>6. \A s \in Slots : Exists(s) => slots'[s].total = slots[s].total
                           /\ slots'[s].remaining = slots[s].remaining - (IF s = j.s THEN 1 ELSE 0)
    BY <1>0, <1>7, <2>1, <2>3, Counters
  <2>7. Counts(r, job, j.p, here)
    BY <1>0, <2>1, <2>5, <2>6 DEF Counts
  <2> QED
    BY <1>0, <1>3, <2>1, <2>2, <2>4, <2>7, AsTheyAre, PickupTurn
<1>8. CASE MoveRelease(r)
  <2>1. /\ j.pc = "release" /\ UNCHANGED <<pickups, orders, spoiled>> /\ Goto(r, "pickup")
        /\ slots' = Released(here.slot)
    BY <1>0, <1>8 DEF MoveRelease, At
  <2>2. PICK job \in Jobs : req' = [req EXCEPT ![r] = job] /\ Same(j, job) /\ job.pc = "pickup"
    BY <1>0, <2>1, Further
  <2>3. Leaves(job, here, orders[j.p], fees[j.p])
    BY <1>0, <1>3, <2>1, <2>2 DEF Leaves, Midst
  <2>4. \A s \in Slots : /\ Exists(s)' <=> Exists(s)
                         /\ Keeps(job, s) => Exists(s)
                         /\ Hand(job, s) = Hand(j, s) /\ Hand(j, s) \in Int
                         /\ Place(here, j, s) = (IF s = here.slot THEN 1 ELSE 0) /\ Place(here, job, s) = 0
    BY <1>0, <1>3, <2>1, <2>2, Counters DEF Keeps, Hand, Place, Exists, Away
  <2>5. \A s \in Slots : Exists(s) => slots'[s].total = slots[s].total
                           /\ slots'[s].remaining = slots[s].remaining + (IF s = here.slot THEN 1 ELSE 0)
    BY <1>0, <2>1, Counters
  <2>6. Counts(r, job, j.p, here)
    BY <1>0, <2>1, <2>4, <2>5 DEF Counts
  <2> QED
    BY <1>0, <1>3, <2>1, <2>2, <2>3, <2>6, AsTheyAre, PickupTurn
<1>9. CASE MovePickup(r)
  <2>1. /\ j.pc = "pickup" /\ UNCHANGED <<slots, orders, spoiled>> /\ Goto(r, "order")
    BY <1>9 DEF MovePickup, At
  <2>2. PICK job \in Jobs : req' = [req EXCEPT ![r] = job] /\ Same(j, job) /\ job.pc = "order"
    BY <1>0, <2>1, Further
  <2>3. PICK new : /\ new.status = "rescheduled" /\ new.slot = j.s /\ new # NoPickup
                   /\ Writes(j.p, new, orders[j.p], fees[j.p])
    <3> DEFINE new == [status |-> "rescheduled", slot |-> j.s, scheduledFor |-> ScheduledFor(j.slot)]
    <3>1. new.status = "rescheduled" /\ new.slot = j.s /\ new # NoPickup
      BY DEF NoPickup
    <3>2. pickups' = [pickups EXCEPT ![j.p] = new]
      BY <1>9 DEF MovePickup
    <3> HIDE DEF new
    <3>3. Writes(j.p, new, orders[j.p], fees[j.p])
      BY <1>0, <2>1, <3>2 DEF Writes, TypeOK
    <3> QED
      BY <3>1, <3>3
  <2>4. Leaves(job, new, orders[j.p], fees[j.p])
    BY <1>0, <1>3, <2>1, <2>2, <2>3 DEF Leaves, Midst, Pending
  <2>5. Exists(j.s) /\ Keeps(j, j.s)
    BY <1>0, <2>1 DEF Keeps
  <2>6. \A s \in Slots : /\ Exists(s)' <=> Exists(s)
                         /\ ~Keeps(job, s)
                         /\ Hand(job, s) = 0 /\ Hand(j, s) = (IF s = j.s THEN 1 ELSE 0)
                         /\ Place(new, job, s) = (IF s = j.s THEN 1 ELSE 0) /\ Place(here, j, s) = 0
    BY <1>0, <1>3, <2>1, <2>2, <2>3 DEF Keeps, Hand, Place, Exists, Away
  <2>7. Counts(r, job, j.p, new)
    BY <1>0, <2>1, <2>3, <2>5, <2>6 DEF Counts
  <2> QED
    BY <1>0, <1>3, <2>2, <2>3, <2>4, <2>7, PickupTurn
<1>10. CASE MoveOrder(r)
  <2>1. j.pc = "order" /\ UNCHANGED <<slots, pickups, orders, spoiled>>
    BY <1>10 DEF MoveOrder, At
  <2>2. CASE Finish(r)
    BY <2>1, <2>2, <1>4 DEF Away, Keeps
  <2>3. CASE Goto(r, "orderPut")
    <3>1. PICK job \in Jobs : req' = [req EXCEPT ![r] = job] /\ Same(j, job) /\ job.pc = "orderPut"
      BY <1>0, <2>3, Further
    <3>2. Leaves(job, here, orders[j.p], fees[j.p])
      BY <1>0, <1>3, <2>1, <3>1 DEF Leaves, Midst
    <3>3. \A s \in Slots : /\ ~Keeps(job, s) /\ Hand(job, s) = Hand(j, s)
                           /\ Place(here, job, s) = Place(here, j, s)
      BY <1>0, <1>3, <2>1, <3>1 DEF Keeps, Hand, Place, Away
    <3> QED
      BY <1>1, <2>1, <3>1, <3>2, <3>3
  <2> QED
    BY <1>10, <2>2, <2>3 DEF MoveOrder
<1>11. CASE MoveOrderPut(r)
  <2>1. j.pc = "orderPut" /\ UNCHANGED <<slots, pickups, spoiled>> /\ Finish(r)
    BY <1>11 DEF MoveOrderPut, At
  <2>2. orders' = orders
    BY <1>0, <1>11 DEF MoveOrderPut, TypeOK
  <2> QED
    BY <1>4, <2>1, <2>2 DEF Away, Keeps
<1>12. CASE MoveUndo(r)
  <2>1. /\ j.pc = "undo" /\ UNCHANGED <<pickups, orders, spoiled>> /\ slots' = Released(j.s)
        /\ req' = [req EXCEPT ![r] = Idle]
    BY <1>12 DEF MoveUndo, At, Finish
  <2>2. Keeps(j, j.s) /\ Exists(j.s)
    BY <1>0, <2>1 DEF Keeps
  <2>3. \A s \in Slots : /\ Exists(s)' <=> Exists(s)
                         /\ Hand(j, s) = (IF s = j.s THEN 1 ELSE 0)
                         /\ Place(here, Idle, s) = Place(here, j, s) /\ Place(here, j, s) \in Int
    BY <1>0, <2>1, <2>2, Counters, IdleAway DEF Keeps, Hand, Place, Exists, Away
  <2>4. \A s \in Slots : Exists(s) => slots'[s].total = slots[s].total
                           /\ slots'[s].remaining = slots[s].remaining + (IF s = j.s THEN 1 ELSE 0)
    BY <1>0, <2>1, <2>2, Counters
  <2>5. Counts(r, Idle, j.p, here)
    BY <1>0, <2>1, <2>3, <2>4, IdleAway DEF Counts
  <2> QED
    BY <1>0, <1>2, <2>1, <2>5, AsTheyAre, PickupTurn, IdleTyped
<1>13. CASE MoveReject(r)
  <2>1. /\ j.pc \in {"release", "pickup", "order", "orderPut"} /\ UNCHANGED <<slots, pickups, orders>>
        /\ Goto(r, "undo")
    BY <1>13 DEF MoveReject
  <2>2. PICK job \in Jobs : req' = [req EXCEPT ![r] = job] /\ Same(j, job) /\ job.pc = "undo"
    BY <1>0, <2>1, Further
  <2>3. Leaves(job, here, orders[j.p], fees[j.p])
    BY <1>0, <1>3, <2>1, <2>2 DEF Leaves, Midst
  <2>4. /\ spoiled \subseteq spoiled'
        /\ j.pc = "pickup" => here.slot \in spoiled'
        /\ j.pc \in {"order", "orderPut"} => j.s \in spoiled'
    BY <1>0, <1>13, <2>1 DEF MoveReject
  <2>5. CASE Exists(j.s)
    <3>1. ASSUME NEW s \in Slots, s \notin spoiled'
          PROVE  s \notin spoiled /\ Place(here, job, s) + Hand(job, s) = Place(here, j, s) + Hand(j, s)
      <4>1. CASE j.pc = "release"
        BY <1>3, <2>2, <2>4, <3>1, <4>1, <1>0 DEF Place, Hand, Away, Keeps
      <4>2. CASE j.pc = "pickup"
        BY <1>3, <2>2, <2>4, <3>1, <4>2, <1>0 DEF Place, Hand, Away, Keeps
      <4>3. CASE j.pc \in {"order", "orderPut"}
        BY <1>3, <2>2, <2>4, <3>1, <4>3, <1>0 DEF Place, Hand, Away, Keeps
      <4> QED
        BY <2>1, <4>1, <4>2, <4>3
    <3>2. Counts(r, job, j.p, here)
      <4>1. \A s \in Slots : /\ Place(here, job, s) \in Int /\ Hand(job, s) \in Int
                             /\ Place(here, j, s) \in Int /\ Hand(j, s) \in Int
        BY DEF Place, Hand
      <4>2. \A s \in Slots : (Exists(s)' <=> Exists(s)) /\ (Keeps(job, s) => Exists(s))
        BY <1>3, <2>1, <2>2, <2>5 DEF Exists, Keeps
      <4> QED
        BY <1>0, <2>1, <3>1, <4>1, <4>2 DEF Counts
    <3> QED
      BY <1>0, <1>3, <2>1, <2>2, <2>3, <3>2, AsTheyAre, PickupTurn
  <2>6. Exists(j.s)
    BY <1>0, <2>1 DEF Keeps
  <2> QED
    BY <2>5, <2>6
<1> QED
  BY <1>5, <1>6, <1>7, <1>8, <1>9, <1>10, <1>11, <1>12, <1>13 DEF MoveStep

\* The steps at the door.
LEMMA DoorSeats ==
  ASSUME SeatInv, TypeInv', NEW r \in Requests, DoorStep(r)
  PROVE  SeatInv'
<1> DEFINE j == req[r]
           here == pickups[j.p]
<1>0. /\ j.op \in {"collect", "fail"} /\ On(j) /\ TypeInv /\ TypeOK /\ j \in Jobs /\ j.p \in Pickups
      /\ Midst(j, here, orders[j.p], fees[j.p])
      /\ here.status \in Pending /\ here.status # "cancelled" /\ fees[j.p] = 0
      /\ here # NoPickup /\ here \in Pickup /\ Exists(here.slot) /\ here.slot \in Slots
      /\ \A s \in Slots : Exists(s) => slots[s].remaining \in Nat /\ slots[s].total \in Nat
      /\ UNCHANGED <<slots, fees, spoiled>>
  <2>1. j.op \in {"collect", "fail"} /\ UNCHANGED <<slots, fees, spoiled>>
    BY DEF DoorStep, CollectRead, CollectOrder, CollectPickup, FailOrder, FailRead, FailPickup, At
  <2>2. On(j)
    BY <2>1 DEF On
  <2>3. Midst(j, here, orders[j.p], fees[j.p])
    BY <2>1, <2>2, InHand
  <2>4. here.status \in Pending /\ here.status # "cancelled" /\ fees[j.p] = 0
    BY <2>1, <2>3 DEF Midst, Pending
  <2> QED
    BY <2>1, <2>2, <2>3, <2>4, InHand
\* A pickup that stays in its slot counts as before.
<1>1. ASSUME NEW job \in Jobs, req' = [req EXCEPT ![r] = job],
             job = Idle \/ (job.op = j.op /\ job.p = j.p), NEW new, NEW order,
             Writes(j.p, new, order, fees[j.p]), Leaves(job, new, order, fees[j.p]),
             new = here \/ (new.slot = here.slot /\ new.status # "cancelled" /\ new # NoPickup)
      PROVE  SeatInv'
  <2>1. job.op = "none" \/ (On(job) /\ job.p = j.p)
    BY <1>0, <1>1, IdleTyped DEF On
  <2>2. ~Away(j) /\ ~Away(job) /\ \A s : ~Keeps(j, s) /\ ~Keeps(job, s)
    BY <1>0, <1>1, IdleTyped DEF Away, Keeps
  <2>3. \A s \in Slots : Place(new, job, s) = Place(here, j, s) /\ Place(here, j, s) \in Int
                         /\ Hand(j, s) = 0 /\ Hand(job, s) = 0 /\ (Exists(s)' <=> Exists(s))
    BY <1>0, <1>1, <2>2 DEF Place, Hand, Exists
  <2>4. Counts(r, job, j.p, new)
    BY <1>0, <1>1, <2>2, <2>3 DEF Counts
  <2> QED
    BY <1>0, <1>1, <2>1, <2>4, PickupTurn
<1>2. CASE CollectRead(r)
  <2>1. j.op = "collect" /\ j.pc = "read" /\ UNCHANGED <<pickups, orders>> /\ orders[j.p] = "scheduled"
    BY <1>0, <1>2 DEF CollectRead, At, Midst
  <2>2. CASE Finish(r)
    <3>1. Leaves(Idle, here, orders[j.p], fees[j.p])
      BY <1>0, <2>1, Stories, IdleAway DEF Leaves, Told
    <3> QED
      BY <1>0, <1>1, <2>1, <2>2, <3>1, AsTheyAre, IdleTyped DEF Finish
  <2>3. CASE ~Finish(r)
    <3> DEFINE first == [op |-> "collect", pc |-> "order", p |-> j.p, pickup |-> here]
    <3>1. req' = [req EXCEPT ![r] = first]
      BY <1>2, <2>3 DEF CollectRead
    <3>2. req'[r] = first /\ first \in Jobs
      BY <1>0, <3>1 DEF TypeInv
    <3>3. first.op = j.op /\ first.p = j.p /\ first.pc = "order" /\ first.pickup = here
      BY <2>1
    <3> HIDE DEF first
    <3>4. Leaves(first, here, orders[j.p], fees[j.p])
      BY <1>0, <2>1, <3>3 DEF Leaves, Midst, On
    <3> QED
      BY <1>0, <1>1, <2>1, <3>1, <3>2, <3>3, <3>4, AsTheyAre
  <2> QED
    BY <2>2, <2>3
<1>3. CASE CollectOrder(r)
  <2>1. j.op = "collect" /\ j.pc = "order" /\ UNCHANGED pickups /\ here = j.pickup /\ Goto(r, "pickup")
    BY <1>0, <1>3 DEF CollectOrder, At, Midst
  <2>2. PICK job \in Jobs : req' = [req EXCEPT ![r] = job] /\ Same(j, job) /\ job.pc = "pickup"
    BY <1>0, <2>1, Further
  <2>3. Writes(j.p, here, "picked_up", fees[j.p])
    BY <1>0, <1>3, <2>1 DEF CollectOrder, Writes, TypeOK
  <2>4. Leaves(job, here, "picked_up", fees[j.p]) /\ job.op = j.op /\ job.p = j.p
    BY <1>0, <2>1, <2>2 DEF Leaves, Midst, On, Same
  <2> QED
    BY <1>1, <2>2, <2>3, <2>4
<1>4. CASE CollectPickup(r)
  <2>1. /\ j.op = "collect" /\ j.pc = "pickup" /\ UNCHANGED orders /\ here = j.pickup
        /\ orders[j.p] = "picked_up" /\ req' = [req EXCEPT ![r] = Idle]
    BY <1>0, <1>4 DEF CollectPickup, At, Midst, Finish
  <2> DEFINE new == [here EXCEPT !.status = "completed"]
  <2>2. new.status = "completed" /\ new.slot = here.slot
    BY <1>0, Marked
  <2>3. pickups' = [pickups EXCEPT ![j.p] = new]
    BY <1>4, <2>1 DEF CollectPickup
  <2> HIDE DEF new
  <2>4. Writes(j.p, new, orders[j.p], fees[j.p])
    BY <1>0, <2>1, <2>3 DEF Writes, TypeOK
  <2>5. Leaves(Idle, new, orders[j.p], fees[j.p]) /\ new # NoPickup
    BY <1>0, <2>1, <2>2, Stories, IdleAway DEF Leaves, Told, NoPickup
  <2> QED
    BY <1>1, <2>1, <2>2, <2>4, <2>5, IdleTyped
<1>5. CASE FailOrder(r)
  <2>1. j.op = "fail" /\ j.pc = "order" /\ UNCHANGED pickups /\ Goto(r, "read")
    BY <1>5 DEF FailOrder, At
  <2>2. PICK job \in Jobs : req' = [req EXCEPT ![r] = job] /\ Same(j, job) /\ job.pc = "read"
    BY <1>0, <2>1, Further
  <2>3. Writes(j.p, here, "pickup_failed", fees[j.p])
    BY <1>0, <1>5, <2>1 DEF FailOrder, Writes, TypeOK
  <2>4. Leaves(job, here, "pickup_failed", fees[j.p]) /\ job.op = j.op /\ job.p = j.p
    BY <1>0, <2>1, <2>2 DEF Leaves, Midst, On, Same
  <2> QED
    BY <1>1, <2>2, <2>3, <2>4
<1>6. CASE FailRead(r)
  <2>1. j.op = "fail" /\ j.pc = "read" /\ UNCHANGED <<pickups, orders>> /\ orders[j.p] = "pickup_failed"
    BY <1>0, <1>6 DEF FailRead, At, Midst
  <2> DEFINE first == [op |-> "fail", pc |-> "pickup", p |-> j.p, pickup |-> here]
  <2>2. req' = [req EXCEPT ![r] = first]
    BY <1>6 DEF FailRead
  <2>3. req'[r] = first /\ first \in Jobs
    BY <1>0, <2>2 DEF TypeInv
  <2>4. first.op = j.op /\ first.p = j.p /\ first.pc = "pickup" /\ first.pickup = here
    BY <2>1
  <2> HIDE DEF first
  <2>5. Leaves(first, here, orders[j.p], fees[j.p])
    BY <1>0, <2>1, <2>4 DEF Leaves, Midst, On
  <2> QED
    BY <1>0, <1>1, <2>1, <2>2, <2>3, <2>4, <2>5, AsTheyAre
<1>7. CASE FailPickup(r)
  <2>1. /\ j.op = "fail" /\ j.pc = "pickup" /\ UNCHANGED orders /\ here = j.pickup
        /\ orders[j.p] = "pickup_failed" /\ req' = [req EXCEPT ![r] = Idle]
    BY <1>0, <1>7 DEF FailPickup, At, Midst, Finish
  <2> DEFINE new == [here EXCEPT !.status = "failed"]
  <2>2. new.status = "failed" /\ new.slot = here.slot
    BY <1>0, Marked
  <2>3. pickups' = [pickups EXCEPT ![j.p] = new]
    BY <1>7, <2>1 DEF FailPickup
  <2> HIDE DEF new
  <2>4. Writes(j.p, new, orders[j.p], fees[j.p])
    BY <1>0, <2>1, <2>3 DEF Writes, TypeOK
  <2>5. Leaves(Idle, new, orders[j.p], fees[j.p]) /\ new # NoPickup
    BY <1>0, <2>1, <2>2, Stories, IdleAway DEF Leaves, Told, NoPickup
  <2> QED
    BY <1>1, <2>1, <2>2, <2>4, <2>5, IdleTyped
<1> QED
  BY <1>2, <1>3, <1>4, <1>5, <1>6, <1>7 DEF DoorStep

\* A request is lost: what it had still to write is never written.
LEMMA LoseSeats ==
  ASSUME "cancel" \notin Faults, SeatInv, TypeInv', NEW r \in Requests, Lose(r)
  PROVE  SeatInv'
<1> DEFINE j == req[r]
           here == pickups[j.p]
<1>0. /\ j.op \in Faults /\ UNCHANGED <<slots, pickups, orders, fees>> /\ req' = [req EXCEPT ![r] = Idle]
      /\ spoiled \subseteq spoiled' /\ \A s \in Slots : s \notin spoiled' => ~Holds(r, s) /\ ~GaveBack(r, s)
  BY DEF Lose, Finish
<1>1. ASSUME On(j) PROVE SeatInv'
  <2>1. /\ j \in Jobs /\ j.p \in Pickups /\ Midst(j, here, orders[j.p], fees[j.p])
        /\ \A s \in Slots : Exists(s) => slots[s].remaining \in Nat /\ slots[s].total \in Nat
        /\ Booked(j.p) => Exists(here.slot)
    BY <1>1, Working
  <2>2. Told(here, orders[j.p], fees[j.p])
    <3>1. CASE j.op = "book"
      BY <1>0, <2>1, <3>1, Stories DEF Midst, Told, HalfWritten
    <3>2. CASE j.op = "move"
      BY <2>1, <3>2, Stories DEF Midst, Told
    <3>3. CASE j.op = "collect"
      BY <1>0, <2>1, <3>3, Stories DEF Midst, Told, HalfWritten
    <3>4. CASE j.op = "fail"
      BY <1>0, <2>1, <3>4, Stories DEF Midst, Told, HalfWritten
    <3> QED
      BY <1>0, <1>1, <3>1, <3>2, <3>3, <3>4 DEF On
  <2>3. ASSUME NEW s \in Slots, s \notin spoiled'
        PROVE  /\ s \notin spoiled /\ Hand(j, s) = 0 /\ Place(here, Idle, s) = Place(here, j, s)
    <3>1. ~Keeps(j, s) /\ s \notin spoiled
      BY <1>0, <2>3 DEF Holds, Keeps
    <3>2. Away(j) => j.op = "move" /\ here = j.pickup /\ here.slot # s
      BY <1>0, <2>1, <2>3 DEF Away, Midst, GaveBack
    <3> QED
      BY <3>1, <3>2, IdleAway DEF Hand, Place
  <2>4. \A s \in Slots : (Exists(s)' <=> Exists(s)) /\ Place(here, Idle, s) \in Int
    BY <1>0 DEF Exists, Place
  <2>5. Counts(r, Idle, j.p, here)
    BY <1>0, <2>1, <2>3, <2>4, IdleAway DEF Counts, Booked
  <2>6. Leaves(Idle, here, orders[j.p], fees[j.p])
    BY <2>2, IdleAway DEF Leaves
  <2> QED
    BY <1>0, <1>1, <2>5, <2>6, AsTheyAre, PickupTurn, IdleTyped
<1>2. ASSUME ~On(j) PROVE SeatInv'
  <2>1. StoryInv /\ TypeInv
    BY DEF SeatInv, StoryInv
  <2>2. StoryInv'
    BY <1>0, <1>2, <2>1, IdleTyped, IdleAway, StoryAside
  <2>3. Roomed(Idle)'
    BY IdleTyped DEF Roomed, Keeps
  <2>4. \A s \in Slots : Exists(s)' <=> Exists(s)
    BY <1>0 DEF Exists
  <2> QED
    BY <1>0, <1>2, <2>2, <2>3, <2>4, IdleTyped, IdleAway, SeatAside
<1> QED
  BY <1>1, <1>2

\* Slots created and edited.
LEMMA StaffSeats ==
  ASSUME SeatInv, TypeInv', NEW r \in Requests, StaffStep(r)
  PROVE  SeatInv'
<1> DEFINE j == req[r]
<1>0. /\ StoryInv /\ TypeInv /\ TypeOK /\ j \in Jobs /\ j.op # "shut" /\ Roomed(j)
      /\ req \in [Requests -> Jobs]
      /\ \A s \in Slots : Exists(s) => slots[s].remaining \in Nat /\ slots[s].total \in Nat
  BY DEF SeatInv, StoryInv, TypeInv, TypeOK, Exists, Slot
<1>1. ASSUME NEW job \in Jobs, req' = [req EXCEPT ![r] = job], job.op \in {"none", "create"},
             job.op = "create" => j.op = "create" /\ job.s = j.s /\ Roomed(job)',
             j.op \in {"create", "update"}, UNCHANGED <<pickups, orders, fees>>,
             \A s \in Slots : Exists(s) => Exists(s)',
             \A s \in Slots : Exists(s)' => Exists(s) \/ (j.op = "create" /\ s = j.s),
             \A s \in Slots : Exists(s)' /\ s \notin spoiled' =>
               IF Exists(s)
               THEN s \notin spoiled /\ slots'[s].remaining - slots'[s].total = slots[s].remaining - slots[s].total
               ELSE slots'[s].remaining = slots'[s].total
      PROVE  SeatInv'
  <2>1. ~On(j) /\ ~On(job) /\ job.op # "shut"
    BY <1>1 DEF On
  <2>2. StoryInv'
    BY <1>0, <1>1, <2>1, StoryAside
  <2>3. Roomed(job)'
    BY <1>1 DEF Roomed, Keeps
  <2>4. job.op = "create" => \A q \in Requests \ {r} : req[q].op = "create" => req[q].s # job.s
    BY <1>1 DEF SeatInv
  <2> QED
    BY <1>1, <2>1, <2>2, <2>3, <2>4, SeatAside
<1>2. CASE CreateFind(r)
  <2>1. j.op = "create" /\ j \in CreateJobs /\ UNCHANGED <<slots, pickups, orders, fees, spoiled>>
    BY <1>0, <1>2, JobOf DEF CreateFind, At
  <2>2. PICK job \in Jobs : /\ req' = [req EXCEPT ![r] = job] /\ job.op \in {"none", "create"}
                            /\ job.op = "create" => job.s = j.s /\ job.slot = j.slot
    <3>1. CASE Finish(r)
      BY <3>1, IdleTyped DEF Finish
    <3>2. CASE Goto(r, "put")
      <4> DEFINE next == [j EXCEPT !.pc = "put"]
      <4>1. next \in CreateJobs /\ next.op = "create" /\ next.s = j.s /\ next.slot = j.slot
        BY <2>1 DEF CreateJobs
      <4>2. next \in Jobs /\ req' = [req EXCEPT ![r] = next]
        BY <3>2, <4>1 DEF Jobs, Goto
      <4> HIDE DEF next
      <4> QED
        BY <4>1, <4>2
    <3> QED
      BY <1>2, <3>1, <3>2 DEF CreateFind
  <2>3. job.op = "create" => Roomed(job)'
    <3>1. job.op = "create" => slots'[job.s] = NoSlot /\ job.slot.remaining = job.slot.total
      BY <1>0, <2>1, <2>2 DEF Roomed, Exists
    <3> QED
      BY <3>1 DEF Roomed, Keeps, Exists
  <2>4. \A s \in Slots : Exists(s)' <=> Exists(s)
    BY <2>1 DEF Exists
  <2> QED
    BY <1>1, <2>1, <2>2, <2>3, <2>4
<1>3. CASE CreatePut(r)
  <2>1. /\ j.op = "create" /\ UNCHANGED <<pickups, orders, fees, spoiled>>
        /\ slots' = [slots EXCEPT ![j.s] = j.slot] /\ req' = [req EXCEPT ![r] = Idle]
    BY <1>3 DEF CreatePut, At, Finish
  <2>2. j.s \in Slots /\ j.slot \in Slot /\ ~Exists(j.s) /\ j.slot.remaining = j.slot.total /\ j.slot # NoSlot
    BY <1>0, <2>1, OnFields, SlotsAndPickups DEF Roomed
  <2>3. slots'[j.s] = j.slot /\ \A s \in Slots \ {j.s} : slots'[s] = slots[s]
    BY <1>0, <2>1, <2>2 DEF TypeOK
  <2>4. \A s \in Slots : (Exists(s) => Exists(s)') /\ (Exists(s)' => Exists(s) \/ s = j.s)
    BY <2>2, <2>3 DEF Exists
  <2>5. \A s \in Slots : IF Exists(s) THEN slots'[s] = slots[s]
                         ELSE s = j.s \/ ~Exists(s)'
    BY <2>2, <2>3 DEF Exists
  <2> QED
    BY <1>1, <2>1, <2>2, <2>3, <2>4, <2>5, IdleTyped
<1>4. CASE UpdatePut(r)
  <2>1. /\ j.op = "update" /\ UNCHANGED <<pickups, orders, fees>>
        /\ slots' = [slots EXCEPT ![j.s] = j.slot] /\ req' = [req EXCEPT ![r] = Idle]
        /\ spoiled' = IF Taken(slots[j.s]) = Taken(j.slot) THEN spoiled ELSE spoiled \union {j.s}
    BY <1>4 DEF UpdatePut, At, Finish
  <2>2. j.s \in Slots /\ j.slot \in Slot /\ Exists(j.s) /\ j.slot # NoSlot
        /\ j.slot.remaining \in Nat /\ j.slot.total \in Nat
    BY <1>0, <2>1, OnFields, SlotsAndPickups DEF Roomed, Slot
  <2>3. slots'[j.s] = j.slot /\ \A s \in Slots \ {j.s} : slots'[s] = slots[s]
    BY <1>0, <2>1, <2>2 DEF TypeOK
  <2>4. \A s \in Slots : Exists(s)' <=> Exists(s)
    BY <2>2, <2>3 DEF Exists
  <2>5. j.s \notin spoiled' => j.slot.remaining - j.slot.total = slots[j.s].remaining - slots[j.s].total
    BY <1>0, <2>1, <2>2 DEF Taken
  <2>6. \A s \in Slots : s \notin spoiled' => s \notin spoiled
    BY <2>1
  <2>7. ASSUME NEW s \in Slots, Exists(s)', s \notin spoiled'
        PROVE  IF Exists(s)
               THEN s \notin spoiled /\ slots'[s].remaining - slots'[s].total = slots[s].remaining - slots[s].total
               ELSE slots'[s].remaining = slots'[s].total
    BY <2>3, <2>4, <2>5, <2>6, <2>7
  <2> QED
    BY <1>1, <2>1, <2>4, <2>7, IdleTyped
<1>5. CASE ShutFind(r) \/ ShutPickup(r) \/ ShutOrder(r) \/ ShutOrderPut(r) \/ ShutPut(r)
  BY <1>0, <1>5 DEF ShutFind, ShutPickup, ShutOrder, ShutOrderPut, ShutPut, At
<1> QED
  BY <1>2, <1>3, <1>4, <1>5 DEF StaffStep

\* A request is made on a pickup that is in nobody's hands.
LEMMA Arrives ==
  ASSUME SeatInv, TypeInv', NEW r \in Requests, req[r] = Idle, NEW job \in Jobs,
         req' = [req EXCEPT ![r] = job], On(job), job.p \in Pickups,
         \A q \in Requests : On(req[q]) => req[q].p # job.p,
         Midst(job, pickups[job.p], orders[job.p], fees[job.p]),
         job.pc \in {"reserve", "read", "target", "order"}, job.pc = "order" => job.op = "fail",
         UNCHANGED <<slots, pickups, orders, fees, spoiled>>
  PROVE  SeatInv'
<1>1. StoryInv /\ job.op \notin {"create", "update", "shut"} /\ ~On(req[r])
  BY IdleAway DEF SeatInv, On
<1>2. Hands(r, job, job.p)
  BY <1>1 DEF Hands
<1>3. Writes(job.p, pickups[job.p], orders[job.p], fees[job.p])
  BY AsTheyAre
<1>4. Leaves(job, pickups[job.p], orders[job.p], fees[job.p])
  BY DEF Leaves
<1>5. StoryInv'
  BY <1>1, <1>2, <1>3, <1>4, StoryTurn
<1>6. ~Away(job) /\ \A s \in Slots : ~Keeps(job, s)
  BY DEF Away, Keeps, On
<1>7. Counts(r, job, job.p, pickups[job.p])
  <2>1. \A s \in Slots : /\ Hand(job, s) = 0 /\ Hand(req[r], s) = 0 /\ (Exists(s)' <=> Exists(s))
                         /\ Place(pickups[job.p], job, s) = Place(pickups[job.p], req[r], s)
    BY <1>6, IdleAway DEF Hand, Place, Exists
  <2>2. pickups[job.p] # NoPickup => Exists(pickups[job.p].slot)
    BY DEF SeatInv, Booked
  <2> QED
    BY <1>6, <2>1, <2>2 DEF Counts
<1> QED
  BY <1>1, <1>2, <1>3, <1>5, <1>7, SeatTurn

\* What is so of a pickup nobody is at work on.
LEMMA AtRest ==
  ASSUME SeatInv, NEW p \in Pickups
  PROVE  /\ FreshPickup(p) => /\ \A q \in Requests : On(req[q]) => req[q].p # p
                              /\ pickups[p] = NoPickup /\ orders[p] = "none" /\ fees[p] = 0
         /\ OneChange /\ MayChange(p) =>
              /\ \A q \in Requests : On(req[q]) => req[q].p # p
              /\ pickups[p].status \in Pending /\ orders[p] = "scheduled" /\ fees[p] = 0
<1>0. TypeInv /\ StoryInv /\ fees[p] \in Nat
  BY DEF SeatInv, StoryInv, TypeInv, TypeOK
<1>1. \A q \in Requests : On(req[q]) /\ req[q].p = p => Midst(req[q], pickups[p], orders[p], fees[p])
  BY <1>0 DEF StoryInv
<1>2. (\A q \in Requests : On(req[q]) => req[q].p # p) => Told(pickups[p], orders[p], fees[p])
  BY <1>0 DEF StoryInv
<1>3. ASSUME FreshPickup(p)
      PROVE  /\ \A q \in Requests : On(req[q]) => req[q].p # p
             /\ pickups[p] = NoPickup /\ orders[p] = "none" /\ fees[p] = 0
  <2>1. pickups[p] = NoPickup /\ orders[p] = "none"
    BY <1>0, <1>3 DEF FreshPickup, Booked, TypeInv
  <2>2. \A q \in Requests : On(req[q]) => req[q].p # p
    BY <1>1, <1>3, <2>1 DEF FreshPickup, On, Midst
  <2> QED
    BY <1>0, <1>2, <2>1, <2>2 DEF Told
<1>4. ASSUME OneChange, MayChange(p)
      PROVE  /\ \A q \in Requests : On(req[q]) => req[q].p # p
             /\ pickups[p].status \in Pending /\ orders[p] = "scheduled" /\ fees[p] = 0
  <2>1. orders[p] = "scheduled" /\ \A q \in Requests : ChangeOf(q) => req[q].p # p
    BY <1>4 DEF MayChange
  <2>2. \A q \in Requests : On(req[q]) => req[q].p # p
    BY <1>1, <2>1 DEF On, Midst, ChangeOf
  <2> QED
    BY <1>0, <1>2, <2>1, <2>2, Stories DEF Told, HalfWritten
<1> QED
  BY <1>3, <1>4

LEMMA StartSeats ==
  ASSUME OneChange, "shut" \notin Operations, SeatInv, TypeInv', NEW r \in Requests, Start(r)
  PROVE  SeatInv'
<1>0. /\ UNCHANGED <<slots, pickups, orders, fees, spoiled>> /\ StoryInv /\ TypeInv /\ TypeOK
      /\ req[r] = Idle /\ req'[r] \in Jobs /\ req' = [req EXCEPT ![r] = req'[r]]
      /\ req'[r].op \in Operations /\ req \in [Requests -> Jobs]
  <2>1. UNCHANGED <<slots, pickups, orders, fees, spoiled>>
    BY DEF Start, BookStart, CancelStart, MoveStart, CreateStart, UpdateRead, ShutStart, CollectStart, FailStart
  <2> QED
    BY <2>1, StartsWith DEF SeatInv, StoryInv, TypeInv
<1> DEFINE job == req'[r]
<1>1. ASSUME NEW op, NEW first, Begin(r, op, first) PROVE job = first
  BY <1>0, <1>1 DEF Begin
<1>2. ASSUME NEW p \in Pickups, \A q \in Requests : On(req[q]) => req[q].p # p,
             On(job), job.p = p, Midst(job, pickups[p], orders[p], fees[p]),
             job.pc \in {"reserve", "read", "target", "order"}, job.pc = "order" => job.op = "fail"
      PROVE  SeatInv'
  <2> HIDE DEF job
  <2>1. job \in Jobs /\ req' = [req EXCEPT ![r] = job] /\ job.p \in Pickups
    BY <1>0, <1>2 DEF job
  <2>2. \A q \in Requests : On(req[q]) => req[q].p # job.p
    BY <1>2
  <2>3. Midst(job, pickups[job.p], orders[job.p], fees[job.p])
    BY <1>2
  <2> QED
    BY <1>0, <1>2, <2>1, <2>2, <2>3, Arrives
<1>3. CASE BookStart(r)
  <2>1. PICK p \in Pickups, s \in Slots :
          FreshPickup(p) /\ job = [op |-> "book", pc |-> "reserve", p |-> p, s |-> s]
    BY <1>1, <1>3 DEF BookStart
  <2>2. job.op = "book" /\ job.pc = "reserve" /\ job.p = p
    BY <2>1
  <2> HIDE DEF job
  <2> QED
    BY <1>2, <2>1, <2>2, AtRest DEF On, Midst
<1>4. CASE CancelStart(r)
  <2>1. PICK p \in Pickups :
          MayChange(p) /\ job = [op |-> "cancel", pc |-> "read", p |-> p, pickup |-> pickups[p]]
    BY <1>1, <1>4 DEF CancelStart
  <2>2. job.op = "cancel" /\ job.pc = "read" /\ job.p = p /\ job.pickup = pickups[p]
    BY <2>1
  <2> HIDE DEF job
  <2> QED
    BY <1>2, <2>1, <2>2, AtRest DEF On, Midst
<1>5. CASE MoveStart(r)
  <2>1. PICK p \in Pickups, s \in Slots :
          MayChange(p) /\ job = [op |-> "move", pc |-> "target", p |-> p, pickup |-> pickups[p], s |-> s]
    BY <1>1, <1>5 DEF MoveStart
  <2>2. job.op = "move" /\ job.pc = "target" /\ job.p = p /\ job.pickup = pickups[p]
    BY <2>1
  <2> HIDE DEF job
  <2> QED
    BY <1>2, <2>1, <2>2, AtRest DEF On, Midst
<1>6. CASE CollectStart(r)
  <2>1. PICK p \in Pickups, early \in BOOLEAN :
          MayChange(p) /\ job = [op |-> "collect", pc |-> "read", p |-> p, early |-> early]
    BY <1>1, <1>6 DEF CollectStart
  <2>2. job.op = "collect" /\ job.pc = "read" /\ job.p = p
    BY <2>1
  <2> HIDE DEF job
  <2> QED
    BY <1>2, <2>1, <2>2, AtRest DEF On, Midst
<1>7. CASE FailStart(r)
  <2>1. PICK p \in Pickups : MayChange(p) /\ job = [op |-> "fail", pc |-> "order", p |-> p]
    BY <1>1, <1>7 DEF FailStart
  <2>2. job.op = "fail" /\ job.pc = "order" /\ job.p = p
    BY <2>1
  <2> HIDE DEF job
  <2> QED
    BY <1>2, <2>1, <2>2, AtRest DEF On, Midst
<1>8. ASSUME NEW new \in Jobs, req' = [req EXCEPT ![r] = new], new.op \in {"create", "update"},
             Roomed(new),
             new.op = "create" => \A q \in Requests : req[q].op = "create" => req[q].s # new.s
      PROVE  SeatInv'
  <2>1. ~On(new) /\ ~On(req[r]) /\ new.op # "shut"
    BY <1>0, <1>8, IdleAway DEF On
  <2>2. StoryInv'
    BY <1>0, <1>8, <2>1, StoryAside
  <2>3. Roomed(new)' /\ \A s \in Slots : Exists(s)' <=> Exists(s)
    BY <1>0, <1>8 DEF Roomed, Exists, Keeps
  <2>4. \A q \in Requests \ {r} : new.op = "create" /\ req[q].op = "create" => req[q].s # new.s
    BY <1>8
  <2> QED
    BY <1>0, <1>8, <2>1, <2>2, <2>3, <2>4, SeatAside
<1>9. CASE CreateStart(r)
  <2>1. PICK s \in Slots, society \in Societies, w \in Windows, c \in Capacities, sub \in BOOLEAN :
          /\ FreshSlot(s)
          /\ job = [op |-> "create", pc |-> "find", s |-> s, slot |->
               [society |-> society, window |-> w, total |-> c, remaining |-> c,
                active |-> TRUE, subscribersOnly |-> sub]]
    BY <1>1, <1>9 DEF CreateStart
  <2>2. job.op = "create" /\ job.s = s /\ job.slot.remaining = job.slot.total
    BY <2>1
  <2> HIDE DEF job
  <2>3. Roomed(job)
    BY <2>1, <2>2 DEF Roomed, FreshSlot, Keeps
  <2>4. job \in Jobs /\ req' = [req EXCEPT ![r] = job]
    BY <1>0 DEF job
  <2> QED
    BY <1>8, <2>1, <2>2, <2>3, <2>4 DEF FreshSlot
<1>10. CASE UpdateRead(r)
  <2>1. PICK s \in Slots, c \in Capacities, w \in Windows, a \in BOOLEAN :
          /\ Exists(s)
          /\ job = [op |-> "update", pc |-> "put", s |-> s, slot |-> Patched(slots[s], c, w, a)]
    BY <1>1, <1>10 DEF UpdateRead
  <2>2. job.op = "update" /\ job.s = s
    BY <2>1
  <2> HIDE DEF job
  <2>3. Roomed(job)
    BY <2>1, <2>2 DEF Roomed, Keeps
  <2>4. job \in Jobs /\ req' = [req EXCEPT ![r] = job]
    BY <1>0 DEF job
  <2> QED
    BY <1>8, <2>2, <2>3, <2>4
<1>11. CASE ShutStart(r)
  BY <1>11 DEF ShutStart, Begin
<1> QED
  BY <1>3, <1>4, <1>5, <1>6, <1>7, <1>9, <1>10, <1>11 DEF Start

LEMMA InitSeats == Init => SeatInv
<1> SUFFICES ASSUME Init PROVE SeatInv
  OBVIOUS
<1>1. TypeInv /\ \A r \in Requests : req[r] = Idle
  BY InitTyped DEF Init
<1>2. \A p \in Pickups : pickups[p] = NoPickup /\ orders[p] = "none" /\ fees[p] = 0
  BY DEF Init
<1>3. \A r \in Requests : ~On(req[r]) /\ req[r].op = "none"
  BY <1>1, IdleTyped, IdleAway
<1>4. StoryInv
  <2>1. \A p \in Pickups : Told(pickups[p], orders[p], fees[p])
    BY <1>2, Stories DEF Told
  <2> QED
    BY <1>1, <1>3, <2>1 DEF StoryInv
<1>5. \A r \in Requests : Roomed(req[r])
  BY <1>1, <1>3, IdleAway DEF Roomed
<1>6. ASSUME NEW s \in Slots, Exists(s) PROVE slots[s].remaining + SeatsTaken(s) = slots[s].total
  <2>1. slots[s].remaining = slots[s].total /\ slots[s].total \in Nat
    BY <1>1, <1>6, FirstSlotsAreFree DEF Init, Exists, TypeInv, TypeOK, Slot
  <2>2. {p \in Seated(s) : ~Freed(p)} = {} /\ {r \in Requests : Holds(r, s)} = {}
    BY <1>2, <1>3 DEF Seated, Booked, Holds
  <2>3. SeatsTaken(s) = 0
    BY <2>2, FS_EmptySet DEF SeatsTaken
  <2> QED
    BY <2>1, <2>3
<1> QED
  BY <1>2, <1>3, <1>4, <1>5, <1>6 DEF SeatInv, SeatAccounting, Booked

LEMMA NextSeats ==
  ASSUME OneChange, "shut" \notin Operations, "cancel" \notin Faults, SeatInv, [Next]_vars
  PROVE  SeatInv'
<1>1. TypeInv'
  BY NextTyped DEF SeatInv, StoryInv
<1>2. CASE Tick \/ UNCHANGED vars
  <2>1. UNCHANGED <<slots, pickups, orders, fees, req, spoiled>>
    BY <1>2 DEF Tick, vars
  <2>2. StoryInv'
    BY <1>1, <2>1 DEF SeatInv, StoryInv
  <2>3. SeatAccounting'
    BY <2>1 DEF SeatInv, SeatAccounting, SeatsTaken, Seated, Freed, Holds, Exists, Booked
  <2>4. \A r \in Requests : Roomed(req[r])'
    BY <2>1 DEF SeatInv, Roomed, Keeps, Exists
  <2> QED
    BY <2>1, <2>2, <2>3, <2>4 DEF SeatInv, Exists, Booked
<1>3. ASSUME NEW r \in Requests, Start(r) \/ Continue(r) \/ MoveReject(r) \/ Lose(r)
      PROVE  SeatInv'
  BY <1>1, <1>3, StartSeats, BookSeats, CancelSeats, MoveSeats, StaffSeats, DoorSeats, LoseSeats
     DEF Continue
<1> QED
  BY <1>2, <1>3 DEF Next

\* Between any two awaits of any requests the counter of a slot is its capacity less the
\* places taken in it, for every number of slots, pickups and requests: whatever is booked,
\* cancelled, moved, collected, given up at the door, created and edited in whatever order,
\* and whichever of those requests, a cancellation apart, is lost half way.  The clients
\* keep to one change of a pickup at a time (OneChange; without it two cancellations give one
\* place back twice).  Closing a slot sets its counter instead of counting.
THEOREM SeatsAddUp ==
  ASSUME OneChange, "shut" \notin Operations, "cancel" \notin Faults
  PROVE  Spec => []SeatAccounting
<1>1. SeatInv /\ [Next]_vars => SeatInv'
  BY NextSeats
<1> QED
  BY <1>1, InitSeats, PTL DEF Spec, SeatInv

\* When nobody is changing it, a pickup, its order and the fees charged for it tell one
\* story, and only who has cancelled has paid, once: each is written on its own, and no
\* handler leaves one of them out.  For that a request that writes both of them has to get
\* to its end (book, collect, fail, cancel); a reschedule, which has a catch, need not.
THEOREM PickupsAgree ==
  ASSUME OneChange, "shut" \notin Operations, {"book", "cancel", "collect", "fail"} \cap Faults = {}
  PROVE  Spec => []PickupAgreesWithOrder
<1>1. SeatInv /\ [Next]_vars => SeatInv'
  BY NextSeats
<1>2. SeatInv => PickupAgreesWithOrder
  <2> SUFFICES ASSUME SeatInv, NEW p \in Pickups, ~InChange(p)
               PROVE  /\ SameStory(pickups[p], orders[p])
                      /\ fees[p] <= IF orders[p] = "cancelled" THEN 1 ELSE 0
    BY DEF PickupAgreesWithOrder
  <2>1. \A r \in Requests : On(req[r]) => req[r].p # p
    BY DEF InChange, On, ChangeOf
  <2>2. Told(pickups[p], orders[p], fees[p])
    BY <2>1 DEF SeatInv, StoryInv
  <2> QED
    BY <2>2 DEF Told, HalfWritten
<1> QED
  BY <1>1, <1>2, InitSeats, PTL DEF Spec

=============================================================================
