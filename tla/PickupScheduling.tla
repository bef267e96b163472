------------------------- MODULE PickupScheduling -------------------------
(***************************************************************************)
(* The pickup slots, the pickups booked into them and the order that goes  *)
(* with each pickup, as SchedulingService changes them:                    *)
(*   washnpress-v2/src/services/scheduling-service.ts                      *)
(* over the Postgres store (adapters/postgres/store.ts), and the two steps  *)
(* of order-service.ts that end a pickup (collected, failed).              *)
(*                                                                         *)
(* Every `await` of a handler is a point where another request may run, so *)
(* a request is a process: req[r].pc says which store call it makes next,  *)
(* and req[r] carries the documents it has read.  A put writes back the    *)
(* WHOLE document that was read, which is how a stale read loses a write.  *)
(* Only reserveCapacity and releaseCapacity are atomic on the stored value.*)
(*                                                                         *)
(* Left out: pricing and plan rules (they refuse a booking before capacity *)
(* is touched and change nothing), notifications, assignment, timelines.   *)
(* There is one service day and one resident society, Home.                *)
(***************************************************************************)
EXTENDS Integers, FiniteSets

CONSTANTS
  Slots,          \* ids a slot may have
  Pickups,        \* ids a pickup (and its order, one each) may have
  Requests,       \* requests being served at the same time
  Societies, Home,
  Windows,        \* SLOT_WINDOWS
  WindowStart,    \* [Windows -> Nat], in ticks of the operation's own day
  WindowLength,   \* ticks between a window's start and its end
  Lead,           \* SLOT_CREATION_LEAD_MINUTES and BOOKING_CUTOFF_MINUTES
  CutoffHours,    \* config scheduling.bookingCutoffHours, in ticks
  Offset,         \* config scheduling.serviceDayOffsetMinutes, in ticks
  DayEnd,         \* first tick of the next service day
  Capacities,     \* capacities a slot may be given
  FirstSlots,     \* the slots of the initial store: [a subset of Slots -> Slot]
  Operations,     \* which handlers clients call in this instance
  Faults,         \* handlers whose store calls may reject, or lose the process
  OneChange,      \* the client's rule on changing a pickup: see MayChange
  MaxRequests,    \* how many requests are ever made
  MaxTime         \* the last tick of the clock

ASSUME NamesAreFinite == IsFiniteSet(Pickups) /\ IsFiniteSet(Requests)
ASSUME BoundsAreNatural == MaxRequests \in Nat /\ MaxTime \in Nat
ASSUME TimesAreTicks == WindowStart \in [Windows -> Int] /\ Offset \in Int
ASSUME CapacitiesAreNatural == Capacities \subseteq Nat

VARIABLES
  now,      \* the clock, local to the operation
  slots,    \* the slots table
  pickups,  \* the pickups table
  orders,   \* the state of the order of each pickup
  fees,     \* how many cancellation fees were charged for each pickup
  req,      \* the requests being served
  issued,   \* requests made so far
  spoiled   \* history: slots whose counter something other than these counts has set

vars == <<now, slots, pickups, orders, fees, req, issued, spoiled>>

-----------------------------------------------------------------------------
(* Records *)

Slot == [society : Societies, window : Windows, total : Nat, remaining : Nat,
         active : BOOLEAN, subscribersOnly : BOOLEAN]
NoSlot == [society |-> "none"]

\* The slots there are to begin with are as createSlot leaves them: nobody is in them.
ASSUME FirstSlotsAreFree ==
  \A first \in FirstSlots :
    /\ first \in [Slots -> Slot \union {NoSlot}]
    /\ \A s \in Slots : first[s] # NoSlot => first[s].remaining = first[s].total

Pending == {"scheduled", "rescheduled"}
Pickup == [status : Pending \union {"cancelled", "completed", "failed"},
           slot : Slots, scheduledFor : Int]
NoPickup == [status |-> "none"]

OrderStates == {"none", "scheduled", "cancelled", "picked_up", "pickup_failed"}

Idle == [op |-> "none", pc |-> "idle"]

Exists(s) == slots[s] # NoSlot
Booked(p) == pickups[p] # NoPickup

-----------------------------------------------------------------------------
(* The clock, as minutesUntilStart and the functions on it read it *)

UntilStart(w)  == WindowStart[w] - now
HasEnded(w)    == now >= WindowStart[w] + WindowLength
BookingOpen(w) == UntilStart(w) >= Lead
WindowOpen(w)  == UntilStart(w) <= 0
PastDay        == now >= DayEnd

\* Both book and reschedule refuse a slot on these grounds.
Bookable(slot) ==
  /\ slot.society = Home
  /\ ~PastDay
  /\ ~HasEnded(slot.window)
  /\ BookingOpen(slot.window)

\* scheduledFor is written as `${date}T${startTime}:00.000Z`: the local start
\* time read as if it were UTC, which is Offset later on the local clock.
ScheduledFor(slot) == WindowStart[slot.window] + Offset

\* assertBeforeCutoff
BeforeCutoff(pickup) == now <= pickup.scheduledFor - CutoffHours

-----------------------------------------------------------------------------
(* SlotCollection: the two atomic writes *)

\* Slip: the conditional write without its condition on the capacity.
CanReserveUnchecked(s) == Exists(s) /\ slots[s].active

CanReserve(s) == Exists(s) /\ slots[s].active /\ slots[s].remaining > 0

Reserved(s) == [slots EXCEPT ![s].remaining = @ - 1]

Released(s) ==
  IF ~Exists(s) THEN slots
  ELSE [slots EXCEPT ![s].remaining = @ + 1]

-----------------------------------------------------------------------------
(* Requests *)

At(r, op, pc) == req[r].op = op /\ req[r].pc = pc
Goto(r, pc)   == req' = [req EXCEPT ![r].pc = pc]
Finish(r)     == req' = [req EXCEPT ![r] = Idle]

Begin(r, op, first) ==
  /\ op \in Operations
  /\ req[r] = Idle
  /\ issued < MaxRequests
  /\ issued' = issued + 1
  /\ req' = [req EXCEPT ![r] = first]

\* A uuid nobody else has: of a slot or of a pickup.
FreshPickup(p) == ~Booked(p) /\ \A r \in Requests : req[r].op = "book" => req[r].p # p
FreshSlot(s)   == ~Exists(s) /\ \A r \in Requests : req[r].op = "create" => req[r].s # s

\* The server lets a resident change any pickup of theirs at any time before the
\* cutoff.  The apps show Cancel and Reschedule only while the order is still
\* scheduled and disable them while a change is being made: with OneChange the
\* clients keep to that, and resident and operator do not act at the same moment.
ChangeOf(r) == req[r].op \in {"cancel", "move", "collect", "fail"}
MayChange(p) ==
  OneChange =>
    /\ orders[p] = "scheduled"
    /\ \A r \in Requests : ChangeOf(r) => req[r].p # p

-----------------------------------------------------------------------------
(* book *)

BookStart(r) ==
  /\ \E p \in Pickups, s \in Slots :
       /\ FreshPickup(p)
       /\ Begin(r, "book", [op |-> "book", pc |-> "reserve", p |-> p, s |-> s])
  /\ UNCHANGED <<now, slots, pickups, orders, fees, spoiled>>

\* The slot the reservation returns is the one the rest of book judges.
BookReserve(r) ==
  /\ At(r, "book", "reserve")
  /\ LET s == req[r].s IN
       \/ /\ CanReserve(s)
          /\ slots' = Reserved(s)
          /\ req' = [req EXCEPT ![r] =
               [op |-> "book", pc |-> "check", p |-> @.p, s |-> s, slot |-> slots'[s]]]
       \/ /\ ~CanReserve(s)
          /\ Finish(r)
          /\ UNCHANGED slots
  /\ UNCHANGED <<now, pickups, orders, fees, issued, spoiled>>

\* Whether the resident is on a plan is read only for a subscribers' slot.
BookCheck(r) ==
  /\ At(r, "book", "check")
  /\ \E onPlan \in BOOLEAN :
       IF (req[r].slot.subscribersOnly => onPlan) /\ Bookable(req[r].slot)
       THEN Goto(r, "pickup")
       ELSE Goto(r, "giveBack")
  /\ UNCHANGED <<now, slots, pickups, orders, fees, issued, spoiled>>

BookGiveBack(r) ==
  /\ At(r, "book", "giveBack")
  /\ slots' = Released(req[r].s)
  /\ Finish(r)
  /\ UNCHANGED <<now, pickups, orders, fees, issued, spoiled>>

BookPickup(r) ==
  /\ At(r, "book", "pickup")
  /\ pickups' = [pickups EXCEPT ![req[r].p] =
       [status |-> "scheduled", slot |-> req[r].s, scheduledFor |-> ScheduledFor(req[r].slot)]]
  /\ Goto(r, "order")
  /\ UNCHANGED <<now, slots, orders, fees, issued, spoiled>>

BookOrder(r) ==
  /\ At(r, "book", "order")
  /\ orders' = [orders EXCEPT ![req[r].p] = "scheduled"]
  /\ Finish(r)
  /\ UNCHANGED <<now, slots, pickups, fees, issued, spoiled>>

-----------------------------------------------------------------------------
(* cancel, by the resident *)

CancelStart(r) ==
  /\ \E p \in Pickups :
       /\ Booked(p)
       /\ BeforeCutoff(pickups[p])
       /\ MayChange(p)
       /\ Begin(r, "cancel", [op |-> "cancel", pc |-> "read", p |-> p, pickup |-> pickups[p]])
  /\ UNCHANGED <<now, slots, pickups, orders, fees, spoiled>>

CancelRead(r) ==
  /\ At(r, "cancel", "read")
  /\ LET c == req[r] IN
     req' = [req EXCEPT ![r] =
       [op |-> "cancel", pc |-> IF orders[c.p] = "scheduled" THEN "fee" ELSE "release",
        p |-> c.p, pickup |-> c.pickup, order |-> orders[c.p]]]
  /\ UNCHANGED <<now, slots, pickups, orders, fees, issued, spoiled>>

\* Past the free window the fee is charged if the wallet covers it, and the
\* cancellation goes ahead either way.
CancelFee(r) ==
  /\ At(r, "cancel", "fee")
  /\ \E charged \in {0, 1} : fees' = [fees EXCEPT ![req[r].p] = @ + charged]
  /\ Goto(r, "release")
  /\ UNCHANGED <<now, slots, pickups, orders, issued, spoiled>>

CancelRelease(r) ==
  /\ At(r, "cancel", "release")
  /\ slots' = Released(req[r].pickup.slot)
  /\ Goto(r, "pickup")
  /\ UNCHANGED <<now, pickups, orders, fees, issued, spoiled>>

\* Slip: the orders of the pickup are left as they are.
CancelPickupOnly(r) ==
  /\ At(r, "cancel", "pickup")
  /\ pickups' = [pickups EXCEPT ![req[r].p] = [req[r].pickup EXCEPT !.status = "cancelled"]]
  /\ Finish(r)
  /\ UNCHANGED <<now, slots, orders, fees, issued, spoiled>>

CancelPickup(r) ==
  /\ At(r, "cancel", "pickup")
  /\ pickups' = [pickups EXCEPT ![req[r].p] = [req[r].pickup EXCEPT !.status = "cancelled"]]
  /\ IF req[r].order = "scheduled" THEN Goto(r, "order") ELSE Finish(r)
  /\ UNCHANGED <<now, slots, orders, fees, issued, spoiled>>

CancelOrder(r) ==
  /\ At(r, "cancel", "order")
  /\ orders' = [orders EXCEPT ![req[r].p] = "cancelled"]
  /\ Finish(r)
  /\ UNCHANGED <<now, slots, pickups, fees, issued, spoiled>>

-----------------------------------------------------------------------------
(* reschedule *)

MoveStart(r) ==
  /\ \E p \in Pickups, s \in Slots :
       /\ Booked(p)
       /\ BeforeCutoff(pickups[p])
       /\ MayChange(p)
       /\ Begin(r, "move",
            [op |-> "move", pc |-> "target", p |-> p, pickup |-> pickups[p], s |-> s])
  /\ UNCHANGED <<now, slots, pickups, orders, fees, spoiled>>

MoveTarget(r) ==
  /\ At(r, "move", "target")
  /\ LET s == req[r].s IN
     IF Exists(s) /\ slots[s].active /\ Bookable(slots[s]) THEN Goto(r, "reserve") ELSE Finish(r)
  /\ UNCHANGED <<now, slots, pickups, orders, fees, issued, spoiled>>

MoveReserve(r) ==
  /\ At(r, "move", "reserve")
  /\ LET m == req[r] IN
       \/ /\ CanReserve(m.s)
          /\ slots' = Reserved(m.s)
          /\ req' = [req EXCEPT ![r] =
               [op |-> "move", pc |-> "release", p |-> m.p, pickup |-> m.pickup, s |-> m.s,
                slot |-> slots'[m.s]]]
       \/ /\ ~CanReserve(m.s)
          /\ Finish(r)
          /\ UNCHANGED slots
  /\ UNCHANGED <<now, pickups, orders, fees, issued, spoiled>>

\* Slip: the place given back is the one in the new slot.
MoveReleaseNew(r) ==
  /\ At(r, "move", "release")
  /\ slots' = Released(req[r].s)
  /\ Goto(r, "pickup")
  /\ UNCHANGED <<now, pickups, orders, fees, issued, spoiled>>

MoveRelease(r) ==
  /\ At(r, "move", "release")
  /\ slots' = Released(req[r].pickup.slot)
  /\ Goto(r, "pickup")
  /\ UNCHANGED <<now, pickups, orders, fees, issued, spoiled>>

MovePickup(r) ==
  /\ At(r, "move", "pickup")
  /\ pickups' = [pickups EXCEPT ![req[r].p] =
       [status |-> "rescheduled", slot |-> req[r].s, scheduledFor |-> ScheduledFor(req[r].slot)]]
  /\ Goto(r, "order")
  /\ UNCHANGED <<now, slots, orders, fees, issued, spoiled>>

\* The fee note is pushed on the order that was read as scheduled, and that
\* order is put back; with no fee due there is nothing to put.
MoveOrder(r) ==
  /\ At(r, "move", "order")
  /\ \/ orders[req[r].p] = "scheduled" /\ Goto(r, "orderPut")
     \/ Finish(r)
  /\ UNCHANGED <<now, slots, pickups, orders, fees, issued, spoiled>>

MoveOrderPut(r) ==
  /\ At(r, "move", "orderPut")
  /\ orders' = [orders EXCEPT ![req[r].p] = "scheduled"]
  /\ Finish(r)
  /\ UNCHANGED <<now, slots, pickups, fees, issued, spoiled>>

\* The catch of reschedule: a store call after the reservation rejected.
MoveReject(r) ==
  /\ "move" \in Faults
  /\ req[r].op = "move" /\ req[r].pc \in {"release", "pickup", "order", "orderPut"}
  /\ Goto(r, "undo")
  /\ spoiled' = spoiled \union CASE req[r].pc = "release" -> {}
                                [] req[r].pc = "pickup"  -> {req[r].pickup.slot}
                                [] OTHER                 -> {req[r].s}
  /\ UNCHANGED <<now, slots, pickups, orders, fees, issued>>

MoveUndo(r) ==
  /\ At(r, "move", "undo")
  /\ slots' = Released(req[r].s)
  /\ Finish(r)
  /\ UNCHANGED <<now, pickups, orders, fees, issued, spoiled>>

-----------------------------------------------------------------------------
(* createSlot: OneAtATime keeps two creations of one society, day and window *)
(* from both being between the look and the write.                           *)

SameKey(a, b) == a.society = b.society /\ a.window = b.window

CreateStart(r) ==
  /\ \E s \in Slots, society \in Societies, w \in Windows, c \in Capacities, sub \in BOOLEAN :
       /\ FreshSlot(s)
       /\ Begin(r, "create", [op |-> "create", pc |-> "find", s |-> s, slot |->
            [society |-> society, window |-> w, total |-> c, remaining |-> c,
             active |-> TRUE, subscribersOnly |-> sub]])
  /\ UNCHANGED <<now, slots, pickups, orders, fees, spoiled>>

\* Slips: no queue at all; a queue in which a creation waits for itself.
NobodyInCreation(slot) == FALSE

AnyoneInCreation(slot) ==
  \E q \in Requests : req[q].op = "create" /\ SameKey(req[q].slot, slot)

InCreation(slot) ==
  \E q \in Requests : At(q, "create", "put") /\ SameKey(req[q].slot, slot)

Clash(slot) ==
  \E t \in Slots : Exists(t) /\ slots[t].active /\ SameKey(slots[t], slot)

TooSoon(slot) == PastDay \/ UntilStart(slot.window) < Lead

CreateFind(r) ==
  /\ At(r, "create", "find")
  /\ ~InCreation(req[r].slot)
  /\ IF TooSoon(req[r].slot) \/ Clash(req[r].slot) THEN Finish(r) ELSE Goto(r, "put")
  /\ UNCHANGED <<now, slots, pickups, orders, fees, issued, spoiled>>

CreatePut(r) ==
  /\ At(r, "create", "put")
  /\ slots' = [slots EXCEPT ![req[r].s] = req[r].slot]
  /\ Finish(r)
  /\ UNCHANGED <<now, pickups, orders, fees, issued, spoiled>>

-----------------------------------------------------------------------------
(* updateSlot: the bookings are counted from the slot as it was read *)

Taken(slot) == slot.total - slot.remaining

Patched(slot, c, w, a) ==
  [slot EXCEPT !.total = c, !.remaining = c - Taken(slot), !.window = w, !.active = a]

UpdateRead(r) ==
  /\ \E s \in Slots, c \in Capacities, w \in Windows, a \in BOOLEAN :
       /\ Exists(s)
       /\ ~PastDay
       /\ c >= Taken(slots[s])
       /\ Begin(r, "update",
            [op |-> "update", pc |-> "put", s |-> s, slot |-> Patched(slots[s], c, w, a)])
  /\ UNCHANGED <<now, slots, pickups, orders, fees, spoiled>>

UpdatePut(r) ==
  /\ At(r, "update", "put")
  /\ LET s == req[r].s IN
       /\ slots' = [slots EXCEPT ![s] = req[r].slot]
       /\ spoiled' = IF Taken(slots[s]) = Taken(req[r].slot) THEN spoiled ELSE spoiled \union {s}
  /\ Finish(r)
  /\ UNCHANGED <<now, pickups, orders, fees, issued>>

-----------------------------------------------------------------------------
(* cancelSlot: every pending pickup in it, then the slot itself *)

ShutStart(r) ==
  /\ \E s \in Slots :
       /\ Exists(s)
       /\ ~PastDay
       /\ Begin(r, "shut", [op |-> "shut", pc |-> "find", s |-> s, slot |-> slots[s]])
  /\ UNCHANGED <<now, slots, pickups, orders, fees, spoiled>>

ShutFind(r) ==
  /\ At(r, "shut", "find")
  /\ LET c == req[r]
         found == {p \in Pickups : pickups[p].status \in Pending /\ pickups[p].slot = c.s} IN
     req' = [req EXCEPT ![r] =
       [op |-> "shut", pc |-> "next", s |-> c.s, slot |-> c.slot,
        todo |-> {[p |-> p, pickup |-> pickups[p]] : p \in found}]]
  /\ UNCHANGED <<now, slots, pickups, orders, fees, issued, spoiled>>

ShutPickup(r) ==
  /\ At(r, "shut", "next")
  /\ \E t \in req[r].todo :
       /\ pickups' = [pickups EXCEPT ![t.p] = [t.pickup EXCEPT !.status = "cancelled"]]
       /\ req' = [req EXCEPT ![r] =
            [op |-> "shut", pc |-> "order", s |-> @.s, slot |-> @.slot,
             todo |-> @.todo \ {t}, p |-> t.p]]
  /\ UNCHANGED <<now, slots, orders, fees, issued, spoiled>>

ShutOrder(r) ==
  /\ At(r, "shut", "order")
  /\ Goto(r, IF orders[req[r].p] = "scheduled" THEN "orderPut" ELSE "next")
  /\ UNCHANGED <<now, slots, pickups, orders, fees, issued, spoiled>>

ShutOrderPut(r) ==
  /\ At(r, "shut", "orderPut")
  /\ orders' = [orders EXCEPT ![req[r].p] = "cancelled"]
  /\ Goto(r, "next")
  /\ UNCHANGED <<now, slots, pickups, fees, issued, spoiled>>

ShutPut(r) ==
  /\ At(r, "shut", "next")
  /\ req[r].todo = {}
  /\ slots' = [slots EXCEPT ![req[r].s] =
       [req[r].slot EXCEPT !.active = FALSE, !.remaining = req[r].slot.total]]
  /\ spoiled' = spoiled \union {req[r].s}
  /\ Finish(r)
  /\ UNCHANGED <<now, pickups, orders, fees, issued>>

-----------------------------------------------------------------------------
(* The operator at the door: markPickedUp and failPickup, what they do to the *)
(* order and the pickup.  markPickedUp read the pickup before it wrote the    *)
(* order; failPickup reads it after.  `early` collects before the window.     *)

CollectStart(r) ==
  /\ \E p \in Pickups, early \in BOOLEAN :
       /\ orders[p] = "scheduled"
       /\ MayChange(p)
       /\ Begin(r, "collect", [op |-> "collect", pc |-> "read", p |-> p, early |-> early])
  /\ UNCHANGED <<now, slots, pickups, orders, fees, spoiled>>

CollectRead(r) ==
  /\ At(r, "collect", "read")
  /\ LET p == req[r].p IN
     IF WindowOpen(slots[pickups[p].slot].window) \/ req[r].early
     THEN req' = [req EXCEPT ![r] =
            [op |-> "collect", pc |-> "order", p |-> p, pickup |-> pickups[p]]]
     ELSE Finish(r)
  /\ UNCHANGED <<now, slots, pickups, orders, fees, issued, spoiled>>

CollectOrder(r) ==
  /\ At(r, "collect", "order")
  /\ orders' = [orders EXCEPT ![req[r].p] = "picked_up"]
  /\ Goto(r, "pickup")
  /\ UNCHANGED <<now, slots, pickups, fees, issued, spoiled>>

CollectPickup(r) ==
  /\ At(r, "collect", "pickup")
  /\ pickups' = [pickups EXCEPT ![req[r].p] = [req[r].pickup EXCEPT !.status = "completed"]]
  /\ Finish(r)
  /\ UNCHANGED <<now, slots, orders, fees, issued, spoiled>>

FailStart(r) ==
  /\ \E p \in Pickups :
       /\ orders[p] = "scheduled"
       /\ MayChange(p)
       /\ Begin(r, "fail", [op |-> "fail", pc |-> "order", p |-> p])
  /\ UNCHANGED <<now, slots, pickups, orders, fees, spoiled>>

FailOrder(r) ==
  /\ At(r, "fail", "order")
  /\ orders' = [orders EXCEPT ![req[r].p] = "pickup_failed"]
  /\ Goto(r, "read")
  /\ UNCHANGED <<now, slots, pickups, fees, issued, spoiled>>

FailRead(r) ==
  /\ At(r, "fail", "read")
  /\ req' = [req EXCEPT ![r] =
       [op |-> "fail", pc |-> "pickup", p |-> @.p, pickup |-> pickups[@.p]]]
  /\ UNCHANGED <<now, slots, pickups, orders, fees, issued, spoiled>>

FailPickup(r) ==
  /\ At(r, "fail", "pickup")
  /\ pickups' = [pickups EXCEPT ![req[r].p] = [req[r].pickup EXCEPT !.status = "failed"]]
  /\ Finish(r)
  /\ UNCHANGED <<now, slots, orders, fees, issued, spoiled>>

-----------------------------------------------------------------------------
(* What a request under way has done to the counter of a slot *)

\* A request has taken a place that no pickup stands for yet.
Holds(r, s) ==
  \/ req[r].op = "book" /\ req[r].pc \in {"check", "giveBack", "pickup"} /\ req[r].s = s
  \/ req[r].op = "move" /\ req[r].pc \in {"release", "pickup", "undo"} /\ req[r].s = s

\* A change has given the place back and not yet written the pickup.
GaveBack(r, s) ==
  req[r].op \in {"cancel", "move"} /\ req[r].pc = "pickup" /\ req[r].pickup.slot = s

Freed(p) ==
  \E r \in Requests :
    req[r].op \in {"cancel", "move"} /\ req[r].pc = "pickup" /\ req[r].p = p

-----------------------------------------------------------------------------
(* Faults: the process stops, or a store call outside a catch rejects.  What *)
(* the request had still to write is never written.                          *)

Lose(r) ==
  /\ req[r].op \in Faults
  /\ spoiled' = spoiled \union {s \in Slots : Holds(r, s) \/ GaveBack(r, s)}
  /\ Finish(r)
  /\ UNCHANGED <<now, slots, pickups, orders, fees, issued>>

Tick ==
  /\ now < MaxTime
  /\ now' = now + 1
  /\ UNCHANGED <<slots, pickups, orders, fees, req, issued, spoiled>>

-----------------------------------------------------------------------------
(* The specification *)

Init ==
  /\ now = 0
  /\ slots \in FirstSlots
  /\ pickups = [p \in Pickups |-> NoPickup]
  /\ orders = [p \in Pickups |-> "none"]
  /\ fees = [p \in Pickups |-> 0]
  /\ req = [r \in Requests |-> Idle]
  /\ issued = 0
  /\ spoiled = {}

Start(r) ==
  \/ BookStart(r) \/ CancelStart(r) \/ MoveStart(r) \/ CreateStart(r)
  \/ UpdateRead(r) \/ ShutStart(r) \/ CollectStart(r) \/ FailStart(r)

BookStep(r) ==
  \/ BookReserve(r) \/ BookCheck(r) \/ BookGiveBack(r) \/ BookPickup(r) \/ BookOrder(r)

CancelStep(r) ==
  \/ CancelRead(r) \/ CancelFee(r) \/ CancelRelease(r) \/ CancelPickup(r) \/ CancelOrder(r)

MoveStep(r) ==
  \/ MoveTarget(r) \/ MoveReserve(r) \/ MoveRelease(r) \/ MovePickup(r)
  \/ MoveOrder(r) \/ MoveOrderPut(r) \/ MoveUndo(r)

StaffStep(r) ==
  \/ CreateFind(r) \/ CreatePut(r) \/ UpdatePut(r)
  \/ ShutFind(r) \/ ShutPickup(r) \/ ShutOrder(r) \/ ShutOrderPut(r) \/ ShutPut(r)

DoorStep(r) ==
  \/ CollectRead(r) \/ CollectOrder(r) \/ CollectPickup(r)
  \/ FailOrder(r) \/ FailRead(r) \/ FailPickup(r)

Continue(r) == BookStep(r) \/ CancelStep(r) \/ MoveStep(r) \/ StaffStep(r) \/ DoorStep(r)

Next ==
  \/ Tick
  \/ \E r \in Requests : Start(r) \/ Continue(r) \/ MoveReject(r) \/ Lose(r)

\* An await that was started settles: a request under way takes its next step.
Fairness == \A r \in Requests : WF_vars(Continue(r))

Spec == Init /\ [][Next]_vars /\ Fairness

-----------------------------------------------------------------------------
(* Properties *)

Ops == {"none", "book", "cancel", "move", "create", "update", "shut", "collect", "fail"}

\* The variables keep their shape.  That `remaining` is a natural number is not by
\* construction: updateSlot computes it from a stale document and puts it back.
TypeOK ==
  /\ now \in 0..MaxTime
  /\ slots \in [Slots -> Slot \union {NoSlot}]
  /\ pickups \in [Pickups -> Pickup \union {NoPickup}]
  /\ orders \in [Pickups -> OrderStates]
  /\ fees \in [Pickups -> Nat]
  /\ DOMAIN req = Requests
  /\ \A r \in Requests : req[r].op \in Ops
  /\ issued \in 0..MaxRequests
  /\ spoiled \subseteq Slots

\* A pickup keeps its place in the slot until it is cancelled or moved.
Seated(s) == {p \in Pickups : Booked(p) /\ pickups[p].slot = s /\ pickups[p].status # "cancelled"}

SeatsTaken(s) ==
  Cardinality({p \in Seated(s) : ~Freed(p)}) + Cardinality({r \in Requests : Holds(r, s)})

\* Between any two awaits of any requests the counter of a slot is exactly its
\* capacity less the places taken in it: reserveCapacity and releaseCapacity are
\* paired with the pickups that book, cancel and reschedule write, and an edit of the
\* slot keeps the count of who is in it.  Until a request is lost, an edit is put over a
\* booking made since it read the slot, or the undo of a reschedule gives back a place
\* that its pickup keeps.
SeatAccounting ==
  \A s \in Slots :
    Exists(s) /\ s \notin spoiled => slots[s].remaining + SeatsTaken(s) = slots[s].total

\* "Atomic slot booking that cannot oversell capacity": there are never more
\* pickups in a slot than its capacity.
NeverOversold ==
  \A s \in Slots : Exists(s) => Cardinality(Seated(s)) <= slots[s].total

InChange(p) == \E r \in Requests : (req[r].op = "book" \/ ChangeOf(r)) /\ req[r].p = p

SameStory(pickup, order) ==
  CASE order = "none"          -> pickup = NoPickup
    [] order = "scheduled"     -> pickup.status \in Pending
    [] order = "cancelled"     -> pickup.status = "cancelled"
    [] order = "picked_up"     -> pickup.status = "completed"
    [] order = "pickup_failed" -> pickup.status = "failed"

\* Once nobody is changing it, a pickup, its order and the fees charged for it tell the
\* same story: each is written by a put or a charge of its own, no handler forgets one of
\* them, and who pays for cancelling has cancelled, and pays once however often they try.
PickupAgreesWithOrder ==
  \A p \in Pickups : ~InChange(p) =>
    /\ SameStory(pickups[p], orders[p])
    /\ fees[p] <= IF orders[p] = "cancelled" THEN 1 ELSE 0

\* "One slot per society, per day, per window": createSlot, with the queue in
\* front of it, never leaves two active slots for the same three hours.
OneSlotPerWindow ==
  \A s, t \in Slots :
    s # t /\ Exists(s) /\ Exists(t) /\ slots[s].active /\ slots[t].active =>
      ~SameKey(slots[s], slots[t])

\* A cancelled order stays cancelled: TRANSITIONS gives it no successor.  No run checks
\* it: the code breaks it (README, section 5), as it does the next two.
CancelledIsFinal ==
  [][\A p \in Pickups : orders[p] = "cancelled" => orders'[p] = "cancelled"]_vars

\* A change is refused from Lead before the slot the pickup is in starts, the same
\* two hours as booking.
ChangesStopAtCutoff ==
  [][\A r \in Requests :
       req[r] = Idle /\ req'[r].op \in {"cancel", "move"} =>
         UntilStart(slots[req'[r].pickup.slot].window) >= Lead]_vars

\* Once cancelSlot has closed a slot no pending pickup is left in it.
NothingStranded ==
  \A s \in Slots :
    Exists(s) /\ ~slots[s].active =>
      \A p \in Seated(s) : pickups[p].status \notin Pending

\* Every request is answered: none waits for ever behind another one's creation
\* of the same slot.
EveryRequestEnds == \A r \in Requests : (req[r] # Idle) ~> (req[r] = Idle)

=============================================================================
