-------------------------- MODULE ServiceBookings --------------------------
(***************************************************************************)
(* Bookings of one additional service (a car wash, ironing at home): made  *)
(* in a window of its timetable or from a seat of a slot opened for a day, *)
(* moved, given to an operator, worked and cancelled.                      *)
(*   washnpress-v2/src/services/service-request-service.ts  create,        *)
(*        oneBookingAtATime, createFromSlot, assign, start, complete,      *)
(*        cancel, reschedule                                               *)
(*   washnpress-v2/src/services/scheduling-service.ts  createServiceSlot,  *)
(*        reserveServiceSlot, releaseServiceSlot                           *)
(*   washnpress-v2/src/app/routes/services.ts   slot-requests              *)
(* A request is a process, each store call a step of it, and a put writes  *)
(* back the document the request read.                                     *)
(*                                                                         *)
(* Windows are those of one service on one day, and a booking lasts as     *)
(* long as its window.  Left out: prices and quantities, the rules that    *)
(* refuse a request for reasons of its own (deadlines, limits per          *)
(* resident), the collections an operator holds beside these bookings, and *)
(* the order in which callers wait at a gate.                              *)
(***************************************************************************)
EXTENDS Naturals, FiniteSets

CONSTANTS
  Bookings, Slots, NoSlot,   \* identities for bookings and for slots of a day
  NoBooking,
  Windows, NoWindow,
  Operators, NoOne,
  Requests,                  \* requests under way at the same time
  Capacity,                  \* places of a window of the timetable
  Seats,                     \* capacityTotal of a slot
  MaxRequests, MaxFaults

ASSUME NoneIsNone == /\ NoBooking \notin Bookings /\ NoSlot \notin Slots
                     /\ NoWindow \notin Windows /\ NoOne \notin Operators
ASSUME NamesDiffer == (Bookings \union {NoBooking}) \intersect (Operators \union {NoOne}) = {}
ASSUME NamesAreFinite == IsFiniteSet(Bookings) /\ IsFiniteSet(Requests)
ASSUME CountsAreNatural == {Capacity, Seats, MaxRequests, MaxFaults} \subseteq Nat

VARIABLES
  bookings,  \* the serviceRequests table
  slots,     \* the additionalServiceSlots table
  req,       \* what each request holds
  started, faults,
  sold,      \* history: bookings made from a seat, by window
  seated,    \* history: bookings with a seat, until they are moved
  met,       \* history: bookings and operators two requests were busy with at once
  slips      \* history: reasons for a seat to be sold twice, by window, see SeatStart

vars == <<bookings, slots, req, started, faults, sold, seated, met, slips>>
history == <<sold, seated, met, slips>>

Booking == [status : {"absent", "requested", "assigned", "in_progress", "completed", "cancelled"},
            window : Windows \union {NoWindow}, by : Operators \union {NoOne}]

Absent == [status |-> "absent", window |-> NoWindow, by |-> NoOne]

NotOpen == [window |-> NoWindow, left |-> 0]

Idle == [pc |-> "idle", booking |-> NoBooking, window |-> NoWindow, by |-> NoOne,
         slot |-> NoSlot, left |-> 0, doc |-> Absent]

-----------------------------------------------------------------------------
(* Helpers *)

Active(r) == req[r].pc # "idle"

Finished == {"absent", "completed", "cancelled"}

\* The booking and the operator a request is about.
Claims(r) == {req[r].booking, req[r].by} \ {NoBooking, NoOne}

Meeting(r, job) ==
  {job.booking, job.by} \intersect UNION {Claims(q) : q \in {q \in Requests \ {r} : Active(q)}}

Begin(r, job) ==
  /\ ~Active(r)
  /\ started < MaxRequests
  /\ started' = started + 1
  /\ req' = [req EXCEPT ![r] = job]
  /\ met' = met \union Meeting(r, job)
  /\ UNCHANGED <<bookings, slots, faults, sold, seated>>

Goto(r, pc) == req' = [req EXCEPT ![r].pc = pc]

Return(r) == req' = [req EXCEPT ![r] = Idle]

\* A step of r that changes nothing but what r holds.
Private == UNCHANGED <<bookings, slots, started, faults, history>>

Put(r, doc) ==
  /\ bookings' = [bookings EXCEPT ![req[r].booking] = doc]
  /\ Return(r)

\* The transitions of SERVICE_TRANSITIONS.
Transitions ==
  [absent |-> {}, requested |-> {"assigned", "cancelled"},
   assigned |-> {"in_progress", "requested", "cancelled"},
   in_progress |-> {"completed", "cancelled"}, completed |-> {}, cancelled |-> {}]

CanMove(from, to) == to \in Transitions[from]

\* Slip: an operator at work is taken to be free.
BusyUntilStarted(x, w, b) ==
  \E c \in Bookings \ {b} :
    bookings[c].by = x /\ bookings[c].window = w /\ bookings[c].status = "assigned"

\* commitmentsFor, and whether one of them clashes with window w.
Busy(x, w, b) ==
  \E c \in Bookings \ {b} :
    bookings[c].by = x /\ bookings[c].window = w /\ bookings[c].status \notin Finished

Taken(w, b) ==
  {c \in Bookings \ {b} : bookings[c].window = w /\ bookings[c].status \notin {"absent", "cancelled"}}

HasRoom(w, b) == Cardinality(Taken(w, b)) < Capacity

\* Slip: nobody waits.
NobodyInside(w) == FALSE

\* oneBookingAtATime: somebody is counting and writing in window w.
Inside(w) == \E r \in Requests : req[r].window = w /\ req[r].pc \in {"write", "reread", "check", "place"}

-----------------------------------------------------------------------------
(* create *)

CreateStart(r, w) ==
  /\ Begin(r, [Idle EXCEPT !.pc = "gate", !.window = w])
  /\ UNCHANGED slips

CreateCount(r) ==
  /\ req[r].pc = "gate"
  /\ ~Inside(req[r].window)
  /\ IF HasRoom(req[r].window, NoBooking) THEN Goto(r, "write") ELSE Return(r)
  /\ Private

Requested(w) == [status |-> "requested", window |-> w, by |-> NoOne]

CreateWrite(r, b) ==
  /\ req[r].pc = "write"
  /\ bookings[b] = Absent
  /\ bookings' = [bookings EXCEPT ![b] = Requested(req[r].window)]
  /\ Return(r)
  /\ UNCHANGED <<slots, started, faults, history>>

-----------------------------------------------------------------------------
(* reschedule: the status is judged before the gate, the document read inside *)

MoveStart(r, b, w) ==
  /\ bookings[b].status \notin Finished
  /\ Begin(r, [Idle EXCEPT !.pc = "moving", !.booking = b, !.window = w, !.by = bookings[b].by])
  /\ UNCHANGED slips

MoveCount(r) ==
  /\ req[r].pc = "moving"
  /\ ~Inside(req[r].window)
  /\ IF HasRoom(req[r].window, req[r].booking) THEN Goto(r, "reread") ELSE Return(r)
  /\ Private

MoveReread(r) ==
  /\ req[r].pc = "reread"
  /\ LET doc == [bookings[req[r].booking] EXCEPT !.window = req[r].window] IN
     req' = [req EXCEPT ![r].doc = doc, ![r].pc = IF doc.by = NoOne THEN "place" ELSE "check"]
  /\ Private

\* An operator who is not free in the new window is let go.
MoveCheck(r) ==
  /\ req[r].pc = "check"
  /\ IF Busy(req[r].doc.by, req[r].window, req[r].booking)
     THEN req' = [req EXCEPT ![r].pc = "place", ![r].doc = Requested(req[r].window)]
     ELSE Goto(r, "place")
  /\ Private

MovePlace(r) ==
  /\ req[r].pc = "place"
  /\ Put(r, req[r].doc)
  /\ seated' = seated \ {req[r].booking}
  /\ UNCHANGED <<slots, started, faults, sold, met, slips>>

-----------------------------------------------------------------------------
(* assign, and moveTo for start, complete and cancel *)

AssignStart(r, b, x) ==
  /\ bookings[b].status # "absent"
  /\ ~(bookings[b].status = "assigned" /\ bookings[b].by \notin {NoOne, x})
  /\ Begin(r, [Idle EXCEPT !.pc = "clash", !.booking = b, !.by = x, !.doc = bookings[b]])
  /\ UNCHANGED slips

AssignCheck(r) ==
  /\ req[r].pc = "clash"
  /\ IF Busy(req[r].by, req[r].doc.window, req[r].booking) THEN Return(r) ELSE Goto(r, "take")
  /\ Private

AssignRead(r) ==
  /\ req[r].pc = "take"
  /\ LET doc == bookings[req[r].booking] IN
     IF CanMove(doc.status, "assigned")
     THEN req' = [req EXCEPT ![r].pc = "put",
                             ![r].doc = [doc EXCEPT !.status = "assigned", !.by = req[r].by]]
     ELSE Return(r)
  /\ Private

MoveTo(r, b, to) ==
  /\ CanMove(bookings[b].status, to)
  /\ Begin(r, [Idle EXCEPT !.pc = "put", !.booking = b, !.doc = [bookings[b] EXCEPT !.status = to]])
  /\ UNCHANGED slips

MoveToPut(r) ==
  /\ req[r].pc = "put"
  /\ Put(r, req[r].doc)
  /\ UNCHANGED <<slots, started, faults, history>>

-----------------------------------------------------------------------------
(* createServiceSlot, behind a gate of its own *)

OpenStart(r, w) ==
  /\ Begin(r, [Idle EXCEPT !.pc = "queue", !.window = w])
  /\ UNCHANGED slips

\* Slip: creations do not wait for one another.
NobodyOpening(w) == FALSE

Opening(w) == \E r \in Requests : req[r].pc = "open" /\ req[r].window = w

OpenFind(r) ==
  /\ req[r].pc = "queue"
  /\ ~Opening(req[r].window)
  /\ IF \E s \in Slots : slots[s].window = req[r].window THEN Return(r) ELSE Goto(r, "open")
  /\ Private

OpenPut(r, s) ==
  /\ req[r].pc = "open"
  /\ slots[s] = NotOpen
  /\ slots' = [slots EXCEPT ![s] = [window |-> req[r].window, left |-> Seats]]
  /\ Return(r)
  /\ UNCHANGED <<bookings, started, faults, history>>

-----------------------------------------------------------------------------
(* A booking from a slot: the route reserves, createFromSlot writes, and    *)
(* whatever is thrown after the reservation releases it                     *)

Slip(w) == slips' = [slips EXCEPT ![w] = @ + 1]

\* reserveServiceSlot reads and, in a later step, puts: to begin beside another request
\* at the same slot is a reason for a seat to be sold twice.
SeatStart(r, s) ==
  /\ slots[s].left > 0
  /\ Begin(r, [Idle EXCEPT !.pc = "reserve", !.slot = s, !.left = slots[s].left,
                           !.window = slots[s].window])
  /\ IF \E q \in Requests : req[q].slot = s THEN Slip(slots[s].window) ELSE UNCHANGED slips

SetLeft(r, left) == slots' = [slots EXCEPT ![req[r].slot].left = left]

SeatReserve(r) ==
  /\ req[r].pc = "reserve"
  /\ SetLeft(r, req[r].left - 1)
  /\ Goto(r, "book")
  /\ UNCHANGED <<bookings, started, faults, history>>

SeatBook(r, b) ==
  /\ req[r].pc = "book"
  /\ bookings[b] = Absent
  /\ bookings' = [bookings EXCEPT ![b] = Requested(req[r].window)]
  /\ sold' = [sold EXCEPT ![req[r].window] = @ + 1]
  /\ seated' = seated \union {b}
  /\ Goto(r, "tell")
  /\ UNCHANGED <<slots, started, faults, met, slips>>

\* The service was withdrawn.
SeatRefuse(r) == req[r].pc = "book" /\ Goto(r, "returning") /\ Private

SeatDone(r) == req[r].pc = "tell" /\ Return(r) /\ Private

\* The notification or the audit rejects: the seat is released and the booking stands.
SeatUpset(r) ==
  /\ req[r].pc = "tell"
  /\ faults < MaxFaults
  /\ faults' = faults + 1
  /\ Slip(req[r].window)
  /\ Goto(r, "returning")
  /\ UNCHANGED <<bookings, slots, started, sold, seated, met>>

GiveBackRead(r) ==
  /\ req[r].pc = "returning"
  /\ req' = [req EXCEPT ![r].pc = "release", ![r].left = slots[req[r].slot].left]
  /\ Private

GiveBackPut(r) ==
  /\ req[r].pc = "release"
  /\ SetLeft(r, IF req[r].left < Seats THEN req[r].left + 1 ELSE Seats)
  /\ Return(r)
  /\ UNCHANGED <<bookings, started, faults, history>>

\* The process stops, or a store call that nothing catches rejects.
Lose(r) ==
  /\ Active(r)
  /\ faults < MaxFaults
  /\ faults' = faults + 1
  /\ Return(r)
  /\ UNCHANGED <<bookings, slots, started, history>>

-----------------------------------------------------------------------------
(* The specification *)

Init ==
  /\ bookings = [b \in Bookings |-> Absent]
  /\ slots = [s \in Slots |-> NotOpen]
  /\ req = [r \in Requests |-> Idle]
  /\ started = 0
  /\ faults = 0
  /\ sold = [w \in Windows |-> 0]
  /\ seated = {}
  /\ met = {}
  /\ slips = [w \in Windows |-> 0]

Arrive(r) ==
  \/ \E w \in Windows : CreateStart(r, w) \/ OpenStart(r, w)
  \/ \E s \in Slots : SeatStart(r, s)
  \/ \E b \in Bookings :
       \/ \E w \in Windows : MoveStart(r, b, w)
       \/ \E x \in Operators : AssignStart(r, b, x)
       \/ \E to \in {"in_progress", "completed", "cancelled"} : MoveTo(r, b, to)

Continue(r) ==
  \/ CreateCount(r) \/ MoveCount(r) \/ MoveReread(r) \/ MoveCheck(r) \/ MovePlace(r)
  \/ AssignCheck(r) \/ AssignRead(r) \/ MoveToPut(r)
  \/ OpenFind(r) \/ \E s \in Slots : OpenPut(r, s)
  \/ SeatReserve(r) \/ SeatRefuse(r) \/ SeatDone(r) \/ GiveBackRead(r) \/ GiveBackPut(r)
  \/ \E b \in Bookings : CreateWrite(r, b) \/ SeatBook(r, b)

Next == \E r \in Requests : Arrive(r) \/ Continue(r) \/ SeatUpset(r) \/ Lose(r)

Spec == Init /\ [][Next]_vars

-----------------------------------------------------------------------------
(* Properties *)

TypeOK ==
  /\ bookings \in [Bookings -> Booking]
  /\ slots \in [Slots -> [window : Windows \union {NoWindow}, left : 0..Seats]]
  /\ started \in 0..MaxRequests
  /\ faults \in 0..MaxFaults
  /\ sold \in [Windows -> Nat]
  /\ seated \subseteq Bookings
  /\ met \subseteq Bookings \union Operators
  /\ slips \in [Windows -> Nat]

\* A window of the timetable takes no more bookings than it has places, by creation and
\* by rescheduling together.  Not counted: bookings from a seat, which no gate guards,
\* and those two requests were busy with at once, since a stale put may bring back a
\* cancelled one after its place was taken.
WindowNotOverbooked ==
  \A w \in Windows :
    Cardinality({b \in Taken(w, NoBooking) : b \notin met \union seated}) <= Capacity

\* No operator has two bookings of the same window, unless two requests were busy with
\* the operator, or with one of the bookings, at once.
NobodyInTwoPlaces ==
  \A x \in Operators \ met, b, c \in Bookings \ met :
    /\ b # c
    /\ bookings[b].window = bookings[c].window
    /\ {bookings[b].status, bookings[c].status} \intersect Finished = {}
    => ~(bookings[b].by = x /\ bookings[c].by = x)

\* In a window the slots of the day sell the seats of one slot, once each; one more only
\* for two reservations at once, or for a booking that was made and then failed.
SeatsSoldOnce == \A w \in Windows : sold[w] <= Seats + slips[w]

=============================================================================
