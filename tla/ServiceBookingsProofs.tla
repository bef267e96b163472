----------------------- MODULE ServiceBookingsProofs -----------------------
(***************************************************************************)
(* ServiceBookings, for any bookings, windows, slots, operators and         *)
(* requests.                                                               *)
(*                                                                         *)
(* TypeInv    what a request holds, by what it is doing                    *)
(* WorkInv    what a request knows of its booking and its operator, and    *)
(*            that nobody is in two places                                 *)
(* SeatInv    where the seats of a slot are                                *)
(* RoomInv    who is inside a window's gate, and the room there            *)
(*                                                                         *)
(* The gate is the chain of promises of OneAtATime; the last section is    *)
(* about that chain, for any calls and keys.                               *)
(***************************************************************************)
EXTENDS ServiceBookings, FiniteSetTheorems, TLAPS

(***************************************************************************)
(* What a request holds, by what it is doing                               *)
(***************************************************************************)
Waiting == {"gate", "queue", "open"}
Counting == {"write", "reread", "check", "place"}
Moving == {"moving", "reread", "check", "place"}
Handling == {"clash", "take", "put"}
Buying == {"reserve", "book", "tell", "returning", "release"}

Job == [pc : {"idle"} \union Waiting \union Counting \union Moving \union Handling \union Buying,
        booking : Bookings \union {NoBooking}, window : Windows \union {NoWindow},
        by : Operators \union {NoOne}, slot : Slots \union {NoSlot}, left : 0..Seats, doc : Booking]

Shape(job) ==
  /\ job.booking \in Bookings <=> job.pc \in Moving \union Handling
  /\ job.slot \in Slots <=> job.pc \in Buying
  /\ job.window \in Windows <=> job.pc \in Waiting \union Counting \union Moving \union Buying
  /\ job.by # NoOne => job.pc \in Moving \union Handling
  /\ job.pc \in {"clash", "take"} => job.by \in Operators
  /\ job.pc = "reserve" => job.left > 0
  /\ job.pc \in {"check", "place"} => job.doc.window = job.window

TypeInv ==
  /\ TypeOK
  /\ req \in [Requests -> Job]
  /\ \A r \in Requests : Shape(req[r])
  /\ \A s \in Slots : slots[s].window = NoWindow => slots[s].left = 0
  /\ \A r \in Requests : req[r].slot \in Slots => slots[req[r].slot].window = req[r].window

-----------------------------------------------------------------------------
(* The seats of a window *)

\* One slot to a window, and a request buys of one that is open.
OneSlot ==
  /\ \A s, t \in Slots : s # t /\ slots[s].window = slots[t].window => slots[s].window = NoWindow
  /\ \A r \in Requests : req[r].pc = "open" => \A s \in Slots : slots[s].window # req[r].window
  /\ \A q, r \in Requests :
       q # r /\ req[q].pc = "open" /\ req[r].pc = "open" => req[q].window # req[r].window
  /\ \A w \in Windows : sold[w] # 0 => \E s \in Slots : slots[s].window = w

\* Those who have a seat, or are about to have or to give back one, beside the sold ones.
Buyers(s) == {r \in Requests : req[r].slot = s /\ req[r].pc # "tell"}

Gone(s) == sold[slots[s].window] + Cardinality(Buyers(s))
Given(s) == Seats + slips[slots[s].window]

\* Nobody at the slot has written its counter yet.
Untouched(s) ==
  /\ \E r \in Requests : req[r].slot = s
  /\ \A r \in Requests : req[r].slot = s => req[r].pc = "reserve"

\* What is left in the slot, and what is left in each copy about to be put.
SeatsAddUp(s) ==
  /\ Gone(s) + slots[s].left <= Given(s) + (IF Untouched(s) THEN 1 ELSE 0)
  /\ \A r \in Requests : req[r].slot = s =>
       /\ req[r].pc = "reserve" => Gone(s) + req[r].left <= Given(s) + 1
       /\ req[r].pc = "release" => Gone(s) + req[r].left <= Given(s)

SeatInv ==
  /\ TypeInv
  /\ OneSlot
  /\ \A s \in Slots : slots[s].window # NoWindow => SeatsAddUp(s)

-----------------------------------------------------------------------------
(* The bookings a request is about *)

Working(b) == bookings[b].status \notin Finished

\* Nobody but b has operator x in window w.
Clear(x, w, b) ==
  \A c \in Bookings \ (met \union {b}) :
    ~(bookings[c].by = x /\ bookings[c].window = w /\ Working(c))

\* What a request that met nobody knows of its booking.
Knows(job) ==
  LET b == job.booking IN
  /\ job.pc \in {"moving", "reread"} => Working(b) /\ job.by = bookings[b].by
  /\ job.pc \in {"check", "place"} =>
       Working(b) /\ job.by = bookings[b].by /\ job.doc.by \in {job.by, NoOne}
  /\ job.pc \in {"clash", "take"} => job.doc = bookings[b]
  /\ job.pc = "put" =>
       /\ Working(b) /\ job.doc.window = bookings[b].window
       /\ job.by = NoOne => job.doc.by = bookings[b].by
       /\ job.by # NoOne => job.doc.by = job.by

\* The operator a request is about to put on its booking has been found free.
FoundFree(job) ==
  \/ job.pc \notin {"take", "put", "place"}
  \/ job.by = NoOne
  \/ job.pc = "place" /\ job.doc.by = NoOne
  \/ Clear(job.by, job.doc.window, job.booking)

WorkInv ==
  /\ TypeInv
  /\ \A r \in Requests : req[r].booking \in Bookings =>
       /\ bookings[req[r].booking].status # "absent"
       /\ req[r].pc \in {"check", "place", "put"} => req[r].doc.status # "absent"
  /\ \A q, r \in Requests : q # r /\ Active(q) /\ Active(r) => Claims(q) \intersect Claims(r) \subseteq met
  /\ \A r \in Requests : req[r].booking \in Bookings \ met => Knows(req[r])
  /\ \A r \in Requests : req[r].booking \in Bookings \ met /\ req[r].by \notin met => FoundFree(req[r])
  /\ NobodyInTwoPlaces

-----------------------------------------------------------------------------
(* The places of a window *)

Counted(w) == {b \in Taken(w, NoBooking) : b \notin met \union seated}

RoomInv ==
  /\ WorkInv
  /\ \A q, r \in Requests :
       q # r /\ req[q].pc \in Counting /\ req[r].pc \in Counting => req[q].window # req[r].window
  /\ \A r \in Requests : req[r].pc \in Counting =>
       Cardinality(Counted(req[r].window) \ {req[r].booking}) < Capacity
  /\ WindowNotOverbooked

-----------------------------------------------------------------------------
(* Types *)

LEMMA IdleTyped == Idle \in Job /\ Shape(Idle) /\ Idle.pc = "idle" /\ Absent \in Booking
BY NoneIsNone, CountsAreNatural
   DEF Idle, Job, Shape, Absent, Booking, Waiting, Counting, Moving, Handling, Buying

\* Request r moves on to `job`.
LEMMA Turn ==
  ASSUME TypeInv, NEW r \in Requests, NEW job \in Job, Shape(job), req' = [req EXCEPT ![r] = job]
  PROVE  /\ req'[r] = job
         /\ \A q \in Requests \ {r} : req'[q] = req[q]
         /\ req' \in [Requests -> Job] /\ \A q \in Requests : Shape(req'[q])
BY DEF TypeInv

LEMMA GoesOn ==
  ASSUME TypeInv, NEW r \in Requests, NEW pc, Goto(r, pc),
         pc \in Waiting \union Counting \union Moving \union Handling \union Buying
  PROVE  \E job \in Job : /\ req' = [req EXCEPT ![r] = job] /\ job.pc = pc
                          /\ job.booking = req[r].booking /\ job.window = req[r].window
                          /\ job.by = req[r].by /\ job.slot = req[r].slot
                          /\ job.left = req[r].left /\ job.doc = req[r].doc
<1> DEFINE job == [req[r] EXCEPT !.pc = pc]
<1>1. req' = [req EXCEPT ![r] = job]
  BY DEF Goto, TypeInv
<1>2. /\ job \in Job /\ job.pc = pc /\ job.booking = req[r].booking /\ job.window = req[r].window
      /\ job.by = req[r].by /\ job.slot = req[r].slot /\ job.left = req[r].left /\ job.doc = req[r].doc
  BY DEF TypeInv, Job
<1> HIDE DEF job
<1> QED
  BY <1>1, <1>2

LEMMA Counters ==
  ASSUME TypeInv, NEW s \in Slots
  PROVE  /\ slots[s].left \in 0..Seats /\ slots[s].left \in Nat /\ slots[s].window \in Windows \union {NoWindow}
         /\ slots[s].left > 0 => slots[s].window \in Windows
<1>1. slots[s] \in [window : Windows \union {NoWindow}, left : 0..Seats]
  BY DEF TypeInv, TypeOK
<1>2. slots[s].left \in 0..Seats /\ slots[s].window \in Windows \union {NoWindow}
  BY <1>1
<1>3. slots[s].window = NoWindow => slots[s].left = 0
  BY DEF TypeInv
<1> QED
  BY <1>2, <1>3, CountsAreNatural

\* A request begins, goes on with what it holds, or returns.
LEMMA ReqTyped ==
  ASSUME TypeInv, NEW r \in Requests, Arrive(r) \/ Continue(r) \/ SeatUpset(r) \/ Lose(r)
  PROVE  \E job \in Job : req' = [req EXCEPT ![r] = job] /\ Shape(job)
<1> DEFINE j == req[r]
           Fine == \E job \in Job : req' = [req EXCEPT ![r] = job] /\ Shape(job)
<1>0. /\ j \in Job /\ Shape(j) /\ TypeOK
      /\ \A b \in Bookings : bookings[b] \in Booking
  BY DEF TypeInv, TypeOK
<1>1. Return(r) => Fine
  BY IdleTyped DEF Return
<1>2. ASSUME NEW pc, Goto(r, pc),
             pc \in Waiting \union Counting \union Moving \union Handling \union Buying,
             /\ pc \in Moving \union Handling <=> j.pc \in Moving \union Handling
             /\ pc \in Buying <=> j.pc \in Buying
             /\ pc \in Waiting \union Counting \union Moving \union Buying
                <=> j.pc \in Waiting \union Counting \union Moving \union Buying
             /\ pc \in {"clash", "take"} => j.by \in Operators
             /\ pc # "reserve"
             /\ pc \in {"check", "place"} => j.pc = "check"
      PROVE  Fine
  <2>1. PICK job \in Job : /\ req' = [req EXCEPT ![r] = job] /\ job.pc = pc
                           /\ job.booking = j.booking /\ job.window = j.window
                           /\ job.by = j.by /\ job.slot = j.slot
                           /\ job.left = j.left /\ job.doc = j.doc
    BY <1>2, GoesOn
  <2>2. Shape(job)
    BY <1>0, <1>2, <2>1 DEF Shape
  <2> QED
    BY <2>1, <2>2
<1>3. ASSUME NEW job, Begin(r, job), job \in Job, Shape(job) PROVE Fine
  BY <1>3 DEF Begin
<1>4. CASE \E w \in Windows : CreateStart(r, w) \/ OpenStart(r, w)
  <2>1. PICK w \in Windows, pc \in {"gate", "queue"} : Begin(r, [Idle EXCEPT !.pc = pc, !.window = w])
    BY <1>4 DEF CreateStart, OpenStart
  <2>2. [Idle EXCEPT !.pc = pc, !.window = w] \in Job /\ Shape([Idle EXCEPT !.pc = pc, !.window = w])
    BY <2>1, IdleTyped, NoneIsNone DEF Idle, Job, Shape, Waiting, Counting, Moving, Handling, Buying
  <2> QED
    BY <1>3, <2>1, <2>2
<1>5. CASE \E s \in Slots : SeatStart(r, s)
  <2>1. PICK s \in Slots : SeatStart(r, s)
    BY <1>5
  <2> DEFINE job == [Idle EXCEPT !.pc = "reserve", !.slot = s, !.left = slots[s].left, !.window = slots[s].window]
  <2>2. Begin(r, job) /\ slots[s].left > 0
    BY <2>1 DEF SeatStart
  <2>3. slots[s].left \in 0..Seats /\ slots[s].window \in Windows
    BY <2>2, Counters
  <2>4. /\ job.pc = "reserve" /\ job.slot = s /\ job.left = slots[s].left /\ job.window = slots[s].window
        /\ job.booking = NoBooking /\ job.by = NoOne /\ job.doc = Absent
        /\ job \in [pc : {"reserve"}, booking : {NoBooking}, window : {slots[s].window}, by : {NoOne},
                    slot : {s}, left : {slots[s].left}, doc : {Absent}]
    BY DEF Idle
  <2> HIDE DEF job
  <2>5. job \in Job
    BY <2>3, <2>4, IdleTyped DEF Job, Buying
  <2>6. Shape(job)
    BY <2>2, <2>3, <2>4, NoneIsNone DEF Shape, Waiting, Counting, Moving, Handling, Buying
  <2> QED
    BY <1>3, <2>2, <2>5, <2>6
<1>6. CASE \E b \in Bookings, w \in Windows : MoveStart(r, b, w)
  <2>1. PICK b \in Bookings, w \in Windows : MoveStart(r, b, w)
    BY <1>6
  <2> DEFINE job == [Idle EXCEPT !.pc = "moving", !.booking = b, !.window = w, !.by = bookings[b].by]
  <2>2. bookings[b].by \in Operators \union {NoOne}
    BY <1>0 DEF Booking
  <2>3. job \in Job /\ Shape(job)
    BY <2>2, IdleTyped, NoneIsNone DEF Idle, Job, Shape, Waiting, Counting, Moving, Handling, Buying
  <2> QED
    BY <1>3, <2>1, <2>3 DEF MoveStart
<1>7. CASE \E b \in Bookings, x \in Operators : AssignStart(r, b, x)
  <2>1. PICK b \in Bookings, x \in Operators : AssignStart(r, b, x)
    BY <1>7
  <2> DEFINE job == [Idle EXCEPT !.pc = "clash", !.booking = b, !.by = x, !.doc = bookings[b]]
  <2>2. job \in Job /\ Shape(job)
    BY <1>0, IdleTyped, NoneIsNone, NamesDiffer DEF Idle, Job, Shape, Waiting, Counting, Moving, Handling, Buying
  <2> QED
    BY <1>3, <2>1, <2>2 DEF AssignStart
<1>8. CASE \E b \in Bookings, to \in {"in_progress", "completed", "cancelled"} : MoveTo(r, b, to)
  <2>1. PICK b \in Bookings, to \in {"in_progress", "completed", "cancelled"} : MoveTo(r, b, to)
    BY <1>8
  <2> DEFINE doc == [bookings[b] EXCEPT !.status = to]
             job == [Idle EXCEPT !.pc = "put", !.booking = b, !.doc = doc]
  <2>3. doc \in Booking
    BY <1>0 DEF Booking
  <2>4. Begin(r, job)
    BY <2>1 DEF MoveTo
  <2> HIDE DEF doc
  <2>2. job \in Job /\ Shape(job)
    BY <2>3, IdleTyped, NoneIsNone DEF Idle, Job, Shape, Waiting, Counting, Moving, Handling, Buying
  <2> QED
    BY <1>3, <2>2, <2>4
<1>9. CASE MoveReread(r)
  <2> DEFINE doc == [bookings[j.booking] EXCEPT !.window = j.window]
             job == [j EXCEPT !.doc = doc, !.pc = IF doc.by = NoOne THEN "place" ELSE "check"]
  <2>1. j.booking \in Bookings /\ j.window \in Windows /\ j.pc = "reread"
    BY <1>0, <1>9 DEF MoveReread, Shape, Moving
  <2>2. req' = [req EXCEPT ![r] = job]
    BY <1>9 DEF MoveReread, TypeInv
  <2>3. doc \in Booking /\ doc.window = j.window
    BY <1>0, <2>1 DEF Booking
  <2> HIDE DEF doc
  <2>4. job \in Job /\ Shape(job)
    BY <1>0, <2>1, <2>3 DEF Job, Shape, Waiting, Counting, Moving, Handling, Buying
  <2> QED
    BY <2>2, <2>4
<1>10. CASE MoveCheck(r)
  <2>1. j.booking \in Bookings /\ j.window \in Windows /\ j.pc = "check"
    BY <1>0, <1>10 DEF MoveCheck, Shape, Moving
  <2>2. CASE Goto(r, "place")
    BY <1>2, <2>1, <2>2 DEF Waiting, Counting, Moving, Handling, Buying
  <2>3. CASE req' = [req EXCEPT ![r].pc = "place", ![r].doc = Requested(j.window)]
    <3> DEFINE job == [j EXCEPT !.pc = "place", !.doc = Requested(j.window)]
    <3>1. req' = [req EXCEPT ![r] = job]
      BY <2>3 DEF TypeInv
    <3>2. Requested(j.window) \in Booking /\ Requested(j.window).window = j.window
      BY <2>1 DEF Requested, Booking
    <3>3. job \in Job /\ Shape(job)
      BY <1>0, <2>1, <3>2 DEF Job, Shape, Waiting, Counting, Moving, Handling, Buying
    <3> QED
      BY <3>1, <3>3
  <2> QED
    BY <1>10, <2>2, <2>3 DEF MoveCheck
<1>11. CASE AssignRead(r)
  <2> DEFINE doc == [bookings[j.booking] EXCEPT !.status = "assigned", !.by = j.by]
             job == [j EXCEPT !.pc = "put", !.doc = doc]
  <2>1. j.booking \in Bookings /\ j.by \in Operators /\ j.pc = "take"
    BY <1>0, <1>11 DEF AssignRead, Shape, Handling
  <2>2. CASE req' = [req EXCEPT ![r].pc = "put", ![r].doc = doc]
    <3>1. req' = [req EXCEPT ![r] = job]
      BY <2>2 DEF TypeInv
    <3>2. doc \in Booking
      BY <1>0, <2>1 DEF Booking
    <3> HIDE DEF doc
    <3>3. job \in Job /\ Shape(job)
      BY <1>0, <2>1, <3>2 DEF Job, Shape, Waiting, Counting, Moving, Handling, Buying
    <3> QED
      BY <3>1, <3>3
  <2> QED
    BY <1>1, <1>11, <2>2 DEF AssignRead
<1>12. CASE CreateCount(r) \/ MoveCount(r) \/ AssignCheck(r) \/ OpenFind(r)
  BY <1>0, <1>1, <1>2, <1>12 DEF CreateCount, MoveCount, AssignCheck, OpenFind, Shape,
     Waiting, Counting, Moving, Handling, Buying
<1>13. CASE SeatReserve(r) \/ SeatRefuse(r) \/ SeatUpset(r) \/ \E b \in Bookings : SeatBook(r, b)
  BY <1>2, <1>13 DEF SeatReserve, SeatRefuse, SeatUpset, SeatBook, Waiting, Counting, Moving, Handling, Buying
<1>14. CASE GiveBackRead(r)
  <2> DEFINE job == [j EXCEPT !.pc = "release", !.left = slots[j.slot].left]
  <2>1. j.slot \in Slots /\ j.pc = "returning"
    BY <1>0, <1>14 DEF GiveBackRead, Shape, Buying
  <2>4. slots[j.slot].left \in 0..Seats
    BY <2>1, Counters
  <2>2. req' = [req EXCEPT ![r] = job]
    BY <1>14 DEF GiveBackRead, TypeInv
  <2>3. job \in Job /\ Shape(job)
    BY <1>0, <2>1, <2>4 DEF Job, Shape, Waiting, Counting, Moving, Handling, Buying
  <2> QED
    BY <2>2, <2>3
<1>15. CASE \/ MovePlace(r) \/ MoveToPut(r) \/ SeatDone(r) \/ GiveBackPut(r) \/ Lose(r)
            \/ (\E s \in Slots : OpenPut(r, s)) \/ \E b \in Bookings : CreateWrite(r, b)
  BY <1>1, <1>15 DEF MovePlace, MoveToPut, Put, SeatDone, GiveBackPut, Lose, OpenPut, CreateWrite
<1> QED
  BY <1>4, <1>5, <1>6, <1>7, <1>8, <1>9, <1>10, <1>11, <1>12, <1>13, <1>14, <1>15 DEF Arrive, Continue

\* One put of a booking, one of a slot.
LEMMA Puts ==
  ASSUME TypeInv
  PROVE  /\ \A b \in Bookings, doc \in Booking : [bookings EXCEPT ![b] = doc] \in [Bookings -> Booking]
         /\ \A s \in Slots, slot \in [window : Windows \union {NoWindow}, left : 0..Seats] :
              [slots EXCEPT ![s] = slot] \in [Slots -> [window : Windows \union {NoWindow}, left : 0..Seats]]
         /\ \A w \in Windows : [sold EXCEPT ![w] = @ + 1] \in [Windows -> Nat]
                               /\ [slips EXCEPT ![w] = @ + 1] \in [Windows -> Nat]
<1>1. /\ bookings \in [Bookings -> Booking] /\ sold \in [Windows -> Nat] /\ slips \in [Windows -> Nat]
      /\ slots \in [Slots -> [window : Windows \union {NoWindow}, left : 0..Seats]]
  BY DEF TypeInv, TypeOK
<1> QED
  BY <1>1

LEMMA MeetingTyped ==
  ASSUME TypeInv, NEW r \in Requests, NEW job \in Job
  PROVE  Meeting(r, job) \subseteq Bookings \union Operators
<1>1. \A q \in Requests : Claims(q) \subseteq Bookings \union Operators
  BY DEF Claims, TypeInv, Job
<1> QED
  BY <1>1 DEF Meeting

\* What each step writes.
LEMMA StepTyped ==
  ASSUME TypeInv, NEW r \in Requests, Arrive(r) \/ Continue(r) \/ SeatUpset(r) \/ Lose(r)
  PROVE  TypeOK' /\ \A s \in Slots : slots'[s].window = NoWindow => slots'[s].left = 0
<1> DEFINE j == req[r]
<1>0. /\ j \in Job /\ Shape(j) /\ TypeOK
      /\ \A s \in Slots : slots[s].window = NoWindow => slots[s].left = 0
  BY DEF TypeInv
<1>1. ASSUME NEW job, Begin(r, job), job \in Job,
             slips' = slips \/ \E w \in Windows : Slip(w)
      PROVE  TypeOK' /\ slots' = slots
  <2>1. slips' \in [Windows -> Nat]
    BY <1>0, <1>1, Puts DEF Slip, TypeOK
  <2>2. met' \subseteq Bookings \union Operators
    BY <1>0, <1>1, MeetingTyped DEF Begin, TypeOK
  <2>3. started' \in 0..MaxRequests
    BY <1>0, <1>1, CountsAreNatural DEF Begin, TypeOK
  <2> QED
    BY <1>0, <1>1, <2>1, <2>2, <2>3 DEF Begin, TypeOK
<1>2. Arrive(r) => TypeOK' /\ slots' = slots
  <2> SUFFICES ASSUME Arrive(r) PROVE TypeOK' /\ slots' = slots
    OBVIOUS
  <2>1. PICK job \in Job : req' = [req EXCEPT ![r] = job] /\ Shape(job)
    BY ReqTyped
  <2>2. req'[r] = job
    BY <2>1, Turn
  <2>3. PICK first : Begin(r, first)
    BY DEF Arrive, CreateStart, OpenStart, SeatStart, MoveStart, AssignStart, MoveTo
  <2>4. first = job
    BY <2>2, <2>3 DEF Begin, TypeInv
  <2>5. slips' = slips \/ \E w \in Windows : Slip(w)
    <3>1. CASE \E s \in Slots : SeatStart(r, s)
      <4>1. PICK s \in Slots : SeatStart(r, s)
        BY <3>1
      <4> QED
        BY <4>1, Counters DEF SeatStart
    <3> QED
      BY <3>1 DEF Arrive, CreateStart, OpenStart, MoveStart, AssignStart, MoveTo
  <2> QED
    BY <1>1, <2>3, <2>4, <2>5
<1>3. Private => TypeOK' /\ slots' = slots
  BY <1>0 DEF Private, history, TypeOK
<1>4. CASE CreateCount(r) \/ MoveCount(r) \/ MoveReread(r) \/ MoveCheck(r) \/ AssignCheck(r) \/ AssignRead(r)
           \/ OpenFind(r) \/ SeatRefuse(r) \/ SeatDone(r) \/ GiveBackRead(r)
  BY <1>0, <1>3, <1>4 DEF CreateCount, MoveCount, MoveReread, MoveCheck, AssignCheck, AssignRead,
     OpenFind, SeatRefuse, SeatDone, GiveBackRead
<1>5. CASE \E b \in Bookings : CreateWrite(r, b)
  <2>1. j.window \in Windows
    BY <1>0, <1>5 DEF CreateWrite, Shape, Counting
  <2>2. Requested(j.window) \in Booking
    BY <2>1 DEF Requested, Booking
  <2>3. bookings' \in [Bookings -> Booking]
    BY <1>5, <2>2, Puts DEF CreateWrite
  <2> QED
    BY <1>0, <1>5, <2>3 DEF CreateWrite, history, TypeOK
<1>6. CASE MovePlace(r) \/ MoveToPut(r)
  <2>1. j.booking \in Bookings /\ j.doc \in Booking
    BY <1>0, <1>6 DEF MovePlace, MoveToPut, Shape, Moving, Handling, Job
  <2>2. bookings' = [bookings EXCEPT ![j.booking] = j.doc]
    BY <1>6 DEF MovePlace, MoveToPut, Put
  <2>3. bookings' \in [Bookings -> Booking]
    BY <2>1, <2>2, Puts
  <2> QED
    BY <1>0, <1>6, <2>3 DEF MovePlace, MoveToPut, history, TypeOK
<1>7. CASE \E s \in Slots : OpenPut(r, s)
  <2>1. PICK s \in Slots : OpenPut(r, s)
    BY <1>7
  <2> DEFINE slot == [window |-> j.window, left |-> Seats]
  <2>2. j.window \in Windows
    BY <1>0, <2>1 DEF OpenPut, Shape, Waiting
  <2>3. slot \in [window : Windows \union {NoWindow}, left : 0..Seats] /\ slot.window # NoWindow
    BY <2>2, NoneIsNone, CountsAreNatural
  <2>4. slots' = [slots EXCEPT ![s] = slot] /\ UNCHANGED <<bookings, started, faults, history>>
    BY <2>1 DEF OpenPut
  <2> HIDE DEF slot
  <2>5. slots' \in [Slots -> [window : Windows \union {NoWindow}, left : 0..Seats]]
    BY <2>3, <2>4, Puts
  <2>6. TypeOK'
    BY <1>0, <2>4, <2>5 DEF history, TypeOK
  <2>7. \A t \in Slots : slots'[t] = IF t = s THEN slot ELSE slots[t]
    BY <1>0, <2>4 DEF TypeOK
  <2> QED
    BY <1>0, <2>3, <2>6, <2>7
<1>8. ASSUME NEW left \in 0..Seats, j.slot \in Slots, SetLeft(r, left), slots[j.slot].window \in Windows,
             UNCHANGED <<bookings, started, faults, history>>
      PROVE  TypeOK' /\ \A s \in Slots : slots'[s].window = NoWindow => slots'[s].left = 0
  <2> DEFINE slot == [slots[j.slot] EXCEPT !.left = left]
  <2>1. slots[j.slot] \in [window : Windows \union {NoWindow}, left : 0..Seats]
    BY <1>0, <1>8 DEF TypeOK
  <2>2. slot \in [window : Windows \union {NoWindow}, left : 0..Seats] /\ slot.window # NoWindow
    BY <1>8, <2>1, NoneIsNone
  <2>3. slots' = [slots EXCEPT ![j.slot] = slot]
    BY <1>0, <1>8 DEF SetLeft, TypeOK
  <2> HIDE DEF slot
  <2>4. slots' \in [Slots -> [window : Windows \union {NoWindow}, left : 0..Seats]]
    BY <1>8, <2>2, <2>3, Puts
  <2>5. TypeOK'
    BY <1>0, <1>8, <2>4 DEF history, TypeOK
  <2>6. \A t \in Slots : slots'[t] = IF t = j.slot THEN slot ELSE slots[t]
    BY <1>0, <2>3 DEF TypeOK
  <2> QED
    BY <1>0, <2>2, <2>5, <2>6
<1>9. CASE SeatUpset(r)
  <2>1. j.window \in Windows
    BY <1>0, <1>9 DEF SeatUpset, Shape, Buying
  <2>2. slips' \in [Windows -> Nat]
    BY <1>9, <2>1, Puts DEF SeatUpset, Slip
  <2>3. faults' \in 0..MaxFaults
    <3>1. faults \in 0..MaxFaults /\ MaxFaults \in Nat
      BY <1>0, CountsAreNatural DEF TypeOK
    <3>2. faults' = faults + 1 /\ faults < MaxFaults
      BY <1>9 DEF SeatUpset
    <3> QED
      BY <3>1, <3>2
  <2>4. UNCHANGED <<bookings, slots, started, sold, seated, met>>
    BY <1>9 DEF SeatUpset
  <2> QED
    BY <1>0, <2>2, <2>3, <2>4 DEF TypeOK
<1>10. CASE Lose(r)
  BY <1>0, <1>10, CountsAreNatural DEF Lose, history, TypeOK
<1>11. CASE \E b \in Bookings : SeatBook(r, b)
  <2>1. PICK b \in Bookings : SeatBook(r, b)
    BY <1>11
  <2>2. j.window \in Windows
    BY <1>0, <2>1 DEF SeatBook, Shape, Buying
  <2>3. Requested(j.window) \in Booking
    BY <2>2 DEF Requested, Booking
  <2>4. bookings' \in [Bookings -> Booking] /\ sold' \in [Windows -> Nat]
    BY <2>1, <2>2, <2>3, Puts DEF SeatBook
  <2> QED
    BY <1>0, <2>1, <2>4 DEF SeatBook, TypeOK
<1>12. CASE SeatReserve(r) \/ GiveBackPut(r)
  <2>1. j.slot \in Slots /\ slots[j.slot].window \in Windows
    BY <1>0, <1>12 DEF SeatReserve, GiveBackPut, Shape, Buying, TypeInv
  <2>2. j.left \in 0..Seats /\ (j.pc = "reserve" => j.left > 0)
    BY <1>0 DEF Shape, Job
  <2>3. CASE SeatReserve(r)
    BY <1>8, <2>1, <2>2, <2>3, CountsAreNatural DEF SeatReserve
  <2>4. CASE GiveBackPut(r)
    BY <1>8, <2>1, <2>2, <2>4, CountsAreNatural DEF GiveBackPut
  <2> QED
    BY <1>12, <2>3, <2>4
<1> QED
  BY <1>0, <1>2, <1>4, <1>5, <1>6, <1>7, <1>9, <1>10, <1>11, <1>12 DEF Continue, MovePlace, MoveToPut,
     CreateWrite, SeatUpset, SeatBook, Lose, CreateCount, MoveCount, MoveReread, MoveCheck, AssignCheck,
     AssignRead, OpenFind, SeatRefuse, SeatDone, GiveBackRead, Private

\* A request at a slot stays at it until it is done, and a slot keeps its window.
LEMMA SlotKept ==
  ASSUME TypeInv, NEW r \in Requests, Arrive(r) \/ Continue(r) \/ SeatUpset(r) \/ Lose(r)
  PROVE  /\ req'[r].slot \in Slots =>
              slots[req'[r].slot].window = req'[r].window /\ slots[req'[r].slot].window \in Windows
         /\ \A s \in Slots : slots[s].window # NoWindow => slots'[s].window = slots[s].window
         /\ \A s \in Slots : slots'[s].window # slots[s].window => OpenPut(r, s)
<1> DEFINE j == req[r]
<1>0. /\ j \in Job /\ Shape(j) /\ TypeOK /\ req \in [Requests -> Job]
      /\ j.slot \in Slots => slots[j.slot].window = j.window /\ j.window \in Windows
  BY DEF TypeInv, Shape
<1>1. PICK job \in Job : req' = [req EXCEPT ![r] = job] /\ Shape(job)
  BY ReqTyped
<1>2. req'[r] = job
  BY <1>1, Turn
<1>3. ASSUME j.slot \in Slots => job.slot = j.slot /\ job.window = j.window,
             j.slot \notin Slots => job.slot \notin Slots
      PROVE  job.slot \in Slots => slots[job.slot].window = job.window /\ slots[job.slot].window \in Windows
  BY <1>0, <1>3
<1>4. Return(r) => job.slot \notin Slots
  BY <1>0, <1>2, IdleTyped, NoneIsNone DEF Return, Idle
<1>5. ASSUME NEW pc, Goto(r, pc) PROVE job.slot = j.slot /\ job.window = j.window
  BY <1>0, <1>2, <1>5 DEF Goto, Job
<1>6. CASE \E s \in Slots : SeatStart(r, s)
  <2>1. PICK s \in Slots : SeatStart(r, s)
    BY <1>6
  <2>2. job.slot = s /\ job.window = slots[s].window
    BY <1>0, <1>2, <2>1 DEF SeatStart, Begin, Idle
  <2>3. slots[s].window \in Windows /\ slots' = slots
    BY <2>1, Counters DEF SeatStart, Begin
  <2> QED
    BY <1>2, <2>2, <2>3
<1>7. CASE Arrive(r) /\ ~\E s \in Slots : SeatStart(r, s)
  <2>1. job.slot = NoSlot /\ slots' = slots
    <3>1. CASE \E w \in Windows : CreateStart(r, w) \/ OpenStart(r, w)
      BY <1>0, <1>2, <3>1 DEF CreateStart, OpenStart, Begin, Idle
    <3>2. CASE \E b \in Bookings, w \in Windows : MoveStart(r, b, w)
      BY <1>0, <1>2, <3>2 DEF MoveStart, Begin, Idle
    <3>3. CASE \E b \in Bookings, x \in Operators : AssignStart(r, b, x)
      BY <1>0, <1>2, <3>3 DEF AssignStart, Begin, Idle
    <3>4. CASE \E b \in Bookings, to \in {"in_progress", "completed", "cancelled"} : MoveTo(r, b, to)
      BY <1>0, <1>2, <3>4 DEF MoveTo, Begin, Idle
    <3> QED
      BY <1>7, <3>1, <3>2, <3>3, <3>4 DEF Arrive
  <2> QED
    BY <1>2, <2>1, NoneIsNone
<1>8. CASE MoveReread(r) \/ MoveCheck(r) \/ AssignRead(r) \/ GiveBackRead(r)
  <2>1. (job.slot = j.slot /\ job.window = j.window) \/ job.slot \notin Slots
    <3>1. CASE MoveReread(r)
      BY <1>0, <1>2, <3>1 DEF MoveReread, Job
    <3>2. CASE MoveCheck(r)
      BY <1>0, <1>2, <1>5, <3>2 DEF MoveCheck, Job
    <3>3. CASE AssignRead(r)
      BY <1>0, <1>2, <1>4, <3>3 DEF AssignRead, Job
    <3>4. CASE GiveBackRead(r)
      BY <1>0, <1>2, <3>4 DEF GiveBackRead, Job
    <3> QED
      BY <1>8, <3>1, <3>2, <3>3, <3>4
  <2>2. slots' = slots
    BY <1>8 DEF MoveReread, MoveCheck, AssignRead, GiveBackRead, Private
  <2> QED
    BY <1>0, <1>2, <2>1, <2>2
<1>9. CASE CreateCount(r) \/ MoveCount(r) \/ AssignCheck(r) \/ OpenFind(r) \/ SeatRefuse(r) \/ SeatDone(r)
           \/ SeatUpset(r) \/ Lose(r) \/ MovePlace(r) \/ MoveToPut(r)
           \/ \E b \in Bookings : CreateWrite(r, b) \/ SeatBook(r, b)
  <2>1. (job.slot = j.slot /\ job.window = j.window) \/ job.slot \notin Slots
    BY <1>4, <1>5, <1>9 DEF CreateCount, MoveCount, AssignCheck, OpenFind, SeatRefuse, SeatDone, SeatUpset,
       Lose, MovePlace, MoveToPut, Put, CreateWrite, SeatBook
  <2>2. slots' = slots
    BY <1>9 DEF CreateCount, MoveCount, AssignCheck, OpenFind, SeatRefuse, SeatDone, SeatUpset,
       Lose, MovePlace, MoveToPut, CreateWrite, SeatBook, Private
  <2> QED
    BY <1>0, <1>2, <2>1, <2>2
<1>10. CASE SeatReserve(r) \/ GiveBackPut(r)
  <2>1. (job.slot = j.slot /\ job.window = j.window) \/ job.slot \notin Slots
    BY <1>4, <1>5, <1>10 DEF SeatReserve, GiveBackPut
  <2>2. PICK left : SetLeft(r, left)
    BY <1>10 DEF SeatReserve, GiveBackPut
  <2>3. \A s \in Slots : slots'[s].window = slots[s].window
    BY <1>0, <2>2 DEF SetLeft, TypeOK
  <2> QED
    BY <1>0, <1>2, <2>1, <2>3
<1>11. CASE \E s \in Slots : OpenPut(r, s)
  <2>1. PICK s \in Slots : OpenPut(r, s)
    BY <1>11
  <2>2. job.slot \notin Slots /\ slots[s].window = NoWindow
    BY <1>4, <2>1 DEF OpenPut, NotOpen
  <2>3. \A t \in Slots \ {s} : slots'[t] = slots[t]
    BY <1>0, <2>1 DEF OpenPut, TypeOK
  <2> QED
    BY <1>2, <2>1, <2>2, <2>3
<1> QED
  BY <1>6, <1>7, <1>8, <1>9, <1>10, <1>11 DEF Continue

LEMMA NextTyped == TypeInv /\ [Next]_vars => TypeInv'
<1> SUFFICES ASSUME TypeInv, [Next]_vars PROVE TypeInv'
  OBVIOUS
<1>1. CASE UNCHANGED vars
  BY <1>1 DEF vars, history, TypeInv, TypeOK
<1>2. ASSUME NEW r \in Requests, Arrive(r) \/ Continue(r) \/ SeatUpset(r) \/ Lose(r)
      PROVE  TypeInv'
  <2>1. PICK job \in Job : req' = [req EXCEPT ![r] = job] /\ Shape(job)
    BY <1>2, ReqTyped
  <2>2. req'[r] = job /\ (\A q \in Requests \ {r} : req'[q] = req[q])
        /\ req' \in [Requests -> Job] /\ \A q \in Requests : Shape(req'[q])
    BY <2>1, Turn
  <2>3. TypeOK' /\ \A s \in Slots : slots'[s].window = NoWindow => slots'[s].left = 0
    BY <1>2, StepTyped
  <2>4. \A q \in Requests : req'[q].slot \in Slots => slots'[req'[q].slot].window = req'[q].window
    <3> SUFFICES ASSUME NEW q \in Requests, req'[q].slot \in Slots
                 PROVE  slots'[req'[q].slot].window = req'[q].window
      OBVIOUS
    <3>1. slots[req'[q].slot].window = req'[q].window /\ slots[req'[q].slot].window \in Windows
      <4>1. CASE q = r
        BY <1>2, <4>1, SlotKept
      <4>2. CASE q # r
        BY <2>2, <4>2 DEF TypeInv, Shape
      <4> QED
        BY <4>1, <4>2
    <3> QED
      BY <1>2, <3>1, SlotKept, NoneIsNone
  <2> QED
    BY <2>2, <2>3, <2>4 DEF TypeInv
<1> QED
  BY <1>1, <1>2 DEF Next

LEMMA InitTyped == Init => TypeInv
BY IdleTyped, NoneIsNone, CountsAreNatural DEF Init, TypeInv, TypeOK, NotOpen, Idle

-----------------------------------------------------------------------------
(* Work *)

Claimed(job) == {job.booking, job.by} \ {NoBooking, NoOne}

\* Request r moves on to `job`, which is about what r was about or meets those it meets.
Joins(r, job) ==
  \/ job.pc = "idle"
  \/ \A q \in Requests \ {r} : Active(q) => Claimed(job) \intersect Claims(q) \subseteq met'

\* What a request holds is as it should be.
Sound(job) ==
  /\ job.booking \in Bookings =>
       /\ bookings[job.booking].status # "absent"
       /\ job.pc \in {"check", "place", "put"} => job.doc.status # "absent"
  /\ job.booking \in Bookings \ met => Knows(job)
  /\ job.booking \in Bookings \ met /\ job.by \notin met => FoundFree(job)

\* Nobody writes a booking.
LEMMA WorkAside ==
  ASSUME WorkInv, TypeInv', NEW r \in Requests, NEW job \in Job, Shape(job), req' = [req EXCEPT ![r] = job],
         bookings' = bookings, met \subseteq met', Joins(r, job), Sound(job)
  PROVE  WorkInv'
<1>0. TypeInv /\ req'[r] = job /\ \A q \in Requests \ {r} : req'[q] = req[q]
  BY Turn DEF WorkInv
<1>1. ASSUME NEW j, Sound(j)
      PROVE  /\ j.booking \in Bookings =>
                  /\ bookings[j.booking].status # "absent"
                  /\ j.pc \in {"check", "place", "put"} => j.doc.status # "absent"
             /\ j.booking \in Bookings \ met' => Knows(j)'
             /\ j.booking \in Bookings \ met' /\ j.by \notin met' => FoundFree(j)'
  BY <1>1 DEF Sound, Knows, FoundFree, Clear, Working
<1>2. \A q \in Requests : Sound(req[q])
  BY DEF WorkInv, Sound
<1>3. \A q \in Requests : Sound(req'[q])
  BY <1>0, <1>2
<1>4. \A q \in Requests : req'[q].booking \in Bookings =>
        /\ bookings'[req'[q].booking].status # "absent"
        /\ req'[q].pc \in {"check", "place", "put"} => req'[q].doc.status # "absent"
  BY <1>1, <1>3
<1>5. \A q \in Requests : req'[q].booking \in Bookings \ met' => Knows(req[q])'
  BY <1>1, <1>3
<1>6. \A q \in Requests : req'[q].booking \in Bookings \ met' /\ req'[q].by \notin met' => FoundFree(req[q])'
  BY <1>1, <1>3
<1>7. \A p, q \in Requests : p # q /\ Active(p)' /\ Active(q)' => Claims(p)' \intersect Claims(q)' \subseteq met'
  BY <1>0 DEF WorkInv, Joins, Active, Claims, Claimed
<1>8. NobodyInTwoPlaces'
  BY DEF WorkInv, NobodyInTwoPlaces
<1> QED
  BY <1>4, <1>5, <1>6, <1>7, <1>8 DEF WorkInv

\* What is known of a request does not depend on bookings other than its own.
LEMMA StaysSound ==
  ASSUME NEW job, NEW b \in Bookings, met' = met, Sound(job),
         \A c \in Bookings \ {b} : bookings'[c] = bookings[c],
         bookings'[b].status # "absent",
         b \notin met => job.booking # b,
         job.by \notin met /\ b \notin met =>
           \/ ~(bookings'[b].by = job.by /\ Working(b)')
           \/ job.by = NoOne
           \/ /\ Working(b) /\ bookings'[b].by = bookings[b].by /\ bookings'[b].window = bookings[b].window
  PROVE  Sound(job)'
<1>1. job.booking \in Bookings =>
        /\ bookings'[job.booking].status # "absent"
        /\ job.pc \in {"check", "place", "put"} => job.doc.status # "absent"
  BY DEF Sound
<1>2. job.booking \in Bookings \ met => Knows(job)'
  <2> SUFFICES ASSUME job.booking \in Bookings \ met PROVE Knows(job)'
    OBVIOUS
  <2>1. bookings'[job.booking] = bookings[job.booking]
    OBVIOUS
  <2> QED
    BY <2>1 DEF Sound, Knows, Working
<1>3. job.booking \in Bookings \ met /\ job.by \notin met => FoundFree(job)'
  BY DEF Sound, FoundFree, Clear, Working
<1> QED
  BY <1>1, <1>2, <1>3 DEF Sound

\* Two requests about the same booking, or operator, met.
LEMMA MeetInMet ==
  ASSUME WorkInv, NEW q \in Requests, NEW r \in Requests, q # r, Active(q), Active(r)
  PROVE  /\ req[q].booking \in Bookings /\ req[q].booking = req[r].booking => req[q].booking \in met
         /\ req[q].by \in Operators /\ req[q].by = req[r].by => req[q].by \in met
BY NoneIsNone, NamesDiffer DEF WorkInv, Claims

\* The put of a request.
LEMMA WorkPut ==
  ASSUME WorkInv, TypeInv', NEW r \in Requests, req' = [req EXCEPT ![r] = Idle], met' = met,
         req[r].pc \in {"place", "put"}, bookings' = [bookings EXCEPT ![req[r].booking] = req[r].doc]
  PROVE  WorkInv'
<1> DEFINE j == req[r]
           b == j.booking
           doc == j.doc
<1>0. /\ TypeInv /\ j \in Job /\ Shape(j) /\ b \in Bookings /\ doc \in Booking /\ Active(r)
      /\ req'[r] = Idle /\ \A q \in Requests \ {r} : req'[q] = req[q]
      /\ \A q \in Requests : req[q] \in Job /\ Shape(req[q])
  <2>1. TypeInv /\ j \in Job /\ Shape(j) /\ \A q \in Requests : req[q] \in Job /\ Shape(req[q])
    BY DEF WorkInv, TypeInv
  <2>2. b \in Bookings /\ doc \in Booking /\ Active(r)
    BY <2>1 DEF Shape, Moving, Handling, Job, Active
  <2> QED
    BY <2>1, <2>2, Turn, IdleTyped
<1>1. bookings'[b] = doc /\ \A c \in Bookings \ {b} : bookings'[c] = bookings[c]
  BY <1>0 DEF TypeInv, TypeOK
<1>2. Sound(j) /\ doc.status # "absent"
  BY <1>0 DEF WorkInv, Sound
<1>3. b \notin met => /\ Working(b)
                      /\ \/ doc.by = NoOne
                         \/ j.by # NoOne /\ doc.by = j.by
                         \/ doc.by = bookings[b].by /\ doc.window = bookings[b].window
                      /\ \/ j.by = NoOne \/ doc.by = NoOne \/ j.by \in met \/ Clear(j.by, doc.window, b)
                      /\ j.by = NoOne => doc.by = NoOne \/ (doc.by = bookings[b].by /\ doc.window = bookings[b].window)
  BY <1>0, <1>2 DEF Sound, Knows, FoundFree
<1> HIDE DEF doc, b
<1>4. ASSUME NEW q \in Requests \ {r}, Active(q) PROVE Sound(req[q])'
  <2>1. Sound(req[q]) /\ req'[q] = req[q]
    BY <1>0 DEF WorkInv, Sound
  <2>2. b \notin met => req[q].booking # b
    BY <1>0, <1>4, MeetInMet DEF b
  <2>3. req[q].by \notin met /\ b \notin met /\ req[q].by # NoOne /\ bookings'[b].by = req[q].by =>
           Working(b) /\ bookings'[b].by = bookings[b].by /\ bookings'[b].window = bookings[b].window
    <3> SUFFICES ASSUME req[q].by \notin met, b \notin met, req[q].by # NoOne, doc.by = req[q].by
                 PROVE  Working(b) /\ doc.by = bookings[b].by /\ doc.window = bookings[b].window
      BY <1>1
    <3>1. req[q].by \in Operators
      BY <1>0 DEF Job
    <3>2. j.by # req[q].by
      BY <1>0, <1>4, <3>1, MeetInMet
    <3> QED
      BY <1>3, <3>2
  <2> QED
    BY <1>0, <1>1, <1>2, <2>1, <2>2, <2>3, StaysSound
<1>5. \A q \in Requests : Sound(req[q])'
  <2>1. ASSUME NEW job, job.pc = "idle", job.booking \notin Bookings PROVE Sound(job)'
    BY <2>1 DEF Sound
  <2>2. Idle.booking \notin Bookings
    BY NoneIsNone DEF Idle
  <2>3. ASSUME NEW q \in Requests, ~Active(q) PROVE req[q].booking \notin Bookings /\ req[q].pc = "idle"
    BY <1>0, <2>3 DEF Active, Shape, Moving, Handling
  <2>4. ASSUME NEW q \in Requests PROVE Sound(req[q])'
    <3>1. CASE q = r
      <4>1. Sound(Idle)'
        BY <2>1, <2>2, IdleTyped
      <4> QED
        BY <1>0, <3>1, <4>1 DEF Sound
    <3>2. CASE q # r /\ Active(q)
      BY <1>4, <3>2
    <3>3. CASE q # r /\ ~Active(q)
      BY <1>0, <2>3, <3>3 DEF Sound
    <3> QED
      BY <3>1, <3>2, <3>3
  <2> QED
    BY <2>4
<1>6. \A p, q \in Requests : p # q /\ Active(p)' /\ Active(q)' => Claims(p)' \intersect Claims(q)' \subseteq met'
  BY <1>0, IdleTyped DEF WorkInv, Active, Claims
<1>7. NobodyInTwoPlaces'
  <2> SUFFICES ASSUME NEW x \in Operators \ met, NEW c \in Bookings \ met, NEW d \in Bookings \ met, c # d,
                      bookings'[c].window = bookings'[d].window,
                      bookings'[c].status \notin Finished, bookings'[d].status \notin Finished,
                      bookings'[c].by = x, bookings'[d].by = x
               PROVE  FALSE
    BY DEF NobodyInTwoPlaces
  <2>1. ASSUME NEW e \in Bookings \ met, e # b, b \notin met, bookings[e].by = x, doc.by = x,
               bookings[e].window = doc.window, bookings[e].status \notin Finished
        PROVE  FALSE
    <3>1. x # NoOne /\ Working(e) /\ Working(b)
      BY <1>3, <2>1, NoneIsNone DEF Working
    <3>2. ~(doc.by = bookings[b].by /\ doc.window = bookings[b].window)
      BY <1>0, <2>1, <3>1 DEF WorkInv, NobodyInTwoPlaces, Working
    <3>3. j.by = x
      BY <1>3, <2>1, <3>1, <3>2
    <3>4. Clear(x, doc.window, b)
      BY <1>3, <2>1, <3>1, <3>3
    <3> QED
      BY <2>1, <3>1, <3>4 DEF Clear
  <2>2. CASE c = b
    BY <1>1, <2>1, <2>2
  <2>3. CASE d = b
    BY <1>1, <2>1, <2>3
  <2>4. CASE c # b /\ d # b
    BY <1>1, <2>4 DEF WorkInv, NobodyInTwoPlaces
  <2> QED
    BY <2>2, <2>3, <2>4
<1> QED
  BY <1>5, <1>6, <1>7 DEF WorkInv, Sound

\* A request that is about no booking.
LEMMA SoundAlone ==
  ASSUME NEW job \in Job, Shape(job), job.pc \notin Moving \union Handling
  PROVE  Sound(job) /\ Sound(job)' /\ Claimed(job) = {}
<1>1. job.booking = NoBooking /\ job.by = NoOne /\ job.booking \notin Bookings
  BY NoneIsNone DEF Shape, Job
<1>2. job.pc \notin {"check", "place", "put"}
  BY DEF Moving, Handling
<1> QED
  BY <1>1, <1>2 DEF Sound, Claimed

\* A new booking.
LEMMA WorkNew ==
  ASSUME WorkInv, TypeInv', NEW r \in Requests, NEW job \in Job, Shape(job), req' = [req EXCEPT ![r] = job],
         met' = met, job.pc \notin Moving \union Handling, NEW b \in Bookings, NEW w,
         bookings[b] = Absent, bookings' = [bookings EXCEPT ![b] = Requested(w)]
  PROVE  WorkInv'
<1>0. TypeInv /\ req'[r] = job /\ \A q \in Requests \ {r} : req'[q] = req[q]
  BY Turn DEF WorkInv
<1>1. /\ bookings'[b].by = NoOne /\ bookings'[b].status = "requested" /\ bookings[b].status = "absent"
      /\ \A c \in Bookings \ {b} : bookings'[c] = bookings[c]
  BY <1>0 DEF TypeInv, TypeOK, Requested, Absent
<1>2. ASSUME NEW q \in Requests PROVE Sound(req[q])'
  <2>1. CASE q = r
    BY <1>0, <2>1, SoundAlone DEF Sound
  <2>2. CASE q # r
    <3>1. Sound(req[q]) /\ req'[q] = req[q]
      BY <1>0, <2>2 DEF WorkInv, Sound
    <3>2. req[q].booking # b
      BY <1>1, <3>1 DEF Sound
    <3> QED
      BY <1>1, <3>1, <3>2, StaysSound
  <2> QED
    BY <2>1, <2>2
<1>3. \A p, q \in Requests : p # q /\ Active(p)' /\ Active(q)' => Claims(p)' \intersect Claims(q)' \subseteq met'
  <2>1. Claimed(job) = {}
    BY SoundAlone
  <2> QED
    BY <1>0, <2>1 DEF WorkInv, Active, Claims, Claimed
<1>4. NobodyInTwoPlaces'
  BY <1>1, NoneIsNone DEF WorkInv, NobodyInTwoPlaces
<1> QED
  BY <1>2, <1>3, <1>4 DEF WorkInv, Sound

\* A booking that may move to a status is under way.
LEMMA MovesWhileWorking ==
  ASSUME NEW status \in {"absent", "requested", "assigned", "in_progress", "completed", "cancelled"},
         NEW to, CanMove(status, to)
  PROVE  status \notin Finished
BY DEF CanMove, Transitions, Finished

\* A request begins: it meets those that are busy with its booking or its operator.
LEMMA WorkBegins ==
  ASSUME WorkInv, TypeInv', NEW r \in Requests, NEW job \in Job, Shape(job), Begin(r, job),
         Sound(job)
  PROVE  WorkInv'
<1>1. \A q \in Requests \ {r} : Active(q) => Claimed(job) \intersect Claims(q) \subseteq met'
  BY DEF Begin, Meeting, Claimed
<1>2. Joins(r, job) /\ met \subseteq met' /\ bookings' = bookings /\ req' = [req EXCEPT ![r] = job]
  BY <1>1 DEF Joins, Begin
<1> QED
  BY <1>2, WorkAside

\* A request goes on with the same booking and operator.
LEMMA WorkGoesOn ==
  ASSUME WorkInv, TypeInv', NEW r \in Requests, NEW job \in Job, Shape(job), req' = [req EXCEPT ![r] = job],
         bookings' = bookings, met' = met, Active(r),
         job.pc = "idle" \/ Claimed(job) = Claims(r), Sound(job)
  PROVE  WorkInv'
<1>1. Joins(r, job)
  BY DEF Joins, WorkInv
<1> QED
  BY <1>1, WorkAside

LEMMA WorkArrives ==
  ASSUME WorkInv, TypeInv', NEW r \in Requests, Arrive(r)
  PROVE  WorkInv'
<1>0. TypeInv /\ \A b \in Bookings : bookings[b] \in Booking
  BY DEF WorkInv, TypeInv, TypeOK
<1>1. PICK job \in Job : req' = [req EXCEPT ![r] = job] /\ Shape(job)
  BY <1>0, ReqTyped
<1>2. req'[r] = job
  BY <1>0, <1>1, Turn
<1>3. ASSUME NEW first, Begin(r, first) PROVE first = job
  BY <1>0, <1>2, <1>3 DEF Begin, TypeInv
<1>4. ASSUME Begin(r, job), Sound(job) PROVE WorkInv'
  BY <1>1, <1>4, WorkBegins
<1>5. CASE \E w \in Windows : CreateStart(r, w) \/ OpenStart(r, w)
  <2>1. PICK w \in Windows, pc \in {"gate", "queue"} : Begin(r, [Idle EXCEPT !.pc = pc, !.window = w])
    BY <1>5 DEF CreateStart, OpenStart
  <2>2. job.pc \in {"gate", "queue"} /\ Begin(r, job)
    BY <1>3, <2>1 DEF Idle
  <2> QED
    BY <1>1, <1>4, <2>2, SoundAlone DEF Moving, Handling
<1>6. CASE \E s \in Slots : SeatStart(r, s)
  <2>1. PICK s \in Slots : SeatStart(r, s)
    BY <1>6
  <2>2. job.pc = "reserve" /\ Begin(r, job)
    BY <1>3, <2>1 DEF SeatStart, Idle
  <2> QED
    BY <1>1, <1>4, <2>2, SoundAlone DEF Moving, Handling
<1>7. CASE \E b \in Bookings, w \in Windows : MoveStart(r, b, w)
  <2>1. PICK b \in Bookings, w \in Windows : MoveStart(r, b, w)
    BY <1>7
  <2>2. job.pc = "moving" /\ job.booking = b /\ job.by = bookings[b].by /\ Begin(r, job)
    BY <1>3, <2>1 DEF MoveStart, Idle
  <2>3. Sound(job)
    BY <2>1, <2>2 DEF MoveStart, Sound, Knows, FoundFree, Working, Finished
  <2> QED
    BY <1>4, <2>2, <2>3
<1>8. CASE \E b \in Bookings, x \in Operators : AssignStart(r, b, x)
  <2>1. PICK b \in Bookings, x \in Operators : AssignStart(r, b, x)
    BY <1>8
  <2>2. job.pc = "clash" /\ job.booking = b /\ job.doc = bookings[b] /\ Begin(r, job)
    BY <1>3, <2>1 DEF AssignStart, Idle
  <2>3. Sound(job)
    BY <2>1, <2>2 DEF AssignStart, Sound, Knows, FoundFree
  <2> QED
    BY <1>4, <2>2, <2>3
<1>9. CASE \E b \in Bookings, to \in {"in_progress", "completed", "cancelled"} : MoveTo(r, b, to)
  <2>1. PICK b \in Bookings, to \in {"in_progress", "completed", "cancelled"} : MoveTo(r, b, to)
    BY <1>9
  <2>2. /\ job.pc = "put" /\ job.booking = b /\ job.by = NoOne /\ Begin(r, job)
        /\ job.doc = [bookings[b] EXCEPT !.status = to]
    BY <1>3, <2>1 DEF MoveTo, Idle
  <2>3. Working(b)
    BY <1>0, <2>1, MovesWhileWorking DEF MoveTo, Working, Booking
  <2>4. job.doc.window = bookings[b].window /\ job.doc.by = bookings[b].by /\ job.doc.status # "absent"
    BY <1>0, <2>1, <2>2 DEF Booking
  <2>5. Sound(job)
    BY <2>2, <2>3, <2>4 DEF Sound, Knows, FoundFree, Working, Finished
  <2> QED
    BY <1>4, <2>2, <2>5
<1> QED
  BY <1>5, <1>6, <1>7, <1>8, <1>9 DEF Arrive

\* Between the start of a request and its put.
LEMMA WorkReads ==
  ASSUME WorkInv, TypeInv', NEW r \in Requests,
         MoveCount(r) \/ MoveReread(r) \/ MoveCheck(r) \/ AssignCheck(r) \/ AssignRead(r)
  PROVE  WorkInv'
<1> DEFINE j == req[r]
           b == j.booking
<1>0. /\ TypeInv /\ j \in Job /\ Shape(j) /\ Active(r) /\ b \in Bookings /\ bookings[b] \in Booking
      /\ Sound(j) /\ bookings[b].status # "absent"
  <2>1. TypeInv /\ j \in Job /\ Shape(j) /\ Active(r)
    BY DEF WorkInv, TypeInv, MoveCount, MoveReread, MoveCheck, AssignCheck, AssignRead, Active
  <2>2. b \in Bookings
    BY <2>1 DEF MoveCount, MoveReread, MoveCheck, AssignCheck, AssignRead, Shape, Moving, Handling
  <2>3. Sound(j) /\ bookings[b].status # "absent" /\ bookings[b] \in Booking
    BY <2>2 DEF WorkInv, Sound, TypeInv, TypeOK
  <2> QED
    BY <2>1, <2>2, <2>3
<1>1. PICK job \in Job : req' = [req EXCEPT ![r] = job] /\ Shape(job)
  BY <1>0, ReqTyped DEF Continue
<1>2. req'[r] = job
  BY <1>0, <1>1, Turn
<1>3. bookings' = bookings /\ met' = met
  BY DEF MoveCount, MoveReread, MoveCheck, AssignCheck, AssignRead, Private, history
<1>4. ASSUME job.booking = b, job.by = j.by, Sound(job) PROVE WorkInv'
  BY <1>0, <1>1, <1>3, <1>4, WorkGoesOn DEF Claimed, Claims
<1>5. ASSUME Return(r) PROVE WorkInv'
  <2>1. job.pc = "idle"
    BY <1>0, <1>2, <1>5, IdleTyped DEF Return, TypeInv
  <2> QED
    BY <1>0, <1>1, <1>3, <2>1, WorkGoesOn, SoundAlone DEF Moving, Handling
<1>6. ASSUME NEW pc, Goto(r, pc)
      PROVE  job.pc = pc /\ job.booking = b /\ job.by = j.by /\ job.doc = j.doc /\ job.window = j.window
  BY <1>0, <1>2, <1>6 DEF Goto, TypeInv, Job
<1>7. ASSUME NEW x, NEW w, ~Busy(x, w, b) PROVE Clear(x, w, b)
  BY <1>7 DEF Busy, Clear, Working
<1>8. CASE MoveCount(r)
  <2>1. CASE Goto(r, "reread")
    <3>1. Sound(job)
      BY <1>0, <1>6, <1>8, <2>1 DEF MoveCount, Sound, Knows, FoundFree
    <3> QED
      BY <1>4, <1>6, <2>1, <3>1
  <2> QED
    BY <1>5, <1>8, <2>1 DEF MoveCount
<1>9. CASE MoveReread(r)
  <2>1. /\ j.pc = "reread" /\ job.booking = b /\ job.by = j.by
        /\ job.doc = [bookings[b] EXCEPT !.window = j.window]
        /\ job.pc = IF job.doc.by = NoOne THEN "place" ELSE "check"
    BY <1>0, <1>2, <1>9 DEF MoveReread, TypeInv, Job
  <2>2. job.doc.by = bookings[b].by /\ job.doc.status = bookings[b].status
    BY <1>0, <2>1 DEF Booking
  <2>3. Sound(job)
    BY <1>0, <2>1, <2>2 DEF Sound, Knows, FoundFree
  <2> QED
    BY <1>4, <2>1, <2>3
<1>10. CASE MoveCheck(r)
  <2>1. j.pc = "check" /\ j.doc.window = j.window
    BY <1>0, <1>10 DEF MoveCheck, Shape
  <2>2. CASE ~Busy(j.doc.by, j.window, b) /\ Goto(r, "place")
    <3>1. Clear(j.doc.by, j.doc.window, b)
      BY <1>7, <2>1, <2>2
    <3>2. job.pc = "place" /\ job.booking = b /\ job.by = j.by /\ job.doc = j.doc
      BY <1>6, <2>2
    <3>4. b \notin met => Working(b) /\ j.by = bookings[b].by /\ j.doc.by \in {j.by, NoOne}
      BY <1>0, <2>1 DEF Sound, Knows
    <3>5. b \notin met => j.doc.by = NoOne \/ Clear(j.by, j.doc.window, b)
      BY <3>1, <3>4
    <3>6. j.doc.status # "absent"
      BY <1>0, <2>1 DEF Sound
    <3>3. Sound(job)
      BY <1>0, <3>2, <3>4, <3>5, <3>6 DEF Sound, Knows, FoundFree
    <3> QED
      BY <1>4, <3>2, <3>3
  <2>3. CASE req' = [req EXCEPT ![r].pc = "place", ![r].doc = Requested(j.window)]
    <3>1. job.pc = "place" /\ job.booking = b /\ job.by = j.by /\ job.doc = Requested(j.window)
      BY <1>0, <1>2, <2>3 DEF TypeInv, Job
    <3>2. job.doc.by = NoOne /\ job.doc.status = "requested"
      BY <3>1 DEF Requested
    <3>3. Sound(job)
      BY <1>0, <2>1, <3>1, <3>2 DEF Sound, Knows, FoundFree
    <3> QED
      BY <1>4, <3>1, <3>3
  <2> QED
    BY <1>10, <2>2, <2>3 DEF MoveCheck
<1>11. CASE AssignCheck(r)
  <2>1. CASE ~Busy(j.by, j.doc.window, b) /\ Goto(r, "take")
    <3>1. Clear(j.by, j.doc.window, b)
      BY <1>7, <2>1
    <3>2. Sound(job)
      BY <1>0, <1>6, <1>11, <2>1, <3>1 DEF AssignCheck, Sound, Knows, FoundFree
    <3> QED
      BY <1>4, <1>6, <2>1, <3>2
  <2> QED
    BY <1>5, <1>11, <2>1 DEF AssignCheck
<1>12. CASE AssignRead(r)
  <2>1. j.pc = "take" /\ j.by \in Operators /\ j.by # NoOne
    BY <1>0, <1>12, NoneIsNone DEF AssignRead, Shape
  <2>2. CASE /\ CanMove(bookings[b].status, "assigned")
             /\ req' = [req EXCEPT ![r].pc = "put",
                                   ![r].doc = [bookings[b] EXCEPT !.status = "assigned", !.by = j.by]]
    <3>1. /\ job.pc = "put" /\ job.booking = b /\ job.by = j.by
          /\ job.doc = [bookings[b] EXCEPT !.status = "assigned", !.by = j.by]
      BY <1>0, <1>2, <2>2 DEF TypeInv, Job
    <3>2. job.doc.window = bookings[b].window /\ job.doc.by = j.by /\ job.doc.status = "assigned"
      BY <1>0, <3>1 DEF Booking
    <3>3. Working(b)
      BY <1>0, <2>2, MovesWhileWorking DEF Working, Booking
    <3>4. b \notin met => j.doc = bookings[b]
      BY <1>0, <2>1 DEF Sound, Knows
    <3>5. b \notin met /\ j.by \notin met => Clear(j.by, bookings[b].window, b)
      BY <1>0, <2>1, <3>4, NoneIsNone DEF Sound, FoundFree, Clear, Working
    <3>6. Sound(job)
      BY <1>0, <2>1, <3>1, <3>2, <3>3, <3>5 DEF Sound, Knows, FoundFree
    <3> QED
      BY <1>4, <3>1, <3>6
  <2> QED
    BY <1>5, <1>12, <2>2 DEF AssignRead
<1> QED
  BY <1>8, <1>9, <1>10, <1>11, <1>12

LEMMA NextWork == WorkInv /\ [Next]_vars => WorkInv'
<1> SUFFICES ASSUME WorkInv, [Next]_vars PROVE WorkInv'
  OBVIOUS
<1>0. TypeInv /\ TypeInv'
  BY NextTyped DEF WorkInv
<1>1. CASE UNCHANGED vars
  BY <1>0, <1>1 DEF vars, WorkInv, Active, Claims, Knows, FoundFree, Clear, Working, NobodyInTwoPlaces
<1>2. ASSUME NEW r \in Requests, Continue(r) \/ SeatUpset(r) \/ Lose(r) PROVE WorkInv'
  <2>1. PICK job \in Job : req' = [req EXCEPT ![r] = job] /\ Shape(job)
    BY <1>0, <1>2, ReqTyped
  <2>2. req'[r] = job /\ req[r] \in Job /\ Shape(req[r])
    BY <1>0, <2>1, Turn DEF TypeInv
  <2>3. Return(r) => req' = [req EXCEPT ![r] = Idle] /\ job = Idle
    BY <1>0, <2>2 DEF Return, TypeInv
  <2>4. ASSUME NEW pc, Goto(r, pc) PROVE job.pc = pc
    BY <1>0, <2>2, <2>4 DEF Goto, TypeInv, Job
  <2>5. CASE MoveCount(r) \/ MoveReread(r) \/ MoveCheck(r) \/ AssignCheck(r) \/ AssignRead(r)
    BY <1>0, <2>5, WorkReads
  <2>6. CASE MovePlace(r) \/ MoveToPut(r)
    BY <1>0, <2>3, <2>6, WorkPut DEF MovePlace, MoveToPut, Put, history
  <2>7. CASE \E b \in Bookings : CreateWrite(r, b) \/ SeatBook(r, b)
    <3>1. PICK b \in Bookings : CreateWrite(r, b) \/ SeatBook(r, b)
      BY <2>7
    <3>2. /\ bookings[b] = Absent /\ met' = met
          /\ bookings' = [bookings EXCEPT ![b] = Requested(req[r].window)]
      BY <3>1 DEF CreateWrite, SeatBook, history
    <3>3. job.pc \notin Moving \union Handling
      BY <2>3, <2>4, <3>1, IdleTyped DEF CreateWrite, SeatBook, Moving, Handling
    <3> QED
      BY <1>0, <2>1, <3>2, <3>3, WorkNew
  <2>8. ASSUME bookings' = bookings, met' = met, req[r].pc \notin Moving \union Handling,
               job.pc \notin Moving \union Handling, Active(r)
        PROVE  WorkInv'
    <3>1. Claimed(job) = {} /\ Sound(job) /\ Claims(r) = {}
      BY <2>1, <2>2, <2>8, SoundAlone DEF Claims, Claimed
    <3> QED
      BY <1>0, <2>1, <2>8, <3>1, WorkGoesOn
  <2>9. CASE Lose(r)
    <3>1. job.pc = "idle" /\ bookings' = bookings /\ met' = met /\ Active(r)
      BY <2>3, <2>9, IdleTyped DEF Lose, history
    <3>2. Sound(job)
      BY <2>1, <3>1, SoundAlone DEF Moving, Handling
    <3> QED
      BY <1>0, <2>1, <3>1, <3>2, WorkGoesOn
  <2>10. CASE CreateCount(r) \/ OpenFind(r) \/ SeatReserve(r) \/ SeatRefuse(r) \/ SeatDone(r)
              \/ SeatUpset(r) \/ GiveBackPut(r) \/ \E s \in Slots : OpenPut(r, s)
    <3>1. bookings' = bookings /\ met' = met
      BY <2>10 DEF CreateCount, OpenFind, SeatReserve, SeatRefuse, SeatDone, SeatUpset, GiveBackPut,
         OpenPut, Private, history
    <3>2. job.pc \in {"idle", "write", "open", "book", "returning"}
      BY <2>3, <2>4, <2>10, IdleTyped DEF CreateCount, OpenFind, SeatReserve, SeatRefuse, SeatDone,
         SeatUpset, GiveBackPut, OpenPut
    <3>3. req[r].pc \in {"gate", "queue", "reserve", "book", "tell", "release", "open"}
      BY <2>10 DEF CreateCount, OpenFind, SeatReserve, SeatRefuse, SeatDone, SeatUpset, GiveBackPut, OpenPut
    <3> QED
      BY <2>8, <3>1, <3>2, <3>3 DEF Active, Moving, Handling
  <2>11. CASE GiveBackRead(r)
    <3>1. job.pc = "release" /\ req[r].pc = "returning" /\ bookings' = bookings /\ met' = met
      BY <1>0, <2>2, <2>11 DEF GiveBackRead, Private, history, TypeInv, Job
    <3> QED
      BY <2>8, <3>1 DEF Active, Moving, Handling
  <2> QED
    BY <1>2, <2>5, <2>6, <2>7, <2>9, <2>10, <2>11 DEF Continue
<1>3. ASSUME NEW r \in Requests, Arrive(r) PROVE WorkInv'
  BY <1>0, <1>3, WorkArrives
<1> QED
  BY <1>1, <1>2, <1>3 DEF Next

LEMMA InitWork == Init => WorkInv
<1> SUFFICES ASSUME Init PROVE WorkInv
  OBVIOUS
<1>1. TypeInv /\ \A r \in Requests : req[r].booking = NoBooking
  BY InitTyped DEF Init, Idle
<1>2. \A q \in Requests : ~Active(q)
  BY IdleTyped DEF Init, Active
<1>3. NobodyInTwoPlaces
  BY IdleTyped, NoneIsNone DEF Init, NobodyInTwoPlaces, Absent, Finished
<1> QED
  BY <1>1, <1>2, <1>3, NoneIsNone DEF WorkInv

\* An operator is in one place at a time: an assignment finds nothing else in the window,
\* and who came between is one that two requests were busy with at once.
THEOREM OnePlaceEach == Spec => []NobodyInTwoPlaces
<1>1. WorkInv => NobodyInTwoPlaces
  BY DEF WorkInv
<1> QED
  BY <1>1, InitWork, NextWork, PTL DEF Spec

THEOREM TypeCorrectness == Spec => []TypeOK
<1>1. TypeInv => TypeOK
  BY DEF TypeInv
<1> QED
  BY <1>1, InitTyped, NextTyped, PTL DEF Spec

-----------------------------------------------------------------------------
(* Seats *)

LEMMA Pcs == ASSUME TypeInv, NEW r \in Requests
             PROVE  /\ Goto(r, req[r].pc) => req' = req
                    /\ \A pc : Goto(r, pc) => req'[r].pc = pc /\ req'[r].slot = req[r].slot
                    /\ Return(r) => req'[r] = Idle /\ req'[r].slot = NoSlot /\ req'[r].pc = "idle"
BY IdleTyped DEF Goto, Return, TypeInv, Job, Idle

\* Who opens a slot has found none, and nobody else opening one.
LEMMA OpensAlone ==
  ASSUME TypeInv, NEW r \in Requests, Arrive(r) \/ Continue(r) \/ SeatUpset(r) \/ Lose(r), req'[r].pc = "open"
  PROVE  /\ slots' = slots /\ sold' = sold
         /\ req'[r].window = req[r].window /\ ~Opening(req[r].window)
         /\ \A s \in Slots : slots[s].window # req[r].window
<1> DEFINE j == req[r]
<1>0. TypeOK /\ req \in [Requests -> Job] /\ Return(r) => req'[r] = Idle
  BY DEF TypeInv, Return
<1>1. ASSUME NEW pc, Goto(r, pc) PROVE req'[r].pc = pc /\ req'[r].window = j.window
  BY <1>1 DEF Goto, TypeInv, Job
<1>2. Return(r) => req'[r].pc = "idle"
  BY Pcs
<1>3. CASE OpenFind(r)
  BY <1>1, <1>2, <1>3 DEF OpenFind, Private, history
<1>4. CASE Arrive(r)
  <2>1. ASSUME NEW first, Begin(r, first) PROVE req'[r] = first
    BY <2>1 DEF Begin, TypeInv
  <2>2. CASE \E w \in Windows : CreateStart(r, w) \/ OpenStart(r, w)
    BY <2>1, <2>2 DEF CreateStart, OpenStart, Idle
  <2>3. CASE \E s \in Slots : SeatStart(r, s)
    BY <2>1, <2>3 DEF SeatStart, Idle
  <2>4. CASE \E b \in Bookings, w \in Windows : MoveStart(r, b, w)
    BY <2>1, <2>4 DEF MoveStart, Idle
  <2>5. CASE \E b \in Bookings, x \in Operators : AssignStart(r, b, x)
    BY <2>1, <2>5 DEF AssignStart, Idle
  <2>6. CASE \E b \in Bookings, to \in {"in_progress", "completed", "cancelled"} : MoveTo(r, b, to)
    BY <2>1, <2>6 DEF MoveTo, Idle
  <2> QED
    BY <1>4, <2>2, <2>3, <2>4, <2>5, <2>6 DEF Arrive
<1>5. CASE MoveReread(r) \/ MoveCheck(r) \/ AssignRead(r) \/ GiveBackRead(r)
  <2>1. CASE MoveReread(r)
    BY <1>0, <2>1 DEF MoveReread, TypeInv, Job
  <2>2. CASE MoveCheck(r)
    BY <1>0, <1>1, <2>2 DEF MoveCheck, TypeInv, Job
  <2>3. CASE AssignRead(r)
    BY <1>0, <1>2, <2>3 DEF AssignRead, TypeInv, Job
  <2>4. CASE GiveBackRead(r)
    BY <1>0, <2>4 DEF GiveBackRead, TypeInv, Job
  <2> QED
    BY <1>5, <2>1, <2>2, <2>3, <2>4
<1>6. CASE CreateCount(r) \/ MoveCount(r) \/ AssignCheck(r) \/ SeatRefuse(r) \/ SeatDone(r) \/ SeatUpset(r)
           \/ Lose(r) \/ MovePlace(r) \/ MoveToPut(r) \/ SeatReserve(r) \/ GiveBackPut(r)
           \/ (\E s \in Slots : OpenPut(r, s)) \/ \E b \in Bookings : CreateWrite(r, b) \/ SeatBook(r, b)
  <2>1. \/ Return(r)
        \/ \E pc \in {"write", "reread", "take", "returning", "tell", "book"} : Goto(r, pc)
    BY <1>6 DEF CreateCount, MoveCount, AssignCheck, SeatRefuse, SeatDone, SeatUpset,
       Lose, MovePlace, MoveToPut, Put, SeatReserve, GiveBackPut, OpenPut, CreateWrite, SeatBook
  <2> QED
    BY <1>1, <1>2, <2>1
<1> QED
  BY <1>3, <1>4, <1>5, <1>6 DEF Continue

LEMMA OpenPutAlone ==
  ASSUME TypeInv, OneSlot, NEW r \in Requests, NEW s \in Slots, OpenPut(r, s)
  PROVE  /\ req[r].window \in Windows
         /\ slots' = [slots EXCEPT ![s] = [window |-> req[r].window, left |-> Seats]]
         /\ slots[s].window = NoWindow
         /\ \A t \in Slots : slots[t].window # req[r].window
         /\ \A t \in Slots \ {s} : slots'[t] = slots[t]
         /\ slots'[s].window = req[r].window /\ slots'[s].left = Seats
         /\ \A q \in Requests \ {r} : req[q].pc = "open" => req[q].window # req[r].window
         /\ sold' = sold /\ slips' = slips
         /\ sold[req[r].window] = 0
<1>1. req[r].pc = "open" /\ Shape(req[r]) /\ slots[s] = NotOpen /\ sold' = sold /\ slips' = slips
      /\ slots' = [slots EXCEPT ![s] = [window |-> req[r].window, left |-> Seats]]
  BY DEF OpenPut, TypeInv, history
<1>2. req[r].window \in Windows
  BY <1>1 DEF Shape, Waiting
<1>3. /\ \A t \in Slots \ {s} : slots'[t] = slots[t]
      /\ slots'[s].window = req[r].window /\ slots'[s].left = Seats
  BY <1>1 DEF TypeInv, TypeOK
<1> QED
  BY <1>1, <1>2, <1>3 DEF OneSlot, NotOpen

LEMMA NextOneSlot ==
  ASSUME TypeInv, OneSlot, NEW r \in Requests, Arrive(r) \/ Continue(r) \/ SeatUpset(r) \/ Lose(r)
  PROVE  OneSlot'
<1>0. \A q \in Requests \ {r} : req'[q] = req[q]
  BY ReqTyped, Turn
<1>1. CASE req'[r].pc = "open"
  <2>1. /\ slots' = slots /\ sold' = sold
        /\ req'[r].window = req[r].window /\ ~Opening(req[r].window)
        /\ \A s \in Slots : slots[s].window # req[r].window
    BY <1>1, OpensAlone
  <2> QED
    BY <1>0, <2>1 DEF OneSlot, Opening
<1>2. CASE req'[r].pc # "open" /\ \E s \in Slots : OpenPut(r, s)
  <2>1. PICK s \in Slots : OpenPut(r, s)
    BY <1>2
  <2> DEFINE w == req[r].window
  <2>2. /\ w \in Windows
        /\ slots[s].window = NoWindow
        /\ \A t \in Slots : slots[t].window # w
        /\ \A t \in Slots \ {s} : slots'[t] = slots[t]
        /\ slots'[s].window = w
        /\ \A q \in Requests \ {r} : req[q].pc = "open" => req[q].window # w
        /\ sold' = sold
    BY <2>1, OpenPutAlone
  <2> HIDE DEF w
  <2>3. \A t, u \in Slots : t # u /\ slots'[t].window = slots'[u].window => slots'[t].window = NoWindow
    BY <2>2 DEF OneSlot
  <2>4. \A q \in Requests : req'[q].pc = "open" => q # r /\ req'[q] = req[q] /\ req[q].pc = "open"
    BY <1>0, <1>2
  <2>5. \A q \in Requests : req'[q].pc = "open" => \A t \in Slots : slots'[t].window # req'[q].window
    BY <2>2, <2>4 DEF OneSlot
  <2>6. \A p, q \in Requests :
          p # q /\ req'[p].pc = "open" /\ req'[q].pc = "open" => req'[p].window # req'[q].window
    BY <2>4 DEF OneSlot
  <2>7. \A v \in Windows : sold'[v] # 0 => \E t \in Slots : slots'[t].window = v
    BY <2>2, NoneIsNone DEF OneSlot
  <2> QED
    BY <2>3, <2>5, <2>6, <2>7 DEF OneSlot
<1>3. CASE req'[r].pc # "open" /\ ~\E s \in Slots : OpenPut(r, s)
  <2>1. \A s \in Slots : slots'[s].window = slots[s].window
    BY <1>3, SlotKept
  <2>2. \A w \in Windows : sold'[w] # 0 => sold[w] # 0 \/ \E s \in Slots : slots[s].window = w
    <3>1. CASE \E b \in Bookings : SeatBook(r, b)
      <4>1. PICK b \in Bookings : SeatBook(r, b)
        BY <3>1
      <4>2. req[r].slot \in Slots /\ slots[req[r].slot].window = req[r].window
        BY <4>1 DEF SeatBook, TypeInv, Shape, Buying
      <4> QED
        BY <4>1, <4>2 DEF SeatBook, TypeInv, TypeOK
    <3>2. CASE ~\E b \in Bookings : SeatBook(r, b)
      BY <3>2 DEF Arrive, Begin, Continue, CreateStart, OpenStart, SeatStart, MoveStart, AssignStart, MoveTo,
         CreateCount, MoveCount, AssignCheck, SeatRefuse, SeatDone, SeatUpset, MoveReread, MoveCheck,
         AssignRead, GiveBackRead, OpenFind, Private, history, Lose, MovePlace, MoveToPut, SeatReserve,
         GiveBackPut, OpenPut, CreateWrite
    <3> QED
      BY <3>1, <3>2
  <2> QED
    BY <1>0, <1>3, <2>1, <2>2 DEF OneSlot
<1> QED
  BY <1>1, <1>2, <1>3

-----------------------------------------------------------------------------

\* A request joins the buyers of a slot, leaves them, or neither.
LEMMA BuyersCounted ==
  ASSUME TypeInv, NEW s \in Slots, NEW r \in Requests, \A q \in Requests \ {r} : req'[q] = req[q]
  PROVE  /\ Cardinality(Buyers(s)) \in Nat
         /\ r \in Buyers(s)' <=> req'[r].slot = s /\ req'[r].pc # "tell"
         /\ r \in Buyers(s) <=> req[r].slot = s /\ req[r].pc # "tell"
         /\ (r \in Buyers(s) <=> r \in Buyers(s)') => Cardinality(Buyers(s))' = Cardinality(Buyers(s))
         /\ r \notin Buyers(s) /\ r \in Buyers(s)' => Cardinality(Buyers(s))' = Cardinality(Buyers(s)) + 1
         /\ r \in Buyers(s) /\ r \notin Buyers(s)' => Cardinality(Buyers(s))' = Cardinality(Buyers(s)) - 1
<1>1. IsFiniteSet(Buyers(s))
  BY NamesAreFinite, FS_Subset DEF Buyers
<1>2. Cardinality(Buyers(s)) \in Nat
  BY <1>1, FS_CardinalityType
<1>3. \A q \in Requests \ {r} : q \in Buyers(s) <=> q \in Buyers(s)'
  BY DEF Buyers
<1>4. (r \in Buyers(s) <=> r \in Buyers(s)') => Buyers(s)' = Buyers(s)
  BY <1>3 DEF Buyers
<1>5. r \notin Buyers(s) /\ r \in Buyers(s)' => Buyers(s)' = Buyers(s) \union {r}
  BY <1>3 DEF Buyers
<1>6. r \in Buyers(s) /\ r \notin Buyers(s)' => Buyers(s)' = Buyers(s) \ {r}
  BY <1>3 DEF Buyers
<1>7. r \notin Buyers(s) => Cardinality(Buyers(s) \union {r}) = Cardinality(Buyers(s)) + 1
  BY <1>1, FS_AddElement
<1>8. r \in Buyers(s) => Cardinality(Buyers(s) \ {r}) = Cardinality(Buyers(s)) - 1
  BY <1>1, FS_RemoveElement
<1>9. /\ r \in Buyers(s)' <=> req'[r].slot = s /\ req'[r].pc # "tell"
      /\ r \in Buyers(s) <=> req[r].slot = s /\ req[r].pc # "tell"
  BY DEF Buyers
<1> QED
  BY <1>2, <1>4, <1>5, <1>6, <1>7, <1>8, <1>9

LEMMA SeatNumbers ==
  ASSUME TypeInv, NEW s \in Slots, slots[s].window # NoWindow
  PROVE  /\ slots[s].window \in Windows /\ slots[s].left \in Nat
         /\ sold[slots[s].window] \in Nat /\ slips[slots[s].window] \in Nat
         /\ Cardinality(Buyers(s)) \in Nat /\ Gone(s) \in Nat /\ Given(s) \in Nat /\ Seats \in Nat
         /\ \A r \in Requests : req[r].left \in Nat
<1>1. slots[s].window \in Windows /\ slots[s].left \in Nat
  BY Counters
<1>2. sold[slots[s].window] \in Nat /\ slips[slots[s].window] \in Nat
  BY <1>1 DEF TypeInv, TypeOK
<1>3. Cardinality(Buyers(s)) \in Nat
  BY NamesAreFinite, FS_Subset, FS_CardinalityType DEF Buyers
<1>4. Seats \in Nat /\ \A r \in Requests : req[r].left \in Nat
  BY CountsAreNatural DEF TypeInv, Job
<1> QED
  BY <1>1, <1>2, <1>3, <1>4 DEF Gone, Given

\* Whether the counter of a slot still adds up is a matter of the totals, and of what r holds.
LEMMA AddsUp ==
  ASSUME TypeInv, NEW s \in Slots, slots[s].window # NoWindow, SeatsAddUp(s), NEW r \in Requests,
         \A q \in Requests \ {r} : req'[q] = req[q],
         Gone(s)' \in Nat, Given(s)' \in Nat,
         Gone(s)' + Given(s) <= Gone(s) + Given(s)',
         Gone(s)' + slots'[s].left <= Given(s)' + (IF Untouched(s)' THEN 1 ELSE 0),
         req'[r].slot = s => /\ req'[r].pc = "reserve" => Gone(s)' + req'[r].left <= Given(s)' + 1
                             /\ req'[r].pc = "release" => Gone(s)' + req'[r].left <= Given(s)'
  PROVE  SeatsAddUp(s)'
<1>1. Gone(s) \in Nat /\ Given(s) \in Nat /\ \A q \in Requests : req[q].left \in Nat
  BY SeatNumbers
<1>2. ASSUME NEW q \in Requests, req'[q].slot = s
      PROVE  /\ req'[q].pc = "reserve" => Gone(s)' + req'[q].left <= Given(s)' + 1
             /\ req'[q].pc = "release" => Gone(s)' + req'[q].left <= Given(s)'
  <2>1. CASE q # r
    <3>1. req'[q] = req[q] /\ req[q].left \in Nat
      BY <1>1, <2>1
    <3>2. /\ req[q].pc = "reserve" => Gone(s) + req[q].left <= Given(s) + 1
          /\ req[q].pc = "release" => Gone(s) + req[q].left <= Given(s)
      BY <1>2, <3>1 DEF SeatsAddUp
    <3> QED
      BY <1>1, <3>1, <3>2
  <2> QED
    BY <1>2, <2>1
<1> QED
  BY <1>2 DEF SeatsAddUp

\* A step that is not at the slot.
LEMMA SeatElsewhere ==
  ASSUME TypeInv, OneSlot, NEW s \in Slots, slots[s].window # NoWindow, SeatsAddUp(s), NEW r \in Requests,
         \A q \in Requests \ {r} : req'[q] = req[q], req[r].slot # s, req'[r].slot # s,
         Arrive(r) \/ Continue(r) \/ SeatUpset(r) \/ Lose(r)
  PROVE  SeatsAddUp(s)'
<1> DEFINE w == slots[s].window
<1>0. /\ w \in Windows /\ slots[s].left \in Nat /\ sold[w] \in Nat /\ slips[w] \in Nat
      /\ Cardinality(Buyers(s)) \in Nat /\ Gone(s) \in Nat /\ Given(s) \in Nat /\ Seats \in Nat
  BY SeatNumbers
<1>1. Cardinality(Buyers(s))' = Cardinality(Buyers(s)) /\ (Untouched(s)' <=> Untouched(s))
  BY BuyersCounted DEF Untouched
<1>2. slots'[s] = slots[s]
  <2>1. ASSUME NEW left, SetLeft(r, left) PROVE slots'[s] = slots[s]
    BY <2>1 DEF SetLeft, TypeInv, TypeOK
  <2>2. CASE \E t \in Slots : OpenPut(r, t)
    <3>1. PICK t \in Slots : OpenPut(r, t)
      BY <2>2
    <3> QED
      BY <3>1, OpenPutAlone
  <2>3. CASE SeatReserve(r) \/ GiveBackPut(r)
    BY <2>1, <2>3 DEF SeatReserve, GiveBackPut
  <2>4. CASE ~(SeatReserve(r) \/ GiveBackPut(r) \/ \E t \in Slots : OpenPut(r, t))
    BY <2>4 DEF Arrive, Begin, Continue, CreateStart, OpenStart, SeatStart, MoveStart, AssignStart, MoveTo,
       CreateCount, MoveCount, AssignCheck, SeatRefuse, SeatDone, SeatUpset, MoveReread, MoveCheck,
       AssignRead, GiveBackRead, OpenFind, Private, Lose, MovePlace, MoveToPut, CreateWrite, SeatBook
  <2> QED
    BY <2>2, <2>3, <2>4
<1>3. sold'[w] = sold[w]
  <2>1. CASE \E b \in Bookings : SeatBook(r, b)
    <3>1. PICK b \in Bookings : SeatBook(r, b)
      BY <2>1
    <3>2. req[r].slot \in Slots /\ slots[req[r].slot].window = req[r].window
      BY <3>1 DEF SeatBook, TypeInv, Shape, Buying
    <3>3. req[r].window # w
      BY <3>2 DEF OneSlot
    <3> QED
      BY <3>1, <3>3 DEF SeatBook, TypeInv, TypeOK
  <2>2. CASE ~\E b \in Bookings : SeatBook(r, b)
    BY <2>2 DEF Arrive, Begin, Continue, CreateStart, OpenStart, SeatStart, MoveStart, AssignStart, MoveTo,
       CreateCount, MoveCount, AssignCheck, SeatRefuse, SeatDone, SeatUpset, MoveReread, MoveCheck,
       AssignRead, GiveBackRead, OpenFind, Private, history, Lose, MovePlace, MoveToPut, SeatReserve,
       GiveBackPut, OpenPut, CreateWrite
  <2> QED
    BY <2>1, <2>2
<1>4. slips'[w] \in Nat /\ slips'[w] >= slips[w]
  <2>1. ASSUME NEW v, Slip(v) PROVE slips'[w] \in Nat /\ slips'[w] >= slips[w]
    BY <1>0, <2>1 DEF Slip, TypeInv, TypeOK
  <2>2. slips' = slips \/ \E v : Slip(v)
    <3>1. CASE \E t \in Slots : SeatStart(r, t)
      BY <3>1 DEF SeatStart
    <3>2. CASE ~\E t \in Slots : SeatStart(r, t)
      BY <3>2 DEF Arrive, Continue, CreateStart, OpenStart, MoveStart, AssignStart, MoveTo,
         CreateCount, MoveCount, AssignCheck, SeatRefuse, SeatDone, SeatUpset, MoveReread, MoveCheck,
         AssignRead, GiveBackRead, OpenFind, Private, history, Lose, MovePlace, MoveToPut, SeatReserve,
         GiveBackPut, OpenPut, CreateWrite, SeatBook
    <3> QED
      BY <3>1, <3>2
  <2> QED
    BY <1>0, <2>1, <2>2
<1>5. Gone(s)' = Gone(s) /\ Given(s)' \in Nat /\ Given(s)' >= Given(s)
  BY <1>0, <1>1, <1>2, <1>3, <1>4 DEF Gone, Given
<1>6. Gone(s) + slots[s].left <= Given(s) + (IF Untouched(s) THEN 1 ELSE 0)
  BY DEF SeatsAddUp
<1>7. Gone(s)' + slots'[s].left <= Given(s)' + (IF Untouched(s)' THEN 1 ELSE 0)
  BY <1>0, <1>1, <1>2, <1>5, <1>6
<1> QED
  BY <1>0, <1>5, <1>7, AddsUp

\* Who comes to a slot has just begun.
LEMMA ComesToSlot ==
  ASSUME TypeInv, NEW r \in Requests, NEW s \in Slots, req[r].slot # s, req'[r].slot = s,
         Arrive(r) \/ Continue(r) \/ SeatUpset(r) \/ Lose(r)
  PROVE  SeatStart(r, s)
<1>0. s # NoSlot
  BY NoneIsNone
<1>1. CASE Arrive(r)
  <2>1. ASSUME NEW first, Begin(r, first) PROVE req'[r] = first
    BY <2>1 DEF Begin, TypeInv
  <2>2. CASE \E w \in Windows : CreateStart(r, w) \/ OpenStart(r, w)
    BY <1>0, <2>1, <2>2 DEF CreateStart, OpenStart, Idle
  <2>3. CASE \E t \in Slots : SeatStart(r, t)
    <3>1. PICK t \in Slots : SeatStart(r, t)
      BY <2>3
    <3>2. t = s
      BY <2>1, <3>1 DEF SeatStart, Idle
    <3> QED
      BY <3>1, <3>2
  <2>4. CASE \E b \in Bookings, w \in Windows : MoveStart(r, b, w)
    BY <1>0, <2>1, <2>4 DEF MoveStart, Idle
  <2>5. CASE \E b \in Bookings, x \in Operators : AssignStart(r, b, x)
    BY <1>0, <2>1, <2>5 DEF AssignStart, Idle
  <2>6. CASE \E b \in Bookings, to \in {"in_progress", "completed", "cancelled"} : MoveTo(r, b, to)
    BY <1>0, <2>1, <2>6 DEF MoveTo, Idle
  <2> QED
    BY <1>1, <2>2, <2>3, <2>4, <2>5, <2>6 DEF Arrive
<1>2. CASE ~Arrive(r)
  <2>1. ~Return(r) /\ \A pc : ~Goto(r, pc)
    BY <1>0, Pcs
  <2>2. CASE MoveReread(r) \/ MoveCheck(r) \/ AssignRead(r) \/ GiveBackRead(r)
    <3>1. CASE MoveReread(r)
      BY <3>1 DEF MoveReread, TypeInv, Job
    <3>2. CASE MoveCheck(r)
      BY <2>1, <3>2 DEF MoveCheck, TypeInv, Job
    <3>3. CASE AssignRead(r)
      BY <2>1, <3>3 DEF AssignRead, TypeInv, Job
    <3>4. CASE GiveBackRead(r)
      BY <3>4 DEF GiveBackRead, TypeInv, Job
    <3> QED
      BY <2>2, <3>1, <3>2, <3>3, <3>4
  <2> QED
    BY <1>2, <2>1, <2>2 DEF Continue, CreateCount, MoveCount, AssignCheck, SeatRefuse, SeatDone, SeatUpset,
       Lose, MovePlace, MoveToPut, Put, SeatReserve, GiveBackPut, OpenPut, OpenFind, CreateWrite, SeatBook
<1> QED
  BY <1>1, <1>2

LEMMA SeatBegins ==
  ASSUME TypeInv, NEW s \in Slots, SeatsAddUp(s), NEW r \in Requests, SeatStart(r, s),
         \A q \in Requests \ {r} : req'[q] = req[q]
  PROVE  slots[s].window # NoWindow => SeatsAddUp(s)'
<1> SUFFICES ASSUME slots[s].window # NoWindow PROVE SeatsAddUp(s)'
  OBVIOUS
<1> DEFINE w == slots[s].window
           n == Cardinality(Buyers(s))
<1>0. /\ w \in Windows /\ slots[s].left \in Nat /\ sold[w] \in Nat /\ slips[w] \in Nat
      /\ n \in Nat /\ Gone(s) \in Nat /\ Given(s) \in Nat /\ Seats \in Nat
  BY SeatNumbers
<1>1. /\ slots' = slots /\ sold' = sold /\ req[r].slot # s
      /\ req'[r].slot = s /\ req'[r].pc = "reserve" /\ req'[r].left = slots[s].left
  <2>1. slots' = slots /\ sold' = sold /\ req[r].pc = "idle" /\ Shape(req[r])
    BY DEF SeatStart, Begin, Active, TypeInv
  <2>2. req[r].slot # s
    BY <2>1 DEF Shape, Buying
  <2>3. req'[r] = [Idle EXCEPT !.pc = "reserve", !.slot = s, !.left = slots[s].left, !.window = slots[s].window]
    BY DEF SeatStart, Begin, TypeInv
  <2> QED
    BY <2>1, <2>2, <2>3 DEF Idle
<1>2. Cardinality(Buyers(s))' = n + 1
  BY <1>1, BuyersCounted
<1>3. Gone(s)' = Gone(s) + 1
  BY <1>0, <1>1, <1>2 DEF Gone
<1>4. Gone(s) + slots[s].left <= Given(s) + (IF Untouched(s) THEN 1 ELSE 0)
  BY DEF SeatsAddUp
<1>5. CASE \E q \in Requests : req[q].slot = s
  <2>1. slips'[w] = slips[w] + 1
    BY <1>0, <1>5 DEF SeatStart, Slip, TypeInv, TypeOK
  <2>2. Given(s)' = Given(s) + 1
    BY <1>0, <1>1, <2>1 DEF Given
  <2>3. Untouched(s) => Untouched(s)'
    BY <1>1 DEF Untouched
  <2>4. Gone(s)' + slots'[s].left <= Given(s)' + (IF Untouched(s)' THEN 1 ELSE 0)
    BY <1>0, <1>1, <1>3, <1>4, <2>2, <2>3
  <2>5. Gone(s)' + req'[r].left <= Given(s)' + 1
    BY <1>0, <1>1, <1>3, <1>4, <2>2
  <2>6. Gone(s)' \in Nat /\ Given(s)' \in Nat /\ Gone(s)' + Given(s) <= Gone(s) + Given(s)'
    BY <1>0, <1>3, <2>2
  <2> QED
    BY <1>1, <2>4, <2>5, <2>6, AddsUp
<1>6. CASE ~\E q \in Requests : req[q].slot = s
  <2>1. slips' = slips
    BY <1>6 DEF SeatStart
  <2>2. Given(s)' = Given(s)
    BY <1>1, <2>1 DEF Given
  <2>3. ~Untouched(s) /\ Untouched(s)'
    BY <1>1, <1>6 DEF Untouched
  <2>4. Gone(s) + slots[s].left <= Given(s)
    BY <1>0, <1>4, <2>3
  <2>5. Gone(s)' + slots'[s].left <= Given(s)' + 1
    BY <1>0, <1>1, <1>3, <2>2, <2>4
  <2>6. /\ \A q \in Requests : req'[q].slot = s => q = r
        /\ Gone(s)' + req'[r].left <= Given(s)' + 1
    BY <1>0, <1>1, <1>3, <1>6, <2>2, <2>4
  <2>7. Gone(s)' + slots'[s].left <= Given(s)' + (IF Untouched(s)' THEN 1 ELSE 0)
    BY <2>3, <2>5
  <2>8. ASSUME NEW q \in Requests, req'[q].slot = s
        PROVE  /\ req'[q].pc = "reserve" => Gone(s)' + req'[q].left <= Given(s)' + 1
               /\ req'[q].pc = "release" => Gone(s)' + req'[q].left <= Given(s)'
    <3>1. q = r
      BY <2>6, <2>8
    <3> QED
      BY <1>1, <2>6, <3>1
  <2> QED
    BY <2>7, <2>8 DEF SeatsAddUp
<1> QED
  BY <1>5, <1>6

\* The steps of a request at its slot.
LEMMA SeatGoesOn ==
  ASSUME TypeInv, NEW s \in Slots, slots[s].window # NoWindow, SeatsAddUp(s), NEW r \in Requests,
         req[r].slot = s, \A q \in Requests \ {r} : req'[q] = req[q],
         Arrive(r) \/ Continue(r) \/ SeatUpset(r) \/ Lose(r)
  PROVE  SeatsAddUp(s)'
<1> DEFINE w == slots[s].window
           n == Cardinality(Buyers(s))
           j == req[r]
<1>0. /\ w \in Windows /\ slots[s].left \in Nat /\ sold[w] \in Nat /\ slips[w] \in Nat
      /\ n \in Nat /\ Gone(s) \in Nat /\ Given(s) \in Nat /\ Seats \in Nat
      /\ j.left \in Nat /\ j.window = w /\ j.pc \in Buying /\ s # NoSlot
  BY SeatNumbers, NoneIsNone DEF TypeInv, Shape
<1>1. Gone(s) + slots[s].left <= Given(s) + (IF Untouched(s) THEN 1 ELSE 0)
  BY DEF SeatsAddUp
<1>2. Untouched(s) => j.pc = "reserve"
  BY DEF Untouched
<1>3. /\ j.pc = "reserve" => Gone(s) + j.left <= Given(s) + 1
      /\ j.pc = "release" => Gone(s) + j.left <= Given(s)
  BY DEF SeatsAddUp
<1>4. /\ \A pc : Goto(r, pc) => req'[r].pc = pc /\ req'[r].slot = s
      /\ Return(r) => req'[r].slot # s /\ req'[r].pc = "idle"
  BY <1>0, Pcs
<1>5. ASSUME NEW left \in Nat, SetLeft(r, left)
      PROVE  slots'[s].left = left /\ slots'[s].window = w
  BY <1>5 DEF SetLeft, TypeInv, TypeOK
<1>6. ASSUME req'[r].slot = s => req'[r].pc \notin {"reserve", "release"},
             Gone(s)' \in Nat, Given(s)' \in Nat,
             Gone(s)' + Given(s) <= Gone(s) + Given(s)',
             slots'[s].left \in Nat, Gone(s)' + slots'[s].left <= Given(s)'
      PROVE  SeatsAddUp(s)'
  <2>1. Gone(s)' + slots'[s].left <= Given(s)' + 1
    BY <1>6 DEF SeatsAddUp
  <2>2. Gone(s)' + slots'[s].left <= Given(s)' + (IF Untouched(s)' THEN 1 ELSE 0)
    BY <1>6, <2>1
  <2> QED
    BY <1>6, <2>2, AddsUp
<1>7. CASE SeatReserve(r)
  <2>1. j.pc = "reserve" /\ SetLeft(r, j.left - 1) /\ Goto(r, "book") /\ sold' = sold /\ slips' = slips
    BY <1>7 DEF SeatReserve, history
  <2>2. j.left - 1 \in Nat
    BY <1>0, <2>1 DEF TypeInv, Shape
  <2>3. slots'[s].left = j.left - 1 /\ slots'[s].window = w
    BY <1>5, <2>1, <2>2
  <2>4. Cardinality(Buyers(s))' = n
    BY <1>4, <2>1, BuyersCounted
  <2>5. Gone(s)' = Gone(s) /\ Given(s)' = Given(s)
    BY <2>1, <2>3, <2>4 DEF Gone, Given
  <2> QED
    BY <1>0, <1>3, <1>4, <1>6, <2>1, <2>2, <2>3, <2>5
<1>8. ASSUME UNCHANGED <<slots, sold, slips>>, j.pc # "reserve", Cardinality(Buyers(s))' \in {n, n - 1},
             req'[r].slot = s => req'[r].pc # "reserve",
             req'[r].slot = s /\ req'[r].pc = "release" => req'[r].left = slots[s].left
      PROVE  SeatsAddUp(s)'
  <2>1. Gone(s) + slots[s].left <= Given(s)
    BY <1>0, <1>1, <1>2, <1>8
  <2>2. Given(s)' = Given(s) /\ Gone(s)' \in {Gone(s), Gone(s) - 1} /\ slots'[s] = slots[s]
    BY <1>0, <1>8 DEF Gone, Given
  <2>3. Gone(s)' \in Nat
    <3>1. Cardinality(Buyers(s))' \in Nat
      <4>1. IsFiniteSet(Buyers(s)')
        BY NamesAreFinite, FS_Subset DEF Buyers
      <4> QED
        BY <4>1, FS_CardinalityType
    <3>2. Gone(s)' = sold[w] + Cardinality(Buyers(s))'
      BY <1>8 DEF Gone
    <3> QED
      BY <1>0, <3>1, <3>2
  <2>4. Gone(s)' + slots'[s].left <= Given(s)' + (IF Untouched(s)' THEN 1 ELSE 0)
    BY <1>0, <2>1, <2>2
  <2>5. Gone(s)' + Given(s) <= Gone(s) + Given(s)'
    BY <1>0, <2>2
  <2>6. req'[r].slot = s /\ req'[r].pc = "release" => Gone(s)' + req'[r].left <= Given(s)'
    BY <1>0, <1>8, <2>1, <2>2
  <2> QED
    BY <1>0, <1>8, <2>2, <2>3, <2>4, <2>5, <2>6, AddsUp
<1>9. CASE SeatRefuse(r) \/ SeatDone(r)
  <2>1. UNCHANGED <<slots, sold, slips>> /\ j.pc # "reserve"
    BY <1>9 DEF SeatRefuse, SeatDone, Private, history
  <2>2. Cardinality(Buyers(s))' = n
    BY <1>4, <1>9, BuyersCounted DEF SeatRefuse, SeatDone
  <2>3. req'[r].slot = s => req'[r].pc \notin {"reserve", "release"}
    <3>1. Goto(r, "returning") \/ Return(r)
      BY <1>9 DEF SeatRefuse, SeatDone
    <3> QED
      BY <1>4, <3>1
  <2> QED
    BY <1>8, <2>1, <2>2, <2>3
<1>10. CASE GiveBackRead(r)
  <2>1. UNCHANGED <<slots, sold, slips>> /\ j.pc = "returning"
    BY <1>10 DEF GiveBackRead, Private, history
  <2>2. req'[r].pc = "release" /\ req'[r].slot = s /\ req'[r].left = slots[s].left
    <3> DEFINE job == [j EXCEPT !.pc = "release", !.left = slots[s].left]
    <3>1. req' = [req EXCEPT ![r] = job]
      BY <1>10 DEF GiveBackRead, TypeInv
    <3>2. job.pc = "release" /\ job.slot = s /\ job.left = slots[s].left
      BY DEF TypeInv, Job
    <3> HIDE DEF job
    <3> QED
      BY <3>1, <3>2 DEF TypeInv
  <2>3. Cardinality(Buyers(s))' = n
    BY <2>1, <2>2, BuyersCounted
  <2> QED
    BY <1>8, <2>1, <2>2, <2>3
<1>11. CASE SeatUpset(r)
  <2>1. j.pc = "tell" /\ slots' = slots /\ sold' = sold /\ Slip(w) /\ Goto(r, "returning")
    BY <1>0, <1>11 DEF SeatUpset
  <2>2. slips'[w] = slips[w] + 1
    BY <1>0, <2>1 DEF Slip, TypeInv, TypeOK
  <2>3. Cardinality(Buyers(s))' = n + 1
    BY <1>4, <2>1, BuyersCounted
  <2>4. Gone(s)' = Gone(s) + 1 /\ Given(s)' = Given(s) + 1
    BY <1>0, <2>1, <2>2, <2>3 DEF Gone, Given
  <2>5. Gone(s) + slots[s].left <= Given(s)
    BY <1>0, <1>1, <1>2, <2>1
  <2> QED
    BY <1>0, <1>4, <1>6, <2>1, <2>4, <2>5
<1>12. CASE \E b \in Bookings : SeatBook(r, b)
  <2>1. /\ j.pc = "book" /\ UNCHANGED <<slots, slips>> /\ Goto(r, "tell")
        /\ sold' = [sold EXCEPT ![w] = @ + 1]
    BY <1>0, <1>12 DEF SeatBook
  <2>2. sold'[w] = sold[w] + 1
    BY <1>0, <2>1 DEF TypeInv, TypeOK
  <2>3. Cardinality(Buyers(s))' = n - 1 /\ n - 1 \in Nat
    <3>1. r \in Buyers(s)
      BY <2>1 DEF Buyers
    <3>2. n # 0
      <4>1. IsFiniteSet(Buyers(s))
        BY NamesAreFinite, FS_Subset DEF Buyers
      <4> QED
        BY <3>1, <4>1, FS_EmptySet
    <3> QED
      BY <1>0, <1>4, <2>1, <3>2, BuyersCounted
  <2>4. Gone(s)' = Gone(s) /\ Given(s)' = Given(s)
    BY <1>0, <2>1, <2>2, <2>3 DEF Gone, Given
  <2>5. Gone(s) + slots[s].left <= Given(s)
    BY <1>0, <1>1, <1>2, <2>1
  <2> QED
    BY <1>0, <1>4, <1>6, <2>1, <2>4, <2>5
<1>13. CASE GiveBackPut(r)
  <2> DEFINE left == IF j.left < Seats THEN j.left + 1 ELSE Seats
  <2>1. j.pc = "release" /\ SetLeft(r, left) /\ Return(r) /\ UNCHANGED <<sold, slips>>
    BY <1>13 DEF GiveBackPut, history
  <2>2. left \in Nat /\ left <= j.left + 1
    BY <1>0
  <2> HIDE DEF left
  <2>3. slots'[s].left = left /\ slots'[s].window = w
    BY <1>5, <2>1, <2>2
  <2>4. Cardinality(Buyers(s))' = n - 1 /\ n - 1 \in Nat
    <3>1. r \in Buyers(s)
      BY <2>1 DEF Buyers
    <3>2. n # 0
      <4>1. IsFiniteSet(Buyers(s))
        BY NamesAreFinite, FS_Subset DEF Buyers
      <4> QED
        BY <3>1, <4>1, FS_EmptySet
    <3> QED
      BY <1>0, <1>4, <2>1, <3>2, BuyersCounted
  <2>5. Gone(s)' = Gone(s) - 1 /\ Given(s)' = Given(s) /\ Gone(s)' \in Nat
    BY <1>0, <2>1, <2>3, <2>4 DEF Gone, Given
  <2>6. Gone(s) + j.left <= Given(s)
    BY <1>3, <2>1
  <2> QED
    BY <1>0, <1>4, <1>6, <2>1, <2>2, <2>3, <2>5, <2>6
<1>14. CASE Lose(r)
  <2>1. UNCHANGED <<slots, sold, slips>> /\ Return(r)
    BY <1>14 DEF Lose, history
  <2>2. Cardinality(Buyers(s))' \in {n, n - 1}
    BY <1>4, <2>1, BuyersCounted
  <2>3. CASE j.pc # "reserve"
    BY <1>4, <1>8, <2>1, <2>2, <2>3
  <2>4. CASE j.pc = "reserve"
    <3>1. Cardinality(Buyers(s))' = n - 1 /\ n - 1 \in Nat
      <4>1. r \in Buyers(s)
        BY <2>4 DEF Buyers
      <4>2. n # 0
        <5>1. IsFiniteSet(Buyers(s))
          BY NamesAreFinite, FS_Subset DEF Buyers
        <5> QED
          BY <4>1, <5>1, FS_EmptySet
      <4> QED
        BY <1>0, <1>4, <2>1, <2>4, <4>2, BuyersCounted
    <3>2. Gone(s)' = Gone(s) - 1 /\ Given(s)' = Given(s) /\ Gone(s)' \in Nat /\ slots'[s] = slots[s]
      BY <1>0, <2>1, <3>1 DEF Gone, Given
    <3>3. Gone(s) + slots[s].left <= Given(s) + 1
      BY <1>0, <1>1
    <3> QED
      BY <1>0, <1>4, <1>6, <2>1, <3>2, <3>3
  <2> QED
    BY <2>3, <2>4
<1> QED
  <2>1. ~Arrive(r)
    BY <1>0 DEF Arrive, CreateStart, OpenStart, SeatStart, MoveStart, AssignStart, MoveTo, Begin, Active, Buying
  <2>2. ~(CreateCount(r) \/ MoveCount(r) \/ MoveReread(r) \/ MoveCheck(r) \/ MovePlace(r) \/ AssignCheck(r)
          \/ AssignRead(r) \/ MoveToPut(r) \/ OpenFind(r) \/ (\E t \in Slots : OpenPut(r, t))
          \/ \E b \in Bookings : CreateWrite(r, b))
    BY <1>0 DEF CreateCount, MoveCount, MoveReread, MoveCheck, MovePlace, AssignCheck, AssignRead, MoveToPut,
       OpenFind, OpenPut, CreateWrite, Buying
  <2> QED
    BY <1>7, <1>9, <1>10, <1>11, <1>12, <1>13, <1>14, <2>1, <2>2 DEF Continue

LEMMA NextSeats == SeatInv /\ [Next]_vars => SeatInv'
<1> SUFFICES ASSUME SeatInv, [Next]_vars PROVE SeatInv'
  OBVIOUS
<1>0. TypeInv /\ TypeInv' /\ OneSlot
  BY NextTyped DEF SeatInv
<1>1. CASE UNCHANGED vars
  BY <1>0, <1>1 DEF vars, history, SeatInv, OneSlot, SeatsAddUp, Gone, Given, Buyers, Untouched
<1>2. ASSUME NEW r \in Requests, Arrive(r) \/ Continue(r) \/ SeatUpset(r) \/ Lose(r)
      PROVE  SeatInv'
  <2>1. OneSlot'
    BY <1>0, <1>2, NextOneSlot
  <2>2. \A q \in Requests \ {r} : req'[q] = req[q]
    BY <1>0, <1>2, ReqTyped, Turn
  <2>3. ASSUME NEW s \in Slots, slots'[s].window # NoWindow PROVE SeatsAddUp(s)'
    <3>1. CASE slots[s].window = NoWindow
      <4>1. OpenPut(r, s)
        BY <1>0, <1>2, <2>3, <3>1, SlotKept
      <4> DEFINE w == req[r].window
      <4>2. /\ w \in Windows /\ slots'[s].window = w /\ slots'[s].left = Seats
            /\ sold' = sold /\ slips' = slips /\ sold[w] = 0
        BY <1>0, <4>1, OpenPutAlone
      <4>3. slips[w] \in Nat /\ Seats \in Nat
        BY <1>0, <4>2, CountsAreNatural DEF TypeInv, TypeOK
      <4>4. \A q \in Requests : req'[q].slot # s
        <5>1. \A q \in Requests : req[q].slot # s
          BY <1>0, <3>1, NoneIsNone DEF TypeInv, Shape
        <5>2. ~SeatStart(r, s)
          BY <1>0, <3>1 DEF SeatStart, TypeInv
        <5> QED
          BY <1>0, <1>2, <2>2, <5>1, <5>2, ComesToSlot
      <4>5. Buyers(s)' = {}
        BY <4>4 DEF Buyers
      <4>6. Cardinality(Buyers(s))' = 0
        BY <4>5, FS_EmptySet
      <4>7. Gone(s)' = 0 /\ Given(s)' \in Nat /\ Given(s)' >= Seats
        BY <4>2, <4>3, <4>6 DEF Gone, Given
      <4>8. Gone(s)' + slots'[s].left <= Given(s)' + (IF Untouched(s)' THEN 1 ELSE 0)
        BY <4>2, <4>3, <4>7
      <4> QED
        BY <4>4, <4>8 DEF SeatsAddUp
    <3>2. CASE slots[s].window # NoWindow
      <4>1. SeatsAddUp(s)
        BY <3>2 DEF SeatInv
      <4>2. CASE SeatStart(r, s)
        BY <1>0, <2>2, <3>2, <4>1, <4>2, SeatBegins
      <4>3. CASE req[r].slot = s
        BY <1>0, <1>2, <2>2, <3>2, <4>1, <4>3, SeatGoesOn
      <4>4. CASE ~SeatStart(r, s) /\ req[r].slot # s
        <5>1. req'[r].slot # s
          BY <1>0, <1>2, <4>4, ComesToSlot
        <5> QED
          BY <1>0, <1>2, <2>2, <3>2, <4>1, <4>4, <5>1, SeatElsewhere
      <4> QED
        BY <4>2, <4>3, <4>4
    <3> QED
      BY <3>1, <3>2
  <2> QED
    BY <1>0, <2>1, <2>3 DEF SeatInv
<1> QED
  BY <1>1, <1>2 DEF Next

LEMMA InitSeats == Init => SeatInv
<1> SUFFICES ASSUME Init PROVE SeatInv
  OBVIOUS
<1>1. OneSlot
  BY IdleTyped DEF Init, OneSlot, NotOpen
<1> QED
  BY <1>1, InitTyped DEF Init, SeatInv, NotOpen

\* The seats of a window's slot are sold once: what is left, what is sold and what is in
\* requests' hands adds up to the seats and the slips.
THEOREM SeatsAreSoldOnce == Spec => []SeatsSoldOnce
<1>1. SeatInv => SeatsSoldOnce
  <2> SUFFICES ASSUME SeatInv, NEW w \in Windows PROVE sold[w] <= Seats + slips[w]
    BY DEF SeatsSoldOnce
  <2>1. sold[w] \in Nat /\ slips[w] \in Nat /\ Seats \in Nat
    BY CountsAreNatural DEF SeatInv, TypeInv, TypeOK
  <2>2. CASE sold[w] = 0
    BY <2>1, <2>2
  <2>3. CASE sold[w] # 0
    <3>1. PICK s \in Slots : slots[s].window = w
      BY <2>3 DEF SeatInv, OneSlot
    <3>2. w # NoWindow /\ SeatsAddUp(s) /\ TypeInv
      BY <3>1, NoneIsNone DEF SeatInv
    <3>3. slots[s].left \in Nat /\ Cardinality(Buyers(s)) \in Nat
      BY <3>1, <3>2, SeatNumbers
    <3>4. Gone(s) = sold[w] + Cardinality(Buyers(s)) /\ Given(s) = Seats + slips[w]
      BY <3>1 DEF Gone, Given
    <3>5. Gone(s) + slots[s].left <= Given(s) + (IF Untouched(s) THEN 1 ELSE 0)
      BY <3>2 DEF SeatsAddUp
    <3>6. Untouched(s) => Cardinality(Buyers(s)) >= 1
      <4>1. ASSUME Untouched(s) PROVE Cardinality(Buyers(s)) # 0
        <5>1. PICK r \in Requests : req[r].slot = s /\ req[r].pc = "reserve"
          BY <4>1 DEF Untouched
        <5>2. r \in Buyers(s) /\ IsFiniteSet(Buyers(s))
          BY <5>1, NamesAreFinite, FS_Subset DEF Buyers
        <5> QED
          BY <5>2, FS_EmptySet
      <4> QED
        BY <3>3, <4>1
    <3> QED
      BY <2>1, <3>3, <3>4, <3>5, <3>6
  <2> QED
    BY <2>2, <2>3
<1> QED
  BY <1>1, InitSeats, NextSeats, PTL DEF Spec

-----------------------------------------------------------------------------
(* Room *)

\* Who is inside a window's gate was inside, or has found nobody there, and room.
LEMMA GetsInside ==
  ASSUME TypeInv, NEW r \in Requests, Arrive(r) \/ Continue(r) \/ SeatUpset(r) \/ Lose(r),
         req'[r].pc \in Counting
  PROVE  /\ req'[r].window = req[r].window /\ req'[r].booking = req[r].booking
         /\ \/ req[r].pc \in Counting
            \/ /\ ~Inside(req[r].window) /\ HasRoom(req[r].window, req[r].booking)
               /\ bookings' = bookings /\ met' = met /\ seated' = seated
<1> DEFINE j == req[r]
<1>0. TypeOK /\ req \in [Requests -> Job] /\ j \in Job /\ Shape(j)
  BY DEF TypeInv
<1>1. ASSUME NEW pc, Goto(r, pc)
      PROVE  req'[r].pc = pc /\ req'[r].window = j.window /\ req'[r].booking = j.booking
  BY <1>1 DEF Goto, TypeInv, Job
<1>2. Return(r) => req'[r].pc = "idle"
  BY Pcs
<1>3. CASE CreateCount(r)
  <2>1. j.pc = "gate" /\ ~Inside(j.window) /\ HasRoom(j.window, NoBooking) /\ Goto(r, "write") /\ Private
    BY <1>2, <1>3 DEF CreateCount, Counting
  <2>2. j.booking = NoBooking
    BY <1>0, <2>1 DEF Shape, Job, Moving, Handling
  <2> QED
    BY <1>1, <2>1, <2>2 DEF Private, history
<1>4. CASE MoveCount(r)
  <2>1. ~Inside(j.window) /\ HasRoom(j.window, j.booking) /\ Goto(r, "reread") /\ Private
    BY <1>2, <1>4 DEF MoveCount, Counting
  <2> QED
    BY <1>1, <2>1 DEF Private, history
<1>5. CASE Arrive(r)
  <2>1. ASSUME NEW first, Begin(r, first) PROVE req'[r] = first
    BY <2>1 DEF Begin, TypeInv
  <2>2. CASE \E w \in Windows : CreateStart(r, w) \/ OpenStart(r, w)
    BY <2>1, <2>2 DEF CreateStart, OpenStart, Idle, Counting
  <2>3. CASE \E s \in Slots : SeatStart(r, s)
    BY <2>1, <2>3 DEF SeatStart, Idle, Counting
  <2>4. CASE \E b \in Bookings, w \in Windows : MoveStart(r, b, w)
    BY <2>1, <2>4 DEF MoveStart, Idle, Counting
  <2>5. CASE \E b \in Bookings, x \in Operators : AssignStart(r, b, x)
    BY <2>1, <2>5 DEF AssignStart, Idle, Counting
  <2>6. CASE \E b \in Bookings, to \in {"in_progress", "completed", "cancelled"} : MoveTo(r, b, to)
    BY <2>1, <2>6 DEF MoveTo, Idle, Counting
  <2> QED
    BY <1>5, <2>2, <2>3, <2>4, <2>5, <2>6 DEF Arrive
<1>6. CASE MoveReread(r)
  <2>1. j.pc = "reread"
    BY <1>6 DEF MoveReread
  <2>2. req'[r].window = j.window /\ req'[r].booking = j.booking
    BY <1>0, <1>6 DEF MoveReread, Job
  <2> QED
    BY <2>1, <2>2 DEF Counting
<1>7. CASE MoveCheck(r)
  <2>1. j.pc = "check"
    BY <1>7 DEF MoveCheck
  <2>2. req'[r].window = j.window /\ req'[r].booking = j.booking
    BY <1>0, <1>1, <1>7 DEF MoveCheck, Job
  <2> QED
    BY <2>1, <2>2 DEF Counting
<1>8. CASE AssignRead(r)
  BY <1>0, <1>2, <1>8 DEF AssignRead, Job, Counting
<1>9. CASE GiveBackRead(r)
  BY <1>0, <1>9 DEF GiveBackRead, Job, Counting
<1>10. CASE OpenFind(r) \/ AssignCheck(r) \/ SeatRefuse(r) \/ SeatDone(r) \/ SeatUpset(r)
           \/ Lose(r) \/ MovePlace(r) \/ MoveToPut(r) \/ SeatReserve(r) \/ GiveBackPut(r)
           \/ (\E s \in Slots : OpenPut(r, s)) \/ \E b \in Bookings : CreateWrite(r, b) \/ SeatBook(r, b)
  <2>1. \/ Return(r)
        \/ \E pc \in {"open", "take", "returning", "tell", "book"} : Goto(r, pc)
    BY <1>10 DEF OpenFind, AssignCheck, SeatRefuse, SeatDone, SeatUpset,
       Lose, MovePlace, MoveToPut, Put, SeatReserve, GiveBackPut, OpenPut, CreateWrite, SeatBook
  <2> QED
    BY <1>1, <1>2, <2>1 DEF Counting
<1> QED
  BY <1>3, <1>4, <1>5, <1>6, <1>7, <1>8, <1>9, <1>10 DEF Continue

\* The bookings of a window grow by one, put by who is inside its gate, or not at all.
LEMMA CountedGrows ==
  ASSUME WorkInv, NEW r \in Requests, Arrive(r) \/ Continue(r) \/ SeatUpset(r) \/ Lose(r), NEW w \in Windows
  PROVE  \/ Counted(w)' \subseteq Counted(w)
         \/ /\ req[r].pc \in Counting /\ req[r].window = w /\ req'[r].pc \notin Counting
            /\ \E b \in Bookings : Counted(w)' \subseteq (Counted(w) \ {req[r].booking}) \union {b}
<1> DEFINE j == req[r]
<1>0. /\ TypeInv /\ TypeOK /\ j \in Job /\ Shape(j) /\ NoBooking \notin Bookings
      /\ \A v, c : c \in Counted(v) <=> /\ c \in Bookings \ (met \union seated)
                                        /\ bookings[c].window = v
                                        /\ bookings[c].status \notin {"absent", "cancelled"}
      /\ \A v, c : c \in Counted(v)' <=> /\ c \in Bookings \ (met' \union seated')
                                         /\ bookings'[c].window = v
                                         /\ bookings'[c].status \notin {"absent", "cancelled"}
  BY NoneIsNone DEF WorkInv, TypeInv, Counted, Taken
<1>1. ASSUME bookings' = bookings, met \subseteq met', seated' = seated
      PROVE  Counted(w)' \subseteq Counted(w)
  BY <1>0, <1>1
<1>2. Return(r) => req'[r].pc \notin Counting
  BY <1>0, Pcs DEF Counting
<1>3. CASE \E b \in Bookings : CreateWrite(r, b)
  <2>1. PICK b \in Bookings : CreateWrite(r, b)
    BY <1>3
  <2>2. /\ j.pc \in Counting /\ j.booking = NoBooking /\ Return(r) /\ met' = met /\ seated' = seated
        /\ bookings'[b].window = j.window /\ \A c \in Bookings \ {b} : bookings'[c] = bookings[c]
    <3>1. /\ j.pc = "write" /\ Return(r) /\ met' = met /\ seated' = seated
          /\ bookings' = [bookings EXCEPT ![b] = Requested(j.window)]
      BY <2>1 DEF CreateWrite, history
    <3>2. j.booking = NoBooking
      BY <1>0, <3>1 DEF Shape, Moving, Handling, Job
    <3> QED
      BY <1>0, <3>1, <3>2 DEF Counting, TypeOK, Requested
  <2>3. CASE j.window = w
    BY <1>0, <1>2, <2>2, <2>3
  <2>4. CASE j.window # w
    BY <1>0, <2>2, <2>4
  <2> QED
    BY <2>3, <2>4
<1>4. CASE MovePlace(r)
  <2>1. /\ j.pc \in Counting /\ j.booking \in Bookings /\ Return(r) /\ met' = met /\ seated' = seated \ {j.booking}
        /\ bookings'[j.booking].window = j.window /\ \A c \in Bookings \ {j.booking} : bookings'[c] = bookings[c]
    <3>1. /\ j.pc = "place" /\ Return(r) /\ met' = met /\ seated' = seated \ {j.booking}
          /\ bookings' = [bookings EXCEPT ![j.booking] = j.doc]
      BY <1>4 DEF MovePlace, Put
    <3>2. j.booking \in Bookings /\ j.doc.window = j.window
      BY <1>0, <3>1 DEF Shape, Moving
    <3> QED
      BY <1>0, <3>1, <3>2 DEF Counting, TypeOK
  <2>2. CASE j.window = w
    BY <1>0, <1>2, <2>1, <2>2
  <2>3. CASE j.window # w
    BY <1>0, <2>1, <2>3
  <2> QED
    BY <2>2, <2>3
<1>5. CASE MoveToPut(r)
  <2>1. /\ j.pc = "put" /\ met' = met /\ seated' = seated
        /\ bookings' = [bookings EXCEPT ![j.booking] = j.doc]
    BY <1>5 DEF MoveToPut, Put, history
  <2>2. j.booking \in Bookings
    BY <1>0, <2>1 DEF Shape, Handling
  <2>3. j.booking \notin met => /\ bookings[j.booking].status \notin {"absent", "cancelled"}
                                /\ j.doc.window = bookings[j.booking].window
    BY <2>1, <2>2 DEF WorkInv, Knows, Working, Finished
  <2>4. bookings'[j.booking] = j.doc /\ \A c \in Bookings \ {j.booking} : bookings'[c] = bookings[c]
    BY <1>0, <2>1, <2>2 DEF TypeOK
  <2> QED
    BY <1>0, <2>1, <2>3, <2>4
<1>6. CASE \E b \in Bookings : SeatBook(r, b)
  <2>1. PICK b \in Bookings : SeatBook(r, b)
    BY <1>6
  <2>2. /\ met' = met /\ seated' = seated \union {b}
        /\ \A c \in Bookings \ {b} : bookings'[c] = bookings[c]
    BY <1>0, <2>1 DEF SeatBook, TypeOK
  <2> QED
    BY <1>0, <2>2
<1>7. CASE ~(MovePlace(r) \/ MoveToPut(r) \/ \E b \in Bookings : CreateWrite(r, b) \/ SeatBook(r, b))
  <2>1. bookings' = bookings /\ met \subseteq met' /\ seated' = seated
    <3>1. CASE Arrive(r)
      BY <3>1 DEF Arrive, Begin, CreateStart, OpenStart, SeatStart, MoveStart, AssignStart, MoveTo
    <3>2. CASE Continue(r) \/ SeatUpset(r) \/ Lose(r)
      BY <1>7, <3>2 DEF Continue, CreateCount, MoveCount, AssignCheck, SeatRefuse, SeatDone, SeatUpset,
         MoveReread, MoveCheck, AssignRead, GiveBackRead, OpenFind, Private, history, Lose, SeatReserve,
         GiveBackPut, OpenPut
    <3> QED
      BY <3>1, <3>2
  <2> QED
    BY <1>1, <2>1
<1> QED
  BY <1>3, <1>4, <1>5, <1>6, <1>7

LEMMA NextRoom == RoomInv /\ [Next]_vars => RoomInv'
<1> SUFFICES ASSUME RoomInv, [Next]_vars PROVE RoomInv'
  OBVIOUS
<1>0. WorkInv /\ TypeInv /\ WorkInv'
  BY NextWork DEF RoomInv, WorkInv
<1>1. CASE UNCHANGED vars
  BY <1>0, <1>1 DEF vars, RoomInv, Counted, Taken, WindowNotOverbooked
<1>2. ASSUME NEW r \in Requests, Arrive(r) \/ Continue(r) \/ SeatUpset(r) \/ Lose(r)
      PROVE  RoomInv'
  <2>1. \A q \in Requests \ {r} : req'[q] = req[q]
    BY <1>0, <1>2, ReqTyped, Turn
  <2>2. req'[r].pc \in Counting =>
         /\ req'[r].window = req[r].window /\ req'[r].booking = req[r].booking
         /\ \/ req[r].pc \in Counting
            \/ /\ ~Inside(req[r].window) /\ HasRoom(req[r].window, req[r].booking)
               /\ bookings' = bookings /\ met' = met /\ seated' = seated
    BY <1>0, <1>2, GetsInside
  <2>3. \A q \in Requests \ {r} : req'[r].pc \in Counting /\ req[q].pc \in Counting => req[q].window # req'[r].window
    BY <2>2 DEF RoomInv, Inside, Counting
  <2>4. \A p, q \in Requests :
          p # q /\ req'[p].pc \in Counting /\ req'[q].pc \in Counting => req'[p].window # req'[q].window
    BY <2>1, <2>3 DEF RoomInv
  <2>5. \A w, b : IsFiniteSet(Counted(w)) /\ IsFiniteSet(Counted(w) \ {b}) /\ IsFiniteSet(Taken(w, b))
    BY NamesAreFinite, FS_Subset DEF Counted, Taken
  <2>6. Capacity \in Nat
    BY CountsAreNatural
  <2>7. ASSUME NEW S, NEW T, S \subseteq T, IsFiniteSet(T)
        PROVE  Cardinality(S) \in Nat /\ Cardinality(T) \in Nat /\ Cardinality(S) <= Cardinality(T)
    BY <2>7, FS_Subset, FS_CardinalityType
  <2>8. \A q \in Requests : req[q].pc \in Counting => req[q].window \in Windows
    BY <1>0 DEF TypeInv, Shape
  <2>9. ASSUME NEW q \in Requests, req'[q].pc \in Counting,
               NEW w \in Windows, w = req'[q].window, NEW b \in Bookings \union {NoBooking}, b = req'[q].booking
        PROVE  Cardinality(Counted(w)' \ {b}) < Capacity
    <3>1. CASE req[q].pc \in Counting
      <4>1. req[q].window = w /\ req[q].booking = b /\ w \in Windows
        BY <2>1, <2>2, <2>8, <2>9, <3>1
      <4>2. Cardinality(Counted(w) \ {b}) < Capacity
        BY <3>1, <4>1 DEF RoomInv
      <4>3. Counted(w)' \subseteq Counted(w)
        <5>1. ~(req[r].pc \in Counting /\ req[r].window = w /\ req'[r].pc \notin Counting)
          BY <2>9, <3>1, <4>1 DEF RoomInv
        <5> QED
          BY <1>0, <1>2, <4>1, <5>1, CountedGrows
      <4>4. Cardinality(Counted(w)' \ {b}) <= Cardinality(Counted(w) \ {b})
            /\ Cardinality(Counted(w)' \ {b}) \in Nat /\ Cardinality(Counted(w) \ {b}) \in Nat
        BY <2>5, <2>7, <4>3
      <4> QED
        BY <2>6, <4>2, <4>4
    <3>2. CASE req[q].pc \notin Counting
      <4>1. q = r
        BY <2>1, <2>9, <3>2
      <4>2. HasRoom(w, b) /\ bookings' = bookings /\ met' = met /\ seated' = seated
        BY <2>2, <2>9, <3>2, <4>1
      <4>3. Counted(w)' \ {b} \subseteq Taken(w, b)
        BY <4>2 DEF Counted, Taken
      <4>4. Cardinality(Counted(w)' \ {b}) <= Cardinality(Taken(w, b))
            /\ Cardinality(Counted(w)' \ {b}) \in Nat /\ Cardinality(Taken(w, b)) \in Nat
        BY <2>5, <2>7, <4>3
      <4> QED
        BY <2>6, <4>2, <4>4 DEF HasRoom
    <3> QED
      BY <3>1, <3>2
  <2>10. ASSUME NEW w \in Windows PROVE Cardinality(Counted(w)') <= Capacity
    <3>1. CASE Counted(w)' \subseteq Counted(w)
      <4>1. Cardinality(Counted(w)) <= Capacity
        BY DEF RoomInv, WindowNotOverbooked, Counted
      <4>2. Cardinality(Counted(w)') <= Cardinality(Counted(w))
            /\ Cardinality(Counted(w)') \in Nat /\ Cardinality(Counted(w)) \in Nat
        BY <2>5, <2>7, <3>1
      <4> QED
        BY <2>6, <4>1, <4>2
    <3>2. CASE ~(Counted(w)' \subseteq Counted(w))
      <4>1. /\ req[r].pc \in Counting /\ req[r].window = w
            /\ \E b \in Bookings : Counted(w)' \subseteq (Counted(w) \ {req[r].booking}) \union {b}
        BY <1>0, <1>2, <3>2, CountedGrows
      <4>2. PICK b \in Bookings : Counted(w)' \subseteq (Counted(w) \ {req[r].booking}) \union {b}
        BY <4>1
      <4> DEFINE others == Counted(w) \ {req[r].booking}
      <4>3. Cardinality(others) < Capacity
        BY <4>1 DEF RoomInv
      <4>4. IsFiniteSet(others)
        BY <2>5
      <4> HIDE DEF others
      <4>5. /\ IsFiniteSet(others \union {b}) /\ Cardinality(others) \in Nat
            /\ Cardinality(others \union {b}) <= Cardinality(others) + 1
        <5>1. Cardinality(others) \in Nat
          BY <4>4, FS_CardinalityType
        <5>2. CASE b \in others
          <6>1. others \union {b} = others
            BY <5>2
          <6>2. IsFiniteSet(others \union {b}) /\ Cardinality(others \union {b}) = Cardinality(others)
            BY ONLY <4>4, <6>1, Zenon
          <6>3. Cardinality(others) <= Cardinality(others) + 1
            BY ONLY <5>1
          <6> QED
            BY <5>1, <6>2, <6>3
        <5>3. CASE b \notin others
          BY <4>4, <5>1, <5>3, FS_AddElement
        <5> QED
          BY <5>2, <5>3
      <4>6. Counted(w)' \subseteq others \union {b}
        BY <4>2 DEF others
      <4>7. Cardinality(Counted(w)') <= Cardinality(others \union {b})
            /\ Cardinality(Counted(w)') \in Nat /\ Cardinality(others \union {b}) \in Nat
        BY <2>7, <4>5, <4>6
      <4> QED
        BY <2>6, <4>3, <4>5, <4>7
    <3> QED
      BY <3>1, <3>2
  <2>11. WindowNotOverbooked'
    BY <2>10 DEF WindowNotOverbooked, Counted
  <2>12. ASSUME NEW q \in Requests, req'[q].pc \in Counting
         PROVE  (Cardinality(Counted(req[q].window) \ {req[q].booking}) < Capacity)'
    <3>1. req'[q].window \in Windows /\ req'[q].booking \in Bookings \union {NoBooking}
      BY <1>0, <2>12 DEF WorkInv, TypeInv, Shape, Job
    <3>2. PICK w \in Windows, b \in Bookings \union {NoBooking} : w = req'[q].window /\ b = req'[q].booking
      BY <3>1
    <3>3. Cardinality(Counted(w)' \ {b}) < Capacity
      BY <2>9, <2>12, <3>2
    <3> QED
      BY <3>2, <3>3 DEF Counted
  <2> QED
    BY <1>0, <2>4, <2>11, <2>12 DEF RoomInv
<1> QED
  BY <1>1, <1>2 DEF Next

LEMMA InitRoom == Init => RoomInv
<1> SUFFICES ASSUME Init PROVE RoomInv
  OBVIOUS
<1>1. \A r \in Requests : req[r].pc \notin Counting
  BY IdleTyped DEF Init, Counting
<1>2. ASSUME NEW w \in Windows PROVE Cardinality(Counted(w)) <= Capacity
  <2>1. Counted(w) = {}
    BY DEF Init, Counted, Taken, Absent
  <2> QED
    BY <2>1, FS_EmptySet, CountsAreNatural
<1>3. WindowNotOverbooked
  BY <1>2 DEF WindowNotOverbooked, Counted
<1> QED
  BY <1>1, <1>3, InitWork DEF RoomInv

\* A window takes no more bookings than it has places: who is inside its gate is alone
\* there, and beside the booking it moves there is a place to spare.
THEOREM RoomIsKept == Spec => []WindowNotOverbooked
<1>1. RoomInv => WindowNotOverbooked
  BY DEF RoomInv
<1> QED
  BY <1>1, InitRoom, NextRoom, PTL DEF Spec

-----------------------------------------------------------------------------
(* The chain of promises behind a gate.  Each call knows one promise only,  *)
(* so the invariant says what the chain amounts to.                         *)

CONSTANTS Calls, NoCall, Keys, NoKey

VARIABLES running, key, previous, stage, threw, ahead

Queue == INSTANCE OneAtATime

\* What OneAtATime assumes of its constants.
Placeholders == NoCall \notin Calls /\ NoKey \notin Keys

Made(c) == stage[c] # "unmade"

\* Keys and promises are those of calls that were made.
Recorded ==
  \A c \in Calls :
    /\ Made(c) <=> key[c] \in Keys
    /\ previous[c] # NoCall => Made(previous[c])
    /\ \A a \in ahead[c] : Made(a) /\ key[a] = key[c]

\* Of any two calls with one key, one came behind the other or found it over.
Ordered ==
  \A c, d \in Calls :
    Made(c) /\ Made(d) /\ c # d /\ key[c] = key[d] =>
      c \in ahead[d] \/ d \in ahead[c] \/ Queue!Settled(c) \/ Queue!Settled(d)

\* The calls a waiting call came behind are over, or are behind the one it is chained to.
Chained ==
  \A c \in Calls : stage[c] = "queued" =>
    \A a \in ahead[c] :
      \/ Queue!Settled(a)
      \/ a = previous[c]
      \/ previous[c] # NoCall /\ a \in ahead[previous[c]]

\* The calls that a started call came behind are over.
Started ==
  \A c \in Calls : stage[c] \in {"working", "over", "answered"} => \A a \in ahead[c] : Queue!Settled(a)

\* The calls with a key are over, or are behind the one in the map.
Mapped ==
  \A k \in Keys, c \in Calls :
    key[c] = k =>
      \/ Queue!Settled(c)
      \/ c = running[k]
      \/ running[k] # NoCall /\ c \in ahead[running[k]]

QueueInv ==
  /\ Queue!TypeOK
  /\ Recorded
  /\ Ordered
  /\ Chained
  /\ Started
  /\ Mapped
  /\ Queue!NothingKept

LEMMA RunKeeps ==
  ASSUME Placeholders, QueueInv, NEW c \in Calls, NEW k \in Keys, Queue!Run(c, k)
  PROVE  QueueInv'
<1> USE DEF Placeholders, QueueInv, Made, Queue!Settled, Queue!Stages
<1>1. Queue!TypeOK'
  BY DEF Queue!Run, Queue!TypeOK, Queue!Present
<1>2. \A d \in Calls : d # c => UNCHANGED <<stage[d], key[d], previous[d], ahead[d]>>
  BY DEF Queue!Run, Queue!TypeOK
<1>3. /\ stage'[c] = "queued" /\ key'[c] = k /\ previous'[c] = running[k] /\ ahead'[c] = Queue!Present(k)
      /\ running' = [running EXCEPT ![k] = c]
      /\ stage[c] = "unmade"
  BY DEF Queue!Run, Queue!TypeOK
<1>4. Recorded'
  <2> SUFFICES ASSUME NEW d \in Calls
               PROVE  /\ Made(d)' <=> key'[d] \in Keys
                      /\ previous'[d] # NoCall => Made(previous[d])'
                      /\ \A a \in ahead'[d] : Made(a)' /\ key'[a] = key'[d]
    BY DEF Recorded
  <2>1. CASE d = c
    <3>1. running[k] # NoCall => running[k] \in Calls /\ Made(running[k])
      BY DEF Queue!NothingKept, Queue!TypeOK
    <3>2. \A a \in Queue!Present(k) : a \in Calls /\ a # c /\ Made(a) /\ key[a] = k
      BY <1>3 DEF Queue!Present
    <3> QED
      BY <1>2, <1>3, <2>1, <3>1, <3>2
  <2>2. CASE d # c
    <3>1. /\ previous[d] # NoCall => previous[d] \in Calls /\ previous[d] # c
          /\ \A a \in ahead[d] : a \in Calls /\ a # c
      BY <1>3 DEF Recorded, Queue!TypeOK
    <3> QED
      BY <1>2, <2>2, <3>1 DEF Recorded
  <2> QED
    BY <2>1, <2>2
<1>5. \A d \in Calls : key[d] = k =>
          Queue!Settled(d) \/ d = running[k] \/ (running[k] # NoCall /\ d \in ahead[running[k]])
  BY DEF Mapped
<1>6. \A d \in Calls : Made(d) /\ key[d] = k => d \in Queue!Present(k) \/ Queue!Settled(d)
  BY DEF Queue!TypeOK, Queue!Present
<1>7. Ordered'
  BY <1>2, <1>3, <1>6 DEF Queue!TypeOK, Ordered, Recorded
<1>8. Chained'
  <2> SUFFICES ASSUME NEW d \in Calls, stage'[d] = "queued", NEW a \in ahead'[d]
               PROVE  \/ Queue!Settled(a)' \/ a = previous'[d]
                      \/ previous'[d] # NoCall /\ a \in ahead'[previous'[d]]
    BY DEF Chained
  <2>1. CASE d = c
    <3>1. a \in Calls /\ key[a] = k /\ ~Queue!Settled(a) /\ a # c
      BY <1>3, <2>1 DEF Queue!Present
    <3>2. a = running[k] \/ (running[k] # NoCall /\ a \in ahead[running[k]])
      BY <1>5, <3>1
    <3>3. running[k] # NoCall => running[k] \in Calls /\ running[k] # c
      BY <1>3 DEF Queue!NothingKept, Queue!TypeOK
    <3> QED
      BY <1>2, <1>3, <2>1, <3>2, <3>3
  <2>2. CASE d # c
    <3>1. a \in ahead[d] /\ stage[d] = "queued" /\ a \in Calls /\ Made(a)
      BY <1>2, <2>2 DEF Recorded, Queue!TypeOK
    <3>2. a # c /\ (previous[d] # NoCall => previous[d] \in Calls /\ previous[d] # c)
      BY <1>3, <3>1 DEF Recorded, Queue!TypeOK
    <3> QED
      BY <1>2, <2>2, <3>1, <3>2 DEF Chained
  <2> QED
    BY <2>1, <2>2
<1>9. Started'
  <2> SUFFICES ASSUME NEW d \in Calls, stage'[d] \in {"working", "over", "answered"}, NEW a \in ahead'[d]
               PROVE  Queue!Settled(a)'
    BY DEF Started
  <2>1. d # c /\ a \in ahead[d] /\ stage[d] \in {"working", "over", "answered"}
    BY <1>2, <1>3
  <2>2. a \in Calls /\ Queue!Settled(a) /\ a # c
    BY <1>3, <2>1 DEF Started, Queue!TypeOK
  <2> QED
    BY <1>2, <2>2
<1>10. Mapped'
  <2> SUFFICES ASSUME NEW j \in Keys, NEW d \in Calls, key'[d] = j
               PROVE  \/ Queue!Settled(d)' \/ d = running'[j]
                      \/ running'[j] # NoCall /\ d \in ahead'[running'[j]]
    BY DEF Mapped
  <2>1. CASE d = c
    BY <1>3, <2>1 DEF Queue!TypeOK
  <2>2. CASE d # c /\ j = k
    <3>1. Made(d) /\ key[d] = k
      BY <1>2, <2>2 DEF Recorded
    <3>2. d \in Queue!Present(k) \/ Queue!Settled(d)'
      BY <1>2, <1>6, <2>2, <3>1
    <3>3. running'[k] = c
      BY <1>3 DEF Queue!TypeOK
    <3> QED
      BY <1>3, <2>2, <3>2, <3>3
  <2>3. CASE d # c /\ j # k
    <3>1. key[d] = j /\ running'[j] = running[j]
      BY <1>2, <1>3, <2>3 DEF Queue!TypeOK
    <3>2. running[j] # NoCall => running[j] \in Calls /\ running[j] # c
      BY <1>3 DEF Queue!NothingKept, Queue!TypeOK
    <3> QED
      BY <1>2, <2>3, <3>1, <3>2 DEF Mapped
  <2> QED
    BY <2>1, <2>2, <2>3
<1>11. Queue!NothingKept'
  <2> SUFFICES ASSUME NEW j \in Keys, running'[j] # NoCall
               PROVE  key'[running'[j]] = j /\ stage'[running'[j]] \in {"queued", "working", "over"}
    BY DEF Queue!NothingKept
  <2>1. CASE j = k
    BY <1>3, <2>1 DEF Queue!TypeOK
  <2>2. CASE j # k
    <3>1. running'[j] = running[j] /\ running[j] \in Calls /\ running[j] # c
      BY <1>3, <2>2 DEF Queue!TypeOK, Queue!NothingKept
    <3> QED
      BY <1>2, <3>1 DEF Queue!NothingKept
  <2> QED
    BY <2>1, <2>2
<1> QED
  BY <1>1, <1>4, <1>7, <1>8, <1>9, <1>10, <1>11

\* When a call starts, all that it came behind are over.
LEMMA TurnHasCome ==
  ASSUME Placeholders, QueueInv, NEW c \in Calls, stage[c] = "queued", Queue!MayStart(c)
  PROVE  \A a \in ahead[c] : Queue!Settled(a)
<1> SUFFICES ASSUME NEW a \in ahead[c] PROVE Queue!Settled(a)
  OBVIOUS
<1>1. a \in Calls
  BY DEF QueueInv, Queue!TypeOK
<1>2. CASE previous[c] = NoCall
  BY <1>1, <1>2 DEF Placeholders, QueueInv, Chained
<1>3. CASE previous[c] # NoCall
  <2>1. previous[c] \in Calls /\ Queue!Settled(previous[c])
    BY <1>3 DEF QueueInv, Queue!TypeOK, Queue!MayStart
  <2>2. \A b \in ahead[previous[c]] : Queue!Settled(b)
    BY <2>1 DEF QueueInv, Started, Queue!Settled
  <2> QED
    BY <2>1, <2>2 DEF QueueInv, Chained
<1> QED
  BY <1>2, <1>3

\* A step that only takes a call forward keeps what is said of the others.
LEMMA WorkKeeps ==
  ASSUME Placeholders, QueueInv, NEW c \in Calls, Queue!Work(c)
  PROVE  QueueInv'
<1> USE DEF QueueInv
<1>1. UNCHANGED <<key, previous, ahead>>
  BY DEF Queue!Work, Queue!Start, Queue!Finish, Queue!Leave
<1>2. /\ \A d \in Calls : d # c => stage'[d] = stage[d]
      /\ \/ stage[c] = "queued" /\ stage'[c] = "working" /\ Queue!MayStart(c)
         \/ stage[c] = "working" /\ stage'[c] = "over"
         \/ stage[c] = "over" /\ stage'[c] = "answered"
  BY DEF Queue!Work, Queue!Start, Queue!Finish, Queue!Leave, Queue!TypeOK
<1>3. \A d \in Calls : /\ Queue!Settled(d) => Queue!Settled(d)'
                       /\ Made(d) <=> Made(d)'
                       /\ stage'[d] = "queued" => stage[d] = "queued"
  BY <1>2 DEF Queue!Settled, Made
<1>4. Queue!TypeOK'
  BY <1>1 DEF Queue!TypeOK, Queue!Stages, Queue!Work, Queue!Start, Queue!Finish, Queue!Leave
<1>5. Recorded'
  BY <1>1, <1>3 DEF Recorded, Queue!TypeOK
<1>6. Ordered'
  BY <1>1, <1>3 DEF Ordered
<1>7. Chained'
  BY <1>1, <1>3 DEF Chained, Queue!TypeOK
<1>8. Started'
  <2> SUFFICES ASSUME NEW d \in Calls, stage'[d] \in {"working", "over", "answered"}, NEW a \in ahead[d]
               PROVE  Queue!Settled(a)'
    BY <1>1 DEF Started
  <2>1. a \in Calls
    BY DEF Queue!TypeOK
  <2>2. CASE d = c /\ stage[c] = "queued"
    BY <1>2, <1>3, <2>1, <2>2, TurnHasCome
  <2>3. CASE ~(d = c /\ stage[c] = "queued")
    BY <1>2, <1>3, <2>1, <2>3 DEF Started
  <2> QED
    BY <2>2, <2>3
<1>9. CASE Queue!Leave(c) /\ Queue!LastOneOut(c)
  <2>1. key[c] \in Keys /\ running' = [running EXCEPT ![key[c]] = NoCall] /\ Queue!Settled(c)
    BY <1>2, <1>9 DEF Queue!Leave, Recorded, Made, Queue!Settled
  <2>2. \A a \in ahead[c] : Queue!Settled(a)
    BY <1>9 DEF Started, Queue!Leave
  <2>3. Mapped'
    BY <1>1, <1>3, <1>9, <2>1, <2>2 DEF Placeholders, Mapped, Queue!LastOneOut, Queue!TypeOK
  <2>4. Queue!NothingKept'
    BY <1>1, <1>2, <1>9, <2>1 DEF Queue!NothingKept, Queue!LastOneOut, Queue!TypeOK
  <2> QED
    BY <1>4, <1>5, <1>6, <1>7, <1>8, <2>3, <2>4
<1>10. CASE ~(Queue!Leave(c) /\ Queue!LastOneOut(c))
  <2>1. running' = running
    BY <1>10 DEF Queue!Work, Queue!Start, Queue!Finish, Queue!Leave
  <2>2. Mapped'
    BY <1>1, <1>3, <2>1 DEF Mapped
  <2>3. stage'[c] = "answered" => running[key[c]] # c
    BY <1>2, <1>10 DEF Queue!Work, Queue!Start, Queue!Finish, Queue!Leave, Queue!LastOneOut
  <2>4. Queue!NothingKept'
    BY <1>1, <1>2, <2>1, <2>3 DEF Queue!NothingKept, Queue!TypeOK
  <2> QED
    BY <1>4, <1>5, <1>6, <1>7, <1>8, <2>2, <2>4
<1> QED
  BY <1>9, <1>10

\* The chain of promises is what Recorded to NothingKept say it is, in every state.
THEOREM QueueInvariance == ASSUME Placeholders PROVE Queue!Spec => []QueueInv
<1>1. Queue!Init => QueueInv
  BY DEF Placeholders, Queue!Init, QueueInv, Queue!TypeOK, Queue!Stages, Recorded, Ordered, Chained, Started, Mapped, Queue!NothingKept,
     Made, Queue!Settled
<1>2. QueueInv /\ [Queue!Next]_(Queue!vars) => QueueInv'
  <2> SUFFICES ASSUME QueueInv, [Queue!Next]_(Queue!vars) PROVE QueueInv'
    OBVIOUS
  <2>1. CASE UNCHANGED Queue!vars
    BY <2>1 DEF Queue!vars, QueueInv, Queue!TypeOK, Recorded, Ordered, Chained, Started, Mapped, Queue!NothingKept, Made, Queue!Settled
  <2> QED
    BY <2>1, RunKeeps, WorkKeeps DEF Queue!Next
<1> QED
  BY <1>1, <1>2, PTL DEF Queue!Spec

\* However many calls come with one key, one is at work at a time.
THEOREM Exclusion == ASSUME Placeholders PROVE Queue!Spec => []Queue!OneInside
<1>1. QueueInv => Queue!OneInside
  BY DEF QueueInv, Ordered, Started, Recorded, Queue!OneInside, Made, Queue!Settled
<1> QED
  BY <1>1, QueueInvariance, PTL

\* The map holds the calls that have not answered, and nothing else.
THEOREM MapIsCleared == ASSUME Placeholders PROVE Queue!Spec => []Queue!NothingKept
<1>1. QueueInv => Queue!NothingKept
  BY DEF QueueInv
<1> QED
  BY <1>1, QueueInvariance, PTL

LEMMA StepTakesTurns ==
  ASSUME Placeholders, QueueInv, QueueInv', [Queue!Next]_(Queue!vars)
  PROVE  [Queue!Turns!Next]_(Queue!Turns!vars)
<1> DEFINE waiting == [k \in Keys |-> {c \in Calls : key[c] = k /\ stage[c] = "queued"}]
           inside == [k \in Keys |-> {c \in Calls : key[c] = k /\ stage[c] = "working"}]
<1>0. \A k \in Keys : Queue!Turns!Present(k) = Queue!Present(k)
  BY DEF Queue!Turns!Present, Queue!Present
<1>1. ASSUME NEW c \in Calls, NEW k \in Keys, Queue!Run(c, k) PROVE Queue!Turns!Next
  <2>1. /\ stage[c] = "unmade" /\ stage' = [stage EXCEPT ![c] = "queued"]
        /\ key' = [key EXCEPT ![c] = k] /\ ahead' = [ahead EXCEPT ![c] = Queue!Present(k)]
        /\ stage \in [Calls -> Queue!Stages] /\ key \in [Calls -> Keys \union {NoKey}]
        /\ key[c] \notin Keys
    BY <1>1 DEF Queue!Run, QueueInv, Queue!TypeOK, Recorded, Made
  <2>2. \A j \in Keys : c \notin Queue!Turns!Present(j)
    BY <1>0, <2>1 DEF Queue!Present
  <2>3. waiting' = [waiting EXCEPT ![k] = @ \union {c}]
    BY <2>1
  <2>4. UNCHANGED inside
    BY <2>1
  <2> QED
    BY <1>0, <2>1, <2>2, <2>3, <2>4 DEF Queue!Turns!Come, Queue!Turns!Next
<1>2. ASSUME NEW c \in Calls, Queue!Start(c) PROVE Queue!Turns!Next
  <2>1. /\ stage[c] = "queued" /\ stage' = [stage EXCEPT ![c] = "working"]
        /\ stage \in [Calls -> Queue!Stages] /\ key[c] \in Keys /\ key' = key /\ ahead' = ahead
    BY <1>2 DEF Queue!Start, QueueInv, Queue!TypeOK, Recorded, Made
  <2>2. ahead[c] \intersect Queue!Turns!Present(key[c]) = {}
    BY <1>0, <1>2, <2>1, TurnHasCome DEF Queue!Start, Queue!Present, Queue!Settled
  <2>3. waiting' = [waiting EXCEPT ![key[c]] = @ \ {c}]
    BY <2>1
  <2>4. inside' = [inside EXCEPT ![key[c]] = @ \union {c}]
    BY <2>1
  <2> QED
    BY <2>1, <2>2, <2>3, <2>4 DEF Queue!Turns!Enter, Queue!Turns!Next
<1>3. ASSUME NEW c \in Calls, Queue!Finish(c) PROVE Queue!Turns!Next
  <2>1. /\ stage[c] = "working" /\ stage' = [stage EXCEPT ![c] = "over"]
        /\ stage \in [Calls -> Queue!Stages] /\ key[c] \in Keys /\ key' = key /\ ahead' = ahead
    BY <1>3 DEF Queue!Finish, QueueInv, Queue!TypeOK, Recorded, Made
  <2>2. UNCHANGED waiting
    BY <2>1
  <2>3. inside' = [inside EXCEPT ![key[c]] = @ \ {c}]
    BY <2>1
  <2> QED
    BY <2>1, <2>2, <2>3 DEF Queue!Turns!End, Queue!Turns!Next
<1>4. ASSUME NEW c \in Calls, Queue!Leave(c) PROVE UNCHANGED Queue!Turns!vars
  <2>1. /\ stage[c] = "over" /\ stage' = [stage EXCEPT ![c] = "answered"]
        /\ stage \in [Calls -> Queue!Stages] /\ key' = key /\ ahead' = ahead
    BY <1>4 DEF Queue!Leave, QueueInv, Queue!TypeOK
  <2> QED
    BY <2>1 DEF Queue!Turns!vars
<1>5. CASE UNCHANGED Queue!vars
  BY <1>5 DEF Queue!vars, Queue!Turns!vars
<1> QED
  BY <1>1, <1>2, <1>3, <1>4, <1>5 DEF Queue!Next, Queue!Work

\* The chain of promises implements taking turns: each call is worked after all that came
\* before it with its key, and whether those rejected is not seen.
THEOREM TakesTurns == ASSUME Placeholders PROVE Queue!Spec => Queue!Turns!Safety
<1>1. Queue!Init => Queue!Turns!Init
  BY DEF Placeholders, Queue!Init, Queue!Turns!Init
<1>2. QueueInv /\ QueueInv' /\ [Queue!Next]_(Queue!vars) => [Queue!Turns!Next]_(Queue!Turns!vars)
  BY StepTakesTurns
<1> QED
  BY QueueInvariance, <1>1, <1>2, PTL DEF Queue!Spec, Queue!Turns!Safety

=============================================================================
