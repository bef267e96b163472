-------------------------- MODULE RecurringPickups --------------------------
(***************************************************************************)
(* Pickups nobody books by hand: the standing arrangements of residents    *)
(* and the two generators that turn them into bookings.                    *)
(*   washnpress-v2/src/services/schedule-service.ts   create, update,      *)
(*        cancel, generateUpcoming ("sweep" here)                          *)
(*   washnpress-v2/src/services/recurring-service.ts  generateUpcoming     *)
(*        ("pass" here), on the timer of jobs/job-runner.ts                *)
(*   washnpress-v2/src/domain/recurrence.ts           which days           *)
(*   washnpress-v2/src/services/scheduling-service.ts book, as far as the  *)
(*        generators depend on it                                          *)
(* A worker is a pass, a sweep or a resident's request; each store call is *)
(* a step, and a put writes back the document the worker read.             *)
(*                                                                         *)
(* A slot is the tick at which its window starts: there is one society,    *)
(* with one slot per window.  It takes bookings until that tick.  A        *)
(* resident's cancellation or move of a pickup is one step here;           *)
(* PickupScheduling has its steps, the order of each pickup, and slots     *)
(* that are closed.  Left out: what is collected, and how far a schedule   *)
(* was generated, which is written down and never read.                    *)
(***************************************************************************)
EXTENDS Integers, Sequences, FiniteSets

CONSTANTS
  Residents, NoResident,
  Schedules,          \* identities for schedules
  Owner,              \* whose each of them is
  Offered,            \* the recurrences residents may ask for
  Allowance,          \* the pickups a month of each resident's plan
  Lapsed,             \* residents with no plan in force
  LastSlot,           \* bound: the slots are 0..LastSlot
  Places,             \* the places in each slot
  Kept,               \* the slots kept for subscribers
  Week, WindowsADay,  \* days in a week, windows in a day
  Horizon,            \* recurringHorizonDays
  Offset,             \* how far the local time of a slot, stored as UTC, is ahead
  Passes, Sweeps, Requests,
  MaxRequests, MaxFaults, MaxTime

Slots == 0..LastSlot
Frequencies == {"one_time", "daily", "alternate_days", "twice_weekly", "weekly", "custom"}
Recurrence == [every : Frequencies, on : SUBSET (0..(Week - 1))]

ASSUME PeopleAreKnown ==
  NoResident \notin Residents /\ Lapsed \subseteq Residents /\ Owner \in [Schedules -> Residents]
ASSUME PlansAreNatural == Allowance \in [Residents -> Nat] /\ Offered \subseteq Recurrence
ASSUME SlotsAreKnown == Places \in [Slots -> Nat] /\ Kept \subseteq Slots
ASSUME TimesAreNatural ==
  /\ {Week, WindowsADay} \subseteq Nat \ {0}
  /\ {LastSlot, Horizon, Offset, MaxRequests, MaxFaults, MaxTime} \subseteq Nat
ASSUME WorkersAreApart ==
  Passes \intersect Sweeps = {} /\ Requests \intersect (Passes \union Sweeps) = {}

VARIABLES
  now,
  room,       \* the places left in each slot
  pickups,    \* the pickups table, in the order in which they were put
  schedules,  \* the schedules table
  work,       \* what each worker holds
  started, faults,
  calm        \* history: no two met, and no pickup was moved

vars == <<now, room, pickups, schedules, work, started, faults, calm>>

Workers == Passes \union Sweeps \union Requests
Generators == Passes \union Sweeps

Day(slot) == slot \div WindowsADay
Window(slot) == slot % WindowsADay
Open(slot) == now < slot

-----------------------------------------------------------------------------
(* recurrence.ts *)

Valid(r) ==
  CASE r.every = "custom"       -> r.on # {}
    [] r.every = "weekly"       -> Cardinality(r.on) = 1
    [] r.every = "twice_weekly" -> Cardinality(r.on) = 2
    [] OTHER                    -> TRUE

\* occurrencesPerMonth
PerMonth(r) ==
  CASE r.every = "one_time"       -> 1
    [] r.every = "daily"          -> 30
    [] r.every = "alternate_days" -> 15
    [] r.every = "twice_weekly"   -> 8
    [] OTHER                      -> 4 * (IF r.on = {} THEN 1 ELSE Cardinality(r.on))

\* Slip: counted from the day the search begins.
Drifting(start, begin, to) == {day \in begin..to : (day - begin) % 2 = 0}

\* The days of an alternating pattern, counted from its first day.
EveryOther(start, begin, to) == {day \in begin..to : (day - start) % 2 = 0}

\* occurrencesBetween
Occurrences(doc, from, to) ==
  LET begin == IF from > doc.start THEN from ELSE doc.start
  IN  CASE doc.r.every = "one_time"       -> {doc.start} \intersect (from..to)
        [] doc.r.every = "daily"          -> begin..to
        [] doc.r.every = "alternate_days" -> EveryOther(doc.start, begin, to)
        [] OTHER                          -> {day \in begin..to : day % Week \in doc.r.on}

-----------------------------------------------------------------------------
(* The workers *)

NoSchedule == [status |-> "absent", r |-> [every |-> "daily", on |-> {}], window |-> 0, start |-> 0]

\* What a generator goes through: a recurring pickup, or a schedule with the document read.
NoItem == [id |-> 0, who |-> NoResident, window |-> 0, days |-> {}, doc |-> NoSchedule]

\* `at` is when a sweep began, `todo` what it has still to go through, `left` the days of
\* its item it has still to look at.
Job(pc, at, todo, item, left) ==
  [pc |-> pc, at |-> at, todo |-> todo, item |-> item, left |-> left, slot |-> 0, recurring |-> FALSE]

Idle == Job("idle", 0, {}, NoItem, {})

Busy(w) == work[w].pc # "idle"

Goes(w, rec) == work' = [work EXCEPT ![w] = rec]

\* A generator that starts while another worker is on its way, or a request that starts
\* while a generator is.
Meets(w) == \E v \in Workers \ {w} : Busy(v) /\ (w \in Generators \/ v \in Generators)

Begin(w) == ~Busy(w) /\ calm' = (calm /\ ~Meets(w))

Request(q, rec) ==
  /\ started < MaxRequests
  /\ started' = started + 1
  /\ Begin(q) /\ Goes(q, rec)

First(days) == CHOOSE day \in days : \A other \in days : day <= other

\* The next item, or the end of the run.
NextItem(w, todo, at) ==
  \/ todo = {} /\ Goes(w, Idle)
  \/ \E item \in todo :
       Goes(w, Job(IF item.days # {} THEN "look" ELSE "save", at, todo \ {item}, item, item.days))

\* The next day of the item, or the end of the item.
Onward(w, left) ==
  IF left = {} /\ w \in Passes THEN NextItem(w, work[w].todo, 0)
  ELSE Goes(w, Job(IF left # {} THEN "look" ELSE "save", work[w].at, work[w].todo, work[w].item, left))

Today(w) == First(work[w].left)

SkipDay(w) == Onward(w, work[w].left \ {Today(w)})

-----------------------------------------------------------------------------
(* RecurringService.generateUpcoming *)

Ahead(slot) == slot + Week * WindowsADay

\* The next occurrence is neither past nor beyond the horizon.
Due(pickup) ==
  LET next == Ahead(pickup.slot) + Offset
  IN  pickup.recurring /\ now <= next /\ next <= now + Horizon * WindowsADay

DueItem(i) ==
  [id |-> i, who |-> pickups[i].who, window |-> Window(pickups[i].slot), doc |-> NoSchedule,
   days |-> {Day(Ahead(pickups[i].slot))}]

\* (A run that finds nothing to go through changes nothing.)
PassBegins(w) ==
  LET todo == {DueItem(i) : i \in {j \in DOMAIN pickups : Due(pickups[j])}}
  IN  /\ w \in Passes /\ todo # {}
      /\ Begin(w) /\ NextItem(w, todo, 0)
      /\ UNCHANGED <<now, room, pickups, schedules, started, faults>>

-----------------------------------------------------------------------------
(* ScheduleService.generateUpcoming *)

ActiveItem(s) ==
  [id |-> s, who |-> Owner[s], window |-> schedules[s].window, doc |-> schedules[s],
   days |-> Occurrences(schedules[s], Day(now), Day(now) + Horizon)]

SweepBegins(w) ==
  LET todo == {ActiveItem(s) : s \in {t \in Schedules : schedules[t].status = "active"}}
  IN  /\ w \in Sweeps /\ todo # {}
      /\ Begin(w) /\ NextItem(w, todo, now)
      /\ UNCHANGED <<now, room, pickups, schedules, started, faults>>

\* The whole schedule is put back as it was read.
SweepSaves(w) ==
  /\ work[w].pc = "save"
  /\ schedules' = [schedules EXCEPT ![work[w].item.id] = work[w].item.doc]
  /\ NextItem(w, work[w].todo, work[w].at)
  /\ UNCHANGED <<now, room, pickups, started, faults, calm>>

-----------------------------------------------------------------------------
(* Both generators *)

\* Slip: anybody's pickup counts.
TakenByAnyone(w, who, day) ==
  \E i \in DOMAIN pickups : Day(pickups[i].slot) = day /\ (w \in Sweeps => pickups[i].live)

\* Slip: what the resident cancelled does not count.
TakenLive(w, who, day) ==
  \E i \in DOMAIN pickups : pickups[i].who = who /\ Day(pickups[i].slot) = day /\ pickups[i].live

\* "Never twice for the same day": a sweep looks for pickups that stand, a pass for any.
Taken(w, who, day) ==
  \E i \in DOMAIN pickups :
    pickups[i].who = who /\ Day(pickups[i].slot) = day /\ (w \in Sweeps => pickups[i].live)

Look(w) ==
  /\ work[w].pc = "look"
  /\ IF Taken(w, work[w].item.who, Today(w)) THEN SkipDay(w) ELSE Goes(w, [work[w] EXCEPT !.pc = "pick"])
  /\ UNCHANGED <<now, room, pickups, schedules, started, faults, calm>>

\* The slots of that day that can still be booked.
Bookable(day) == {slot \in Slots : Day(slot) = day /\ room[slot] > 0 /\ Open(slot)}

InWindow(slots, window) == {slot \in slots : Window(slot) = window}

\* A pass wants the same window again; pickSlot prefers a window and takes another.
Choices(w) ==
  LET open == Bookable(Today(w))
      same == InWindow(open, work[w].item.window)
  IN  IF w \in Sweeps /\ same = {} THEN open ELSE same

Pick(w) ==
  /\ work[w].pc = "pick"
  /\ IF Choices(w) = {} THEN SkipDay(w)
     ELSE \E slot \in Choices(w) :
            Goes(w, [Job("reserve", work[w].at, work[w].todo, work[w].item, work[w].left) EXCEPT !.slot = slot])
  /\ UNCHANGED <<now, room, pickups, schedules, started, faults, calm>>

-----------------------------------------------------------------------------
(* SchedulingService.book *)

\* A refusal is thrown: out of the whole pass, into the catch of a sweep.
Refused(w) == IF w \in Sweeps THEN SkipDay(w) ELSE Goes(w, Idle)

Admitted(w) == Open(work[w].slot) /\ ~(work[w].slot \in Kept /\ work[w].item.who \in Lapsed)

Reserve(w) ==
  /\ work[w].pc = "reserve"
  /\ IF room[work[w].slot] = 0 THEN Refused(w) /\ UNCHANGED room
     ELSE /\ room' = [room EXCEPT ![work[w].slot] = @ - 1]
          /\ Goes(w, [work[w] EXCEPT !.pc = IF Admitted(w) THEN "put" ELSE "release"])
  /\ UNCHANGED <<now, pickups, schedules, started, faults, calm>>

Release(w) ==
  /\ work[w].pc = "release"
  /\ room' = [room EXCEPT ![work[w].slot] = @ + 1]
  /\ Refused(w)
  /\ UNCHANGED <<now, pickups, schedules, started, faults, calm>>

\* `by` is a history: who booked it.
Put(w) ==
  /\ work[w].pc = "put"
  /\ pickups' = Append(pickups, [who |-> work[w].item.who, slot |-> work[w].slot, live |-> TRUE,
                                 recurring |-> work[w].recurring, by |-> w])
  /\ IF w \in Requests THEN Goes(w, Idle) ELSE SkipDay(w)
  /\ UNCHANGED <<now, room, schedules, started, faults, calm>>

Book(q, who, slot, recurring) ==
  /\ q \in Requests
  /\ Request(q, [pc |-> "reserve", at |-> 0, todo |-> {}, item |-> [NoItem EXCEPT !.who = who],
                 left |-> {}, slot |-> slot, recurring |-> recurring])
  /\ UNCHANGED <<now, room, pickups, schedules, faults>>

-----------------------------------------------------------------------------
(* What residents do with a pickup *)

\* assertBeforeCutoff
MayChange(pickup) == pickup.live /\ now < pickup.slot + Offset

Cancel(i) ==
  /\ started < MaxRequests /\ MayChange(pickups[i])
  /\ pickups' = [pickups EXCEPT ![i].live = FALSE]
  /\ room' = [room EXCEPT ![pickups[i].slot] = @ + 1]
  /\ started' = started + 1
  /\ calm' = (calm /\ \A w \in Generators : ~Busy(w))
  /\ UNCHANGED <<now, schedules, work, faults>>

Move(i, slot) ==
  /\ started < MaxRequests /\ MayChange(pickups[i])
  /\ Open(slot) /\ room[slot] > 0 /\ slot # pickups[i].slot
  /\ pickups' = [pickups EXCEPT ![i].slot = slot]
  /\ room' = [room EXCEPT ![slot] = @ - 1, ![pickups[i].slot] = @ + 1]
  /\ started' = started + 1
  /\ calm' = FALSE
  /\ UNCHANGED <<now, schedules, work, faults>>

-----------------------------------------------------------------------------
(* ScheduleService.create, update, cancel *)

\* PickupAllowanceExceededError; a resident with no plan is not restricted.
Affords(who, r) == who \in Lapsed \/ PerMonth(r) <= Allowance[who]

Create(s, r, window, start) ==
  /\ started < MaxRequests
  /\ schedules[s].status = "absent" /\ Valid(r) /\ Affords(Owner[s], r)
  /\ schedules' = [schedules EXCEPT ![s] = [status |-> "active", r |-> r, window |-> window, start |-> start]]
  /\ started' = started + 1
  /\ calm' = (calm /\ \A w \in Generators : ~Busy(w))
  /\ UNCHANGED <<now, room, pickups, work, faults>>

\* A request on a schedule reads it, and puts back what it made of it.
Edit(q, s, doc) ==
  /\ q \in Requests
  /\ Request(q, Job("edit", 0, {}, [id |-> s, who |-> NoResident, window |-> 0, days |-> {}, doc |-> doc], {}))
  /\ UNCHANGED <<now, room, pickups, schedules, faults>>

Update(q, s, r, window, status) ==
  /\ schedules[s].status \in {"active", "paused"} /\ Valid(r) /\ Affords(Owner[s], r)
  /\ Edit(q, s, [schedules[s] EXCEPT !.r = r, !.window = window, !.status = status])

Stop(q, s) ==
  /\ schedules[s].status # "absent"
  /\ Edit(q, s, [schedules[s] EXCEPT !.status = "cancelled"])

EditPut(q) ==
  /\ work[q].pc = "edit"
  /\ schedules' = [schedules EXCEPT ![work[q].item.id] = work[q].item.doc]
  /\ Goes(q, Idle)
  /\ UNCHANGED <<now, room, pickups, started, faults, calm>>

-----------------------------------------------------------------------------
(* The specification *)

Init ==
  /\ now = 0 /\ room = Places /\ pickups = <<>>
  /\ schedules = [s \in Schedules |-> NoSchedule]
  /\ work = [w \in Workers |-> Idle]
  /\ started = 0 /\ faults = 0 /\ calm = TRUE

Tick ==
  /\ now < MaxTime /\ now' = now + 1
  /\ UNCHANGED <<room, pickups, schedules, work, started, faults, calm>>

Restart ==
  /\ faults < MaxFaults /\ \E w \in Workers : Busy(w)
  /\ faults' = faults + 1
  /\ work' = [w \in Workers |-> Idle]
  /\ UNCHANGED <<now, room, pickups, schedules, started, calm>>

Step(w) ==
  SweepSaves(w) \/ Look(w) \/ Pick(w) \/ Reserve(w) \/ Release(w) \/ Put(w) \/ EditPut(w)

Resident ==
  \/ \E q \in Requests, who \in Residents, slot \in Slots, recurring \in BOOLEAN : Book(q, who, slot, recurring)
  \/ \E i \in DOMAIN pickups : Cancel(i) \/ \E slot \in Slots : Move(i, slot)
  \/ \E s \in Schedules, r \in Offered, window \in 0..(WindowsADay - 1) :
       \/ \E start \in 0..Day(LastSlot) : Create(s, r, window, start)
       \/ \E q \in Requests, status \in {"active", "paused"} : Update(q, s, r, window, status)
  \/ \E q \in Requests, s \in Schedules : Stop(q, s)

Next ==
  \/ \E w \in Workers : PassBegins(w) \/ SweepBegins(w) \/ Step(w)
  \/ Resident
  \/ Tick \/ Restart

\* The timer starts passes and a store call that was awaited settles.  Nothing starts
\* sweeps: JobRunner runs RecurringService only.
Fairness ==
  /\ \A w \in Workers : WF_vars(Step(w))
  /\ \A w \in Passes : WF_vars(PassBegins(w))

Spec == Init /\ [][Next]_vars /\ Fairness

-----------------------------------------------------------------------------
(* Properties *)

TypeOK ==
  /\ now \in 0..MaxTime
  /\ room \in [Slots -> Nat]
  /\ \A i \in DOMAIN pickups : pickups[i].who \in Residents /\ pickups[i].slot \in Slots
  /\ \A s \in Schedules : schedules[s].status \in {"absent", "active", "paused", "cancelled"}
  /\ calm \in BOOLEAN

\* "Never twice for the same day, whatever made the first one": while no two met and no
\* pickup was moved, nobody has two pickups on a day of which a generator made the later
\* one, unless what was there is cancelled; and what the resident cancelled a pass does
\* not book again.
NeverTwice ==
  calm => \A i, j \in DOMAIN pickups :
    (/\ i < j /\ pickups[j].by \in Generators
     /\ pickups[i].who = pickups[j].who /\ Day(pickups[i].slot) = Day(pickups[j].slot))
    => pickups[j].by \in Sweeps /\ ~(pickups[i].live /\ pickups[j].live)

\* The days an arrangement stands for, however often the horizon is looked at.
Wants(doc, day) ==
  /\ day >= doc.start
  /\ CASE doc.r.every = "one_time"       -> day = doc.start
       [] doc.r.every = "daily"          -> TRUE
       [] doc.r.every = "alternate_days" -> \E k \in 0..LastSlot : day = doc.start + 2 * k
       [] OTHER                          -> day % Week \in doc.r.on

Collected(who, day) ==
  \E i \in DOMAIN pickups : pickups[i].who = who /\ pickups[i].live /\ Day(pickups[i].slot) = day

\* "A preference is a preference": when a sweep that met nobody, and in whose time no slot
\* closed, is done with a schedule, its resident is collected from on every day it stands
\* for up to the horizon, or could not have been booked into any slot of that day.
DaysAreCovered ==
  [][\A w \in Sweeps : SweepSaves(w) /\ calm /\ work[w].at = now =>
       \A day \in Day(work[w].at)..(Day(work[w].at) + Horizon) :
         Wants(work[w].item.doc, day) =>
           \/ Collected(work[w].item.who, day)
           \/ Bookable(day) = {}
           \/ work[w].item.who \in Lapsed /\ Bookable(day) \intersect Kept # {}]_vars

\* The resident has a recurring pickup, may book the same slot of the next week, and has
\* never had a pickup on that day.
Owed(who) ==
  \E i \in DOMAIN pickups :
    LET next == Ahead(pickups[i].slot)
    IN  /\ pickups[i].who = who /\ Due(pickups[i])
        /\ next \in Bookable(Day(next)) /\ ~(who \in Lapsed /\ next \in Kept)
        /\ \A j \in DOMAIN pickups : pickups[j].who = who => Day(pickups[j].slot) # Day(next)

\* A recurring pickup is followed by the next one in time: nobody stays owed one, whatever
\* other residents and sweeps do and wherever the server stops.  (Where a booking of a pass
\* is refused again and again, those behind it wait for ever.)
OccurrenceComes == \A who \in Residents : Owed(who) ~> ~Owed(who)

\* "Stopping a schedule stops future bookings": what is cancelled stays cancelled.  No run
\* checks it: the code breaks it (README, section 5), a sweep or an edit that read the
\* schedule before puts it back as active.
StoppedStays ==
  [][\A s \in Schedules : schedules[s].status = "cancelled" => schedules'[s].status = "cancelled"]_vars

=============================================================================
