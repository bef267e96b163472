---------------------------- MODULE OfflineQueue ----------------------------
(***************************************************************************)
(* The work an operator logs with no signal.                               *)
(*   washnpress-mobile/src/offline/queue.ts          enqueue, clear, sync  *)
(*   washnpress-mobile/src/offline/queue-rules.ts    afterFailure          *)
(*   washnpress-mobile/src/offline/async-storage.ts  load, save            *)
(*   washnpress-mobile/src/portals/OperationsPortal.tsx   perform          *)
(*   washnpress-mobile/App.tsx                       drain, logout         *)
(* The queue is one stored list.  enqueue and sync read it, wait, and save *)
(* a list of their own over it; nothing keeps two of them apart.  A drain  *)
(* starts on a timer, when the app comes to the foreground and at a tap,   *)
(* whether or not the last one ended.  Actions are appended and never      *)
(* change places, so they are numbered as they come and a list is the set  *)
(* of its actions.                                                         *)
(*                                                                         *)
(* An order goes through steps 1, 2, ...; the server accepts a step if the *)
(* order is at the one before, and refuses any other.  A second operator   *)
(* may move the order.  Every action names an order, so the orders are the *)
(* streams.  Left out: what an action carries, and a second person's queue *)
(* on the same handset, which has a key of its own.                        *)
(***************************************************************************)
EXTENDS Naturals

CONSTANTS
  Orders,
  Drains,       \* drains under way at the same time
  LastStep,     \* bound: the steps of each order
  MaxActions,   \* bound: how many actions find no signal
  MaxTries,     \* MAX_ACTION_ATTEMPTS
  MaxFaults     \* bound: how often the app is killed or its storage fails

ASSUME BoundsAreNat ==
  LastStep \in [Orders -> Nat] /\ {MaxActions, MaxFaults} \subseteq Nat /\ MaxTries \in Nat \ {0}

VARIABLES
  stage,      \* the server: the step each order is at
  stored,     \* the handset: the saved queue
  tap,        \* the operator's action on its way to the queue
  drain,      \* each drain
  fate,       \* history: what became of each queued action
  refusals,   \* history: how often the server refused it
  faults,     \* history
  calm        \* history: storage never failed, and no two used the list at once

vars == <<stage, stored, tap, drain, fate, refusals, faults, calm>>

Ids == 1..MaxActions
Action == [id : Ids, order : Orders, step : Nat, tries : 0..MaxTries]
Fates == {"none", "owed", "accepted", "given_up", "signed_out"}

NoTap == [pc |-> "idle", list |-> {}, id |-> 0]
NoDrain == [pc |-> "idle", list |-> {}, at |-> 0, gone |-> {}, blocked |-> {}]

IdsOf(list) == {action.id : action \in list}

-----------------------------------------------------------------------------
(* The store.  A list that cannot be read is empty; a failed save is silent *)

Busy == tap.pc = "save" \/ \E d \in Drains : drain[d].pc # "idle"

Read(list) ==
  \/ list = stored /\ faults' = faults /\ calm' = (calm /\ ~Busy)
  \/ list = {} /\ faults < MaxFaults /\ faults' = faults + 1 /\ calm' = FALSE

Save(list) ==
  \/ stored' = list /\ UNCHANGED <<faults, calm>>
  \/ stored' = stored /\ faults < MaxFaults /\ faults' = faults + 1 /\ calm' = FALSE

-----------------------------------------------------------------------------
(* The server *)

Legal(order, step) == stage[order] = step - 1

\* A step is taken with signal, by another operator, or by a request that was carried
\* out although its answer will be lost.
Move(o) ==
  /\ stage[o] < LastStep[o]
  /\ stage' = [stage EXCEPT ![o] = @ + 1]
  /\ UNCHANGED <<stored, tap, drain, fate, refusals, faults, calm>>

-----------------------------------------------------------------------------
(* enqueue *)

\* perform: what the screen offers got no answer.  The screen may show the order as it was
\* some time ago.
EnqueueLoad(o, step) ==
  /\ tap.pc = "idle" /\ step <= stage[o] + 1
  /\ \E id \in Ids, list \in {stored, {}} :
       /\ fate[id] = "none" /\ \A j \in Ids : j < id => fate[j] # "none"
       /\ Read(list)
       /\ tap' = [pc |-> "save", id |-> id,
                  list |-> list \union {[id |-> id, order |-> o, step |-> step, tries |-> 0]}]
  /\ UNCHANGED <<stage, stored, drain, fate, refusals>>

\* "No signal.  This is saved on the phone and sends itself as soon as there is one."
EnqueueSave ==
  /\ tap.pc = "save"
  /\ Save(tap.list)
  /\ fate' = [fate EXCEPT ![tap.id] = "owed"]
  /\ tap' = NoTap
  /\ UNCHANGED <<stage, drain, refusals>>

-----------------------------------------------------------------------------
(* sync *)

\* Slip: what is held back is not kept.
OnlyTried(list, gone, blocked) ==
  {action \in list : action.id \notin gone /\ action.order \notin blocked}

Remaining(list, gone, blocked) == {action \in list : action.id \notin gone}

\* On to the first action after `at` that is not held back, or to the end.
Going(list, at, gone, blocked) ==
  LET later == {action.id : action \in {a \in list : a.id > at /\ a.order \notin blocked}}
  IN IF later = {}
     THEN [pc |-> "save", list |-> Remaining(list, gone, blocked), at |-> 0, gone |-> {}, blocked |-> {}]
     ELSE [pc |-> "send", list |-> list, at |-> CHOOSE id \in later : \A j \in later : id <= j,
           gone |-> gone, blocked |-> blocked]

\* An empty list is drained like any other, and saved back.
DrainLoad(d) ==
  /\ drain[d].pc = "idle"
  /\ \E list \in {stored, {}} : Read(list) /\ drain' = [drain EXCEPT ![d] = Going(list, 0, {}, {})]
  /\ UNCHANGED <<stage, stored, tap, fate, refusals>>

Sent(d) == CHOOSE action \in drain[d].list : action.id = drain[d].at

Accepted(d) ==
  /\ drain[d].pc = "send"
  /\ Legal(Sent(d).order, Sent(d).step)
  /\ stage' = [stage EXCEPT ![Sent(d).order] = Sent(d).step]
  /\ drain' = [drain EXCEPT ![d] = Going(@.list, @.at, @.gone \union {Sent(d).id}, @.blocked)]
  /\ fate' = [fate EXCEPT ![Sent(d).id] = "accepted"]
  /\ UNCHANGED <<stored, tap, refusals, faults, calm>>

\* Slip: one try too few.
SpentEarly(action) == action.tries + 2 >= MaxTries

Spent(action) == action.tries + 1 >= MaxTries

\* Slip: the next step of the order is sent although this one failed.
BlocksNothing(d) == drain[d].blocked

Blocks(d) == drain[d].blocked \union {Sent(d).order}

Counted(d) == (drain[d].list \ {Sent(d)}) \union {[Sent(d) EXCEPT !.tries = @ + 1]}

\* afterFailure, the server having answered with a refusal: the step is not the order's
\* next, or it is not the moment.
Refused(d) ==
  /\ drain[d].pc = "send"
  /\ drain' = [drain EXCEPT ![d] =
       IF Spent(Sent(d)) THEN Going(@.list, @.at, @.gone \union {Sent(d).id}, Blocks(d))
       ELSE Going(Counted(d), @.at, @.gone, Blocks(d))]
  /\ fate' = IF Spent(Sent(d)) /\ fate[Sent(d).id] = "owed"
             THEN [fate EXCEPT ![Sent(d).id] = "given_up"] ELSE fate
  /\ refusals' = [refusals EXCEPT ![Sent(d).id] = IF @ < MaxTries THEN @ + 1 ELSE @]
  /\ UNCHANGED <<stage, stored, tap, faults, calm>>

\* afterFailure, no answer having come: the drain ends here.
Unanswered(d) ==
  /\ drain[d].pc = "send"
  /\ drain' = [drain EXCEPT ![d] = Going(@.list, MaxActions, @.gone, @.blocked)]
  /\ UNCHANGED <<stage, stored, tap, fate, refusals, faults, calm>>

DrainSave(d) ==
  /\ drain[d].pc = "save"
  /\ Save(drain[d].list)
  /\ drain' = [drain EXCEPT ![d] = NoDrain]
  /\ UNCHANGED <<stage, tap, fate, refusals>>

-----------------------------------------------------------------------------
(* The handset *)

\* logout: the operator is done, and will sign in again another day.
SignOut ==
  /\ stored # {} /\ tap.pc = "idle"
  /\ stored' = {}
  /\ fate' = [id \in Ids |-> IF fate[id] = "owed" THEN "signed_out" ELSE fate[id]]
  /\ calm' = (calm /\ ~Busy)
  /\ UNCHANGED <<stage, tap, drain, refusals, faults>>

Kill ==
  /\ faults < MaxFaults /\ Busy
  /\ faults' = faults + 1
  /\ tap' = NoTap /\ drain' = [d \in Drains |-> NoDrain]
  /\ UNCHANGED <<stage, stored, fate, refusals, calm>>

-----------------------------------------------------------------------------
(* The specification *)

Init ==
  /\ stage = [o \in Orders |-> 0]
  /\ stored = {} /\ tap = NoTap /\ drain = [d \in Drains |-> NoDrain]
  /\ fate = [id \in Ids |-> "none"] /\ refusals = [id \in Ids |-> 0]
  /\ faults = 0 /\ calm = TRUE

Drain(d) == DrainLoad(d) \/ Accepted(d) \/ Refused(d) \/ Unanswered(d) \/ DrainSave(d)

Next ==
  \/ \E o \in Orders : Move(o) \/ \E step \in 1..LastStep[o] : EnqueueLoad(o, step)
  \/ EnqueueSave
  \/ \E d \in Drains : Drain(d)
  \/ SignOut \/ Kill

\* The timer starts drains, a request ends within its timeout, and there is a signal now
\* and again.
Fairness ==
  \A d \in Drains : WF_vars(Drain(d)) /\ SF_vars(Accepted(d) \/ Refused(d))

Spec == Init /\ [][Next]_vars /\ Fairness

-----------------------------------------------------------------------------
(* Properties *)

TypeOK ==
  /\ stage \in [Orders -> Nat]
  /\ stored \subseteq Action
  /\ fate \in [Ids -> Fates] /\ refusals \in [Ids -> 0..MaxTries]
  /\ faults \in 0..MaxFaults /\ calm \in BOOLEAN

\* "Never lost": what the operator was told is saved on the phone is on it until the
\* server accepts it, the queue gives it up, or the operator signs out, also over an app
\* killed in the middle.  Until an action is logged during a drain, or two drains meet: the
\* later save forgets what it did not read.  Whether the operator is shown what was given
\* up is no part of it: only a drain the operator asks for shows it.
WorkIsKept == calm => \A id \in Ids : fate[id] = "owed" => id \in IdsOf(stored)

\* "Only a refusal counts.  Being offline does not": whatever is given up was refused
\* as often as that takes, also by drains that count on stale copies.
GivenUpWasRefused == \A id \in Ids : fate[id] = "given_up" => refusals[id] >= MaxTries

\* "In order within an order": when the server takes an action from the queue, it has
\* taken every earlier one of that order that was in the queue.
InOrderWithinOrder ==
  [][\A d \in Drains : Accepted(d) =>
       \A action \in drain[d].list :
          action.id < drain[d].at /\ action.order = Sent(d).order => fate[action.id] = "accepted"]_vars

\* Every queued action leaves the queue in the end, one the server will never take and
\* those of other orders queued with it included.  Of drains that do not meet: two that
\* meet for ever can count a refusal and take it back for ever (OfflineDrains.cfg).
QueueEmpties == \A id \in Ids : id \in IdsOf(stored) ~> id \notin IdsOf(stored)

=============================================================================
