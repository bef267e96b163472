# A TLA+ model of Wash N Press

This directory models the parts of Wash N Press in which several requests,
background jobs, restarts and lost messages meet on shared records. Of the backend
(`src/washnpress-v2`, a Fastify server over Postgres): the pickup slots, recurring
pickups, the top-ups of the wallet, the charges and refunds of an order, what an order
goes through in the laundry, subscriptions and their renewal, the bookings of additional
services, who covers which tower and has which order, the in-memory queue that some of
them go through, and the notification outbox. Of the mobile app
(`src/washnpress-mobile`): the queue of work logged with no signal. Each model is checked
by TLC on small instances, and of eleven of them safety is proved for every size with TLAPS.

## 1. The system

### How the parts interact

A request handler (`app/routes/*`) calls a service (`services/*`), which reads and
writes whole JSON documents through the store (`adapters/postgres/store.ts`). Each
`await` of a service is a point at which any other request, or a background job,
may run; the server runs in one or more processes over one database. There are no
transactions around a handler. Only four writes are more than "put the document I
have": `reserveCapacity` and `releaseCapacity` (one conditional UPDATE each),
`postOnce` (an idempotency key and a ledger transaction in one transaction) and
`claimPending` (a lease on outbox rows). Everything else lives with stale reads, and
that is where the hard behaviour is.

`jobs/job-runner.ts` starts the outbox pass, the reconciliation pass, the generation
of recurring pickups and the renewal of subscriptions on `setInterval`, whether or
not the previous run has ended. The payment gateway calls a webhook, or does not. The
handset keeps what it could not send and sends it later, in an order of its own.

### Components

| component | state | operations | what makes it correct | hard part |
|---|---|---|---|---|
| pickup scheduling (`scheduling-service.ts`) | slots with a capacity counter, pickups, orders | createSlot, updateSlot, cancelSlot, book, reschedule, cancel | no slot oversold; counter, pickups and orders agree; one slot per window; nothing left in a closed slot; no change inside the cutoff | several documents, no transaction, stale puts, compensation after a failure |
| per-key queue (`one-at-a-time.ts`) | a map from a key to the promise of its last call | run | calls of a key work one at a time, in the order they came; none waits for ever | a refused call must not hold up the next; only the last may clear the key |
| top-ups (`wallet-service.ts`, `payment-service.ts`, `reconciliation-service.ts`) | payment intents, idempotency keys, ledger | startTopUp, handleWebhook, runOnce | paid money is credited, once, and nothing else is | lost and repeated webhooks, overlapping passes, restarts between two writes |
| outbox (`notification-service.ts`) | outbox rows with status and lease | enqueue, processOutboxOnce | nothing lost, repeated only after a crash | leases, crashes, slow providers |
| order lifecycle (`order-service.ts`, `order-state-machine.ts`, `batches.ts`, `qc.ts`) | orders, batches, timelines | markPickedUp, failPickup, processing, QC, delivery, dispute | an order follows TRANSITIONS; a batch is never skipped; charged and deducted once | stale transitions, double taps |
| wallet and ledger (`wallet-service.ts`, `ledger.ts`) | balanced transactions | charge, refund | never overdrawn, every transaction balanced | check then post |
| refunds (`refund-service.ts`) | refund requests | request, approve, reject | an order is refunded once | ledger post and status are two writes |
| subscriptions, renewal (`subscription-service.ts`, `renewal-service.ts`) | subscriptions, usage | subscribe, changePlan, pause, cancel, deduct, renew | one charge per cycle, allowance never lost or doubled | snapshot put by the job |
| recurring schedules (`schedule-service.ts`, `recurring-service.ts`) | schedules | create, update, cancel, generateUpcoming | one pickup per resident and day | overlapping generation |
| additional services (`service-request-service.ts`, service slots) | requests, service slots | create, assign, progress, reschedule, cancel | capacity not exceeded, legal transitions | non-atomic reserve |
| issues (`issue-service.ts`) | issues and conversations | create, assign, reply, resolve | legal transitions | concurrent edits |
| one-time passwords (`otp-service.ts`) | code, attempts, lockout | send, verify | one live code, attempts counted across resends | resend during a verification |
| assignment (`assignment-service.ts`, `auto-assign.ts`, `staffing-service.ts`, `assignment-backfill.ts`) | the operators a tower lists, the towers an operator lists, the tower and operator of an order, who is on duty | setBlockOperators, reassignBlock, setAvailability, reassignOrder, claim, moves of a resident, the repair at boot | the two lists agree; waiting orders follow their tower; nobody blocked holds work; collected orders are left alone | one fact in three tables, put one after another |
| offline queue (`washnpress-mobile/src/offline`) | queued actions on a handset | enqueue, sync, clear | order per laundry order, nothing lost | enqueue during a sync, lost answers |
| users, societies, staffing, pricing, catalogue, reports, HTTP layer | single records, pure functions, read-only views | | | little interaction |

`PROJECT.json` lists them with their status, and every hazard of the code with its line.

## 2. The modules

| module | models | composed with |
|---|---|---|
| `PickupScheduling` | slots, pickups, orders and the eight handlers that change them | `MCPickupScheduling` (instances), `PickupSchedulingProofs` |
| `RecurringPickups` | recurring pickups and schedules, and the two generators that book from them | `MCRecurringPickups`, the third part of `PaymentReconciliationProofs` |
| `TopUpPromise` | what a resident is promised of a top-up | instantiated by `PaymentReconciliation` |
| `PaymentReconciliation` | startTopUp, webhook, reconciliation pass | `MCPaymentReconciliation`, `PaymentReconciliationProofs` |
| `OrderCharges` | the charge of a collection, its payment, refund requests | `MCOrderCharges`, `OrderChargesProofs` |
| `OrderProcessing` | an order from its collection to its delivery, batch by batch and as a whole | `MCOrderProcessing`, `OrderProcessingProofs` |
| `Subscriptions` | a resident's subscriptions and the renewal job | `MCSubscriptions`, `SubscriptionsProofs` |
| `ServiceBookings` | additional services: bookings, seats of a day, operators | `MCServiceBookings`, `ServiceBookingsProofs` |
| `TowerAssignments` | towers, operators and the orders they hold | `MCTowerAssignments`, `TowerAssignmentsProofs` |
| `TakingTurns` | what the per-key queue promises its callers | instantiated by `OneAtATime` |
| `OneAtATime` | the chain of promises behind a key | the last section of `ServiceBookingsProofs` |
| `Outbox` | the outbox and its passes | the second part of `PaymentReconciliationProofs` |
| `OfflineQueue` | the handset's queue of unsent work | `MCOfflineQueue`, `OfflineQueueProofs` |

`OneAtATime` and `Outbox` need no MC module: their configurations are run on the modules
themselves.

Operators whose comment begins with "Slip" are no part of a model: each is the
definition under it with one plausible mistake in it, kept to show that the
properties notice.

The modules have a form in common. A request or a run of a job is a process: a record
whose `pc` names the store call it makes next, and whose other fields are what it holds
in local variables, the documents it read included. One action is one store call with
the code up to the next `await`, and a put writes back the whole document that was
read, so lost updates are in every model. `Lose`, `Fail`, `Restart` or `Crash` ends a
process between two steps. Histories (`calm`, `raced`, `met`, `mishaps`, `slips`) say
what the environment has done; several properties are claimed only as long as requests
did not overlap, because the code does not have them otherwise, and section 5 lists
those.

### PickupScheduling

`slots`, `pickups`, `orders` are the tables; of an order only its state is kept (it is
created with its pickup and shares its identity), of its timeline nothing.
`reserveCapacity` is `CanReserve`/`Reserved`, `releaseCapacity` is `Released` (the SQL
has no upper bound, and neither has the model).

* `book`: reserve, judge the slot the reservation returned, give it back or put the
  pickup, then the order. The quote before the reservation refuses a booking without
  touching anything and is left out. Whether a resident has a plan is chosen freely.
* `cancel`, `reschedule`: as in the code, the `catch` of reschedule included
  (`MoveReject`, `MoveUndo`). Cancellation fees are counted; whether one is due and the
  wallet covers it is chosen freely.
* `createSlot`: `InCreation` is what `OneAtATime` promises two calls with one key
  (`TakingTurns`).
* `updateSlot`, `cancelSlot`: read, compute, put. That an edit may open a slot to
  subscribers only, or to all again, is left out. `spoiled` is a history: the slots whose
  counter was put over a booking made since the slot was read, or was given a place back
  by the undo of a reschedule whose pickup keeps it, or lost one with a request.
* `markPickedUp` and `failPickup`: the order and the pickup only; of the puts
  `markPickedUp` makes of its order on the way, the one that collects it.
* `Lose`: a request whose store call rejects outside a `catch`, or whose process stops,
  goes no further.

Time is a clock in ticks; the MC module's tick is two hours, so the two-hour lead is
one tick, a window three hours rounded to one, and the service-day offset (330
minutes) rounded to two. The rounding only matters to `ChangesStopAtCutoff`, and there
any positive offset gives the same answer.

`OneChange` says whether the clients keep to their own rule (the buttons appear only
for a scheduled order and are disabled while a change is under way; resident and
operator do not act on a pickup at the same moment). The server does not enforce it.

### PaymentReconciliation

A worker is a request handler or a pass; `of`, `seen`, `said`, `todo` are its local
variables. `seen` is the table as it was read, because `runOnce` lists the pending
intents once and puts those very documents back later. `PostOnce` is the transaction of
`PgLedger.postOnce`. The gateway is external: an order is paid or refused at some time
after startTopUp answered, and then stays so; a webhook is an action the environment
may take any number of times while the intent is pending (once it is not, the handler
only answers) or never. A webhook is taken to report a captured payment. `Unknown` are
orders the gateway answers with an error every time. `Restart` clears every worker.

### Outbox

Events are numbered by `createdAt`. `leased` counts down from `Lease + 1` after a claim:
`claimPending` compares with a strict `<`, so an event is free one tick after the lease.
`Deliver` tries the channels and `Mark` writes the status, which is final: nothing takes
up an event that failed (section 5). `Crash` ends a pass at any
step. With `Prompt`, time does not pass the end of a lease while its pass is at work;
without it, a provider may take as long as it likes.

### RecurringPickups

A worker is a pass of `RecurringService` (from a pickup that was booked as recurring to
the same window a week on), a sweep of `ScheduleService` (from a resident's schedule to
every day of the horizon), or a request. `todo` and `left` are the loops of a generator:
what it has still to go through and the days of the present item. `Look` is the search
for a pickup of the day, `Pick` the choice of a slot, `Reserve`, `Release` and `Put` the
booking; a refusal is thrown out of a whole pass and caught by a sweep (`Refused`), and
`SweepSaves` puts back the schedule as it was read. `Occurrences` is
`occurrencesBetween`: the days of a recurrence, whose alternating pattern is counted from
its first day. A slot is the tick at which its window starts. A resident's cancellation
or move is one step here; its steps are in `PickupScheduling`.

### OrderCharges

`markPickedUp` from its put on, `settleAdditionalCharge`, `payAdditionalCharge`,
`chargeWithTax` (the balance is read, the transaction posted a step later), and the
`request`, `approve` and `reject` of refunds. The ledger is three counters: the balance
and, by order, the transactions with the reference of its charge and of its refund. Every
charge is one unit. `AnswerDiscrepancy` stands for every other handler that puts back an
order it read. A ledger call may commit and answer with an error (`SettleError`).

### OrderProcessing

The document of one order with its batches. `SequenceFor` gives a batch its steps from
the service of its line. `AdvanceBatch`, `PassBatch`, `ReworkBatch` and `HoldBatch` work on
the document as `advanceBatch` and `qcBatch` do, and `Synced` is `syncOrderToBatches`: the
state the order takes from its batches. `StartWash` to `Reprocess` are the calls on the
whole order (`Whole`), which move its state and look at no batch.
The clients offer them only for an order without batches, but "the buttons are a
convenience, not the rule" (`washnpress-v2/docs/PROCESSING.md:68`): the server takes
them for any order, its tests send them to orders that have batches, and here they may
come at any time between the steps of the batches. Each handler is a read with its work
and, one step later, a put.

`whole` is a history kept with the document: the last to set its stage was a call on the
whole order, not `syncOrderToBatches`. A stale put brings it back with the rest of the
document. What the batches promise of the order's stage is claimed of documents without it,
because the code does not have it otherwise.

### Subscriptions

`subscribe`, `changePlan`, `cancelPlanChange`, `pause`, `cancel`, `deductGarments`,
account deletion, and `runOnce` and `renew` of the renewal job: the claim of the cycle's
key, the charge, and the put of a subscription that was read before both. Time is counted
in billing cycles. `billed` and `refunded` count transactions.

### ServiceBookings

A window of a timetable takes `Capacity` bookings and is guarded by a gate per service
and window (`oneBookingAtATime`); a slot opened for a day has seats, which
`reserveServiceSlot` reads, decides about and puts. An operator is assigned if no
commitment overlaps. `create`, `createFromSlot`, `assign` (also as an operator taking a
job), `start`, `complete`, `cancel`, `reschedule`, `createServiceSlot`.

### TowerAssignments

An assignment is written three times: the tower lists its operators, the operator's
account lists his towers (his session's scope is read from it), and an order names who
has it. `SetStart` to `TouchPut` is `setBlockOperators`: the list of the tower, then the
accounts of all who joined or left it, then the orders of the tower that are not yet
collected (`Find`, `Reassign`, which put back the orders as they were listed). An edit of
an operator's own blocks goes the other way round (`PatchStart`, `Member`) and through no
orders. `OffStart` to `HandPut` is `setAvailability`: the status is put first, the
replacement judged after it, and the open work handed over order by order; `StatusStart`
is the administrator's page, which puts the status and nothing else. `BootStart` to
`Backfill` is the repair at the start of the server. Booking, collecting, closing,
claiming, assigning by hand and a resident who moves are steps of their own; operations'
own route for assigning does not ask whether the operator is on duty, so neither does
`AssignStart`. A failed pickup counts as closed. `Lose` ends a request between two puts.

What a request writes and what its decisions rest on are its `edits` and `reads`: first
what it is asked about (`Begin`), then also what it finds on its way, such as the misplaced
orders of a tower or the open work of an operator (`Widen`).

Histories: `met` are the records two requests were busy with at once, and those a
stopped request left half done, with the orders given to somebody off duty; `byHand` the
orders given to somebody by hand; `loose` the towers an operator's edit took somebody
off; `unseen` the operators taken off duty by a request that did not go through their
work. Each is cleared by the handler that puts it right.

### OneAtATime

There is no list of who waits. `running` is the map, `previous` the promise a call is
chained to, `stage` says how far its promises are: `queued` runs the work when the one
before has settled, `tail` settles with it and never rejects, and the `finally` of `run`
takes the key out of the map if the call is still the last. `ahead` is a history: those
that came before with the same key. `InTurn` says that this is `TakingTurns`, under the
mapping that takes a key to its queued and its working calls. `PickupScheduling` and
`ServiceBookings` use what `TakingTurns` says and not the chain. The map is in one
process: two processes have a queue each.

### OfflineQueue

`stored` is the list in the handset's storage. `EnqueueLoad`/`EnqueueSave` and each drain
read it, wait, and save a list of their own. A list is the set of its actions, numbered as
they were queued: actions are appended and never change places, so the number of an
action is its place. A drain sends action after action and, as
`afterFailure` has it, stops at an order whose action failed and goes on with the others,
keeps what met no signal, and gives up what was refused `MaxTries` times. The server
accepts the step that follows the one an order is at. `Kill` ends the app anywhere;
storage fails silently.

## 3. The runs

`OneSlot`, `TwoSlots`, `NoSlots` and the other initial stores and functions are in the MC
modules.

| run | what it shows | bounds |
|---|---|---|
| `booking` | `NeverOversold`, `OneSlotPerWindow`, `EveryRequestEnds`: slots are created by two supervisors at once, booked into by residents whose requests may die anywhere, and closed | 2 slots, 2 windows, 2 societies, capacity 1, 2 requests at once, `MaxRequests` 4 (create, book, book, close), `MaxTime` 2, when the Morning window has closed for booking |
| `changes` | `TypeOK`, `SeatAccounting`, `PickupAgreesWithOrder`: book, cancel, move, edit, collect and fail, with moves that fail at any store call | two slots, with capacities 1 and 2, 2 pickups, 2 requests at once, 4 in all, so that bookings, moves and edits of one slot meet; `MaxTime` 2, when the first window has opened |
| `recurring` | `NeverTwice`, `DaysAreCovered`, `OccurrenceComes`: a day is booked once, a sweep covers a schedule's days, a recurring pickup gets its next one | 2 residents, 1 schedule, weeks of 2 days of 2 windows, slots 0..5 with 0, 2, 1, 1, 0, 2 places, horizon 2 days, local time 1 tick ahead, 2 passes, 1 sweep, 1 request at a time and 2 in all, 1 restart, `MaxTime` 2 |
| `top_ups` | `StatusMatchesLedger`, `SettledStays`, `PaidIsSettled`, `PromiseKept` | 2 top-ups, 1 handler, 2 passes, 1 fault |
| `charges` | `OverdraftIsBounded`, `NothingUnearned`, `RepeatsAreMishaps`, `BooksAgree` | 2 orders, 2 refund requests, 2 requests at once, 6 in all, 1 fault, top-ups up to a balance of 2 |
| `processing` | `ReadyIsDone`, `ShowsTheStage`, `WorkStays`: batches and calls on the whole order, mixed | orders of no line, of one line washed and ironed, dry-cleaned, or only checked, and of two, one washed and one ironed, each with any batches missing; 2 requests at once, no bound on their number |
| `subscriptions` | `OneChargePerCycle`, `ServedIsPaid`, `UsageIsExplained`, `RefundEndsIt`, `EndedStays`, `DueIsSettled` | 2 subscriptions, one of which there is from the start, 2 plans, 2 orders, 2 requests, 2 passes, 1 fault, 1 cycle |
| `service_bookings` | `WindowNotOverbooked`, `NobodyInTwoPlaces`, `SeatsSoldOnce` | 3 bookings, 2 slots, 2 windows, 2 operators, one place and one seat, 2 requests at once, 6 in all, 1 fault |
| `outbox` | `HeldByOne`, `RepeatsNeedACrash`, `EachIsTried` | 3 events, batch 2, lease 1, 2 passes, 1 crash |
| `offline_queue` | `WorkIsKept`, `GivenUpWasRefused`, `InOrderWithinOrder` | 2 orders of 2 steps and 1, 2 drains, 2 queued actions, given up at the second refusal, 1 fault |
| `towers` | `BothSidesAgree`, `FollowsItsTower`, `BlockedHoldNothing`, `RecordsStay` | 2 operators, 2 towers, 1 order, 2 requests, at once or one after the other, 1 fault, from every pair of lists that agree and every order they allow, with everybody on duty |
| `one_at_a_time` | `InTurn` (refinement of `TakingTurns`, its fairness included) | 3 calls, 2 keys |

`OfflineDrains.cfg` checks, of one drain with three tries, the liveness property
`QueueEmpties` of `OfflineQueue`; with two drains that meet it does not hold.

Two requests on one record are enough for every race of two; the further ones notice it
(a booking that takes the place sold twice). Batch 2 with three events leaves one for the
second pass. Two lines are enough for a batch that is behind the other at any stage; the
single lines add the sequences with two steps before the check, with one that no stage
shows, and with none. In
`recurring` the slots have windows that are full, windows with room for one of the two
residents, and weeks both inside and beyond the horizon. The bounds that cap counters are
`MaxRequests`, `MaxTime`, `MaxFaults`, `MaxCrashes`, `MaxBalance`, `MaxActions`, `LastSlot`
and `EventCount`. Three calls of `one_at_a_time` are the least that have one in the
middle. In `towers` two operators are one who leaves and one who takes over, two towers
one to move to. Deadlock is not checked: a system whose requests have all been answered
stops.

Where a run leaves a behaviour out, it is because the code does not have the property
with it (section 5).

### Fairness

* `PickupScheduling`: weak fairness of each request's next step. A Postgres query or a
  gateway call that was awaited settles, by answer or rejection. Nothing makes clients
  send requests or the clock move.
* `PaymentReconciliation`: weak fairness of handlers' steps, of starting a pass (the
  interval timer) and of a pass's steps. None for the gateway's webhooks or the
  resident's payment. Restarts are bounded by `MaxFaults`: a server that restarts for
  ever settles nothing.
* `Outbox`: weak fairness of the clock, of claiming when something may be claimed and of
  a pass's steps. Crashes are bounded by `MaxCrashes`. `EachIsTried` promises an attempt
  whose outcome is recorded, not a delivery: the gateways may refuse everything.
* `Subscriptions`: weak fairness of starting a pass of the renewal job (its timer) and of
  a pass's steps; nothing is asked of requests.
* `RecurringPickups`: weak fairness of every worker's steps and of starting a pass. None
  of starting a sweep: `JobRunner` does not run `ScheduleService.generateUpcoming`.
* `OfflineQueue`: weak fairness of a drain's steps (a timer starts one, a request times
  out), and strong fairness of an answer from the server: there is a signal again and
  again, not for ever. The app may be killed `MaxFaults` times.
* `OneAtATime`: weak fairness of each call from its start to its answer. The event loop
  runs what a settled promise has released, and the work of a call, a few store calls,
  answers or rejects.
* `OrderCharges`, `OrderProcessing`, `ServiceBookings`, `TowerAssignments` state safety
  only and assume none.

## 4. The proofs

`PaymentReconciliationProofs` proves, for any sets of top-ups, handlers and passes and
any number of faults (assumptions: `NoTopUp` is no top-up, "none" is no method,
`MaxFaults` is a natural number, `Unknown` are top-ups):

* `Invariance`: `Spec => []IInv`. The safety properties speak of tables only and are not
  inductive: a worker about to credit must be known to work on a paid order, one about
  to settle on an order whose key is taken, one about to fail on a refused order
  (`WorkersAreRight`); an intent being recorded is recorded by one handler
  (`RecordedByOne`), so that its put cannot undo a settlement; the status of an intent
  must have been earned (`StatusIsEarned`).
* `NoDoubleCredit`, `NoUnpaidCredit`, `StatusIsTrue` follow from it; `SettlementIsFinal` is
  an action property from it.
* `KeepsPromise`: `Spec => Promise!Safety`. Under the mapping that takes `paid` to the orders
  paid at the gateway, every step is a step of `TopUpPromise` or a stutter.

The module goes on with the two other jobs of `job-runner.ts`, as instances (which do not
bring the assumptions of their modules: `BoxAssumed` and `Assumed` restate them). Of the
outbox, under `Prompt` and for any number of events, passes, crashes, any batch and any
lease:

* `BoxInvariance`: `Box!Spec => []Box!IInv`, with `HoldersAreRight` (what a pass holds is
  pending and leased) and `TriesAreCounted` (an event not in delivery was tried by dead
  passes only). The lease is what makes it inductive: a claim takes only events whose lease
  is over, and with `Prompt` a pass holds none of those.
* `Exclusion` (`HeldByOne`), `RepeatsAreCrashes` (`RepeatsNeedACrash`) and `MarksAreFinal`
  (`MarkedOnce`) from it.

Of `RecurringPickups`, for any residents, schedules, recurrences, slots and workers:

* `NobodyTwice`: `Days!Spec => []Days!NeverTwice`. A generator looks for a pickup of the day,
  picks a slot, reserves and puts in steps of their own, so the invariant `DaysInv` says
  what it knows on the way: nobody is at work beside a generator until two met (`Alone`),
  and the day it is about to book was free and still is (`DayIsFree`).
* `NoDayIsMissed`: `Days!Spec => Days!DaysAreCovered`. `CoverInv` says what a sweep leaves
  behind: while nobody is beside it and no time passes, each day it is done with has a
  collection, is full, or is open to subscribers only. That stays so because all that
  changes meanwhile are the places of the day the sweep is at, and this day is not behind
  it (`FirstIsOne`: the earliest day is one of those left, by the well-foundedness of the
  natural numbers). `WantedDaysOccur` compares what a recurrence stands for with the days
  `occurrencesBetween` gives.

`PickupSchedulingProofs` proves, for any slots, pickups, windows, capacities and requests:

* `TypeCorrectness`: `Spec => []TypeOK`, with every handler. The counter a stale put
  writes back stays a natural number because each job has the shape its handler gave it
  (`Jobs`), and a handler past its read works on a pickup that was booked (`Knows`).
* `NoOverselling`: `Spec => []NeverOversold`, for slots that are opened, booked into,
  collected from and closed, with requests that die anywhere. The counter plus the
  pickups in the slot plus the requests between their reservation and their pickup never
  exceed the places; that is a count over a finite set, changed by one step at a time
  (`FiniteSetTheorems`). Cancelling, moving and editing are excluded by an assumption of
  the theorem, not of the module, because with them the code oversells (section 5).
* `OneSlotEach`: `Spec => []OneSlotPerWindow`, with every handler but `updateSlot`, from first
  slots that do not clash. A creation that is past the look for a clash has found none and
  is alone in its key, and what else writes a slot leaves its window alone (`WindowInv`).
* `SeatsAddUp`: `Spec => []SeatAccounting` (the counter of a slot that is not `spoiled` is its
  places less those that are taken). `SeatInv` keeps the account open at each step between
  two puts: what a booking, a cancellation or a move has reserved, has given back or has
  still to give back. Its hypotheses are those under which the code keeps the account:
  `OneChange`, since two cancellations of a pickup release its place twice; no closing of
  slots, which sets the counter instead of counting; and no cancellation that is lost, since
  one that has released the place and not yet cancelled the order can be made again.
  Everything else may be lost anywhere.
* `PickupsAgree`: `Spec => []PickupAgreesWithOrder`, from the same invariant, when no request
  that writes both documents is lost (a reschedule, which has a `catch`, may be): nothing
  repairs a pickup whose order was not put.

`OrderChargesProofs` proves, for any orders, refund requests, requests and faults:

* `LedgerComesFirst`: `Spec => []NothingUnearned`. A document is true if the ledger has what
  it claims, and stays true however stale, because the ledger only grows: so every
  document that a request holds is true (`RequestsAreTrue`).
* `OverdraftBound`: `Spec => []OverdraftIsBounded`, from the strengthening that the balance
  less the charges that have been judged and not yet posted is at least one less the
  number of requests.
* `RepeatsNeedMishaps`: `Spec => []RepeatsAreMishaps`. What has been charged for an order, with
  what can still be charged without a further mishap, is at most one more than its mishaps
  (`ChargesBounded`; `ReturnsBounded` for refunds): a request that may still post is counted
  until it has, and a request that meets another is itself a mishap.
* `BooksAlwaysAgree`: `Spec => []BooksAgree`. An order without a mishap has one request at most
  about it, and `Stories` tells, for each place in that request, which of status, ledger and
  refund requests are already written and which are not.

`OrderProcessingProofs` proves, for any lines, services and requests, with batches and
calls on the whole order in any mixture:

* `Invariance` and `NeverReadyEarly`: `Spec => []ReadyIsDone`. Every document, stored or
  about to be put, that is ready or beyond has passed a check and, unless the last to
  set its stage was a call on the whole order, has every batch done (so an order with a
  batch still to do is ready by such a call only, `ReadyAsAWhole`). A put exchanges one
  such document for another, and the state `syncOrderToBatches` gives is read from the
  batches in the same document.
* `WorkIsKept`: `WorkStays` as an action property: while no two requests overlap, what a
  request is about to put is one operation away from the stored order. It rests on what
  a batch's sequence looks like (`Sequences`: at most one cleaning step, at most one
  after it, the check last); a call on the whole order touches no batch.
* `StageIsShown`: `Spec => []ShowsTheStage`. Like the first it is a statement about every
  document there is (`StageInv`): the order it shows is that of its own batches, whose check
  comes after everything else, until a call on the whole order shows another. It needs no
  condition on how requests overlap.

`SubscriptionsProofs` proves, for any subscriptions, plans, requests, runs of the job and
faults (assumptions: `Members` are subscriptions, the placeholders are no identities, ranks
and allowances are natural numbers):

* `OneCharge`: `Spec => []OneChargePerCycle`. That a cycle is charged at most once does not
  follow from its key alone, because the first cycle is charged without one, when
  somebody subscribes. `Origin` closes the gap: a cycle was charged under its key, or no
  document from before that cycle is left, stored or held, that could be rolled into it.
* `PaidService`: `Spec => []ServedIsPaid`. Puts write back stale documents, so the invariant
  is about every copy there is (`DocsAreRight`, `StoredIsServed`): its cycle was charged and
  its plan bought, and what a worker has yet to pay is stored only afterwards
  (`MoneyIsRight`).
* `UsageAddsUp` (`UsageIsExplained`), `OneRefund` (`RefundEndsIt`) and `EndsAreFinal` (`EndedStays`)
  are about workers that have not met (`calm`). Their invariant is `Quiet`: each worker's
  copy is the stored document, no other worker is about to write it, the usage of each
  subscription is the number of its entries and within its allowance, and whatever was
  refunded has ended or is about to be put as ended by the worker that refunded it.

`ServiceBookingsProofs` proves, for any bookings, operators, slots, windows, seats and
requests (assumptions: operators and bookings have different identities, placeholders are
none, bookings and requests are finite sets):

* `OnePlaceEach`: `Spec => []NobodyInTwoPlaces`. `WorkInv` says what a request knows that met
  nobody: its copy of the booking is the stored one, and the operator it found free still
  is, since whoever would give that operator something else had to meet it (`Claims`).
* `SeatsAreSoldOnce`: `Spec => []SeatsSoldOnce`. The seats left, those sold and those in
  requests' hands are at most the seats of the day and its slips; `reserve` and `release`
  are a read and a put, so what a request is about to put is part of the account
  (`SeatInv`).
* `RoomIsKept`: `Spec => []WindowNotOverbooked`. Behind the gate of a window a request is alone
  and has counted a place to spare beside the booking it moves (`RoomInv`).

Its last section, about an instance of `OneAtATime` for any calls and keys (`Placeholders`:
the placeholders are no identities):

* `TakesTurns`: `Queue!Spec => Queue!Turns!Safety`, the safety part of `InTurn`. The invariant
  is about the chain: the calls of a key that have no answer stand in one line of
  `previous`, whose end is in the map; a call behind another is later than it, and
  everything ahead of a call that may start is over.
* `Exclusion` (`OneInside`: one call of a key works at a time) and `MapIsCleared`
  (`NothingKept`: the map has no key whose calls are all answered) from it.

It is what the gate of the first part rests on, and stands beside it for that reason.

`OfflineQueueProofs` proves, for any orders, steps, actions, drains and kills:

* `SavedIsKept`: `Spec => []WorkIsKept`. While the queue is used by one at a time, whoever has
  the list in hand holds everything that was told to be saved and has met no fate yet
  (`Held`), so that a save loses nothing.
* `NothingGivenUpEarly`: `Spec => []GivenUpWasRefused`. Every list there is, stored or in hand,
  stale ones too, counts no more refusals of an action than it has had.
* `OrdersInOrder`: `Spec => InOrderWithinOrder`, an action property with drains that overlap:
  what a drain has passed and does not hold back the server has accepted (`Orderly`). A
  drain goes on with the least number behind the last, and that there is one
  (`LeastOf`) is the well-foundedness of the natural numbers.

`TowerAssignmentsProofs` proves, for any operators, towers, orders, requests and faults
(assumptions: operators, towers and orders are different things, `NoOne` and `NoTower` are
none of them):

* `Invariance`: `Spec => []IInv`, and `TypeCorrect` (`TypeOK`) from it. The properties are
  about records that no two requests met on and none is editing now, so they say nothing of
  the tables while a request is half way; the invariant has to. `Shapes`: a request writes, and
  chooses among, only what it is about. `Contests`: two requests that are about the same
  record, one of them to write it, have it in `met`. `Knowledge`: hence a request's copy of
  any other record is what the table has, or what the request itself put there; this is
  what takes the sting out of the stale puts. `Sides`, `Follows` and `Cleared`: where the
  tables are not as a property wants them there is a request with that still to do, an
  account or a list to put (`Mending`), an order to reassign (`Straying`) or to hand over
  (`Clearing`).
* `SidesAgree`: `Spec => []BothSidesAgree`, `OrdersFollow`: `Spec => []FollowsItsTower` and
  `BlockedAreRelieved`: `Spec => []BlockedHoldNothing`, each from its part of `IInv`: a
  request with something still to put has the record among its edits, so that it is not
  yet settled.
* `RecordsAreKept`: `Spec => RecordsStay`, an action property from `Shapes` and `Knowledge`:
  whoever puts an order that is not contested puts what is stored, but for what its handler
  changes.

The proof shaped the model: what a request finds later counts among what it is busy with
(`Widen`) because without it `Knowledge` is not inductive.

Only model-checked: liveness (`PaidIsSettled`, `EachIsTried`, `EveryRequestEnds`,
`DueIsSettled`, `OccurrenceComes`, `QueueEmpties`, and the fairness parts of `PromiseKept`
and `InTurn`), which the prover does not reach. Every safety property of the runs is
proved. What follows from a property of a run is proved and not run: `CreditedOnce`,
`CreditedOnlyIfPaid`, `MarkedOnce`, `OneInside`, `NothingKept`.

## 5. What the code does not keep

While modelling, several statements turned out not to hold of the code. Each
configuration here makes TLC print a behaviour that breaks the statement (`tlc -config
X.cfg M`, with the MC module of the component, or `Outbox` itself); the passing runs
leave out what it needs.

| configuration | statement | how it fails |
|---|---|---|
| `CancelTwice` | `NeverOversold`: bookings cannot oversell | cancel does not look at the pickup's status and releases a place each time |
| `UpdateRace` | `NeverOversold`: editing never loses a booking | the counter is computed from a stale slot |
| `ShutRace` | `NothingStranded`: no booking is left in a closed slot | a booking between its reservation and its pickup is |
| `LateChange` | `ChangesStopAtCutoff`: no change in the last two hours | a local time stored as UTC moves the cutoff by the offset |
| `CollectCancelled` | `CancelledIsFinal`: cancelled is a final state | the transition is judged on a stale order |
| `MethodLost` | `MethodKept`: the payment method is recorded | the pass puts its older copy back |
| `PoisonedPass` | `PaidIsSettled`: every pending intent is looked at | one failing lookup ends the pass |
| `TwiceSubscribed` | `OneSubscription`: no second subscription | one whose cycle has ended and is not renewed yet does not count as active: the resident subscribes again, and the job may still renew the first |
| `HoldForgotten` | `StaysOnHold`: an order is on hold while a batch is | the next batch that moves takes the order on |
| `ReadyUnfinished` | `NeverClaimsReady`: "an order can never claim to be ready for delivery while a batch is still in a machine" (`order-service.ts:400-402`) | the calls on the whole order (`order-service.ts:838-951`) do not look whether it has batches: washed, ironed and checked as a whole, as `testing-round-3.dft.test.ts:155-212` begins to with orders that have one, it is ready with its batch not begun |
| `NeverRetried` | `FailedIsRetried`: delivery is "retryable", and an event that reached nothing "a failure worth retrying" (`notification-service.ts:16-19`, `131-132`) | only pending events are claimed and nothing makes a failed one pending again: it is lost to those it was for |
| `RefusedRecurrence` | `OccurrenceComes` with a resident whose plan has lapsed | the refusal ends every pass at that pickup; those behind it are never looked at |
| `StoppedSchedule` | `StoppedStays`: a stopped schedule books nothing more | a sweep, or an edit, that read it before puts it back as active |
| `LeftBehind` | `NobodyLeftBehind`: "neither should leave an order pointing at somebody who no longer goes there" (`auto-assign.ts:9-11`) | an edit of an operator's own blocks does not go through the orders of the towers he leaves |
| `LeftHolding` | `NothingStranded`: "open work is moved in the same step so it is never left behind an unavailable person" (`staffing-service.ts:67-68`) | an administrator's edit of the status hands nothing over; and `setAvailability` has put the status before it refuses a replacement |

Properties that are claimed only under a condition, and what happens without it:

* `SeatAccounting` of a slot until it is `spoiled`: an edit put over a booking made since
  it read the slot forgets that booking, and the undo of a reschedule gives back the new
  place after the pickup was moved to it.
* `NeverOversold` without editing, cancelling and failing reschedules: each gives back a
  place too many. `OneSlotPerWindow` without `updateSlot`, which does not look for
  another slot of the window.
* `OneChange` in `changes`: clients make one change of a pickup at a time. The buttons
  appear only for a scheduled order and are disabled while a change is under way; the
  server does not enforce it.
* `Prompt` in `outbox`: deliveries end within the lease. No provider call has a timeout;
  a batch that takes longer is taken over while it is being sent.
* `UsageIsExplained`, `RefundEndsIt`, `EndedStays` while no two requests meet: two deductions
  from the same copy lose one, two cancellations refund twice, a renewal puts an ended
  subscription back. An upgrade to an allowance below what is used ends `calm` as well:
  changePlan reads the active subscription a second time after the quote.
* `WorkStays` while requests on an order do not overlap.
* The part of `ReadyIsDone` about batches, and `ShowsTheStage`, of an order whose stage its
  batches gave: `completeWash`, `submitQc` and the like move an order that has batches to a
  stage its batches are not at, until the next step of a batch takes it back to theirs.
* `WorkIsKept` while the queue is used by one at a time and storage works: an action
  enqueued during a drain is not in the list the drain saves, and a save that fails is
  swallowed (`async-storage.ts:59`) after the operator was told that it is saved.
* `NeverTwice` while generators do not meet and nothing is moved: overlapping passes book a
  day twice, and a pickup that was moved is booked again for its old day. A sweep also
  books again what the resident cancelled, which `NeverTwice` allows it.
* `BothSidesAgree`, `FollowsItsTower`, `BlockedHoldNothing`, `RecordsStay` of records
  that no two requests were busy with at once and no stopped request left half done
  (`RecordsStay` whatever met on the order's tower and operator): every put is of a
  whole document, so a hand-over that meets a collection makes the order scheduled
  again, and of two who claim an order both are told that it is theirs.
  `BlockedHoldNothing` leaves out as well an order that operations give to somebody off
  duty: `POST /v1/operations/orders/:id/assign` (`operations.ts:318-350`) does not look,
  as `reassignOrder` and the supervisor's route do.
* `QueueEmpties` while drains do not meet: two can count a refusal and take it back for
  ever.

Further, with no configuration of its own: an operator who was taken off his last
tower is put on every tower of his society at the next start of the server
(`assignment-backfill.ts:128`), whose comment speaks of one who was never put on a
block; the drains the timer and the return to the foreground start (`App.tsx:242`)
throw away how many actions were given up, which only the drain the operator starts by
hand shows (`OperationsPortal.tsx:115-119`), against "surfaced rather than swallowed"
(`queue.ts:31-34`), and `WorkIsKept` says nothing of telling; nothing runs the sweep
over schedules, though `schedule-service.ts:136-137` says a job does;
`generatedThrough` is written and never read; the pickups a pass books are not marked
as recurring, so that a recurring pickup has one further occurrence only; and
cancelling a recurring pickup does not stop it.

## 6. The plan from here

1. An abstract ledger ("paid once, refunded once") for `OrderCharges`, and one charge per
   cycle for `Subscriptions`, as promises to refine as `TopUpPromise` is.
2. `IssueConversations`: replies, transitions, assignment and escalation of an issue.
   Looking at a conversation reads the issue, reads the accounts of who wrote in it, and
   puts the issue back as read (`issue-service.ts:290-312`), so that a reply made in
   between is lost.
3. Supervisors of a society and the editing of its blocks, floors and flats.

## 7. Not modelled

* One-time passwords and sessions: records of their own, apart from everything else.
* Issues: one document each, in the plan.
* Supervisors of societies, and blocks, floors and flats: lists of one side, edited by
  administrators. Of users and staffing only what touches an operator's work
  (`TowerAssignments`); of account deletion only the end it puts to a subscription.
* Pricing, tax, plan and proration arithmetic, catalogue and measurement: data to the
  properties here. Money is counted in units of one charge.
* Reports, dashboards, listings: read-only. Most of the web and mobile source is screens.
* HTTP routes: parsing, authorisation and wording; the routes call the modelled services.
* The memory store of tests, whose steps are synchronous; the models follow Postgres.
