--------------------------- MODULE Subscriptions ---------------------------
(***************************************************************************)
(* The subscriptions of one resident: bought, changed, used, cancelled,    *)
(* and renewed by a job.                                                   *)
(*   washnpress-v2/src/services/subscription-service.ts  subscribe,        *)
(*        changePlan, cancelPlanChange, pause, cancel, deductGarments      *)
(*   washnpress-v2/src/services/renewal-service.ts       runOnce, renew    *)
(*   washnpress-v2/src/services/order-service.ts         markPickedUp, as  *)
(*        far as it spends the plan                                        *)
(*   washnpress-v2/src/services/account-deletion-service.ts                *)
(* A worker is a request or a run of the renewal job; each store call is a *)
(* step, and a put writes back the document the worker read.               *)
(*                                                                         *)
(* Time is counted in billing cycles.  A collection spends one garment.    *)
(* Whether the wallet covers a charge, whether a cancellation comes to a   *)
(* refund and whether a plan has allowances per service are free choices.  *)
(* Left out: prices, the allowances per service themselves, carrying them  *)
(* over, and plans that are deleted.                                       *)
(***************************************************************************)
EXTENDS Naturals, FiniteSets

CONSTANTS
  Subs, NoSub,       \* identities for subscriptions
  Members,           \* the subscriptions there are to begin with, in their first cycle
  Plans, NoPlan,
  Rank, Cap,         \* the tier and the allowance of each plan
  Orders, NoOrder,   \* orders that may be collected
  Requests, Passes,  \* requests and runs of the job under way at the same time
  MaxRequests, MaxFaults, MaxTime

ASSUME MembersAreSubs == Members \subseteq Subs
ASSUME NoneIsNone == NoSub \notin Subs /\ NoPlan \notin Plans /\ NoOrder \notin Orders
ASSUME PlansAreRanked == Rank \in [Plans -> Nat] /\ Cap \in [Plans -> Nat]
ASSUME BoundsAreNatural == MaxRequests \in Nat /\ MaxFaults \in Nat /\ MaxTime \in Nat
ASSUME PassesAreNoRequests == Requests \intersect Passes = {}

VARIABLES
  subs,       \* the subscriptions table
  keys,       \* claimed keys renewal:<sub>:<cycleEnd>
  collected,  \* orders whose state is past scheduled
  billed,     \* how often the cycle of a subscription that ends at c was charged
  bought,     \* the plans a charge was made for, by subscription
  refunded,   \* transactions with reference sub-cancel-<sub>
  work,       \* what each worker holds
  now,        \* cycles gone by
  started, faults,
  calm        \* history: nothing went wrong yet, see Disturb

vars == <<subs, keys, collected, billed, bought, refunded, work, now, started, faults, calm>>

Workers == Requests \union Passes
Cycles == 0..(MaxTime + 1)

SubDoc == [status : {"absent", "active", "paused", "cancelled", "expired"},
           plan : Plans \union {NoPlan}, pending : Plans \union {NoPlan},
           end : Cycles, used : Nat, history : SUBSET Orders]

Absent == [status |-> "absent", plan |-> NoPlan, pending |-> NoPlan,
           end |-> 0, used |-> 0, history |-> {}]

Nothing == [s \in Subs |-> Absent]

\* `docs` are the documents a worker read, `todo` the ones it has still to look at.
Idle == [pc |-> "idle", sub |-> NoSub, plan |-> NoPlan, order |-> NoOrder,
         docs |-> Nothing, todo |-> {}, immediate |-> FALSE]

-----------------------------------------------------------------------------
(* Helpers *)

Active(w) == work[w].pc # "idle"

\* getActive: not merely marked active, its cycle has not ended either.
Current(s) == subs[s].status = "active" /\ subs[s].end > now

\* Slip: the status is not looked at.
DueWhatever(doc) == doc.status # "absent" /\ doc.end <= now

Due(doc) == doc.status = "active" /\ doc.end <= now

\* The subscriptions whose documents a worker holds.
Holds(w) == {s \in Subs : work[w].docs[s] # Absent} \union ({work[w].sub} \ {NoSub})

\* Two workers at one subscription, or two requests of the resident at once.
Crowded(w, held) ==
  \E v \in Workers \ {w} : Active(v) /\ (held \intersect Holds(v) # {} \/ {v, w} \subseteq Requests)

Disturb(w, held) == calm' = (calm /\ ~Crowded(w, held))

Begin(w, held, job) ==
  /\ ~Active(w)
  /\ started < MaxRequests
  /\ started' = started + 1
  /\ work' = [work EXCEPT ![w] = job]
  /\ Disturb(w, held)
  /\ UNCHANGED <<subs, keys, collected, billed, bought, refunded, now, faults>>

Job(pc, s, doc) == [Idle EXCEPT !.pc = pc, !.sub = s, !.docs[s] = doc]

\* What a query for these subscriptions answers with.
Read(found) == [s \in Subs |-> IF s \in found THEN subs[s] ELSE Absent]

Goto(w, pc) == work' = [work EXCEPT ![w].pc = pc]

Return(w) == work' = [work EXCEPT ![w] = Idle]

Mine(w) == work[w].docs[work[w].sub]

Put(s, doc) == subs' = [subs EXCEPT ![s] = doc]

Bill(s, cycle) == billed' = [billed EXCEPT ![s][cycle] = @ + 1]

Buy(s, plan) == bought' = [bought EXCEPT ![s] = @ \union {plan}]

-----------------------------------------------------------------------------
(* SubscriptionService.subscribe *)

\* The identity s is a new one.
Fresh(plan) == [Absent EXCEPT !.status = "active", !.plan = plan, !.end = now + 1]

SubscribeStart(r, s, p) ==
  /\ ~\E t \in Subs : Current(t)
  /\ subs[s].status = "absent" /\ bought[s] = {} /\ \A v \in Workers : work[v].sub # s
  /\ Begin(r, {s}, Job("subscribe", s, Fresh(p)))

\* The wallet is charged, or is short and the request ends.
SubscribeCharge(r, covered) ==
  /\ work[r].pc = "subscribe"
  /\ IF covered
     THEN Bill(work[r].sub, Mine(r).end) /\ Buy(work[r].sub, Mine(r).plan) /\ Goto(r, "create")
     ELSE Return(r) /\ UNCHANGED <<billed, bought>>
  /\ UNCHANGED <<subs, keys, collected, refunded, now, started, faults, calm>>

\* Every put that ends a request.
Store(r, pc, doc) ==
  /\ work[r].pc = pc
  /\ Put(work[r].sub, doc)
  /\ Return(r)
  /\ UNCHANGED <<keys, collected, billed, bought, refunded, now, started, faults, calm>>

SubscribePut(r) == Store(r, "create", Mine(r))

-----------------------------------------------------------------------------
(* changePlan and cancelPlanChange *)

Allowed(doc, p) == p # doc.plan /\ doc.pending \in {NoPlan, p}

Upgrade(doc, p) == Rank[p] > Rank[doc.plan]

\* quoteChange
ChangeStart(r, s, p) ==
  /\ Current(s)
  /\ Allowed(subs[s], p)
  /\ Begin(r, {s}, [Job("quoted", s, Absent) EXCEPT !.plan = p, !.immediate = Upgrade(subs[s], p)])

\* Slip: an upgrade is applied before it is charged.
UnpaidChange(immediate) == "change"

AfterQuote(immediate) == IF immediate THEN "prorate" ELSE "change"

\* getActive once more: this is the document that is changed.
ChangeRead(r, s) ==
  /\ work[r].pc = "quoted"
  /\ Current(s)
  /\ work' = [work EXCEPT ![r].pc = AfterQuote(work[r].immediate), ![r].sub = s,
                          ![r].docs = [Nothing EXCEPT ![s] = subs[s]]]
  /\ UNCHANGED <<subs, keys, collected, billed, bought, refunded, now, started, faults, calm>>

ChangeNone(r) ==
  /\ work[r].pc = "quoted"
  /\ ~\E s \in Subs : Current(s)
  /\ Return(r)
  /\ UNCHANGED <<subs, keys, collected, billed, bought, refunded, now, started, faults, calm>>

\* The tiers are ranked apart from what the plans allow for: an upgrade may allow for less
\* than is used already, and that is something gone wrong too.
ChangeCharge(r, covered) ==
  /\ work[r].pc = "prorate"
  /\ IF covered
     THEN /\ Buy(work[r].sub, work[r].plan) /\ Goto(r, "change")
          /\ calm' = (calm /\ Mine(r).used <= Cap[work[r].plan])
     ELSE Return(r) /\ UNCHANGED <<bought, calm>>
  /\ UNCHANGED <<subs, keys, collected, billed, refunded, now, started, faults>>

ChangePut(r) ==
  Store(r, "change", IF work[r].immediate
                     THEN [Mine(r) EXCEPT !.plan = work[r].plan, !.pending = NoPlan]
                     ELSE [Mine(r) EXCEPT !.pending = work[r].plan])

KeepStart(r, s) == Current(s) /\ subs[s].pending # NoPlan /\ Begin(r, {s}, Job("keep", s, subs[s]))

KeepPut(r) == Store(r, "keep", [Mine(r) EXCEPT !.pending = NoPlan])

-----------------------------------------------------------------------------
(* pause and cancel *)

PauseStart(r, s) == Current(s) /\ Begin(r, {s}, Job("pause", s, subs[s]))

PausePut(r) == Store(r, "pause", [Mine(r) EXCEPT !.status = "paused"])

CancelStart(r, s) == Current(s) /\ Begin(r, {s}, Job("refund", s, subs[s]))

CancelRefund(r, due) ==
  /\ work[r].pc = "refund"
  /\ refunded' = IF due THEN [refunded EXCEPT ![work[r].sub] = @ + 1] ELSE refunded
  /\ Goto(r, "cancel")
  /\ UNCHANGED <<subs, keys, collected, billed, bought, now, started, faults, calm>>

\* Slip: the refund is given and the subscription goes on.
RefundOnly(r) == Store(r, "cancel", Mine(r))

CancelPut(r) == Store(r, "cancel", [Mine(r) EXCEPT !.status = "cancelled"])

\* AccountDeletionService: every active one of those found, each put on its own.
DeleteStart(r) ==
  LET found == {s \in Subs : subs[s].status = "active"} IN
  /\ found # {}
  /\ Begin(r, found, [Idle EXCEPT !.pc = "delete", !.todo = found, !.docs = Read(found)])

DeletePut(r, s) ==
  /\ work[r].pc = "delete"
  /\ s \in work[r].todo
  /\ Put(s, [work[r].docs[s] EXCEPT !.status = "cancelled", !.pending = NoPlan])
  /\ IF work[r].todo = {s}
     THEN Return(r)
     ELSE work' = [work EXCEPT ![r].todo = @ \ {s}, ![r].docs[s] = Absent]
  /\ UNCHANGED <<keys, collected, billed, bought, refunded, now, started, faults, calm>>

-----------------------------------------------------------------------------
(* OrderService.markPickedUp: subscriptionForOrder asks for the status only, *)
(* the allowances per service are put, the order is put, deductGarments      *)

CollectStart(r, s, o) ==
  /\ o \notin collected
  /\ subs[s].status = "active"
  /\ Begin(r, {s}, [Job("cover", s, subs[s]) EXCEPT !.order = o])

CollectCover(r, perService) ==
  /\ work[r].pc = "cover"
  /\ IF perService THEN Put(work[r].sub, Mine(r)) ELSE UNCHANGED subs
  /\ work' = [work EXCEPT ![r].pc = "pick", ![r].docs = Nothing]
  /\ UNCHANGED <<keys, collected, billed, bought, refunded, now, started, faults, calm>>

CollectOrder(r) ==
  /\ work[r].pc = "pick"
  /\ collected' = collected \union {work[r].order}
  /\ Goto(r, "get")
  /\ UNCHANGED <<subs, keys, billed, bought, refunded, now, started, faults, calm>>

DeductRead(r) ==
  /\ work[r].pc = "get"
  /\ work' = [work EXCEPT ![r].pc = "deduct", ![r].docs[work[r].sub] = subs[work[r].sub]]
  /\ UNCHANGED <<subs, keys, collected, billed, bought, refunded, now, started, faults, calm>>

\* Slip: the entry names what was asked for, not what the allowance gave.
SpentUnclipped(doc, o) ==
  [doc EXCEPT !.used = IF @ < Cap[doc.plan] THEN @ + 1 ELSE Cap[doc.plan],
              !.history = @ \union {o}]

\* min(cap, used + 1), and an entry for what was spent in place of an earlier one.
Spent(doc, o) ==
  IF doc.used < Cap[doc.plan]
  THEN [doc EXCEPT !.used = @ + 1, !.history = @ \union {o}]
  ELSE [doc EXCEPT !.used = Cap[doc.plan], !.history = @ \ {o}]

DeductPut(r) == Store(r, "deduct", Spent(Mine(r), work[r].order))

-----------------------------------------------------------------------------
(* RenewalService.runOnce *)

PassStart(p) ==
  LET due == {s \in Subs : Due(subs[s])} IN
  /\ ~Active(p)
  /\ due # {}
  /\ work' = [work EXCEPT ![p] = [Idle EXCEPT !.pc = "next", !.todo = due, !.docs = Read(due)]]
  /\ Disturb(p, due)
  /\ UNCHANGED <<subs, keys, collected, billed, bought, refunded, now, started, faults>>

\* The document of s is dealt with.
Done(p, s) == work' = [work EXCEPT ![p].pc = "next", ![p].sub = NoSub, ![p].docs[s] = Absent]

Key(s, end) == <<s, end>>

\* Slip: the key is looked at but not taken.
LookOnly(s, end) == Key(s, end) \notin keys /\ UNCHANGED keys

Claim(s, end) == Key(s, end) \notin keys /\ keys' = keys \union {Key(s, end)}

PassClaim(p, s) ==
  /\ work[p].pc = "next"
  /\ s \in work[p].todo
  /\ \/ /\ Claim(s, work[p].docs[s].end)
        /\ work' = [work EXCEPT ![p].pc = "bill", ![p].sub = s, ![p].todo = @ \ {s}]
     \/ /\ Key(s, work[p].docs[s].end) \in keys
        /\ work' = [work EXCEPT ![p].todo = @ \ {s}, ![p].docs[s] = Absent]
        /\ UNCHANGED keys
  /\ UNCHANGED <<subs, collected, billed, bought, refunded, now, started, faults, calm>>

\* The pending plan, if there is one, takes effect.
NextPlan(doc) == IF doc.pending # NoPlan THEN doc.pending ELSE doc.plan

\* Slip: where the wallet is short the subscription is left for the next run.
LeaveUnpaid(covered) == IF covered THEN "roll" ELSE "next"

AfterBill(covered) == IF covered THEN "roll" ELSE "expire"

\* Charged, or the wallet is short.
PassBill(p, covered) ==
  /\ work[p].pc = "bill"
  /\ IF covered
     THEN Bill(work[p].sub, Mine(p).end + 1) /\ Buy(work[p].sub, NextPlan(Mine(p)))
     ELSE UNCHANGED <<billed, bought>>
  /\ Goto(p, AfterBill(covered))
  /\ UNCHANGED <<subs, keys, collected, refunded, now, started, faults, calm>>

PassPut(p, pc, doc) ==
  /\ work[p].pc = pc
  /\ Put(work[p].sub, doc)
  /\ Done(p, work[p].sub)
  /\ UNCHANGED <<keys, collected, billed, bought, refunded, now, started, faults, calm>>

\* The next cycle starts where the last one ended, with nothing used.
PassRoll(p) ==
  PassPut(p, "roll", [Mine(p) EXCEPT !.end = @ + 1, !.plan = NextPlan(Mine(p)),
                                     !.pending = NoPlan, !.used = 0, !.history = {}])

PassExpire(p) == PassPut(p, "expire", [Mine(p) EXCEPT !.status = "expired"])

PassEnd(p) ==
  /\ work[p].pc = "next"
  /\ work[p].todo = {}
  /\ Return(p)
  /\ UNCHANGED <<subs, keys, collected, billed, bought, refunded, now, started, faults, calm>>

-----------------------------------------------------------------------------
(* The rest of the world *)

Tick ==
  /\ now < MaxTime
  /\ now' = now + 1
  /\ UNCHANGED <<subs, keys, collected, billed, bought, refunded, work, started, faults, calm>>

\* The process stops, or a call that nothing catches rejects: among them, in the job, any
\* error of the wallet other than a short balance, which ends the whole run.
Lose(w) ==
  /\ Active(w)
  /\ faults < MaxFaults
  /\ faults' = faults + 1
  /\ calm' = FALSE
  /\ Return(w)
  /\ UNCHANGED <<subs, keys, collected, billed, bought, refunded, now, started>>

-----------------------------------------------------------------------------
(* The specification *)

Init ==
  /\ \E plan \in [Members -> Plans] :
       /\ subs = [s \in Subs |-> IF s \in Members
                                THEN [Absent EXCEPT !.status = "active", !.plan = plan[s], !.end = 1]
                                ELSE Absent]
       /\ bought = [s \in Subs |-> IF s \in Members THEN {plan[s]} ELSE {}]
  /\ keys = {}
  /\ collected = {}
  /\ billed = [s \in Subs |-> [c \in Cycles |-> IF s \in Members /\ c = 1 THEN 1 ELSE 0]]
  /\ refunded = [s \in Subs |-> 0]
  /\ work = [w \in Workers |-> Idle]
  /\ now = 0
  /\ started = 0
  /\ faults = 0
  /\ calm = TRUE

Arrive(r) ==
  \/ \E s \in Subs, p \in Plans : SubscribeStart(r, s, p) \/ ChangeStart(r, s, p)
  \/ \E s \in Subs : KeepStart(r, s) \/ PauseStart(r, s) \/ CancelStart(r, s)
  \/ \E s \in Subs, o \in Orders : CollectStart(r, s, o)
  \/ DeleteStart(r)

Continue(r) ==
  \/ \E choice \in BOOLEAN :
       \/ SubscribeCharge(r, choice) \/ ChangeCharge(r, choice)
       \/ CancelRefund(r, choice) \/ CollectCover(r, choice)
  \/ SubscribePut(r) \/ ChangePut(r) \/ KeepPut(r) \/ PausePut(r) \/ CancelPut(r) \/ DeductPut(r)
  \/ \E s \in Subs : ChangeRead(r, s) \/ DeletePut(r, s)
  \/ ChangeNone(r) \/ CollectOrder(r) \/ DeductRead(r)

PassStep(p) ==
  \/ PassEnd(p) \/ PassRoll(p) \/ PassExpire(p)
  \/ \E s \in Subs : PassClaim(p, s)
  \/ \E covered \in BOOLEAN : PassBill(p, covered)

Next ==
  \/ Tick
  \/ \E r \in Requests : Arrive(r) \/ Continue(r)
  \/ \E p \in Passes : PassStart(p) \/ PassStep(p)
  \/ \E w \in Workers : Lose(w)

\* The job's timer keeps starting runs, and the calls of a run settle.  Nothing is asked
\* of the requests.
Fairness ==
  /\ WF_vars(\E p \in Passes : PassStart(p))
  /\ \A p \in Passes : WF_vars(PassStep(p))

Spec == Init /\ [][Next]_vars /\ Fairness

-----------------------------------------------------------------------------
(* Properties *)

TypeOK ==
  /\ subs \in [Subs -> SubDoc]
  /\ keys \in SUBSET (Subs \X Cycles)
  /\ collected \in SUBSET Orders
  /\ billed \in [Subs -> [Cycles -> Nat]]
  /\ bought \in [Subs -> SUBSET Plans]
  /\ refunded \in [Subs -> Nat]
  /\ now \in 0..MaxTime
  /\ calm \in BOOLEAN

\* "One boundary crossed is one cycle billed": whatever overlaps or stops, no cycle of a
\* subscription is charged twice.
OneChargePerCycle == \A s \in Subs, c \in Cycles : billed[s][c] <= 1

\* No cycle is served that was not charged, and no plan that was not bought, whichever
\* stale document was put back last.
ServedIsPaid ==
  \A s \in Subs : subs[s].status # "absent" =>
    /\ billed[s][subs[s].end] = 1
    /\ subs[s].plan \in bought[s]

\* "The total is the sum of these": while nothing went wrong, the usage of a cycle is
\* what its entries say, and within the allowance.
UsageIsExplained ==
  calm => \A s \in Subs : subs[s].status # "absent" =>
    /\ subs[s].used = Cardinality(subs[s].history)
    /\ subs[s].used <= Cap[subs[s].plan]
    /\ subs[s].history \subseteq collected

\* While nothing went wrong a subscription is refunded once at most, and once that is
\* done it is not served any more.
RefundEndsIt ==
  calm => \A s \in Subs :
    /\ refunded[s] <= 1
    /\ refunded[s] = 1 /\ (\A w \in Workers : s \notin Holds(w)) => subs[s].status = "cancelled"

\* A subscription that was cancelled or has expired is not brought back, unless two
\* workers met at it.
EndedStays ==
  [][\A s \in Subs : calm /\ subs[s].status \in {"cancelled", "expired"} =>
       subs'[s].status = subs[s].status]_vars

\* Once its cycle has ended, an active subscription is renewed or ends: the job never
\* leaves it, unless a run was lost or a stale document put back.
DueIsSettled ==
  \A s \in Subs : (calm /\ Due(subs[s])) ~> (~calm \/ ~Due(subs[s]))

\* "Subscribing while already subscribed is a plan change, not a second subscription."  No
\* run checks it: the code breaks it (README, section 5).
OneSubscription ==
  \A s, t \in Subs : subs[s].status = "active" /\ subs[t].status = "active" => s = t

=============================================================================
