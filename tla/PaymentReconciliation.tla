----------------------- MODULE PaymentReconciliation -----------------------
(***************************************************************************)
(* A wallet top-up from the order at the gateway to the credit:            *)
(*   washnpress-v2/src/services/wallet-service.ts         startTopUp       *)
(*   washnpress-v2/src/services/payment-service.ts        handleWebhook    *)
(*   washnpress-v2/src/services/reconciliation-service.ts runOnce          *)
(*   washnpress-v2/src/adapters/postgres/store.ts         postOnce, put    *)
(* Request handlers and reconciliation passes run at the same time (passes *)
(* come from a timer that does not wait for the previous pass, in as many  *)
(* server processes as there are).  Each await is a step.  `find` answers  *)
(* with documents; a later put writes back the document that was read.     *)
(*                                                                         *)
(* Left out: the signature and the amount and resident checks of the       *)
(* webhook (a refused webhook changes nothing), amounts, the balance that  *)
(* the answer carries.                                                     *)
(* The gateway is external: it reports what was captured, as often as it   *)
(* likes or never, and "paid" and "failed" are final, as the union type    *)
(* ProviderOrderStatus and the two `if`s on it suppose.                    *)
(***************************************************************************)
EXTENDS Naturals

CONSTANTS
  TopUps,     \* orders at the gateway
  Handlers,   \* requests served at the same time
  Passes,     \* reconciliation passes under way at the same time
  Methods,    \* upi, card, netbanking, wallet
  NoTopUp,    \* what a worker with nothing to do works on
  Unknown,    \* orders the gateway answers with an error, every time
  MaxFaults   \* restarts and failed lookups altogether

ASSUME UnknownIsTopUps == Unknown \subseteq TopUps
ASSUME NoTopUpIsNone == NoTopUp \notin TopUps
ASSUME NoneIsNoMethod == "none" \notin Methods
ASSUME FaultsAreFinite == MaxFaults \in Nat

VARIABLES
  gateway,  \* the provider's status of each order
  intents,  \* the paymentIntents table
  keys,     \* processed_events: the keys `payment:<order>` that are taken
  ledger,   \* how many credit transactions refer to each order
  pc,       \* what each worker does next
  of,       \* the top-up it is working on
  seen,     \* the paymentIntents table as it read it
  said,     \* the method the webhook named
  todo,     \* what a pass has still to look at
  faults    \* faults so far

vars == <<gateway, intents, keys, ledger, pc, of, seen, said, todo, faults>>

Workers == Handlers \union Passes
MethodOrNone == Methods \union {"none"}

Intent == [status : {"absent", "pending", "reconciled", "failed"}, method : MethodOrNone]
Absent == [status |-> "absent", method |-> "none"]
NothingSeen == [t \in TopUps |-> Absent]

Labels == {"idle", "record", "credit", "settle", "next", "jobCredit", "jobSettle", "jobFail"}

TablesOK ==
  /\ gateway \in [TopUps -> {"none", "created", "paid", "failed"}]
  /\ intents \in [TopUps -> Intent]
  /\ keys \in SUBSET TopUps
  /\ ledger \in [TopUps -> Nat]
  /\ faults \in 0..MaxFaults

LocalsOK ==
  /\ pc \in [Workers -> Labels]
  /\ of \in [Workers -> TopUps \union {NoTopUp}]
  /\ seen \in [Workers -> [TopUps -> Intent]]
  /\ said \in [Workers -> MethodOrNone]
  /\ todo \in [Workers -> SUBSET TopUps]

TypeOK == TablesOK /\ LocalsOK

-----------------------------------------------------------------------------
(* Helpers *)

Goto(w, label) ==
  /\ pc' = [pc EXCEPT ![w] = label]
  /\ UNCHANGED <<of, seen, said, todo>>

\* The handler returns and its local variables are gone.
Return(w) ==
  /\ pc' = [pc EXCEPT ![w] = "idle"]
  /\ of' = [of EXCEPT ![w] = NoTopUp]
  /\ seen' = [seen EXCEPT ![w] = NothingSeen]
  /\ said' = [said EXCEPT ![w] = "none"]
  /\ todo' = [todo EXCEPT ![w] = {}]

WriteIntent(t, doc) == intents' = [intents EXCEPT ![t] = doc]

\* LedgerRepository.postOnce: the key and the transaction in one unit of work.
PostOnce(t) ==
  /\ t \notin keys
  /\ keys' = keys \union {t}
  /\ ledger' = [ledger EXCEPT ![t] = @ + 1]

AlreadyPosted(t) == t \in keys /\ UNCHANGED <<keys, ledger>>

-----------------------------------------------------------------------------
(* WalletService.startTopUp: the order at the gateway, then the intent *)

StartTopUp(h, t) ==
  /\ pc[h] = "idle"
  /\ gateway[t] = "none"
  /\ gateway' = [gateway EXCEPT ![t] = "created"]
  /\ of' = [of EXCEPT ![h] = t]
  /\ pc' = [pc EXCEPT ![h] = "record"]
  /\ UNCHANGED <<intents, keys, ledger, seen, said, todo, faults>>

RecordIntent(h) ==
  /\ pc[h] = "record"
  /\ WriteIntent(of[h], [status |-> "pending", method |-> "none"])
  /\ Return(h)
  /\ UNCHANGED <<gateway, keys, ledger, faults>>

-----------------------------------------------------------------------------
(* The resident pays, or fails to, the order startTopUp answered with *)

Payable(t) == gateway[t] = "created" /\ intents[t].status # "absent"

Resolve(t, outcome) ==
  /\ Payable(t)
  /\ gateway' = [gateway EXCEPT ![t] = outcome]
  /\ UNCHANGED <<intents, keys, ledger, pc, of, seen, said, todo, faults>>

Pay(t) == Resolve(t, "paid")

Decline(t) == Resolve(t, "failed")

-----------------------------------------------------------------------------
(* PaymentService.handleWebhook.  A webhook for an intent that is no longer *)
(* pending is answered `duplicate_ignored` and changes nothing.             *)

Webhook(h, t, method) ==
  /\ pc[h] = "idle"
  /\ gateway[t] = "paid"
  /\ intents[t].status = "pending"
  /\ seen' = [seen EXCEPT ![h] = intents]
  /\ of' = [of EXCEPT ![h] = t]
  /\ said' = [said EXCEPT ![h] = method]
  /\ pc' = [pc EXCEPT ![h] = "credit"]
  /\ UNCHANGED <<gateway, intents, keys, ledger, todo, faults>>

WebhookCredit(h) ==
  /\ pc[h] = "credit"
  /\ \/ PostOnce(of[h]) /\ Goto(h, "settle")
     \/ AlreadyPosted(of[h]) /\ Return(h)
  /\ UNCHANGED <<gateway, intents, faults>>

\* intent.method = readMethod(...) ?? intent.method ?? null
WebhookSettle(h) ==
  /\ pc[h] = "settle"
  /\ LET t == of[h] IN
     WriteIntent(t, [status |-> "reconciled",
                     method |-> IF said[h] # "none" THEN said[h] ELSE seen[h][t].method])
  /\ Return(h)
  /\ UNCHANGED <<gateway, keys, ledger, faults>>

-----------------------------------------------------------------------------
(* ReconciliationService.runOnce *)

PassStart(p) ==
  /\ pc[p] = "idle"
  /\ seen' = [seen EXCEPT ![p] = intents]
  /\ todo' = [todo EXCEPT ![p] = {t \in TopUps : intents[t].status = "pending"}]
  /\ pc' = [pc EXCEPT ![p] = "next"]
  /\ UNCHANGED <<gateway, intents, keys, ledger, of, said, faults>>

\* Slips: an order that was only created counts as paid; it counts as failed; a paid
\* one is settled without its credit; a paid one is passed over.
CreatedIsPaid(status) == IF status = "failed" THEN "jobFail" ELSE "jobCredit"

CreatedIsFailed(status) == IF status = "paid" THEN "jobCredit" ELSE "jobFail"

SettleOnly(status) ==
  CASE status = "paid"   -> "jobSettle"
    [] status = "failed" -> "jobFail"
    [] OTHER             -> "next"

PaidIsSkipped(status) == IF status = "failed" THEN "jobFail" ELSE "next"

AfterAnswer(status) ==
  CASE status = "paid"   -> "jobCredit"
    [] status = "failed" -> "jobFail"
    [] OTHER             -> "next"

\* getOrderStatus answers for the next intent of the pass.
PassAsk(p, t) ==
  /\ pc[p] = "next"
  /\ t \in todo[p]
  /\ t \notin Unknown
  /\ todo' = [todo EXCEPT ![p] = @ \ {t}]
  /\ of' = [of EXCEPT ![p] = t]
  /\ pc' = [pc EXCEPT ![p] = AfterAnswer(gateway[t])]
  /\ UNCHANGED <<gateway, intents, keys, ledger, seen, said, faults>>

\* getOrderStatus rejects: the rejection leaves runOnce, and with it the pass.
PassReject(p, t) ==
  /\ pc[p] = "next"
  /\ t \in todo[p]
  /\ t \in Unknown \/ faults < MaxFaults
  /\ faults' = IF t \in Unknown THEN faults ELSE faults + 1
  /\ Return(p)
  /\ UNCHANGED <<gateway, intents, keys, ledger>>

\* Whether this call posted or an earlier one had, the intent is settled.
PassCredit(p) ==
  /\ pc[p] = "jobCredit"
  /\ PostOnce(of[p]) \/ AlreadyPosted(of[p])
  /\ Goto(p, "jobSettle")
  /\ UNCHANGED <<gateway, intents, faults>>

PassSettle(p) ==
  /\ pc[p] = "jobSettle"
  /\ WriteIntent(of[p], [seen[p][of[p]] EXCEPT !.status = "reconciled"])
  /\ Goto(p, "next")
  /\ UNCHANGED <<gateway, keys, ledger, faults>>

PassFail(p) ==
  /\ pc[p] = "jobFail"
  /\ WriteIntent(of[p], [seen[p][of[p]] EXCEPT !.status = "failed"])
  /\ Goto(p, "next")
  /\ UNCHANGED <<gateway, keys, ledger, faults>>

PassEnd(p) ==
  /\ pc[p] = "next"
  /\ todo[p] = {}
  /\ Return(p)
  /\ UNCHANGED <<gateway, intents, keys, ledger, faults>>

-----------------------------------------------------------------------------
(* The server stops: what the workers held in memory is gone, the database *)
(* keeps what was committed.                                               *)

Restart ==
  /\ faults < MaxFaults
  /\ faults' = faults + 1
  /\ pc' = [w \in Workers |-> "idle"]
  /\ of' = [w \in Workers |-> NoTopUp]
  /\ seen' = [w \in Workers |-> NothingSeen]
  /\ said' = [w \in Workers |-> "none"]
  /\ todo' = [w \in Workers |-> {}]
  /\ UNCHANGED <<gateway, intents, keys, ledger>>

-----------------------------------------------------------------------------
(* The specification *)

Init ==
  /\ gateway = [t \in TopUps |-> "none"]
  /\ intents = [t \in TopUps |-> Absent]
  /\ keys = {}
  /\ ledger = [t \in TopUps |-> 0]
  /\ pc = [w \in Workers |-> "idle"]
  /\ of = [w \in Workers |-> NoTopUp]
  /\ seen = [w \in Workers |-> NothingSeen]
  /\ said = [w \in Workers |-> "none"]
  /\ todo = [w \in Workers |-> {}]
  /\ faults = 0

HandlerStep(h) == RecordIntent(h) \/ WebhookCredit(h) \/ WebhookSettle(h)

PassLook(p) == PassEnd(p) \/ \E t \in TopUps : PassAsk(p, t) \/ PassReject(p, t)

PassStep(p) == PassLook(p) \/ PassCredit(p) \/ PassSettle(p) \/ PassFail(p)

Request(h) ==
  \E t \in TopUps : StartTopUp(h, t) \/ \E method \in MethodOrNone : Webhook(h, t, method)

Next ==
  \/ \E t \in TopUps : Pay(t) \/ Decline(t)
  \/ \E h \in Handlers : Request(h) \/ HandlerStep(h)
  \/ \E p \in Passes : PassStart(p) \/ PassStep(p)
  \/ Restart

\* The timer keeps starting passes and a started await settles.  Nothing is
\* assumed of the webhooks: the gateway may deliver none of them.
Fairness ==
  /\ \A h \in Handlers : WF_vars(HandlerStep(h))
  /\ \A p \in Passes : WF_vars(PassStart(p)) /\ WF_vars(PassStep(p))

Spec == Init /\ [][Next]_vars /\ Fairness

-----------------------------------------------------------------------------
(* The inductive invariant.  The safety properties speak of the tables only; *)
(* what makes them inductive is what a worker between two awaits relies on.  *)

Crediting == {"credit", "settle", "jobCredit", "jobSettle"}
Settling  == {"settle", "jobSettle"}

\* A key is taken with exactly one credit, and only for an order that was paid.
KeysAreCredits ==
  /\ \A t \in TopUps : ledger[t] = IF t \in keys THEN 1 ELSE 0
  /\ \A t \in keys : gateway[t] = "paid"

\* What a worker between two awaits relies on.
WorkersAreRight ==
  \A w \in Workers :
    /\ pc[w] \in Crediting => of[w] \in TopUps /\ gateway[of[w]] = "paid"
    /\ pc[w] \in Settling => of[w] \in keys
    /\ pc[w] = "jobFail" => of[w] \in TopUps /\ gateway[of[w]] = "failed"
    /\ pc[w] = "record" =>
         of[w] \in TopUps /\ gateway[of[w]] = "created" /\ intents[of[w]].status = "absent"

\* Each order is created, and recorded, by one handler.
RecordedByOne ==
  \A v, w \in Workers : v # w /\ pc[v] = "record" /\ pc[w] = "record" => of[v] # of[w]

\* What the status of an intent says of the gateway and the keys.
StatusIsEarned ==
  \A t \in TopUps :
    /\ intents[t].status = "reconciled" => t \in keys
    /\ intents[t].status = "failed" => gateway[t] = "failed"
    /\ intents[t].status = "absent" => gateway[t] \in {"none", "created"}

\* An order the gateway does not know yet has no intent.
UnknownIsAbsent == \A t \in TopUps : gateway[t] = "none" => intents[t].status = "absent"

\* All of it is preserved by every step, and the safety properties follow.
IInv ==
  /\ TypeOK
  /\ KeysAreCredits
  /\ WorkersAreRight
  /\ RecordedByOne
  /\ StatusIsEarned
  /\ UnknownIsAbsent

-----------------------------------------------------------------------------
(* Properties *)

\* However webhooks, their retries, overlapping passes and restarts interleave, a
\* top-up is credited to the wallet at most once.
CreditedOnce == \A t \in TopUps : ledger[t] <= 1

\* The wallet is never credited for an order the gateway was not paid for.
CreditedOnlyIfPaid == \A t \in TopUps : ledger[t] > 0 => gateway[t] = "paid"

\* The revenue report counts reconciled intents as money that came in: the status is
\* written after the credit, so each of them has its credit, and no failed one has.
StatusMatchesLedger ==
  \A t \in TopUps :
    /\ intents[t].status = "reconciled" => ledger[t] = 1
    /\ intents[t].status \in {"absent", "failed"} => ledger[t] = 0

\* A settled top-up stays settled: no pass that read it while it was still pending
\* puts an older state back.
SettledStays ==
  [][\A t \in TopUps :
       intents[t].status \in {"reconciled", "failed"} =>
         intents'[t].status = intents[t].status]_vars

\* "How the money came in, recorded against the top-up it settled": the method is
\* not lost again.  No run checks it: the code breaks it (README, section 5).
MethodKept ==
  [][\A t \in TopUps :
       intents[t].method # "none" => intents'[t].method = intents[t].method]_vars

\* "The safety net": a paid top-up is settled in the end, with the credit posted,
\* whether or not any webhook arrives and wherever the server stopped.
PaidIsSettled ==
  \A t \in TopUps : (gateway[t] = "paid") ~> (intents[t].status = "reconciled")

\* The promise to the resident, which the services implement.
Promise == INSTANCE TopUpPromise WITH paid <- {t \in TopUps : gateway[t] = "paid"}

PromiseKept == Promise!Spec

=============================================================================
