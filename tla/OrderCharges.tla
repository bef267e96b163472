---------------------------- MODULE OrderCharges ----------------------------
(***************************************************************************)
(* What a collected order costs beyond the plan: the charge to the wallet, *)
(* its retry, and the refund of it.                                        *)
(*   washnpress-v2/src/services/order-service.ts   markPickedUp (the part  *)
(*                    from its put on), settleAdditionalCharge,            *)
(*                    payAdditionalCharge, and, standing for every handler *)
(*                    that puts back an order it read, answerDiscrepancy   *)
(*   washnpress-v2/src/services/wallet-service.ts  chargeWithTax, refund   *)
(*   washnpress-v2/src/services/refund-service.ts  request, approve, reject*)
(* A request is a process and each store call a step of it; a put writes   *)
(* back the document the request read.                                     *)
(*                                                                         *)
(* Every charge is one unit of money, tax included, and of one resident;   *)
(* the amount and its split are arithmetic.  Left out: the garments and    *)
(* the plan (the charge a collection comes to is a free choice between     *)
(* nothing and one unit), the notifications, who may decide a refund.      *)
(***************************************************************************)
EXTENDS Integers, FiniteSets

CONSTANTS
  Orders, Refunds,     \* orders of one resident; identities for refund requests
  NoOrder, NoRefund,
  Requests,            \* requests served at the same time
  MaxRequests,         \* requests altogether
  MaxFaults,           \* stops and lost answers altogether
  MaxBalance           \* top-ups stop at this balance

ASSUME RequestsAreFinite == IsFiniteSet(Requests) /\ Requests # {}
ASSUME BoundsAreNatural == MaxRequests \in Nat /\ MaxFaults \in Nat /\ MaxBalance \in Int
ASSUME NoneIsNeither == NoOrder \notin Orders /\ NoRefund \notin Refunds

VARIABLES
  orders,    \* the orders table: how far the order is, and its additionalChargeStatus
  refunds,   \* the refundRequests table
  balance,   \* credits minus debits of the resident's wallet account
  charged,   \* transactions with reference addl-garments-<order>
  returned,  \* transactions with reference refund-<order>
  req,       \* what each request holds
  started,   \* requests so far
  faults,    \* faults so far
  mishaps    \* history: what went wrong around an order, see Begin and Mishap

vars == <<orders, refunds, balance, charged, returned, req, started, faults, mishaps>>

ChargeStates == {"none", "pending", "paid", "failed", "refunded"}
OrderDoc == [state : {"scheduled", "picked_up"}, charge : ChargeStates]
RefundDoc == [status : {"absent", "pending", "approved", "rejected"}, order : Orders \union {NoOrder}]
Labels == {"idle", "collect", "settle", "post", "record", "touch", "find", "file",
           "return", "order", "mark", "decide", "reject"}

Booked == [state |-> "scheduled", charge |-> "none"]
Absent == [status |-> "absent", order |-> NoOrder]
Idle == [pc |-> "idle", of |-> NoOrder, about |-> NoRefund, doc |-> Booked, answer |-> "none"]

TypeOK ==
  /\ orders \in [Orders -> OrderDoc]
  /\ refunds \in [Refunds -> RefundDoc]
  /\ balance \in Int
  /\ charged \in [Orders -> Nat]
  /\ returned \in [Orders -> Nat]
  /\ req \in [Requests -> [pc : Labels, of : Orders \union {NoOrder},
                           about : Refunds \union {NoRefund}, doc : OrderDoc,
                           answer : ChargeStates]]
  /\ started \in 0..MaxRequests
  /\ faults \in 0..MaxFaults
  /\ mishaps \in [Orders -> Nat]

-----------------------------------------------------------------------------
(* Helpers *)

Active(r) == req[r].pc # "idle"

Busy(o) == \E r \in Requests : Active(r) /\ req[r].of = o

Mishap(o) == mishaps' = [mishaps EXCEPT ![o] = @ + 1]

\* A request about order o reads its first document and stays at `pc`.  Starting beside
\* another request about the same order is a mishap: the server does not prevent it.
Begin(r, o, q, pc, doc) ==
  /\ ~Active(r)
  /\ started < MaxRequests
  /\ started' = started + 1
  /\ req' = [req EXCEPT ![r] = [pc |-> pc, of |-> o, about |-> q, doc |-> doc, answer |-> "none"]]
  /\ IF Busy(o) THEN Mishap(o) ELSE UNCHANGED mishaps
  /\ UNCHANGED <<orders, refunds, balance, charged, returned, faults>>

Goto(r, pc) == req' = [req EXCEPT ![r].pc = pc]

Return(r) == req' = [req EXCEPT ![r] = Idle]

PutOrder(o, doc) == orders' = [orders EXCEPT ![o] = doc]

\* A collection judges the order it has read, whatever the table says by now.
CollectJudges(o) == orders[o].state = "scheduled"

-----------------------------------------------------------------------------
(* OrderService.markPickedUp from its put of the order on *)

CollectStart(r, o) == CollectJudges(o) /\ Begin(r, o, NoRefund, "collect", orders[o])

\* additionalChargeStatus is "pending" or, when nothing is due, "none".
CollectPut(r, due) ==
  /\ req[r].pc = "collect"
  /\ LET doc == [state |-> "picked_up", charge |-> IF due THEN "pending" ELSE "none"] IN
     /\ PutOrder(req[r].of, doc)
     /\ IF due THEN req' = [req EXCEPT ![r].pc = "settle", ![r].doc = doc] ELSE Return(r)
  /\ UNCHANGED <<refunds, balance, charged, returned, started, faults, mishaps>>

\* Slip: whatever was ever charged is charged again.
PayAnything(charge) == charge # "none"

\* payAdditionalCharge goes on only with a charge that is due.
Due(charge) == charge \in {"pending", "failed"}

PayStart(r, o) == Due(orders[o].charge) /\ Begin(r, o, NoRefund, "settle", orders[o])

-----------------------------------------------------------------------------
(* settleAdditionalCharge, with WalletService.chargeWithTax inside its try *)

\* Slip: the balance is not looked at.
CoversAnything(b) == TRUE

Covers(b) == b >= 1

\* The balance is read, and InsufficientBalanceError caught.
SettleRead(r) ==
  /\ req[r].pc = "settle"
  /\ IF Covers(balance)
     THEN Goto(r, "post")
     ELSE req' = [req EXCEPT ![r].pc = "record", ![r].answer = "pending"]
  /\ UNCHANGED <<orders, refunds, balance, charged, returned, started, faults, mishaps>>

Post(o) ==
  /\ balance' = balance - 1
  /\ charged' = [charged EXCEPT ![o] = @ + 1]

SettlePost(r) ==
  /\ req[r].pc = "post"
  /\ Post(req[r].of)
  /\ req' = [req EXCEPT ![r].pc = "record", ![r].answer = "paid"]
  /\ UNCHANGED <<orders, refunds, returned, started, faults, mishaps>>

\* The ledger answers with an error.  The transaction may have been committed for all
\* that, and then the charge recorded as failed is a mishap.
SettleError(r, committed) ==
  /\ req[r].pc = "post"
  /\ faults < MaxFaults
  /\ faults' = faults + 1
  /\ IF committed
     THEN Post(req[r].of) /\ Mishap(req[r].of)
     ELSE UNCHANGED <<balance, charged, mishaps>>
  /\ req' = [req EXCEPT ![r].pc = "record", ![r].answer = "failed"]
  /\ UNCHANGED <<orders, refunds, returned, started>>

\* Slip: the outcome is not stored.
ForgetOutcome(r) ==
  /\ req[r].pc = "record"
  /\ Return(r)
  /\ UNCHANGED <<orders, refunds, balance, charged, returned, started, faults, mishaps>>

SettleRecord(r) ==
  /\ req[r].pc = "record"
  /\ PutOrder(req[r].of, [req[r].doc EXCEPT !.charge = req[r].answer])
  /\ Return(r)
  /\ UNCHANGED <<refunds, balance, charged, returned, started, faults, mishaps>>

-----------------------------------------------------------------------------
(* Any other handler that reads an order, changes what is not modelled here *)
(* and puts the whole order back                                            *)

TouchStart(r, o) == Begin(r, o, NoRefund, "touch", orders[o])

TouchPut(r) ==
  /\ req[r].pc = "touch"
  /\ PutOrder(req[r].of, req[r].doc)
  /\ Return(r)
  /\ UNCHANGED <<refunds, balance, charged, returned, started, faults, mishaps>>

-----------------------------------------------------------------------------
(* RefundService.request *)

\* Slip: an order that still owes is refundable.
RefundableAtAll(charge) == charge # "none"

Refundable(charge) == charge = "paid"

AskStart(r, o) == Refundable(orders[o].charge) /\ Begin(r, o, NoRefund, "find", orders[o])

Standing(o) == {q \in Refunds : refunds[q].order = o /\ refunds[q].status \in {"pending", "approved"}}

AskFind(r) ==
  /\ req[r].pc = "find"
  /\ IF Standing(req[r].of) = {} THEN Goto(r, "file") ELSE Return(r)
  /\ UNCHANGED <<orders, refunds, balance, charged, returned, started, faults, mishaps>>

AskFile(r, q) ==
  /\ req[r].pc = "file"
  /\ refunds[q].status = "absent"
  /\ refunds' = [refunds EXCEPT ![q] = [status |-> "pending", order |-> req[r].of]]
  /\ Return(r)
  /\ UNCHANGED <<orders, balance, charged, returned, started, faults, mishaps>>

-----------------------------------------------------------------------------
(* RefundService.approve and reject *)

Decidable(q) == refunds[q].status = "pending"

DecideStart(r, q, pc) == Decidable(q) /\ Begin(r, refunds[q].order, q, pc, Booked)

\* WalletService.refund
ApproveReturn(r) ==
  /\ req[r].pc = "return"
  /\ balance' = balance + 1
  /\ returned' = [returned EXCEPT ![req[r].of] = @ + 1]
  /\ Goto(r, "order")
  /\ UNCHANGED <<orders, refunds, charged, started, faults, mishaps>>

ApproveRead(r) ==
  /\ req[r].pc = "order"
  /\ req' = [req EXCEPT ![r].pc = "mark", ![r].doc = orders[req[r].of]]
  /\ UNCHANGED <<orders, refunds, balance, charged, returned, started, faults, mishaps>>

ApproveMark(r) ==
  /\ req[r].pc = "mark"
  /\ PutOrder(req[r].of, [req[r].doc EXCEPT !.charge = "refunded"])
  /\ Goto(r, "decide")
  /\ UNCHANGED <<refunds, balance, charged, returned, started, faults, mishaps>>

Decide(r, pc, status) ==
  /\ req[r].pc = pc
  /\ refunds' = [refunds EXCEPT ![req[r].about] = [status |-> status, order |-> req[r].of]]
  /\ Return(r)
  /\ UNCHANGED <<orders, balance, charged, returned, started, faults, mishaps>>

-----------------------------------------------------------------------------
(* The rest of the world *)

\* A top-up is credited (PaymentReconciliation).
TopUp ==
  /\ balance < MaxBalance
  /\ balance' = balance + 1
  /\ UNCHANGED <<orders, refunds, charged, returned, req, started, faults, mishaps>>

\* The process stops, or a store call outside the try rejects.
Lose(r) ==
  /\ Active(r)
  /\ faults < MaxFaults
  /\ faults' = faults + 1
  /\ Mishap(req[r].of)
  /\ Return(r)
  /\ UNCHANGED <<orders, refunds, balance, charged, returned, started>>

-----------------------------------------------------------------------------
(* The specification *)

Init ==
  /\ orders = [o \in Orders |-> Booked]
  /\ refunds = [q \in Refunds |-> Absent]
  /\ balance = 0
  /\ charged = [o \in Orders |-> 0]
  /\ returned = [o \in Orders |-> 0]
  /\ req = [r \in Requests |-> Idle]
  /\ started = 0
  /\ faults = 0
  /\ mishaps = [o \in Orders |-> 0]

Arrive(r) ==
  \/ \E o \in Orders : CollectStart(r, o) \/ PayStart(r, o) \/ TouchStart(r, o) \/ AskStart(r, o)
  \/ \E q \in Refunds, pc \in {"return", "reject"} : DecideStart(r, q, pc)

Continue(r) ==
  \/ \E due \in BOOLEAN : CollectPut(r, due)
  \/ SettleRead(r) \/ SettlePost(r) \/ SettleRecord(r)
  \/ TouchPut(r)
  \/ AskFind(r) \/ \E q \in Refunds : AskFile(r, q)
  \/ ApproveReturn(r) \/ ApproveRead(r) \/ ApproveMark(r)
  \/ Decide(r, "decide", "approved") \/ Decide(r, "reject", "rejected")

Fail(r) == Lose(r) \/ \E committed \in BOOLEAN : SettleError(r, committed)

Next ==
  \/ TopUp
  \/ \E r \in Requests : Arrive(r) \/ Continue(r) \/ Fail(r)

Spec == Init /\ [][Next]_vars

-----------------------------------------------------------------------------
(* Properties *)

\* chargeWithTax reads the balance and posts afterwards, so a wallet can be overdrawn;
\* by how much is bounded by the charges under way together: of n requests at most
\* n - 1 find a balance that another one is about to spend.
OverdraftIsBounded == balance >= 1 - Cardinality(Requests)

\* Nothing is given back that was not taken, and nothing counts as paid or refunded
\* without its transaction: the ledger is written before the status, everywhere.
NothingUnearned ==
  /\ \A o \in Orders :
       /\ orders[o].charge \in {"paid", "refunded"} => charged[o] > 0
       /\ orders[o].charge = "refunded" => returned[o] > 0
       /\ returned[o] > 0 => charged[o] > 0
  /\ \A q \in Refunds : refunds[q].status = "approved" => returned[refunds[q].order] > 0

\* A charge or a refund is repeated only after a mishap, once for each: a stop between
\* the ledger and the status, an error answer to a committed post, or a request that
\* began beside another about the same order.
RepeatsAreMishaps ==
  \A o \in Orders :
    /\ charged[o] <= 1 + mishaps[o]
    /\ returned[o] <= 1 + mishaps[o]

\* An order without a mishap and with nothing under way: its status, the ledger and its
\* refund requests tell the same story.
BooksAgree ==
  \A o \in Orders : mishaps[o] = 0 /\ ~Busy(o) =>
    /\ charged[o] = IF orders[o].charge \in {"paid", "refunded"} THEN 1 ELSE 0
    /\ returned[o] = IF orders[o].charge = "refunded" THEN 1 ELSE 0
    /\ returned[o] = Cardinality({q \in Standing(o) : refunds[q].status = "approved"})
    /\ Cardinality(Standing(o)) <= 1

=============================================================================
