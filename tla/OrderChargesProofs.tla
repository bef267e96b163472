------------------------- MODULE OrderChargesProofs -------------------------
(***************************************************************************)
(* Proofs about OrderCharges for any number of orders, refunds, requests   *)
(* and faults: nothing counts as paid, refunded or approved without its    *)
(* transaction, an overdraft stays within the charges under way, a charge  *)
(* or a refund is repeated once for each mishap and no more, and without   *)
(* a mishap the status, the ledger and the refund requests agree.          *)
(***************************************************************************)
EXTENDS OrderCharges, FiniteSetTheorems, TLAPS

(***************************************************************************)
(* The invariant.  A document is true if the ledger has what it claims; a  *)
(* stale document stays true, because the ledger only grows.               *)
(***************************************************************************)
IsTrue(doc, o) ==
  /\ doc.charge \in {"paid", "refunded"} => charged[o] > 0
  /\ doc.charge = "refunded" => returned[o] > 0

Filed(q) == refunds[q].status # "absent"

RefundsAreTrue ==
  \A q \in Refunds :
    /\ Filed(q) => refunds[q].order \in Orders /\ charged[refunds[q].order] > 0
    /\ refunds[q].status = "approved" => returned[refunds[q].order] > 0

OrdersAreTrue ==
  \A o \in Orders : IsTrue(orders[o], o) /\ (returned[o] > 0 => charged[o] > 0)

\* What a request holds is true, and so is what it has learned by where it is.
Knows(r) ==
  /\ req[r].of \in Orders
  /\ IsTrue(req[r].doc, req[r].of)
  /\ req[r].pc = "record" =>
       req[r].answer \in {"pending", "paid", "failed"} /\ (req[r].answer = "paid" => charged[req[r].of] > 0)
  /\ req[r].pc \in {"find", "file", "return", "order", "mark", "decide"} => charged[req[r].of] > 0
  /\ req[r].pc \in {"order", "mark", "decide"} => returned[req[r].of] > 0
  /\ req[r].pc \in {"return", "order", "mark", "decide", "reject"} =>
       req[r].about \in Refunds /\ charged[req[r].of] > 0

RequestsAreTrue == \A r \in Requests : Active(r) => Knows(r)

IInv == TypeOK /\ OrdersAreTrue /\ RefundsAreTrue /\ RequestsAreTrue

-----------------------------------------------------------------------------
ReqDoc == [pc : Labels, of : Orders \union {NoOrder}, about : Refunds \union {NoRefund},
           doc : OrderDoc, answer : ChargeStates]

\* The documents the requests make.
LEMMA Documents ==
  /\ Idle \in ReqDoc /\ Booked \in OrderDoc
  /\ \A charge \in ChargeStates : [state |-> "picked_up", charge |-> charge] \in OrderDoc
  /\ \A doc \in OrderDoc, charge \in ChargeStates : [doc EXCEPT !.charge = charge] \in OrderDoc
  /\ \A doc \in OrderDoc : doc.charge \in ChargeStates
  /\ {"none", "pending", "paid", "failed", "refunded"} \subseteq ChargeStates
BY DEF Idle, Booked, OrderDoc, ReqDoc, Labels, ChargeStates

\* What the requests become when one of them moves on.
LEMMA Moves ==
  ASSUME req \in [Requests -> ReqDoc], NEW r \in Requests, NEW pc \in Labels
  PROVE  /\ [req EXCEPT ![r].pc = pc] \in [Requests -> ReqDoc]
         /\ \A answer \in ChargeStates :
              [req EXCEPT ![r].pc = pc, ![r].answer = answer] \in [Requests -> ReqDoc]
         /\ \A doc \in OrderDoc : [req EXCEPT ![r].pc = pc, ![r].doc = doc] \in [Requests -> ReqDoc]
         /\ [req EXCEPT ![r] = Idle] \in [Requests -> ReqDoc]
         /\ req[r].of \in Orders \union {NoOrder} /\ req[r].about \in Refunds \union {NoRefund}
         /\ req[r].doc \in OrderDoc /\ req[r].answer \in ChargeStates
<1>1. [req EXCEPT ![r].pc = pc] \in [Requests -> ReqDoc]
  BY DEF ReqDoc
<1>2. ASSUME NEW answer \in ChargeStates
      PROVE  [req EXCEPT ![r].pc = pc, ![r].answer = answer] \in [Requests -> ReqDoc]
  BY DEF ReqDoc
<1>3. ASSUME NEW doc \in OrderDoc
      PROVE  [req EXCEPT ![r].pc = pc, ![r].doc = doc] \in [Requests -> ReqDoc]
  BY DEF ReqDoc
<1>4. [req EXCEPT ![r] = Idle] \in [Requests -> ReqDoc]
  BY Documents
<1> QED
  BY <1>1, <1>2, <1>3, <1>4 DEF ReqDoc

\* Nothing has been claimed at the start.
LEMMA InitInvariant == Init => IInv
<1> SUFFICES ASSUME Init PROVE IInv
  OBVIOUS
<1>1. TypeOK
  BY BoundsAreNatural DEF Init, TypeOK, OrderDoc, RefundDoc, Labels, ChargeStates, Booked, Absent, Idle
<1>2. OrdersAreTrue /\ RefundsAreTrue /\ RequestsAreTrue
  BY DEF Init, OrdersAreTrue, RefundsAreTrue, RequestsAreTrue, IsTrue, Filed, Active, Booked, Absent, Idle
<1> QED
  BY <1>1, <1>2 DEF IInv

\* One step of a request, by what it does: the types first.
LEMMA TypesPreserved == IInv /\ [Next]_vars => TypeOK'
<1> SUFFICES ASSUME IInv, [Next]_vars PROVE TypeOK'
  OBVIOUS
<1> USE BoundsAreNatural DEF IInv, TypeOK
<1>0. req \in [Requests -> ReqDoc] 
  BY DEF ReqDoc
<1>1. ASSUME NEW r \in Requests, NEW o \in Orders, NEW q \in Refunds \union {NoRefund},
             NEW pc \in Labels, NEW doc \in OrderDoc, Begin(r, o, q, pc, doc)
      PROVE  TypeOK'
  BY <1>1, Documents DEF Begin, Mishap
<1>2. ASSUME NEW r \in Requests, Arrive(r) PROVE TypeOK'
  <2>1. ASSUME NEW o \in Orders, CollectStart(r, o) \/ PayStart(r, o) \/ TouchStart(r, o) \/ AskStart(r, o)
        PROVE  TypeOK'
    BY <1>1, <2>1 DEF Labels, CollectStart, PayStart, TouchStart, AskStart
  <2>2. ASSUME NEW q \in Refunds, NEW pc \in {"return", "reject"}, DecideStart(r, q, pc) PROVE TypeOK'
    <3>1. refunds[q].order \in Orders
      BY <2>2 DEF DecideStart, Decidable, RefundsAreTrue, Filed
    <3>2. Booked \in OrderDoc
      BY Documents
    <3> QED
      BY <1>1, <2>2, <3>1, <3>2 DEF DecideStart, Labels
  <2> QED
    BY <1>2, <2>1, <2>2 DEF Arrive
<1>3. ASSUME NEW r \in Requests, Continue(r) PROVE TypeOK'
  <2>1. Active(r) /\ req[r].of \in Orders
    BY <1>3 DEF Continue, CollectPut, SettleRead, SettlePost, SettleRecord, TouchPut, AskFind, AskFile,
      ApproveReturn, ApproveRead, ApproveMark, Decide, Active, RequestsAreTrue, Knows
  <2>2. req' \in [Requests -> ReqDoc]
    <3>1. ASSUME NEW pc \in Labels, Goto(r, pc) PROVE req' \in [Requests -> ReqDoc]
      BY <1>0, <3>1, Moves DEF Goto
    <3>2. Return(r) => req' \in [Requests -> ReqDoc]
      BY <1>0, Documents DEF Return
    <3>3. ASSUME NEW pc \in Labels, NEW answer \in ChargeStates,
                 req' = [req EXCEPT ![r].pc = pc, ![r].answer = answer]
          PROVE  req' \in [Requests -> ReqDoc]
      BY <1>0, <3>3, Moves
    <3>4. ASSUME NEW pc \in Labels, NEW doc \in OrderDoc, req' = [req EXCEPT ![r].pc = pc, ![r].doc = doc]
          PROVE  req' \in [Requests -> ReqDoc]
      BY <1>0, <3>4, Moves
    <3>5. orders[req[r].of] \in OrderDoc
      BY <2>1
    <3>6. ASSUME NEW due \in BOOLEAN, CollectPut(r, due) PROVE req' \in [Requests -> ReqDoc]
      <4>1. [state |-> "picked_up", charge |-> IF due THEN "pending" ELSE "none"] \in OrderDoc
        BY DEF OrderDoc, ChargeStates
      <4>2. "settle" \in Labels
        BY DEF Labels
      <4> QED
        BY <3>2, <3>4, <3>6, <4>1, <4>2 DEF CollectPut
    <3> QED
      BY <1>3, <3>1, <3>2, <3>3, <3>4, <3>5, <3>6 DEF Continue, SettleRead, SettlePost, SettleRecord, TouchPut,
        AskFind, AskFile, ApproveReturn, ApproveRead, ApproveMark, Decide, Labels, ChargeStates
  <2>3. orders' \in [Orders -> OrderDoc]
    <3>1. ASSUME NEW doc \in OrderDoc, PutOrder(req[r].of, doc) PROVE orders' \in [Orders -> OrderDoc]
      BY <2>1, <3>1 DEF PutOrder
    <3>2. req[r] \in ReqDoc
      BY <1>0
    <3>3. req[r].doc \in OrderDoc /\ req[r].answer \in ChargeStates
      BY <3>2 DEF ReqDoc
    <3>4. \A charge \in ChargeStates : [req[r].doc EXCEPT !.charge = charge] \in OrderDoc
      BY <3>3 DEF OrderDoc
    <3>5. ASSUME NEW due \in BOOLEAN, CollectPut(r, due) PROVE orders' \in [Orders -> OrderDoc]
      BY <3>1, <3>5 DEF CollectPut, OrderDoc, ChargeStates
    <3> QED
      BY <1>3, <3>1, <3>3, <3>4, <3>5 DEF Continue, SettleRead, SettlePost, SettleRecord, TouchPut, AskFind,
        AskFile, ApproveReturn, ApproveRead, ApproveMark, Decide, ChargeStates
  <2>4. refunds' \in [Refunds -> RefundDoc]
    <3>1. \A status \in {"pending", "approved", "rejected"} :
            [status |-> status, order |-> req[r].of] \in RefundDoc
      BY <2>1 DEF RefundDoc
    <3> QED
      BY <1>3, <3>1 DEF Continue, CollectPut, SettleRead, SettlePost, SettleRecord, TouchPut, AskFind, AskFile,
        ApproveReturn, ApproveRead, ApproveMark, Decide
  <2>5. balance' \in Int /\ charged' \in [Orders -> Nat] /\ returned' \in [Orders -> Nat]
    <3>1. CASE SettlePost(r)
      BY <2>1, <3>1 DEF SettlePost, Post
    <3>2. CASE ApproveReturn(r)
      BY <2>1, <3>2 DEF ApproveReturn
    <3> QED
      BY <1>3, <3>1, <3>2 DEF Continue, CollectPut, SettleRead, SettleRecord, TouchPut, AskFind, AskFile,
        ApproveRead, ApproveMark, Decide
  <2>6. UNCHANGED <<started, faults, mishaps>>
    BY <1>3 DEF Continue, CollectPut, SettleRead, SettlePost, SettleRecord, TouchPut, AskFind, AskFile,
      ApproveReturn, ApproveRead, ApproveMark, Decide
  <2> QED
    BY <2>2, <2>3, <2>4, <2>5, <2>6 DEF ReqDoc
<1>4. ASSUME NEW r \in Requests, Fail(r) PROVE TypeOK'
  <2>1. Active(r) /\ req[r].of \in Orders
    BY <1>4 DEF Fail, Lose, SettleError, Active, RequestsAreTrue, Knows
  <2>2. Return(r) => req' \in [Requests -> ReqDoc]
    BY <1>0, Documents DEF Return
  <2>3. ASSUME NEW committed \in BOOLEAN, SettleError(r, committed) PROVE TypeOK'
    <3>1. req' \in [Requests -> ReqDoc]
      BY <1>0, <2>3, Moves DEF SettleError, Labels, ChargeStates
    <3> QED
      BY <2>1, <2>3, <3>1 DEF SettleError, Post, Mishap, ReqDoc
  <2>4. CASE Lose(r)
    BY <2>1, <2>2, <2>4 DEF Lose, Mishap, ReqDoc
  <2> QED
    BY <1>4, <2>3, <2>4 DEF Fail
<1>5. CASE TopUp
  BY <1>5 DEF TopUp
<1>6. CASE UNCHANGED vars
  BY <1>6 DEF vars
<1> QED
  BY <1>2, <1>3, <1>4, <1>5, <1>6 DEF Next

-----------------------------------------------------------------------------
\* The ledger only grows, so what was true stays true.
LEMMA LedgerGrows ==
  ASSUME IInv, [Next]_vars, NEW o \in Orders
  PROVE  /\ charged'[o] \in Nat /\ charged'[o] >= charged[o]
         /\ returned'[o] \in Nat /\ returned'[o] >= returned[o]
<1> USE DEF IInv, TypeOK
<1>1. TypeOK'
  BY TypesPreserved
<1>2. CASE UNCHANGED <<charged, returned>>
  BY <1>2
<1>3. ASSUME NEW r \in Requests, Post(req[r].of), UNCHANGED returned
      PROVE  charged'[o] >= charged[o] /\ returned'[o] >= returned[o]
  BY <1>3 DEF Post
<1>4. ASSUME NEW r \in Requests, ApproveReturn(r)
      PROVE  charged'[o] >= charged[o] /\ returned'[o] >= returned[o]
  BY <1>4 DEF ApproveReturn
<1>5. \/ UNCHANGED <<charged, returned>>
      \/ \E r \in Requests : (Post(req[r].of) /\ UNCHANGED returned) \/ ApproveReturn(r)
  <2>1. ASSUME NEW r \in Requests, Arrive(r) PROVE UNCHANGED <<charged, returned>>
    BY <2>1 DEF Arrive, Begin, CollectStart, PayStart, TouchStart, AskStart, DecideStart
  <2>2. ASSUME NEW r \in Requests, Continue(r)
        PROVE  \/ UNCHANGED <<charged, returned>>
               \/ (Post(req[r].of) /\ UNCHANGED returned) \/ ApproveReturn(r)
    BY <2>2 DEF Continue, CollectPut, SettleRead, SettlePost, SettleRecord, TouchPut, AskFind, AskFile,
      ApproveRead, ApproveMark, Decide
  <2>3. ASSUME NEW r \in Requests, Fail(r)
        PROVE  UNCHANGED <<charged, returned>> \/ (Post(req[r].of) /\ UNCHANGED returned)
    BY <2>3 DEF Fail, Lose, SettleError
  <2> QED
    BY <2>1, <2>2, <2>3 DEF Next, vars, TopUp
<1> QED
  BY <1>1, <1>2, <1>3, <1>4, <1>5

\* What a document claims of the ledger stays so after any step.
LEMMA TruthLasts ==
  ASSUME IInv, [Next]_vars, NEW o \in Orders, NEW doc, IsTrue(doc, o)
  PROVE  /\ doc.charge \in {"paid", "refunded"} => charged'[o] > 0
         /\ doc.charge = "refunded" => returned'[o] > 0
BY LedgerGrows DEF IsTrue, IInv, TypeOK

\* Who writes the orders table, and what.
LEMMA OrdersPreserved == IInv /\ [Next]_vars => OrdersAreTrue'
<1> SUFFICES ASSUME IInv, [Next]_vars, NEW o \in Orders
             PROVE  IsTrue(orders[o], o)' /\ (returned'[o] > 0 => charged'[o] > 0)
  BY DEF OrdersAreTrue
<1> USE DEF IInv
<1>0. /\ charged[o] \in Nat /\ charged'[o] \in Nat /\ charged'[o] >= charged[o]
      /\ returned[o] \in Nat /\ returned'[o] \in Nat /\ returned'[o] >= returned[o]
  BY LedgerGrows DEF TypeOK
<1>1. returned'[o] > 0 => charged'[o] > 0
  <2>1. ASSUME NEW r \in Requests, ApproveReturn(r) PROVE returned'[o] > 0 => charged'[o] > 0
    <3>1. charged[req[r].of] > 0 /\ req[r].of \in Orders
      BY <2>1 DEF ApproveReturn, RequestsAreTrue, Active, Knows
    <3>2. req[r].of # o => returned'[o] = returned[o]
      BY <2>1, <3>1 DEF ApproveReturn, TypeOK
    <3> QED
      BY <1>0, <3>1, <3>2 DEF OrdersAreTrue
  <2>2. UNCHANGED returned \/ \E r \in Requests : ApproveReturn(r)
    BY DEF Next, vars, TopUp, Arrive, Begin, CollectStart, PayStart, TouchStart, AskStart, DecideStart,
      Continue, CollectPut, SettleRead, SettlePost, SettleRecord, TouchPut, AskFind, AskFile, ApproveRead,
      ApproveMark, Decide, Fail, Lose, SettleError
  <2> QED
    BY <1>0, <2>1, <2>2 DEF OrdersAreTrue
<1>2. CASE orders'[o] = orders[o]
  <2>1. IsTrue(orders[o], o)
    BY DEF OrdersAreTrue
  <2> QED
    BY <1>0, <1>1, <1>2, <2>1 DEF IsTrue
<1>3. ASSUME NEW r \in Requests, NEW doc, Active(r), PutOrder(req[r].of, doc), req[r].of = o => IsTrue(doc, o)
      PROVE  IsTrue(orders[o], o)'
  <2>1. req[r].of \in Orders
    BY <1>3 DEF RequestsAreTrue, Knows
  <2>2. CASE req[r].of = o
    BY <1>0, <1>3, <2>2 DEF PutOrder, IsTrue, TypeOK
  <2>3. CASE req[r].of # o
    BY <1>2, <1>3, <2>1, <2>3 DEF PutOrder, TypeOK
  <2> QED
    BY <2>2, <2>3
<1>4. ASSUME NEW r \in Requests, NEW due \in BOOLEAN, CollectPut(r, due) PROVE IsTrue(orders[o], o)'
  BY <1>3, <1>4 DEF CollectPut, IsTrue, Active
<1>5. ASSUME NEW r \in Requests, SettleRecord(r) PROVE IsTrue(orders[o], o)'
  <2>1. Active(r) /\ Knows(r)
    BY <1>5 DEF SettleRecord, RequestsAreTrue, Active
  <2>2. req[r].doc \in OrderDoc
    BY DEF TypeOK
  <2>3. [req[r].doc EXCEPT !.charge = req[r].answer].charge = req[r].answer
    BY <2>2 DEF OrderDoc
  <2> QED
    BY <1>3, <1>5, <2>1, <2>3 DEF SettleRecord, Knows, IsTrue
<1>6. ASSUME NEW r \in Requests, TouchPut(r) PROVE IsTrue(orders[o], o)'
  BY <1>3, <1>6 DEF TouchPut, RequestsAreTrue, Knows, Active
<1>7. ASSUME NEW r \in Requests, ApproveMark(r) PROVE IsTrue(orders[o], o)'
  <2>1. Active(r) /\ Knows(r)
    BY <1>7 DEF ApproveMark, RequestsAreTrue, Active
  <2> QED
    BY <1>3, <1>7, <2>1 DEF ApproveMark, Knows, IsTrue
<1>8. \/ UNCHANGED orders
      \/ \E r \in Requests :
           \/ \E due \in BOOLEAN : CollectPut(r, due)
           \/ SettleRecord(r) \/ TouchPut(r) \/ ApproveMark(r)
  BY DEF Next, vars, TopUp, Arrive, Begin, CollectStart, PayStart, TouchStart, AskStart, DecideStart,
    Continue, SettleRead, SettlePost, AskFind, AskFile, ApproveRead, ApproveReturn, Decide, Fail, Lose, SettleError
<1> QED
  BY <1>1, <1>2, <1>4, <1>5, <1>6, <1>7, <1>8

\* Who writes the refundRequests table.
LEMMA RefundsPreserved == IInv /\ [Next]_vars => RefundsAreTrue'
<1> SUFFICES ASSUME IInv, [Next]_vars, NEW q \in Refunds
             PROVE  /\ Filed(q)' => refunds'[q].order \in Orders /\ charged'[refunds'[q].order] > 0
                    /\ refunds'[q].status = "approved" => returned'[refunds'[q].order] > 0
  BY DEF RefundsAreTrue
<1> USE DEF IInv
<1>0. \A o \in Orders : /\ charged[o] > 0 => charged'[o] > 0
                        /\ returned[o] > 0 => returned'[o] > 0
  BY LedgerGrows DEF TypeOK
<1>1. CASE refunds'[q] = refunds[q]
  BY <1>0, <1>1 DEF RefundsAreTrue, Filed
<1>2. ASSUME NEW r \in Requests, AskFile(r, q)
      PROVE  /\ refunds'[q].order \in Orders /\ charged'[refunds'[q].order] > 0
             /\ refunds'[q].status # "approved"
  <2>1. Knows(r)
    BY <1>2 DEF AskFile, RequestsAreTrue, Active
  <2> QED
    BY <1>0, <1>2, <2>1 DEF AskFile, Knows, TypeOK
<1>3. ASSUME NEW r \in Requests, NEW pc, NEW status, Decide(r, pc, status), req[r].about = q,
             <<pc, status>> \in {<<"decide", "approved">>, <<"reject", "rejected">>}
      PROVE  /\ refunds'[q].order \in Orders /\ charged'[refunds'[q].order] > 0
             /\ refunds'[q].status = "approved" => returned'[refunds'[q].order] > 0
  <2>1. Knows(r)
    BY <1>3 DEF Decide, RequestsAreTrue, Active
  <2> QED
    BY <1>0, <1>3, <2>1 DEF Decide, Knows, TypeOK
<1>4. \/ refunds'[q] = refunds[q]
      \/ \E r \in Requests :
           \/ AskFile(r, q)
           \/ req[r].about = q /\ (Decide(r, "decide", "approved") \/ Decide(r, "reject", "rejected"))
  <2>1. \/ UNCHANGED refunds
        \/ \E r \in Requests :
             \/ \E p \in Refunds : AskFile(r, p)
             \/ Decide(r, "decide", "approved") \/ Decide(r, "reject", "rejected")
    BY DEF Next, vars, TopUp, Arrive, Begin, CollectStart, PayStart, TouchStart, AskStart, DecideStart,
      Continue, CollectPut, SettleRead, SettlePost, SettleRecord, TouchPut, AskFind, ApproveRead, ApproveMark,
      ApproveReturn, Fail, Lose, SettleError
  <2>2. ASSUME NEW r \in Requests, NEW p \in Refunds, AskFile(r, p), p # q PROVE refunds'[q] = refunds[q]
    BY <2>2 DEF AskFile, TypeOK
  <2>3. ASSUME NEW r \in Requests, Decide(r, "decide", "approved") \/ Decide(r, "reject", "rejected"),
               req[r].about # q
        PROVE  refunds'[q] = refunds[q]
    BY <2>3 DEF Decide, TypeOK
  <2>4. CASE UNCHANGED refunds
    BY <2>4
  <2>5. ASSUME NEW r \in Requests, NEW p \in Refunds, AskFile(r, p)
        PROVE  refunds'[q] = refunds[q] \/ AskFile(r, q)
    <3>1. CASE p = q
      BY <2>5, <3>1
    <3>2. CASE p # q
      BY <2>2, <2>5, <3>2
    <3> QED
      BY <3>1, <3>2
  <2>6. ASSUME NEW r \in Requests, Decide(r, "decide", "approved") \/ Decide(r, "reject", "rejected")
        PROVE  refunds'[q] = refunds[q] \/ req[r].about = q
    BY <2>3, <2>6
  <2>7. CASE \E r \in Requests, p \in Refunds : AskFile(r, p)
    BY <2>5, <2>7
  <2>8. CASE \E r \in Requests : Decide(r, "decide", "approved") \/ Decide(r, "reject", "rejected")
    BY <2>6, <2>8
  <2> QED
    BY <2>1, <2>4, <2>7, <2>8
<1> QED
  BY <1>1, <1>2, <1>3, <1>4

\* What a request learns it knows from then on.
LEMMA RequestsPreserved == IInv /\ [Next]_vars => RequestsAreTrue'
<1> SUFFICES ASSUME IInv, [Next]_vars, NEW r \in Requests, Active(r)'
             PROVE  Knows(r)'
  BY DEF RequestsAreTrue
<1> USE DEF IInv
<1>0. \A o \in Orders : /\ charged[o] > 0 => charged'[o] > 0
                        /\ returned[o] > 0 => returned'[o] > 0
  BY LedgerGrows DEF TypeOK
<1>1. TypeOK /\ TypeOK'
  BY TypesPreserved
<1>2. CASE req'[r] = req[r]
  <2>1. Knows(r)
    BY <1>2 DEF Active, RequestsAreTrue
  <2> QED
    BY <1>0, <1>2, <2>1 DEF Knows, IsTrue
<1>3. ASSUME NEW o \in Orders, NEW q, NEW pc, NEW doc, Begin(r, o, q, pc, doc), IsTrue(doc, o),
             pc \in {"collect", "settle", "touch"} \/ charged[o] > 0,
             pc \in {"collect", "settle", "touch", "find"} \/ (pc \in {"return", "reject"} /\ q \in Refunds)
      PROVE  Knows(r)'
  <2>1. req'[r] = [pc |-> pc, of |-> o, about |-> q, doc |-> doc, answer |-> "none"]
    BY <1>1, <1>3 DEF Begin, TypeOK
  <2> QED
    BY <1>0, <1>3, <2>1 DEF Knows, IsTrue
<1>4. ASSUME Arrive(r) PROVE Knows(r)'
  <2>1. ASSUME NEW o \in Orders, CollectStart(r, o) \/ PayStart(r, o) \/ TouchStart(r, o) \/ AskStart(r, o)
        PROVE  Knows(r)'
    <3>1. IsTrue(orders[o], o) /\ (Refundable(orders[o].charge) => charged[o] > 0)
      BY DEF OrdersAreTrue, IsTrue, Refundable
    <3> QED
      BY <1>3, <2>1, <3>1 DEF CollectStart, PayStart, TouchStart, AskStart
  <2>2. ASSUME NEW q \in Refunds, NEW pc \in {"return", "reject"}, DecideStart(r, q, pc) PROVE Knows(r)'
    <3>1. refunds[q].order \in Orders /\ charged[refunds[q].order] > 0
      BY <2>2 DEF DecideStart, Decidable, RefundsAreTrue, Filed
    <3>2. IsTrue(Booked, refunds[q].order)
      BY DEF IsTrue, Booked
    <3> QED
      BY <1>3, <2>2, <3>1, <3>2 DEF DecideStart
  <2> QED
    BY <1>4, <2>1, <2>2 DEF Arrive
<1>5. ASSUME Continue(r) PROVE Knows(r)'
  <2>1. Active(r) /\ Knows(r)
    BY <1>5 DEF Continue, CollectPut, SettleRead, SettlePost, SettleRecord, TouchPut, AskFind, AskFile,
      ApproveReturn, ApproveRead, ApproveMark, Decide, Active, RequestsAreTrue
  <2>2. ~Return(r)
    BY <1>1 DEF Return, Active, Idle, TypeOK
  <2>3. req[r].of \in Orders /\ req[r].doc \in OrderDoc
    BY <1>1, <2>1 DEF Knows, TypeOK
  <2>4. ASSUME NEW due \in BOOLEAN, CollectPut(r, due) PROVE Knows(r)'
    <3> DEFINE doc == [state |-> "picked_up", charge |-> "pending"]
    <3>1. due
      BY <2>2, <2>4 DEF CollectPut
    <3>2. req' = [req EXCEPT ![r].pc = "settle", ![r].doc = doc]
      BY <2>4, <3>1 DEF CollectPut
    <3>3. req'[r] = [req[r] EXCEPT !.pc = "settle", !.doc = doc]
      BY <1>1, <3>2 DEF TypeOK
    <3> QED
      BY <1>0, <1>1, <2>1, <3>3 DEF Knows, IsTrue, TypeOK
  <2>5. CASE SettleRead(r)
    <3>1. \/ req'[r] = [req[r] EXCEPT !.pc = "post"]
          \/ req'[r] = [req[r] EXCEPT !.pc = "record", !.answer = "pending"]
      BY <1>1, <2>5 DEF SettleRead, Goto, TypeOK
    <3>2. CASE req'[r] = [req[r] EXCEPT !.pc = "post"]
      BY <1>0, <1>1, <2>1, <3>2 DEF Knows, IsTrue, TypeOK
    <3>3. CASE req'[r] = [req[r] EXCEPT !.pc = "record", !.answer = "pending"]
      BY <1>0, <1>1, <2>1, <3>3 DEF Knows, IsTrue, TypeOK
    <3> QED
      BY <3>1, <3>2, <3>3
  <2>6. CASE SettlePost(r)
    <3>1. req'[r] = [req[r] EXCEPT !.pc = "record", !.answer = "paid"]
      BY <1>1, <2>6 DEF SettlePost, TypeOK
    <3>2. charged'[req[r].of] > 0
      BY <1>1, <2>3, <2>6 DEF SettlePost, Post, TypeOK
    <3> QED
      BY <1>0, <1>1, <2>1, <3>1, <3>2 DEF Knows, IsTrue, TypeOK
  <2>7. CASE AskFind(r)
    <3>1. req[r].pc = "find" /\ req'[r] = [req[r] EXCEPT !.pc = "file"]
      BY <1>1, <2>2, <2>7 DEF AskFind, Goto, TypeOK
    <3> QED
      BY <1>0, <1>1, <2>1, <3>1 DEF Knows, IsTrue, TypeOK
  <2>8. CASE ApproveReturn(r)
    <3>1. req[r].pc = "return" /\ req'[r] = [req[r] EXCEPT !.pc = "order"]
      BY <1>1, <2>8 DEF ApproveReturn, Goto, TypeOK
    <3>2. returned'[req[r].of] > 0
      BY <1>1, <2>3, <2>8 DEF ApproveReturn, TypeOK
    <3> QED
      BY <1>0, <1>1, <2>1, <3>1, <3>2 DEF Knows, IsTrue, TypeOK
  <2>9. CASE ApproveRead(r)
    <3>1. req[r].pc = "order" /\ req'[r] = [req[r] EXCEPT !.pc = "mark", !.doc = orders[req[r].of]]
      BY <1>1, <2>9 DEF ApproveRead, TypeOK
    <3>2. IsTrue(orders[req[r].of], req[r].of)
      BY <2>3 DEF OrdersAreTrue
    <3> QED
      BY <1>0, <1>1, <2>1, <3>1, <3>2 DEF Knows, IsTrue, TypeOK
  <2>10. CASE ApproveMark(r)
    <3>1. req[r].pc = "mark" /\ req'[r] = [req[r] EXCEPT !.pc = "decide"]
      BY <1>1, <2>10 DEF ApproveMark, Goto, TypeOK
    <3> QED
      BY <1>0, <1>1, <2>1, <3>1 DEF Knows, IsTrue, TypeOK
  <2> QED
    BY <1>5, <2>2, <2>4, <2>5, <2>6, <2>7, <2>8, <2>9, <2>10 DEF Continue, SettleRecord, TouchPut, AskFile, Decide
<1>6. ASSUME Fail(r) PROVE Knows(r)'
  <2>1. Active(r) /\ Knows(r)
    BY <1>6 DEF Fail, Lose, SettleError, Active, RequestsAreTrue
  <2>2. ~Return(r)
    BY <1>1 DEF Return, Active, Idle, TypeOK
  <2>3. req'[r] = [req[r] EXCEPT !.pc = "record", !.answer = "failed"]
    BY <1>1, <1>6, <2>2 DEF Fail, Lose, SettleError, TypeOK
  <2> QED
    BY <1>0, <1>1, <2>1, <2>3 DEF Knows, IsTrue, TypeOK
<1>7. ASSUME NEW s \in Requests, s # r, Arrive(s) \/ Continue(s) \/ Fail(s) PROVE req'[r] = req[r]
  BY <1>1, <1>7 DEF TypeOK, Arrive, Begin, CollectStart, PayStart, TouchStart, AskStart, DecideStart,
    Continue, CollectPut, SettleRead, SettlePost, SettleRecord, TouchPut, AskFind, AskFile, ApproveRead,
    ApproveMark, ApproveReturn, Decide, Fail, Lose, SettleError, Goto, Return
<1> QED
  BY <1>2, <1>4, <1>5, <1>6, <1>7 DEF Next, vars, TopUp

\* The invariant holds throughout: it starts true and every step keeps each of its parts.
THEOREM Invariance == Spec => []IInv
<1>1. IInv /\ [Next]_vars => IInv'
  BY TypesPreserved, OrdersPreserved, RefundsPreserved, RequestsPreserved DEF IInv
<1> QED
  BY InitInvariant, <1>1, PTL DEF Spec

\* The documents keep their shapes and the ledger counts what was posted.
THEOREM TypeCorrectness == Spec => []TypeOK
<1>1. IInv => TypeOK
  BY DEF IInv
<1> QED
  BY Invariance, <1>1, PTL

\* Nothing counts as paid, refunded or approved without its transaction: no stop, lost
\* answer or stale document gets the status ahead of the ledger.
THEOREM LedgerComesFirst == Spec => []NothingUnearned
<1>1. IInv => NothingUnearned
  BY DEF IInv, OrdersAreTrue, RefundsAreTrue, IsTrue, Filed, NothingUnearned
<1> QED
  BY Invariance, <1>1, PTL

-----------------------------------------------------------------------------
(***************************************************************************)
(* The overdraft.  Every charge that has found a balance of at least one   *)
(* is counted against it before it is posted; the last one to find it is   *)
(* still among the Requests.                                               *)
(***************************************************************************)
Posting == {r \in Requests : req[r].pc = "post"}

Covered == balance - Cardinality(Posting) >= 1 - Cardinality(Requests)

\* The charges under way are no more than the requests.
LEMMA PostingIsFinite ==
  /\ IsFiniteSet(Posting) /\ Cardinality(Posting) \in Nat /\ Cardinality(Posting) <= Cardinality(Requests)
  /\ Cardinality(Requests) \in Nat \ {0}
BY RequestsAreFinite, FS_Subset, FS_CardinalityType, FS_EmptySet DEF Posting

\* A request leaves its post: the balance that is not spoken for does not fall.
LEMMA LeavesPosting ==
  ASSUME TypeOK, NEW r \in Posting, NEW q, req' = [req EXCEPT ![r] = q], q.pc # "post"
  PROVE  Cardinality(Posting') = Cardinality(Posting) - 1 /\ Cardinality(Posting) > 0
<1>1. Posting' = Posting \ {r}
  BY DEF Posting, TypeOK
<1> QED
  BY <1>1, PostingIsFinite, FS_RemoveElement, FS_CardinalityType, FS_EmptySet

\* A step takes no more from the balance than was spoken for.
LEMMA CoverPreserved == IInv /\ Covered /\ [Next]_vars => Covered'
<1> SUFFICES ASSUME IInv, Covered, [Next]_vars PROVE Covered'
  OBVIOUS
<1> USE DEF Covered
<1>0. TypeOK /\ TypeOK' /\ balance \in Int /\ balance' \in Int
  BY TypesPreserved DEF IInv, TypeOK
<1>1. CASE Posting' = Posting /\ balance' >= balance
  BY <1>0, <1>1, PostingIsFinite
<1>2. ASSUME NEW r \in Requests, SettleRead(r) PROVE Covered'
  <2>1. CASE Covers(balance)
    <3>1. Posting' = Posting \union {r}
      BY <1>0, <1>2, <2>1 DEF SettleRead, Goto, Posting, TypeOK
    <3>2. IsFiniteSet(Posting') /\ Cardinality(Posting') \in Nat /\ Cardinality(Posting') <= Cardinality(Requests)
      BY RequestsAreFinite, FS_Subset, FS_CardinalityType DEF Posting
    <3> QED
      BY <1>0, <1>2, <2>1, <3>2, PostingIsFinite DEF SettleRead, Covers
  <2>2. CASE ~Covers(balance)
    <3>1. Posting' = Posting
      BY <1>0, <1>2, <2>2 DEF SettleRead, Posting, TypeOK
    <3> QED
      BY <1>0, <1>1, <1>2, <3>1 DEF SettleRead
  <2> QED
    BY <2>1, <2>2
<1>3. ASSUME NEW r \in Requests, NEW q, r \in Posting, req' = [req EXCEPT ![r] = q], q.pc # "post",
             balance' >= balance - 1
      PROVE  Covered'
  <2>1. Cardinality(Posting') = Cardinality(Posting) - 1
    BY <1>0, <1>3, LeavesPosting
  <2> QED
    BY <1>0, <1>3, <2>1, PostingIsFinite
<1>4. ASSUME NEW r \in Requests, SettlePost(r) \/ \E committed \in BOOLEAN : SettleError(r, committed)
      PROVE  Covered'
  <2>1. r \in Posting /\ balance' >= balance - 1
    BY <1>0, <1>4 DEF SettlePost, SettleError, Post, Posting
  <2>2. \E answer : req' = [req EXCEPT ![r] = [req[r] EXCEPT !.pc = "record", !.answer = answer]]
    BY <1>0, <1>4 DEF SettlePost, SettleError, TypeOK
  <2>3. PICK answer : req' = [req EXCEPT ![r] = [req[r] EXCEPT !.pc = "record", !.answer = answer]]
    BY <2>2
  <2>4. [req[r] EXCEPT !.pc = "record", !.answer = answer].pc = "record"
    BY <1>0 DEF TypeOK
  <2> QED
    BY <1>3, <2>1, <2>3, <2>4
<1>5. ASSUME NEW r \in Requests, Lose(r) PROVE Covered'
  <2>1. CASE r \in Posting
    <3>1. req' = [req EXCEPT ![r] = Idle] /\ Idle.pc # "post" /\ balance' >= balance - 1
      BY <1>0, <1>5 DEF Lose, Return, Idle
    <3> QED
      BY <1>3, <2>1, <3>1
  <2>2. CASE r \notin Posting
    BY <1>0, <1>1, <1>5, <2>2 DEF Lose, Return, Idle, Posting, TypeOK
  <2> QED
    BY <2>1, <2>2
<1>6. ASSUME NEW r \in Requests, Arrive(r) PROVE Covered'
  <2>1. ASSUME NEW o, NEW q, NEW pc, NEW doc, Begin(r, o, q, pc, doc), pc # "post" PROVE Posting' = Posting
    BY <1>0, <2>1 DEF Begin, Active, Posting, TypeOK
  <2>2. Posting' = Posting /\ UNCHANGED balance
    BY <1>6, <2>1 DEF Arrive, CollectStart, PayStart, TouchStart, AskStart, DecideStart, Begin
  <2> QED
    BY <1>0, <1>1, <2>2
<1>7. ASSUME NEW r \in Requests, Continue(r), ~SettleRead(r), ~SettlePost(r) PROVE Covered'
  <2>0. r \notin Posting
    BY <1>7 DEF Continue, CollectPut, SettleRecord, TouchPut, AskFind, AskFile, ApproveReturn, ApproveRead,
      ApproveMark, Decide, Posting
  <2>1. Posting' = Posting
    <3>1. ASSUME Return(r) PROVE Posting' = Posting
      BY <1>0, <2>0, <3>1 DEF Return, Idle, Posting, TypeOK
    <3>2. ASSUME NEW pc, pc # "post", Goto(r, pc) PROVE Posting' = Posting
      BY <1>0, <2>0, <3>2 DEF Goto, Posting, TypeOK
    <3>3. ASSUME NEW pc, NEW doc, pc # "post", req' = [req EXCEPT ![r].pc = pc, ![r].doc = doc]
          PROVE  Posting' = Posting
      BY <1>0, <2>0, <3>3 DEF Posting, TypeOK
    <3>4. ASSUME NEW due \in BOOLEAN, CollectPut(r, due) PROVE Posting' = Posting
      BY <3>1, <3>3, <3>4 DEF CollectPut
    <3>5. CASE AskFind(r)
      BY <3>1, <3>2, <3>5 DEF AskFind
    <3>6. CASE ApproveReturn(r) \/ ApproveRead(r) \/ ApproveMark(r)
      BY <3>2, <3>3, <3>6 DEF ApproveReturn, ApproveRead, ApproveMark
    <3> QED
      BY <1>7, <3>1, <3>4, <3>5, <3>6 DEF Continue, SettleRecord, TouchPut, AskFile, Decide
  <2>2. balance' >= balance
    <3>1. UNCHANGED balance \/ ApproveReturn(r)
      BY <1>7 DEF Continue, CollectPut, SettleRecord, TouchPut, AskFind, AskFile, ApproveRead, ApproveMark, Decide
    <3> QED
      BY <1>0, <3>1 DEF ApproveReturn
  <2> QED
    BY <1>1, <2>1, <2>2
<1>8. CASE TopUp \/ UNCHANGED vars
  BY <1>0, <1>1, <1>8 DEF TopUp, vars, Posting
<1> QED
  BY <1>2, <1>4, <1>5, <1>6, <1>7, <1>8 DEF Next, Fail

\* However many charges meet, a wallet is overdrawn by fewer than there are requests.
THEOREM OverdraftBound == Spec => []OverdraftIsBounded
<1>1. Init => Covered
  <2> SUFFICES ASSUME Init PROVE Covered
    OBVIOUS
  <2>1. Posting = {} /\ balance = 0
    BY DEF Init, Posting, Idle
  <2> QED
    BY <2>1, PostingIsFinite, FS_EmptySet DEF Covered
<1>2. IInv /\ Covered => OverdraftIsBounded
  BY PostingIsFinite DEF IInv, TypeOK, Covered, OverdraftIsBounded
<1> QED
  BY Invariance, CoverPreserved, <1>1, <1>2, PTL DEF Spec

-----------------------------------------------------------------------------
(***************************************************************************)
(* What is repeated.  The requests that are about an order                 *)
(***************************************************************************)
At(o) == {r \in Requests : Active(r) /\ req[r].of = o}

Steps(r) == Arrive(r) \/ Continue(r) \/ Fail(r)

\* One request moves at a time, and what it is not about stays as it is.
LEMMA OneMoves ==
  ASSUME TypeOK, [Next]_vars
  PROVE  \/ UNCHANGED <<orders, refunds, charged, returned, req, mishaps>>
         \/ \E r \in Requests : Steps(r) /\ \A s \in Requests \ {r} : req'[s] = req[s]
<1>1. ASSUME NEW r \in Requests, Steps(r) PROVE \A s \in Requests \ {r} : req'[s] = req[s]
  BY <1>1 DEF Steps, TypeOK, Arrive, Begin, CollectStart, PayStart, TouchStart, AskStart, DecideStart,
    Continue, CollectPut, SettleRead, SettlePost, SettleRecord, TouchPut, AskFind, AskFile, ApproveRead,
    ApproveMark, ApproveReturn, Decide, Fail, Lose, SettleError, Goto, Return
<1> QED
  BY <1>1 DEF Next, vars, TopUp, Steps

\* A request stays with its order until it returns.
LEMMA OrderStays ==
  ASSUME TypeOK, NEW r \in Requests, Continue(r) \/ Fail(r)
  PROVE  Active(r) /\ (Active(r)' => req'[r].of = req[r].of)
<1>1. ASSUME NEW pc, Goto(r, pc) PROVE req'[r].of = req[r].of
  BY <1>1 DEF Goto, TypeOK
<1>2. ASSUME Return(r) PROVE ~Active(r)'
  BY <1>2 DEF Return, Idle, Active, TypeOK
<1>3. ASSUME NEW pc, NEW doc, req' = [req EXCEPT ![r].pc = pc, ![r].doc = doc] PROVE req'[r].of = req[r].of
  BY <1>3 DEF TypeOK
<1>4. ASSUME NEW pc, NEW answer, req' = [req EXCEPT ![r].pc = pc, ![r].answer = answer]
      PROVE  req'[r].of = req[r].of
  BY <1>4 DEF TypeOK
<1>5. Active(r)
  BY DEF Continue, CollectPut, SettleRead, SettlePost, SettleRecord, TouchPut, AskFind, AskFile,
    ApproveReturn, ApproveRead, ApproveMark, Decide, Fail, Lose, SettleError, Active
<1>6. \/ Return(r) \/ (\E pc : Goto(r, pc))
      \/ \E pc, doc : req' = [req EXCEPT ![r].pc = pc, ![r].doc = doc]
      \/ \E pc, answer : req' = [req EXCEPT ![r].pc = pc, ![r].answer = answer]
  BY DEF Continue, CollectPut, SettleRead, SettlePost, SettleRecord, TouchPut, AskFind, AskFile,
    ApproveReturn, ApproveRead, ApproveMark, Decide, Fail, Lose, SettleError
<1> QED
  BY <1>1, <1>2, <1>3, <1>4, <1>5, <1>6

\* A step of a request that is not about o, before or after, leaves what is kept of o alone.
LEMMA ElsewhereStays ==
  ASSUME TypeOK, NEW r \in Requests, Steps(r), NEW o \in Orders, r \notin At(o), r \notin At(o)'
  PROVE  /\ orders'[o] = orders[o] /\ charged'[o] = charged[o] /\ returned'[o] = returned[o]
         /\ mishaps'[o] = mishaps[o]
         /\ ~(refunds # refunds' /\ req[r].of = o)
<1>1. CASE Arrive(r)
  <2>1. ASSUME NEW p, NEW q, NEW pc \in Labels \ {"idle"}, NEW doc, Begin(r, p, q, pc, doc)
        PROVE  /\ p # o /\ UNCHANGED <<orders, charged, returned, refunds>>
               /\ mishaps'[o] = mishaps[o]
    BY <2>1 DEF Begin, At, Active, Mishap, TypeOK
  <2> QED
    BY <1>1, <2>1 DEF Arrive, CollectStart, PayStart, TouchStart, AskStart, DecideStart, Labels
<1>2. CASE Continue(r)
  <2>1. Active(r) /\ req[r].of # o
    BY <1>2 DEF Continue, CollectPut, SettleRead, SettlePost, SettleRecord, TouchPut, AskFind, AskFile,
      ApproveReturn, ApproveRead, ApproveMark, Decide, Active, At
  <2> QED
    BY <1>2, <2>1 DEF Continue, CollectPut, SettleRead, SettlePost, SettleRecord, TouchPut, AskFind, AskFile,
      ApproveReturn, ApproveRead, ApproveMark, Decide, PutOrder, Post, TypeOK
<1>3. CASE Fail(r)
  <2>1. Active(r) /\ req[r].of # o
    BY <1>3 DEF Fail, Lose, SettleError, Active, At
  <2> QED
    BY <1>3, <2>1 DEF Fail, Lose, SettleError, Mishap, Post, TypeOK
<1> QED
  BY <1>1, <1>2, <1>3 DEF Steps

-----------------------------------------------------------------------------
(* How often an order is still charged                                     *)

Chargeable(doc) == doc.state = "scheduled" \/ Due(doc.charge)

\* Only what was collected has a charge, until it is refunded.
Shaped(doc) == doc.charge \in {"pending", "failed", "paid"} => doc.state = "picked_up"

Shapes ==
  /\ \A o \in Orders : Shaped(orders[o])
  /\ \A r \in Requests : Active(r) =>
       /\ Shaped(req[r].doc)
       /\ req[r].pc \in {"settle", "post", "record"} => req[r].doc.state = "picked_up"

\* A stale document keeps its shape, and what a settling request puts back was picked up.
LEMMA ShapesPreserved == IInv /\ Shapes /\ [Next]_vars => Shapes'
<1> SUFFICES ASSUME IInv, Shapes, [Next]_vars PROVE Shapes'
  OBVIOUS
<1> USE DEF Shapes
<1>0. TypeOK /\ TypeOK'
  BY TypesPreserved DEF IInv
<1>1. CASE UNCHANGED <<orders, req>>
  BY <1>1 DEF Active, Shaped
<1>2. ASSUME NEW r \in Requests, Steps(r), \A s \in Requests \ {r} : req'[s] = req[s]
      PROVE  Shapes'
  <2> DEFINE Fine(q) == /\ Shaped(q.doc)
                        /\ q.pc \in {"settle", "post", "record"} => q.doc.state = "picked_up"
  <2>1. SUFFICES /\ \A o \in Orders : orders'[o] = orders[o] \/ Shaped(orders'[o])
                 /\ req'[r] = Idle \/ Fine(req'[r])
    BY <1>0, <1>2 DEF Active, Idle, Shaped
  <2>2. CASE Arrive(r)
    <3>1. ASSUME NEW o, NEW q, NEW pc, NEW doc, Begin(r, o, q, pc, doc), Shaped(doc),
                 pc = "settle" => doc.state = "picked_up", pc # "post", pc # "record"
          PROVE  Fine(req'[r]) /\ UNCHANGED orders
      BY <1>0, <3>1 DEF Begin, TypeOK
    <3>2. ASSUME NEW q \in Refunds, NEW pc \in {"return", "reject"}, DecideStart(r, q, pc)
          PROVE  Fine(req'[r]) /\ UNCHANGED orders
      <4>1. Shaped(Booked)
        BY DEF Shaped, Booked
      <4> QED
        BY <3>1, <3>2, <4>1 DEF DecideStart
    <3>3. ASSUME NEW o \in Orders, CollectStart(r, o) \/ PayStart(r, o) \/ TouchStart(r, o) \/ AskStart(r, o)
          PROVE  Fine(req'[r]) /\ UNCHANGED orders
      <4>1. Due(orders[o].charge) => orders[o].state = "picked_up"
        BY DEF Due, Shaped
      <4> QED
        BY <3>1, <3>3, <4>1 DEF CollectStart, PayStart, TouchStart, AskStart
    <3> HIDE DEF Fine
    <3> QED
      BY <2>2, <3>2, <3>3 DEF Arrive
  <2>3. CASE Continue(r)
    <3>1. Active(r) /\ Knows(r)
      BY <2>3 DEF IInv, Continue, CollectPut, SettleRead, SettlePost, SettleRecord, TouchPut, AskFind, AskFile,
        ApproveReturn, ApproveRead, ApproveMark, Decide, Active, RequestsAreTrue
    <3>2. req[r].of \in Orders /\ req[r].doc \in OrderDoc
      BY <1>0, <3>1 DEF Knows, TypeOK
    <3>3. ASSUME NEW due \in BOOLEAN, CollectPut(r, due)
          PROVE  /\ \A o \in Orders : orders'[o] = orders[o] \/ Shaped(orders'[o])
                 /\ req'[r] = Idle \/ Fine(req'[r])
      BY <1>0, <3>2, <3>3 DEF CollectPut, PutOrder, Return, Shaped, TypeOK
    <3>4. CASE SettleRead(r) \/ SettlePost(r)
      BY <1>0, <3>1, <3>4 DEF SettleRead, SettlePost, Goto, TypeOK
    <3>5. CASE SettleRecord(r)
      BY <1>0, <3>1, <3>2, <3>5 DEF SettleRecord, PutOrder, Return, Shaped, OrderDoc, TypeOK
    <3>6. CASE TouchPut(r)
      BY <1>0, <3>1, <3>2, <3>6 DEF TouchPut, PutOrder, Return, TypeOK
    <3>7. CASE \E q \in Refunds : AskFile(r, q)
      BY <1>0, <3>7 DEF AskFile, Return, TypeOK
    <3>8. CASE AskFind(r) \/ ApproveReturn(r) \/ ApproveRead(r)
      BY <1>0, <3>1, <3>2, <3>8 DEF AskFind, ApproveReturn, ApproveRead, Goto, Return, TypeOK
    <3>9. CASE ApproveMark(r)
      BY <1>0, <3>1, <3>2, <3>9 DEF ApproveMark, PutOrder, Goto, Shaped, OrderDoc, TypeOK
    <3>10. CASE Decide(r, "decide", "approved") \/ Decide(r, "reject", "rejected")
      BY <1>0, <3>10 DEF Decide, Return, TypeOK
    <3> HIDE DEF Fine
    <3> QED
      BY <2>3, <3>3, <3>4, <3>5, <3>6, <3>7, <3>8, <3>9, <3>10 DEF Continue
  <2>4. CASE Fail(r)
    <3>1. CASE Lose(r)
      BY <1>0, <3>1 DEF Lose, Return, TypeOK
    <3>2. ASSUME NEW committed \in BOOLEAN, SettleError(r, committed)
          PROVE  UNCHANGED orders /\ Fine(req'[r])
      BY <1>0, <3>2 DEF SettleError, Active, TypeOK
    <3> QED
      BY <2>4, <3>1, <3>2 DEF Fail
  <2> QED
    BY <1>2, <2>2, <2>3, <2>4 DEF Steps
<1> QED
  BY <1>0, <1>1, <1>2, OneMoves

\* What a request would leave to be charged.
MayCharge(r) ==
  \/ req[r].pc \in {"collect", "settle", "post"}
  \/ req[r].pc = "record" /\ req[r].answer # "paid"
  \/ req[r].pc = "touch" /\ Chargeable(req[r].doc)
  \/ req[r].pc = "mark" /\ req[r].doc.state = "scheduled"

Open(o) == Chargeable(orders[o]) \/ \E r \in At(o) : MayCharge(r)

\* Requests that charge the order, or put it back as chargeable, once at most.
Unspent(o) ==
  {r \in At(o) : \/ req[r].pc \in {"collect", "settle", "post", "touch", "return", "order", "mark"}
                 \/ req[r].pc = "record" /\ req[r].answer # "paid"}

\* Requests that have charged it and are about to say so.
Spent(o) == {r \in At(o) : req[r].pc = "record" /\ req[r].answer = "paid"}

\* The charges an order can still come to without a further mishap.
Left(open, unspent, spent) ==
  IF ~open THEN 0 ELSE IF unspent # {} THEN Cardinality(unspent) ELSE IF spent # {} THEN 0 ELSE 1

ChargesBounded ==
  \A o \in Orders : charged[o] + Left(Open(o), Unspent(o), Spent(o)) <= 1 + mishaps[o]

\* A set of requests with one of them set apart.
LEMMA OneApart ==
  ASSUME NEW S, NEW T, NEW x, IsFiniteSet(S), T \ {x} = S \ {x}
  PROVE  /\ Cardinality(S) \in Nat /\ (S = {} <=> Cardinality(S) = 0)
         /\ IsFiniteSet(T) /\ Cardinality(T) \in Nat /\ (T = {} <=> Cardinality(T) = 0)
         /\ (x \in S <=> x \in T) => T = S
         /\ x \in T /\ x \notin S => Cardinality(T) = Cardinality(S) + 1
         /\ x \in S /\ x \notin T => Cardinality(T) = Cardinality(S) - 1
<1>1. IsFiniteSet(T)
  <2>1. IsFiniteSet(S \union {x}) /\ T \subseteq S \union {x}
    BY FS_AddElement
  <2> QED
    BY <2>1, FS_Subset
<1>2. /\ Cardinality(S) \in Nat /\ (S = {} <=> Cardinality(S) = 0)
      /\ Cardinality(T) \in Nat /\ (T = {} <=> Cardinality(T) = 0)
  BY <1>1, FS_CardinalityType, FS_EmptySet
<1>3. (x \in S <=> x \in T) => T = S
  OBVIOUS
<1>4. ASSUME x \in T, x \notin S PROVE Cardinality(T) = Cardinality(S) + 1
  <2>1. T = S \union {x}
    BY <1>4
  <2> QED
    BY <1>1, <1>4, <2>1, FS_AddElement
<1>5. ASSUME x \in S, x \notin T PROVE Cardinality(T) = Cardinality(S) - 1
  <2>1. T = S \ {x}
    BY <1>5
  <2> QED
    BY <1>1, <1>5, <2>1, FS_RemoveElement
<1> QED
  BY <1>1, <1>2, <1>3, <1>4, <1>5

\* How the rest changes when one request moves, by where it was and where it comes.
LEMMA LeftChanges ==
  ASSUME NEW S, NEW T, NEW r \in Requests, S \subseteq Requests, T \subseteq Requests, T \ {r} = S \ {r},
         NEW open \in BOOLEAN, NEW next \in BOOLEAN, next => open, NEW spent, NEW after
  PROVE  /\ Left(open, S, spent) \in Nat /\ Left(next, T, after) \in Nat
         /\ Left(next, T, after) <= Left(open, S, spent) + 1
         /\ T \subseteq S /\ (next /\ S = {} /\ spent # {} => after # {}) =>
              Left(next, T, after) <= Left(open, S, spent)
         /\ open /\ r \in S /\ r \notin T /\ after # {} => Left(next, T, after) <= Left(open, S, spent) - 1
         /\ S = {} /\ spent = {} => Left(next, T, after) <= Left(open, S, spent)
<1>0. IsFiniteSet(S)
  BY RequestsAreFinite, FS_Subset
<1>1. /\ Cardinality(S) \in Nat /\ (S = {} <=> Cardinality(S) = 0)
      /\ Cardinality(T) \in Nat /\ (T = {} <=> Cardinality(T) = 0)
      /\ (r \in S <=> r \in T) => T = S
      /\ r \in T /\ r \notin S => Cardinality(T) = Cardinality(S) + 1
      /\ r \in S /\ r \notin T => Cardinality(T) = Cardinality(S) - 1
  BY <1>0, OneApart
<1> QED
  BY <1>1 DEF Left

\* The requests the one that moves leaves alone.
LEMMA OthersStay ==
  ASSUME NEW r \in Requests, \A s \in Requests \ {r} : req'[s] = req[s], NEW o \in Orders
  PROVE  /\ Unspent(o)' \ {r} = Unspent(o) \ {r} /\ Spent(o)' \ {r} = Spent(o) \ {r}
         /\ At(o)' \ {r} = At(o) \ {r}
         /\ Unspent(o) \subseteq Requests /\ Unspent(o)' \subseteq Requests
         /\ Open(o) \in BOOLEAN /\ Open(o)' \in BOOLEAN
         /\ orders'[o] = orders[o] /\ (r \in At(o)' => ~MayCharge(r)') /\ Open(o)' => Open(o)
         /\ ~Chargeable(orders'[o]) /\ (r \in At(o)' => ~MayCharge(r)') /\ Open(o)' => Open(o)
         /\ r \in At(o) /\ MayCharge(r) => Open(o)
BY DEF Unspent, Spent, At, Active, Open, MayCharge

\* One step of r, about order o or not, and what is left to be charged on o.
LEMMA ChargeStep ==
  ASSUME IInv, IInv', Shapes, NEW o \in Orders, NEW r \in Requests, Steps(r),
         \A s \in Requests \ {r} : req'[s] = req[s],
         charged[o] + Left(Open(o), Unspent(o), Spent(o)) <= 1 + mishaps[o]
  PROVE  (charged[o] + Left(Open(o), Unspent(o), Spent(o)) <= 1 + mishaps[o])'
<1> DEFINE before == Left(Open(o), Unspent(o), Spent(o))
           after == Left(Open(o), Unspent(o), Spent(o))'
<1>0. /\ TypeOK /\ TypeOK' /\ charged[o] \in Nat /\ mishaps[o] \in Nat /\ charged'[o] \in Nat /\ mishaps'[o] \in Nat
  BY DEF IInv, TypeOK
<1>1. Open(o)' => Open(o)
  <2>1. CASE Arrive(r)
    <3>1. orders'[o] = orders[o]
      BY <2>1 DEF Arrive, CollectStart, PayStart, TouchStart, AskStart, DecideStart, Begin
    <3>2. r \in At(o)' /\ MayCharge(r)' => Chargeable(orders[o])
      BY <1>0, <2>1 DEF Arrive, CollectStart, PayStart, TouchStart, AskStart, DecideStart, Begin, At,
        MayCharge, Chargeable, CollectJudges, TypeOK
    <3>3. Chargeable(orders[o]) => Open(o)
      BY DEF Open
    <3> QED
      BY <3>1, <3>2, <3>3, OthersStay
  <2>2. CASE r \notin At(o) /\ r \notin At(o)'
    BY <2>2, <1>0, OthersStay, ElsewhereStays
  <2>3. CASE Continue(r) /\ r \in At(o)
    <3>1. req[r].of = o /\ Active(r) /\ Knows(r) /\ req[r].doc \in OrderDoc /\ Shaped(req[r].doc)
      BY <1>0, <2>3 DEF At, IInv, RequestsAreTrue, TypeOK, Shapes
    <3>2. ASSUME NEW due \in BOOLEAN, CollectPut(r, due) PROVE Open(o)' => Open(o)
      BY <2>3, <3>2, OthersStay DEF CollectPut, MayCharge
    <3>3. CASE SettleRead(r) \/ SettlePost(r)
      BY <2>3, <3>3, OthersStay DEF SettleRead, SettlePost, MayCharge
    <3>4. CASE SettleRecord(r)
      <4>1. CASE req[r].answer # "paid"
        BY <2>3, <3>4, <4>1, OthersStay DEF SettleRecord, MayCharge
      <4>2. CASE req[r].answer = "paid"
        <5>1. orders'[o] = [req[r].doc EXCEPT !.charge = "paid"] /\ req[r].doc.state = "picked_up"
          BY <1>0, <3>1, <3>4, <4>2 DEF SettleRecord, PutOrder, Shapes, TypeOK
        <5>2. ~Chargeable(orders'[o])
          BY <3>1, <5>1 DEF Chargeable, Due, OrderDoc
        <5>3. r \notin At(o)'
          BY <1>0, <3>4 DEF SettleRecord, Return, Idle, At, Active, TypeOK
        <5> QED
          BY <5>2, <5>3, OthersStay
      <4> QED
        BY <4>1, <4>2
    <3>5. CASE TouchPut(r)
      <4>1. CASE Chargeable(req[r].doc)
        BY <2>3, <3>5, <4>1, OthersStay DEF TouchPut, MayCharge
      <4>2. CASE ~Chargeable(req[r].doc)
        <5>1. ~Chargeable(orders'[o])
          BY <1>0, <3>1, <3>5, <4>2 DEF TouchPut, PutOrder, TypeOK
        <5>2. r \notin At(o)'
          BY <1>0, <3>5 DEF TouchPut, Return, Idle, At, Active, TypeOK
        <5> QED
          BY <5>1, <5>2, OthersStay
      <4> QED
        BY <4>1, <4>2
    <3>6. CASE AskFind(r) \/ (\E q \in Refunds : AskFile(r, q)) \/ ApproveReturn(r)
               \/ Decide(r, "decide", "approved") \/ Decide(r, "reject", "rejected")
      <4>1. orders'[o] = orders[o]
        BY <3>6 DEF AskFind, AskFile, ApproveReturn, Decide
      <4>2. req'[r].pc \in {"idle", "file", "order"}
        BY <1>0, <3>6 DEF AskFind, AskFile, ApproveReturn, Decide, Goto, Return, Idle, TypeOK
      <4> QED
        BY <4>1, <4>2, OthersStay DEF MayCharge
    <3>7. CASE ApproveRead(r)
      <4>1. orders'[o] = orders[o] /\ req'[r].pc = "mark" /\ req'[r].doc = orders[o]
        BY <1>0, <3>1, <3>7 DEF ApproveRead, TypeOK
      <4>2. MayCharge(r)' => Open(o)
        BY <4>1 DEF MayCharge, Open, Chargeable
      <4> QED
        BY <4>1, <4>2, OthersStay
    <3>8. CASE ApproveMark(r)
      <4>1. CASE req[r].doc.state = "scheduled"
        BY <2>3, <3>8, <4>1, OthersStay DEF ApproveMark, MayCharge
      <4>2. CASE req[r].doc.state # "scheduled"
        <5>1. orders'[o] = [req[r].doc EXCEPT !.charge = "refunded"]
          BY <1>0, <3>1, <3>8 DEF ApproveMark, PutOrder, TypeOK
        <5>2. ~Chargeable(orders'[o])
          BY <3>1, <4>2, <5>1 DEF Chargeable, Due, OrderDoc
        <5>3. req'[r].pc = "decide"
          BY <1>0, <3>8 DEF ApproveMark, Goto, TypeOK
        <5> QED
          BY <5>2, <5>3, OthersStay DEF MayCharge
      <4> QED
        BY <4>1, <4>2
    <3> QED
      BY <2>3, <3>2, <3>3, <3>4, <3>5, <3>6, <3>7, <3>8 DEF Continue
  <2>4. CASE Fail(r) /\ r \in At(o)
    <3>1. CASE Lose(r)
      <4>1. orders'[o] = orders[o] /\ r \notin At(o)'
        BY <1>0, <3>1 DEF Lose, Return, Idle, At, Active, TypeOK
      <4> QED
        BY <4>1, OthersStay
    <3>2. ASSUME NEW committed \in BOOLEAN, SettleError(r, committed) PROVE Open(o)' => Open(o)
      BY <2>4, <3>2, OthersStay DEF SettleError, MayCharge
    <3> QED
      BY <2>4, <3>1, <3>2 DEF Fail
  <2>5. (Continue(r) \/ Fail(r)) /\ r \notin At(o) => r \notin At(o)'
    BY <1>0, OrderStays DEF At
  <2> QED
    BY <2>1, <2>2, <2>3, <2>4, <2>5 DEF Steps
<1>2. /\ before \in Nat /\ after \in Nat /\ after <= before + 1
      /\ Unspent(o)' \subseteq Unspent(o) /\ (Open(o)' /\ Unspent(o) = {} /\ Spent(o) # {} => Spent(o)' # {})
           => after <= before
      /\ Open(o) /\ r \in Unspent(o) /\ r \notin Unspent(o)' /\ Spent(o)' # {} => after <= before - 1
      /\ Unspent(o) = {} /\ Spent(o) = {} => after <= before
  <2> HIDE DEF before, after
  <2>1. ASSUME NEW S, NEW T, S = Unspent(o), T = Unspent(o)', NEW open, NEW next, open = Open(o), next = Open(o)',
               NEW spent, NEW then, spent = Spent(o), then = Spent(o)'
        PROVE /\ Left(open, S, spent) \in Nat /\ Left(next, T, then) \in Nat
              /\ Left(next, T, then) <= Left(open, S, spent) + 1
              /\ T \subseteq S /\ (next /\ S = {} /\ spent # {} => then # {}) =>
                  Left(next, T, then) <= Left(open, S, spent)
              /\ open /\ r \in S /\ r \notin T /\ then # {} => Left(next, T, then) <= Left(open, S, spent) - 1
              /\ S = {} /\ spent = {} => Left(next, T, then) <= Left(open, S, spent)
    <3>1. /\ S \subseteq Requests /\ T \subseteq Requests /\ T \ {r} = S \ {r}
          /\ open \in BOOLEAN /\ next \in BOOLEAN /\ (next => open)
      BY <1>1, <2>1, OthersStay
    <3> QED
      BY <3>1, LeftChanges
  <2> QED
    BY <2>1 DEF before, after, Left
<1> HIDE DEF before, after
<1>3. SUFFICES charged'[o] + after <= 1 + mishaps'[o]
  BY DEF after
<1>4. charged[o] + before <= 1 + mishaps[o]
  BY DEF before
<1>5. CASE charged'[o] = charged[o] /\ after <= before /\ mishaps'[o] >= mishaps[o]
  BY <1>0, <1>2, <1>4, <1>5
<1>6. CASE charged'[o] = charged[o] /\ mishaps'[o] = mishaps[o] + 1
  BY <1>0, <1>2, <1>4, <1>6
<1>7. CASE r \notin At(o) /\ r \notin At(o)'
  <2>1. Unspent(o)' \subseteq Unspent(o) /\ Spent(o)' = Spent(o)
    BY <1>7, OthersStay DEF Unspent, Spent
  <2> QED
    BY <1>0, <1>2, <1>5, <1>7, <2>1, ElsewhereStays
<1>8. ASSUME Arrive(r), r \in At(o)' PROVE charged'[o] + after <= 1 + mishaps'[o]
  <2>1. charged'[o] = charged[o]
    BY <1>8 DEF Arrive, CollectStart, PayStart, TouchStart, AskStart, DecideStart, Begin
  <2>2. IF Busy(o) THEN mishaps'[o] = mishaps[o] + 1 ELSE mishaps' = mishaps
    <3>1. ASSUME NEW p, NEW q, NEW pc, NEW doc, Begin(r, p, q, pc, doc)
          PROVE  IF Busy(o) THEN mishaps'[o] = mishaps[o] + 1 ELSE mishaps' = mishaps
      <4>1. p = o
        BY <1>0, <1>8, <3>1 DEF Begin, At, TypeOK
      <4> QED
        BY <1>0, <3>1, <4>1 DEF Begin, Mishap, TypeOK
    <3> QED
      BY <1>8, <3>1 DEF Arrive, CollectStart, PayStart, TouchStart, AskStart, DecideStart
  <2>3. CASE Busy(o)
    BY <1>6, <2>1, <2>2, <2>3
  <2>4. CASE ~Busy(o)
    <3>1. Unspent(o) = {} /\ Spent(o) = {}
      BY <2>4 DEF Busy, Unspent, Spent, At
    <3> QED
      BY <1>0, <1>2, <1>5, <2>1, <2>2, <2>4, <3>1
  <2> QED
    BY <2>3, <2>4
<1>9. ASSUME Continue(r), r \in At(o) PROVE charged'[o] + after <= 1 + mishaps'[o]
  <2>1. req[r].of = o /\ Active(r) /\ mishaps'[o] = mishaps[o]
    BY <1>9 DEF At, Continue, CollectPut, SettleRead, SettlePost, SettleRecord, TouchPut, AskFind, AskFile,
      ApproveReturn, ApproveRead, ApproveMark, Decide
  <2>2. CASE SettlePost(r)
    <3>1. charged'[o] = charged[o] + 1
      BY <1>0, <2>1, <2>2 DEF SettlePost, Post, TypeOK
    <3>2. r \in Unspent(o) /\ r \notin Unspent(o)' /\ r \in Spent(o)' /\ Open(o)
      BY <1>0, <1>9, <2>2 DEF SettlePost, Unspent, Spent, At, Active, Open, MayCharge, TypeOK
    <3> QED
      BY <1>0, <1>2, <1>4, <2>1, <3>1, <3>2
  <2>3. CASE r \in Unspent(o) /\ ~SettlePost(r)
    <3>1. charged'[o] = charged[o]
      BY <1>9, <2>3 DEF Continue, CollectPut, SettleRead, SettleRecord, TouchPut, AskFind, AskFile,
        ApproveReturn, ApproveRead, ApproveMark, Decide
    <3>2. Unspent(o)' \subseteq Unspent(o) /\ Unspent(o) # {}
      BY <2>3, OthersStay
    <3> QED
      BY <1>0, <1>2, <1>5, <2>1, <3>1, <3>2
  <2>4. CASE r \notin Unspent(o) /\ SettleRecord(r)
    <3>1. req[r].answer = "paid" /\ charged'[o] = charged[o]
      BY <1>9, <2>4 DEF Unspent, SettleRecord
    <3>2. r \notin At(o)'
      BY <1>0, <2>4 DEF SettleRecord, Return, Idle, At, Active, TypeOK
    <3>3. Unspent(o)' = Unspent(o)
      BY <2>4, <3>2, OthersStay DEF Unspent
    <3>4. Unspent(o) = {} => ~Open(o)'
      <4>1. orders'[o] = [req[r].doc EXCEPT !.charge = "paid"] /\ req[r].doc.state = "picked_up"
            /\ req[r].doc \in OrderDoc
        BY <1>0, <2>1, <2>4, <3>1 DEF SettleRecord, PutOrder, Shapes, TypeOK
      <4>2. ~Chargeable(orders'[o])
        BY <4>1 DEF Chargeable, Due, OrderDoc
      <4>3. \A s \in At(o)' : MayCharge(s)' => s \in Unspent(o)'
        BY DEF MayCharge, Unspent
      <4> QED
        BY <3>3, <4>2, <4>3 DEF Open
    <3> QED
      BY <1>0, <1>2, <1>5, <2>1, <3>1, <3>3, <3>4
  <2>5. CASE r \notin Unspent(o) /\ ~SettleRecord(r)
    <3>1. req[r].pc \in {"find", "file", "decide", "reject"} /\ req'[r].pc \in {"idle", "file"}
          /\ charged'[o] = charged[o]
      <4>1. AskFind(r) \/ (\E q \in Refunds : AskFile(r, q))
              \/ Decide(r, "decide", "approved") \/ Decide(r, "reject", "rejected")
        BY <1>9, <2>5 DEF Unspent, Continue, CollectPut, SettleRead, SettlePost, TouchPut, ApproveReturn,
          ApproveRead, ApproveMark
      <4> QED
        BY <1>0, <4>1 DEF AskFind, AskFile, Decide, Goto, Return, Idle, TypeOK
    <3>2. Unspent(o)' = Unspent(o) /\ Spent(o)' = Spent(o)
      BY <3>1, OthersStay DEF Unspent, Spent
    <3> QED
      BY <1>0, <1>2, <1>5, <2>1, <3>1, <3>2
  <2> QED
    BY <2>2, <2>3, <2>4, <2>5
<1>10. ASSUME Fail(r), r \in At(o) PROVE charged'[o] + after <= 1 + mishaps'[o]
  <2>1. req[r].of = o
    BY <1>10 DEF At
  <2>2. CASE Lose(r)
    BY <1>0, <1>6, <2>1, <2>2 DEF Lose, Mishap, TypeOK
  <2>3. ASSUME NEW committed \in BOOLEAN, SettleError(r, committed) PROVE charged'[o] + after <= 1 + mishaps'[o]
    <3>1. r \in Unspent(o) /\ Unspent(o)' \subseteq Unspent(o)
      BY <1>10, <2>3, OthersStay DEF SettleError, Unspent
    <3>2. after <= before
      BY <1>2, <3>1
    <3>3. CASE committed
      <4>1. charged'[o] = charged[o] + 1 /\ mishaps'[o] = mishaps[o] + 1
        BY <1>0, <2>1, <2>3, <3>3 DEF SettleError, Post, Mishap, TypeOK
      <4> QED
        BY <1>0, <1>2, <1>4, <3>2, <4>1
    <3>4. CASE ~committed
      BY <1>0, <1>5, <2>3, <3>2, <3>4 DEF SettleError
    <3> QED
      BY <3>3, <3>4
  <2> QED
    BY <1>10, <2>2, <2>3 DEF Fail
<1>11. r \in At(o) /\ Arrive(r) => FALSE
  BY DEF At, Arrive, CollectStart, PayStart, TouchStart, AskStart, DecideStart, Begin
<1>12. (Continue(r) \/ Fail(r)) /\ r \notin At(o) => r \notin At(o)'
  BY <1>0, OrderStays DEF At
<1> QED
  BY <1>7, <1>8, <1>9, <1>10, <1>11, <1>12 DEF Steps

-----------------------------------------------------------------------------
(* How often an order is still paid back                                   *)

Deciders == {"return", "order", "mark", "decide", "reject"}

Deciding(q) == {r \in Requests : req[r].pc \in Deciders /\ req[r].about = q}

\* Who decides a refund request holds the order it is for; few were ever filed.
DecidedRight ==
  /\ \A r \in Requests : req[r].pc \in Deciders =>
       Filed(req[r].about) /\ refunds[req[r].about].order = req[r].of
  /\ IsFiniteSet({q \in Refunds : Filed(q)})

\* What becomes of the refund requests in a step of r.
Files(r, q) ==
  /\ req[r].pc = "file" /\ ~Filed(q)
  /\ refunds'[q] = [status |-> "pending", order |-> req[r].of]

Decides(r, q, status) ==
  /\ req[r].pc = IF status = "approved" THEN "decide" ELSE "reject"
  /\ req[r].about = q /\ Filed(q) /\ refunds[q].order = req[r].of
  /\ refunds'[q] = [status |-> status, order |-> req[r].of]

\* A request deals with one refund request at a time.
LEMMA RefundSteps ==
  ASSUME IInv, DecidedRight, NEW r \in Requests, Steps(r)
  PROVE  \/ refunds' = refunds
         \/ \E q \in Refunds :
              /\ \A p \in Refunds \ {q} : refunds'[p] = refunds[p]
              /\ req'[r].pc = "idle"
              /\ Files(r, q) \/ Decides(r, q, "approved") \/ Decides(r, q, "rejected")
<1>0. TypeOK
  BY DEF IInv
<1>1. Return(r) => req'[r].pc = "idle"
  BY <1>0 DEF Return, Idle, TypeOK
<1>2. ASSUME NEW q \in Refunds, AskFile(r, q)
      PROVE  Files(r, q) /\ (\A p \in Refunds \ {q} : refunds'[p] = refunds[p]) /\ req'[r].pc = "idle"
  BY <1>0, <1>1, <1>2 DEF AskFile, Files, Filed, TypeOK
<1>3. ASSUME NEW pc, NEW status, Decide(r, pc, status), pc \in {"decide", "reject"},
             pc = IF status = "approved" THEN "decide" ELSE "reject"
      PROVE  /\ req[r].about \in Refunds /\ Decides(r, req[r].about, status)
             /\ (\A p \in Refunds \ {req[r].about} : refunds'[p] = refunds[p]) /\ req'[r].pc = "idle"
  <2>1. Knows(r)
    BY <1>3 DEF IInv, RequestsAreTrue, Active, Decide
  <2>2. req[r].about \in Refunds /\ refunds[req[r].about].order = req[r].of /\ Filed(req[r].about)
    BY <1>3, <2>1 DEF Decide, Knows, DecidedRight, Deciders
  <2> QED
    BY <1>0, <1>1, <1>3, <2>2 DEF Decide, Decides, TypeOK
<1>4. \/ refunds' = refunds \/ (\E q \in Refunds : AskFile(r, q))
      \/ Decide(r, "decide", "approved") \/ Decide(r, "reject", "rejected")
  BY DEF Steps, Arrive, Begin, CollectStart, PayStart, TouchStart, AskStart, DecideStart, Continue, CollectPut,
    SettleRead, SettlePost, SettleRecord, TouchPut, AskFind, ApproveRead, ApproveMark, ApproveReturn, Fail,
    Lose, SettleError
<1> QED
  BY <1>2, <1>3, <1>4

\* Where a request gets to, and about which refund request.
LEMMA DecideSteps ==
  ASSUME TypeOK, NEW r \in Requests, Steps(r)
  PROVE  \/ req'[r].pc \notin Deciders
         \/ /\ req[r].pc \in Deciders /\ req'[r].about = req[r].about /\ req'[r].of = req[r].of
         \/ \E q \in Refunds : /\ ~Active(r) /\ refunds[q].status = "pending"
                               /\ req'[r].about = q /\ req'[r].of = refunds[q].order
<1>1. CASE Arrive(r)
  <2>1. ASSUME NEW o, NEW q, NEW pc, NEW doc, Begin(r, o, q, pc, doc)
        PROVE  req'[r] = [pc |-> pc, of |-> o, about |-> q, doc |-> doc, answer |-> "none"] /\ ~Active(r)
    BY <2>1 DEF Begin, TypeOK
  <2>2. ASSUME NEW o \in Orders, CollectStart(r, o) \/ PayStart(r, o) \/ TouchStart(r, o) \/ AskStart(r, o)
        PROVE  req'[r].pc \notin Deciders
    <3>1. \E pc \in {"collect", "settle", "touch", "find"} : Begin(r, o, NoRefund, pc, orders[o])
      BY <2>2 DEF CollectStart, PayStart, TouchStart, AskStart
    <3>2. PICK pc \in {"collect", "settle", "touch", "find"} : Begin(r, o, NoRefund, pc, orders[o])
      BY <3>1
    <3>3. req'[r] = [pc |-> pc, of |-> o, about |-> NoRefund, doc |-> orders[o], answer |-> "none"]
      BY <2>1, <3>2
    <3> QED
      BY <3>3 DEF Deciders
  <2>3. ASSUME NEW q \in Refunds, NEW pc \in {"return", "reject"}, DecideStart(r, q, pc)
        PROVE  /\ ~Active(r) /\ refunds[q].status = "pending"
               /\ req'[r].about = q /\ req'[r].of = refunds[q].order
    <3>1. Begin(r, refunds[q].order, q, pc, Booked) /\ refunds[q].status = "pending"
      BY <2>3 DEF DecideStart, Decidable
    <3>2. /\ ~Active(r)
          /\ req'[r] = [pc |-> pc, of |-> refunds[q].order, about |-> q, doc |-> Booked, answer |-> "none"]
      BY <2>1, <3>1
    <3> QED
      BY <3>1, <3>2
  <2> QED
    BY <1>1, <2>2, <2>3 DEF Arrive
<1>2. CASE Continue(r)
  <2>2. Return(r) => req'[r].pc \notin Deciders
    BY DEF Return, Idle, Deciders, TypeOK
  <2>3. CASE ApproveReturn(r) \/ ApproveMark(r)
    <3>1. req'[r].about = req[r].about /\ req'[r].of = req[r].of /\ req[r].pc \in Deciders
      BY <2>3 DEF ApproveReturn, ApproveMark, Goto, Deciders, TypeOK
    <3> QED
      BY <3>1
  <2>4. CASE ApproveRead(r)
    BY <2>4 DEF ApproveRead, Deciders, TypeOK
  <2>5. CASE SettleRead(r) \/ SettlePost(r) \/ AskFind(r)
    <3>1. req'[r].pc \in {"idle", "post", "record", "file"}
      BY <2>5 DEF SettleRead, SettlePost, AskFind, Goto, Return, Idle, TypeOK
    <3> QED
      BY <3>1 DEF Deciders
  <2>6. ASSUME NEW due \in BOOLEAN, CollectPut(r, due) PROVE req'[r].pc \notin Deciders
    BY <2>2, <2>6 DEF CollectPut, Deciders, TypeOK
  <2> QED
    BY <1>2, <2>2, <2>3, <2>4, <2>5, <2>6 DEF Continue, SettleRecord, TouchPut, AskFile, Decide
<1>3. CASE Fail(r)
  BY <1>3 DEF Fail, Lose, SettleError, Return, Idle, Deciders, TypeOK
<1> QED
  BY <1>1, <1>2, <1>3 DEF Steps

\* A refund request keeps its order once it is filed.
LEMMA DecidedPreserved == IInv /\ DecidedRight /\ [Next]_vars => DecidedRight'
<1> SUFFICES ASSUME IInv, DecidedRight, [Next]_vars PROVE DecidedRight'
  OBVIOUS
<1>0. TypeOK /\ TypeOK'
  BY TypesPreserved DEF IInv
<1>1. CASE UNCHANGED <<refunds, req>>
  BY <1>1 DEF DecidedRight, Filed
<1>2. ASSUME NEW r \in Requests, Steps(r), \A s \in Requests \ {r} : req'[s] = req[s]
      PROVE  DecidedRight'
  <2>1. \A q \in Refunds : Filed(q) => refunds'[q].status # "absent" /\ refunds'[q].order = refunds[q].order
    <3>1. CASE refunds' = refunds
      BY <3>1 DEF Filed
    <3>2. ASSUME NEW q \in Refunds, \A p \in Refunds \ {q} : refunds'[p] = refunds[p],
                 Files(r, q) \/ Decides(r, q, "approved") \/ Decides(r, q, "rejected")
          PROVE  \A p \in Refunds : Filed(p) => refunds'[p].status # "absent" /\ refunds'[p].order = refunds[p].order
      BY <3>2 DEF Files, Decides, Filed
    <3> QED
      BY <1>2, <3>1, <3>2, RefundSteps
  <2>2. IsFiniteSet({q \in Refunds : refunds'[q].status # "absent"})
    <3>1. \E p : {q \in Refunds : refunds'[q].status # "absent"} \ {p} = {q \in Refunds : Filed(q)} \ {p}
      <4>1. CASE refunds' = refunds
        BY <4>1 DEF Filed
      <4>2. ASSUME NEW p \in Refunds, \A q \in Refunds \ {p} : refunds'[q] = refunds[q]
            PROVE  {q \in Refunds : refunds'[q].status # "absent"} \ {p} = {q \in Refunds : Filed(q)} \ {p}
        BY <4>2 DEF Filed
      <4> QED
        BY <1>2, <4>1, <4>2, RefundSteps
    <3>2. IsFiniteSet({q \in Refunds : Filed(q)})
      BY DEF DecidedRight
    <3> QED
      BY <3>1, <3>2, OneApart
  <2>3. ASSUME NEW s \in Requests, req'[s].pc \in Deciders
        PROVE  refunds'[req'[s].about].status # "absent" /\ refunds'[req'[s].about].order = req'[s].of
    <3>1. CASE s # r
      <4>1. req[s].about \in Refunds
        BY <1>2, <2>3, <3>1 DEF IInv, RequestsAreTrue, Knows, Active, Deciders
      <4> QED
        BY <1>2, <2>1, <2>3, <3>1, <4>1 DEF DecidedRight, Filed
    <3>2. CASE s = r /\ req[r].pc \in Deciders /\ req'[r].about = req[r].about /\ req'[r].of = req[r].of
      <4>1. req[s].about \in Refunds
        BY <3>2 DEF IInv, RequestsAreTrue, Knows, Active, Deciders
      <4> QED
        BY <2>1, <3>2, <4>1 DEF DecidedRight, Filed
    <3>3. ASSUME s = r, NEW q \in Refunds, refunds[q].status = "pending", req'[r].about = q,
                 req'[r].of = refunds[q].order
          PROVE  refunds'[req'[s].about].status # "absent" /\ refunds'[req'[s].about].order = req'[s].of
      BY <2>1, <3>3 DEF Filed
    <3> QED
      BY <1>0, <1>2, <2>3, <3>1, <3>2, <3>3, DecideSteps
  <2> QED
    BY <2>2, <2>3 DEF DecidedRight, Filed
<1> QED
  BY <1>0, <1>1, <1>2, OneMoves

\* Refund requests of an order that wait for a decision.
Waiting(o) ==
  {q \in Refunds : refunds[q].order = o /\ refunds[q].status = "pending" /\ Deciding(q) = {}}

\* Requests that may come to pay the order back, or to have it asked for again, and those
\* that have paid it back.
Returning(o) == {r \in At(o) : req[r].pc \in {"find", "file", "return", "reject"}}
Finding(o) == \E r \in At(o) : req[r].pc = "find"
Returned(o) == \E r \in At(o) : req[r].pc \in {"order", "mark", "decide"}

\* A request was approved, and nothing is left that could undo or repeat it.
Closed(o) ==
  /\ \E q \in Refunds : refunds[q].order = o /\ refunds[q].status = "approved"
  /\ \A q \in Refunds : ~(refunds[q].order = o /\ refunds[q].status = "pending")
  /\ \A r \in At(o) : req[r].pc \notin {"file", "return", "reject"}

\* The times an order can still be paid back without a further mishap: once for each
\* request waiting or under way, but one that is looking finds what waits.
Owed(closed, waiting, returning, finding, back) ==
  IF closed THEN 0
  ELSE IF waiting + returning = 0 THEN IF back THEN 0 ELSE 1
  ELSE waiting + returning - (IF waiting > 0 /\ finding THEN 1 ELSE 0)

OwedFor(o) ==
  Owed(Closed(o), Cardinality(Waiting(o)), Cardinality(Returning(o)), Finding(o), Returned(o))

ReturnsBounded == \A o \in Orders : returned[o] + OwedFor(o) <= 1 + mishaps[o]

\* These three are conditions.
LEMMA StatesPlain ==
  ASSUME NEW o PROVE Closed(o) \in BOOLEAN /\ Finding(o) \in BOOLEAN /\ Returned(o) \in BOOLEAN
BY DEF Closed, Finding, Returned

\* The requests that may come to pay o back, counted when r moves.
LEMMA ReturningCounts ==
  ASSUME NEW r \in Requests, \A s \in Requests \ {r} : req'[s] = req[s], NEW o \in Orders
  PROVE  /\ Cardinality(Returning(o)) \in Nat /\ Cardinality(Returning(o))' \in Nat
         /\ (Cardinality(Returning(o)) = 0 <=> Returning(o) = {})
         /\ (Cardinality(Returning(o))' = 0 <=> Returning(o)' = {})
         /\ Cardinality(Returning(o))' + (IF r \in Returning(o) THEN 1 ELSE 0)
              = Cardinality(Returning(o)) + (IF r \in Returning(o)' THEN 1 ELSE 0)
<1>1. Returning(o)' \ {r} = Returning(o) \ {r}
  BY DEF Returning, At, Active
<1>2. IsFiniteSet(Returning(o))
  BY RequestsAreFinite, FS_Subset DEF Returning, At
<1> DEFINE R == Returning(o)
           RR == Returning(o)'
<1> HIDE DEF R, RR
<1>3. /\ Cardinality(R) \in Nat /\ (R = {} <=> Cardinality(R) = 0)
      /\ Cardinality(RR) \in Nat /\ (RR = {} <=> Cardinality(RR) = 0)
      /\ (r \in R <=> r \in RR) => RR = R
      /\ r \in RR /\ r \notin R => Cardinality(RR) = Cardinality(R) + 1
      /\ r \in R /\ r \notin RR => Cardinality(RR) = Cardinality(R) - 1
  <2>1. IsFiniteSet(R) /\ RR \ {r} = R \ {r}
    BY <1>1, <1>2 DEF R, RR
  <2> QED
    BY <2>1, OneApart
<1>4. Cardinality(RR) + (IF r \in R THEN 1 ELSE 0) = Cardinality(R) + (IF r \in RR THEN 1 ELSE 0)
  BY <1>3
<1> QED
  BY <1>3, <1>4 DEF R, RR

\* Few refund requests wait, now and after a step.
LEMMA WaitingIsFinite ==
  ASSUME DecidedRight, DecidedRight', NEW o
  PROVE  /\ Cardinality(Waiting(o)) \in Nat /\ (Cardinality(Waiting(o)) = 0 <=> Waiting(o) = {})
         /\ Cardinality(Waiting(o))' \in Nat /\ IsFiniteSet(Waiting(o))
<1>1. /\ Waiting(o) \subseteq {p \in Refunds : refunds[p].status # "absent"}
      /\ Waiting(o)' \subseteq {p \in Refunds : refunds'[p].status # "absent"}
  BY DEF Waiting
<1>2. /\ IsFiniteSet({p \in Refunds : refunds[p].status # "absent"})
      /\ IsFiniteSet({p \in Refunds : refunds'[p].status # "absent"})
  BY DEF DecidedRight, Filed
<1>3. IsFiniteSet(Waiting(o)) /\ IsFiniteSet(Waiting(o)')
  BY <1>1, <1>2, FS_Subset
<1> QED
  BY <1>3, FS_CardinalityType, FS_EmptySet

\* The refund requests that wait, counted when r moves and deals with q.
LEMMA WaitingCounts ==
  ASSUME DecidedRight, DecidedRight', NEW r \in Requests, \A s \in Requests \ {r} : req'[s] = req[s],
         NEW o \in Orders, NEW q,
         \A p \in Refunds \ {q} : refunds'[p] = refunds[p] /\ (r \in Deciding(p)' <=> r \in Deciding(p))
  PROVE  Cardinality(Waiting(o))' + (IF q \in Waiting(o) THEN 1 ELSE 0)
           = Cardinality(Waiting(o)) + (IF q \in Waiting(o)' THEN 1 ELSE 0)
<1>1. Waiting(o)' \ {q} = Waiting(o) \ {q}
  <2>1. \A p \in Refunds \ {q} : Deciding(p)' = Deciding(p)
    <3>1. ASSUME NEW p \in Refunds \ {q}, NEW s \in Requests PROVE s \in Deciding(p)' <=> s \in Deciding(p)
      <4>1. CASE s = r
        BY <4>1
      <4>2. CASE s # r
        BY <4>2 DEF Deciding
      <4> QED
        BY <4>1, <4>2
    <3> QED
      BY <3>1 DEF Deciding
  <2> QED
    BY <2>1 DEF Waiting
<1> DEFINE W == Waiting(o)
           WW == Waiting(o)'
<1> HIDE DEF W, WW
<1>2. /\ Cardinality(W) \in Nat /\ Cardinality(WW) \in Nat
      /\ (q \in W <=> q \in WW) => WW = W
      /\ q \in WW /\ q \notin W => Cardinality(WW) = Cardinality(W) + 1
      /\ q \in W /\ q \notin WW => Cardinality(WW) = Cardinality(W) - 1
  <2>1. IsFiniteSet(W) /\ WW \ {q} = W \ {q}
    BY <1>1, WaitingIsFinite DEF W, WW
  <2> QED
    BY <2>1, OneApart
<1>3. Cardinality(WW) + (IF q \in W THEN 1 ELSE 0) = Cardinality(W) + (IF q \in WW THEN 1 ELSE 0)
  BY <1>2
<1> QED
  BY <1>3 DEF W, WW

\* What an order keeps of it when the requests about other refund requests move.
LEMMA WaitingStays ==
  ASSUME NEW r \in Requests, \A s \in Requests \ {r} : req'[s] = req[s], NEW o \in Orders,
         refunds' = refunds, \A p \in Refunds : r \in Deciding(p)' <=> r \in Deciding(p)
  PROVE  Waiting(o)' = Waiting(o)
<1>1. ASSUME NEW p \in Refunds PROVE Deciding(p)' = Deciding(p)
  <2>1. ASSUME NEW s \in Requests PROVE s \in Deciding(p)' <=> s \in Deciding(p)
    <3>1. CASE s = r
      BY <3>1
    <3>2. CASE s # r
      BY <3>2 DEF Deciding
    <3> QED
      BY <3>1, <3>2
  <2> QED
    BY <2>1 DEF Deciding
<1> QED
  BY <1>1 DEF Waiting

\* What the others are at does not change.
LEMMA FlagsStay ==
  ASSUME NEW r \in Requests, \A s \in Requests \ {r} : req'[s] = req[s], NEW o \in Orders
  PROVE  /\ ~(r \in At(o) /\ req[r].pc = "find") /\ ~(r \in At(o)' /\ req'[r].pc = "find") =>
              (Finding(o)' <=> Finding(o))
         /\ (r \in At(o) /\ req[r].pc \in {"order", "mark", "decide"}
               <=> r \in At(o)' /\ req'[r].pc \in {"order", "mark", "decide"}) =>
              (Returned(o)' <=> Returned(o))
         /\ \A s \in Requests \ {r} : s \in At(o)' <=> s \in At(o)
BY DEF Finding, Returned, At, Active

\* Once closed, an order is never paid back again nor asked for.
LEMMA ClosedLasts ==
  ASSUME IInv, DecidedRight, NEW r \in Requests, Steps(r), \A s \in Requests \ {r} : req'[s] = req[s],
         NEW o \in Orders, Closed(o)
  PROVE  Closed(o)'
<1>0. TypeOK
  BY DEF IInv
<1>1. \A q \in Refunds : ~(refunds[q].order = o /\ refunds[q].status = "pending")
  BY DEF Closed
<1>2. r \in At(o) => req[r].pc \notin {"file", "return", "reject"}
  BY DEF Closed
<1>3. \A q \in Refunds : \/ refunds'[q] = refunds[q]
                         \/ refunds'[q].order # o /\ ~(refunds[q].order = o /\ refunds[q].status = "approved")
                         \/ refunds'[q].status = "approved" /\ refunds'[q].order = o
  <2>1. ASSUME NEW q \in Refunds, Files(r, q)
        PROVE  refunds'[q].order # o /\ ~(refunds[q].order = o /\ refunds[q].status = "approved")
    BY <1>2, <2>1 DEF Files, Filed, At, Active
  <2>2. ASSUME NEW q \in Refunds, Decides(r, q, "rejected")
        PROVE  refunds'[q].order # o /\ ~(refunds[q].order = o /\ refunds[q].status = "approved")
    BY <1>2, <2>2 DEF Decides, At, Active
  <2>3. ASSUME NEW q \in Refunds, Decides(r, q, "approved")
        PROVE  \/ refunds'[q].order # o /\ ~(refunds[q].order = o /\ refunds[q].status = "approved")
               \/ refunds'[q].status = "approved" /\ refunds'[q].order = o
    BY <2>3 DEF Decides
  <2> QED
    BY <2>1, <2>2, <2>3, RefundSteps
<1>4. \E q \in Refunds : refunds'[q].order = o /\ refunds'[q].status = "approved"
  BY <1>3 DEF Closed
<1>5. \A q \in Refunds : ~(refunds'[q].order = o /\ refunds'[q].status = "pending")
  BY <1>1, <1>3
<1>6. r \in At(o)' => req'[r].pc \notin {"file", "return", "reject"}
  <2>1. CASE Arrive(r)
    <3>1. ASSUME NEW p, NEW q, NEW pc, NEW doc, Begin(r, p, q, pc, doc)
          PROVE  req'[r] = [pc |-> pc, of |-> p, about |-> q, doc |-> doc, answer |-> "none"]
      BY <1>0, <3>1 DEF Begin, TypeOK
    <3>2. ASSUME NEW q \in Refunds, NEW pc \in {"return", "reject"}, DecideStart(r, q, pc) PROVE r \notin At(o)'
      <4>1. Begin(r, refunds[q].order, q, pc, Booked) /\ refunds[q].status = "pending"
        BY <3>2 DEF DecideStart, Decidable
      <4>2. req'[r] = [pc |-> pc, of |-> refunds[q].order, about |-> q, doc |-> Booked, answer |-> "none"]
        BY <3>1, <4>1
      <4>3. req'[r].of = refunds[q].order
        BY <4>2
      <4> QED
        BY <1>1, <4>1, <4>3 DEF At
    <3>3. ASSUME NEW p \in Orders, CollectStart(r, p) \/ PayStart(r, p) \/ TouchStart(r, p) \/ AskStart(r, p)
          PROVE  req'[r].pc \in {"collect", "settle", "touch", "find"}
      <4>1. \E pc \in {"collect", "settle", "touch", "find"} : Begin(r, p, NoRefund, pc, orders[p])
        BY <3>3 DEF CollectStart, PayStart, TouchStart, AskStart
      <4>2. PICK pc \in {"collect", "settle", "touch", "find"} : Begin(r, p, NoRefund, pc, orders[p])
        BY <4>1
      <4>3. req'[r] = [pc |-> pc, of |-> p, about |-> NoRefund, doc |-> orders[p], answer |-> "none"]
        BY <3>1, <4>2
      <4> QED
        BY <4>3
    <3> QED
      BY <2>1, <3>2, <3>3 DEF Arrive
  <2>2. CASE Continue(r)
    <3>1. /\ req'[r].pc \notin {"return", "reject"}
          /\ req'[r].pc = "file" /\ req'[r].of = o => AskFind(r) /\ Standing(o) = {}
      <4>1. Return(r) => req'[r].pc = "idle"
        BY <1>0 DEF Return, Idle, TypeOK
      <4>2. \A pc : Goto(r, pc) => req'[r].pc = pc /\ req'[r].of = req[r].of
        BY <1>0 DEF Goto, TypeOK
      <4>3. \A pc, doc : req' = [req EXCEPT ![r].pc = pc, ![r].doc = doc] => req'[r].pc = pc
        BY <1>0 DEF TypeOK
      <4>4. \A pc, answer : req' = [req EXCEPT ![r].pc = pc, ![r].answer = answer] => req'[r].pc = pc
        BY <1>0 DEF TypeOK
      <4>5. ASSUME NEW due \in BOOLEAN, CollectPut(r, due) PROVE req'[r].pc \notin {"file", "return", "reject"}
        BY <4>1, <4>3, <4>5 DEF CollectPut
      <4>6. AskFind(r) => req'[r].pc = "idle" \/ (/\ req'[r].pc = "file" /\ req'[r].of = req[r].of
                                                  /\ Standing(req[r].of) = {})
        BY <4>1, <4>2 DEF AskFind
      <4>7. SettleRead(r) \/ SettlePost(r) => req'[r].pc \in {"post", "record"}
        BY <4>2, <4>4 DEF SettleRead, SettlePost
      <4>8. ApproveReturn(r) \/ ApproveRead(r) \/ ApproveMark(r) => req'[r].pc \in {"order", "mark", "decide"}
        BY <4>2, <4>3 DEF ApproveReturn, ApproveRead, ApproveMark
      <4> QED
        BY <2>2, <4>1, <4>5, <4>6, <4>7, <4>8 DEF Continue, SettleRecord, TouchPut, AskFile, Decide
    <3>2. Standing(o) # {}
      BY DEF Closed, Standing
    <3> QED
      BY <3>1, <3>2 DEF At
  <2>3. CASE Fail(r)
    BY <1>0, <2>3 DEF Fail, Lose, SettleError, Return, Idle, TypeOK
  <2> QED
    BY <2>1, <2>2, <2>3 DEF Steps
<1>7. \A s \in At(o)' : req'[s].pc \notin {"file", "return", "reject"}
  BY <1>6, FlagsStay DEF Closed, At
<1> QED
  BY <1>4, <1>5, <1>7 DEF Closed

\* A step about another order.
LEMMA ElsewhereOwed ==
  ASSUME IInv, DecidedRight, DecidedRight', NEW r \in Requests, Steps(r),
         \A s \in Requests \ {r} : req'[s] = req[s], NEW o \in Orders, r \notin At(o), r \notin At(o)'
  PROVE  Waiting(o)' = Waiting(o) /\ Returning(o)' = Returning(o)
<1>1. \A q \in Refunds : refunds'[q].order = o /\ refunds'[q].status = "pending"
                           <=> refunds[q].order = o /\ refunds[q].status = "pending"
  <2>1. ASSUME NEW q \in Refunds, Files(r, q) PROVE refunds[q].status # "pending" /\ refunds'[q].order # o
    BY <2>1 DEF Files, Filed, At, Active
  <2>2. ASSUME NEW q \in Refunds, NEW status, Decides(r, q, status)
        PROVE  refunds[q].order # o /\ refunds'[q].order # o
    <3>1. req[r].pc \in {"decide", "reject"} /\ refunds[q].order = req[r].of /\ refunds'[q].order = req[r].of
      BY <2>2 DEF Decides
    <3> QED
      BY <3>1 DEF At, Active
  <2>3. CASE refunds' = refunds
    BY <2>3
  <2>4. ASSUME NEW q \in Refunds, \A p \in Refunds \ {q} : refunds'[p] = refunds[p],
               Files(r, q) \/ Decides(r, q, "approved") \/ Decides(r, q, "rejected")
        PROVE  \A p \in Refunds : refunds'[p].order = o /\ refunds'[p].status = "pending"
                                   <=> refunds[p].order = o /\ refunds[p].status = "pending"
    <3>1. refunds'[q].order # o /\ (refunds[q].order # o \/ refunds[q].status # "pending")
      BY <2>1, <2>2, <2>4
    <3> QED
      BY <2>4, <3>1
  <2> QED
    BY <2>3, <2>4, RefundSteps
<1>2. ASSUME NEW p \in Refunds, refunds[p].order = o, refunds'[p].order = o PROVE Deciding(p)' = Deciding(p)
  <2>1. r \notin Deciding(p)
    BY <1>2 DEF Deciding, DecidedRight, At, Active, Deciders
  <2>2. req'[r].pc \in Deciders => refunds'[req'[r].about].order = req'[r].of
    BY DEF DecidedRight
  <2>3. ~(req'[r].pc \in Deciders /\ req'[r].about = p)
    BY <1>2, <2>2 DEF At, Active, Deciders
  <2>4. \A s \in Requests : req'[s].pc \in Deciders /\ req'[s].about = p <=> req[s].pc \in Deciders /\ req[s].about = p
    BY <2>1, <2>3 DEF Deciding
  <2> QED
    BY <2>4 DEF Deciding
<1>3. ASSUME NEW p \in Refunds
      PROVE  refunds'[p].order = o /\ refunds'[p].status = "pending" /\ Deciding(p)' = {}
               <=> refunds[p].order = o /\ refunds[p].status = "pending" /\ Deciding(p) = {}
  BY <1>1, <1>2
<1>4. Waiting(o)' = Waiting(o)
  BY <1>3 DEF Waiting
<1>5. Returning(o)' = Returning(o)
  BY FlagsStay DEF Returning, At
<1> QED
  BY <1>4, <1>5

\* What a request is, right after it began.
LEMMA Begun ==
  ASSUME TypeOK, NEW r \in Requests, NEW p, NEW q, NEW pc, NEW doc, Begin(r, p, q, pc, doc), NEW o \in Orders
  PROVE  /\ req'[r] = [pc |-> pc, of |-> p, about |-> q, doc |-> doc, answer |-> "none"]
         /\ ~Active(r) /\ UNCHANGED <<orders, refunds, charged, returned>>
         /\ mishaps'[o] = IF p = o /\ Busy(o) THEN mishaps[o] + 1 ELSE mishaps[o]
BY DEF Begin, Mishap, TypeOK

\* One step of r, about order o or not, and the times o can still be paid back.
LEMMA ReturnStep ==
  ASSUME IInv, IInv', DecidedRight, DecidedRight', NEW o \in Orders, NEW r \in Requests, Steps(r),
         \A s \in Requests \ {r} : req'[s] = req[s], returned[o] + OwedFor(o) <= 1 + mishaps[o]
  PROVE  (returned[o] + OwedFor(o) <= 1 + mishaps[o])'
<1> DEFINE w == Cardinality(Waiting(o))
           ww == Cardinality(Waiting(o))'
           n == Cardinality(Returning(o))
           nn == Cardinality(Returning(o))'
           c == Closed(o)
           cc == Closed(o)'
           f == Finding(o)
           ff == Finding(o)'
           b == Returned(o)
           bb == Returned(o)'
           before == OwedFor(o)
           after == OwedFor(o)'
<1>0. /\ TypeOK /\ TypeOK' /\ returned[o] \in Nat /\ mishaps[o] \in Nat /\ returned'[o] \in Nat
      /\ mishaps'[o] \in Nat
  BY DEF IInv, TypeOK
<1>1. /\ w \in Nat /\ ww \in Nat /\ n \in Nat /\ nn \in Nat
      /\ (w = 0 <=> Waiting(o) = {}) /\ (n = 0 <=> Returning(o) = {}) /\ (nn = 0 <=> Returning(o)' = {})
  BY ReturningCounts, WaitingIsFinite
<1>2. /\ r \notin Returning(o) /\ r \notin Returning(o)' => nn = n
      /\ r \in Returning(o) /\ r \in Returning(o)' => nn = n
      /\ r \notin Returning(o) /\ r \in Returning(o)' => nn = n + 1
      /\ r \in Returning(o) /\ r \notin Returning(o)' => nn = n - 1
  <2>1. nn + (IF r \in Returning(o) THEN 1 ELSE 0) = n + (IF r \in Returning(o)' THEN 1 ELSE 0)
    BY ReturningCounts
  <2> HIDE DEF n, nn
  <2> QED
    BY <1>1, <2>1
<1>3. /\ c \in BOOLEAN /\ cc \in BOOLEAN /\ f \in BOOLEAN /\ ff \in BOOLEAN /\ b \in BOOLEAN /\ bb \in BOOLEAN
      /\ (f => n > 0) /\ (c => cc)
  <2>1. f => Returning(o) # {}
    BY DEF Finding, Returning
  <2>2. c => cc
    BY ClosedLasts
  <2>3. Finding(o)' \in BOOLEAN /\ Returned(o)' \in BOOLEAN /\ Closed(o)' \in BOOLEAN
    BY DEF Finding, Returned, Closed
  <2> HIDE DEF n
  <2>4. f => n > 0
    BY <1>1, <2>1
  <2> QED
    BY <2>2, <2>3, <2>4, StatesPlain
<1>4. before = Owed(c, w, n, f, b) /\ after = Owed(cc, ww, nn, ff, bb)
  BY DEF OwedFor, Owed
<1> HIDE DEF w, ww, n, nn, c, cc, f, ff, b, bb, before, after
<1>5. /\ before \in Nat /\ after \in Nat
      /\ ww = w /\ nn = n /\ (ff <=> f) /\ (bb <=> b) => after <= before
      /\ ww = w /\ nn = n + 1 /\ ff /\ (bb <=> b) =>
           after <= before + 1 /\ (n = 0 /\ ~b => after <= before)
      /\ ww \in {w, w - 1} /\ nn = n + 1 /\ (ff <=> f) /\ ~c =>
           after <= before + 1 /\ (n = 0 /\ ww = w - 1 => after <= before)
      /\ w = 0 /\ ww = 0 /\ nn = n /\ n > 0 => after <= before
      /\ ww = w /\ nn = n - 1 /\ f => after <= before
      /\ ww = w + 1 /\ nn = n - 1 /\ (ff <=> f) /\ ~c => after <= before
      /\ ww = w /\ nn = n - 1 /\ (ff <=> f) /\ (ff => nn > 0) /\ ~c =>
           after <= before /\ (bb => after <= before - 1)
      /\ ww = w /\ nn = n /\ (ff <=> f) /\ (w = 0 /\ n = 0 => cc \/ bb) => after <= before
      /\ ww \in {w, w + 1} /\ nn = n - 1 /\ (ff <=> f) => after <= before + 1
      /\ ww \in {w, w + 1} /\ nn = n /\ (ff <=> f) => after <= before + 1
  <2>1. before \in Nat /\ after \in Nat
    BY <1>1, <1>3, <1>4 DEF Owed
  <2>2. ww = w /\ nn = n /\ (ff <=> f) /\ (bb <=> b) => after <= before
    BY <1>1, <1>3, <1>4 DEF Owed
  <2>3. ww = w /\ nn = n + 1 /\ ff /\ (bb <=> b) =>
           after <= before + 1 /\ (n = 0 /\ ~b => after <= before)
    BY <1>1, <1>3, <1>4 DEF Owed
  <2>4. ww \in {w, w - 1} /\ nn = n + 1 /\ (ff <=> f) /\ ~c =>
           after <= before + 1 /\ (n = 0 /\ ww = w - 1 => after <= before)
    BY <1>1, <1>3, <1>4 DEF Owed
  <2>5. w = 0 /\ ww = 0 /\ nn = n /\ n > 0 => after <= before
    BY <1>1, <1>3, <1>4 DEF Owed
  <2>6. ww = w /\ nn = n - 1 /\ f => after <= before
    BY <1>1, <1>3, <1>4 DEF Owed
  <2>7. ww = w + 1 /\ nn = n - 1 /\ (ff <=> f) /\ ~c => after <= before
    BY <1>1, <1>3, <1>4 DEF Owed
  <2>8. ww = w /\ nn = n - 1 /\ (ff <=> f) /\ (ff => nn > 0) /\ ~c =>
           after <= before /\ (bb => after <= before - 1)
    BY <1>1, <1>3, <1>4 DEF Owed
  <2>9. ww = w /\ nn = n /\ (ff <=> f) /\ (w = 0 /\ n = 0 => cc \/ bb) => after <= before
    BY <1>1, <1>3, <1>4 DEF Owed
  <2>10. ww \in {w, w + 1} /\ nn = n - 1 /\ (ff <=> f) => after <= before + 1
    BY <1>1, <1>3, <1>4 DEF Owed
  <2>11. ww \in {w, w + 1} /\ nn = n /\ (ff <=> f) => after <= before + 1
    BY <1>1, <1>3, <1>4 DEF Owed
  <2> QED
    BY <2>1, <2>2, <2>3, <2>4, <2>5, <2>6, <2>7, <2>8, <2>9, <2>10, <2>11
<1>6. SUFFICES returned'[o] + after <= 1 + mishaps'[o]
  BY DEF after
<1>7. returned[o] + before <= 1 + mishaps[o]
  BY DEF before
<1>8. CASE returned'[o] = returned[o] /\ mishaps'[o] >= mishaps[o] /\ after <= before
  BY <1>0, <1>5, <1>7, <1>8
<1>9. CASE returned'[o] = returned[o] /\ mishaps'[o] = mishaps[o] + 1 /\ after <= before + 1
  BY <1>0, <1>5, <1>7, <1>9
\* Where r itself is in no way to a refund of o, before and after.
<1>10. ASSUME refunds' = refunds, \A p \in Refunds : r \in Deciding(p)' <=> r \in Deciding(p) PROVE ww = w
  BY <1>10, WaitingStays DEF w, ww
<1>11. ASSUME ~(r \in At(o) /\ req[r].pc = "find"), ~(r \in At(o)' /\ req'[r].pc = "find") PROVE ff <=> f
  BY <1>11, FlagsStay DEF f, ff
<1>12. ASSUME r \in At(o) /\ req[r].pc \in {"order", "mark", "decide"}
                <=> r \in At(o)' /\ req'[r].pc \in {"order", "mark", "decide"}
       PROVE  bb <=> b
  BY <1>12, FlagsStay DEF b, bb
<1>13. CASE r \notin At(o) /\ r \notin At(o)'
  <2>1. ww = w /\ nn = n
    BY <1>13, ElsewhereOwed DEF w, ww, n, nn
  <2>2. returned'[o] = returned[o] /\ mishaps'[o] = mishaps[o]
    BY <1>0, <1>13, ElsewhereStays
  <2> QED
    BY <1>0, <1>5, <1>8, <1>11, <1>12, <1>13, <2>1, <2>2
<1>14. ASSUME NEW pc, NEW doc, pc \in {"collect", "settle", "touch", "find"}, r \in At(o)',
              Begin(r, o, NoRefund, pc, doc)
       PROVE  returned'[o] + after <= 1 + mishaps'[o]
  <2>1. /\ req'[r] = [pc |-> pc, of |-> o, about |-> NoRefund, doc |-> doc, answer |-> "none"]
        /\ ~Active(r) /\ UNCHANGED <<orders, refunds, charged, returned>>
        /\ mishaps'[o] = IF Busy(o) THEN mishaps[o] + 1 ELSE mishaps[o]
    BY <1>0, <1>14, Begun
  <2>2. /\ req'[r].pc = pc /\ r \notin At(o) /\ \A p \in Refunds : r \notin Deciding(p) /\ r \notin Deciding(p)'
    BY <1>14, <2>1 DEF At, Active, Deciding, Deciders
  <2>3. ww = w /\ (bb <=> b)
    BY <1>10, <1>12, <1>14, <2>1, <2>2
  <2>4. CASE pc # "find"
    <3>1. nn = n /\ (ff <=> f)
      BY <1>2, <1>11, <1>14, <2>2, <2>4 DEF Returning
    <3> QED
      BY <1>0, <1>5, <1>8, <2>1, <2>3, <3>1
  <2>5. CASE pc = "find"
    <3>1. nn = n + 1 /\ ff
      BY <1>2, <1>14, <2>2, <2>5 DEF Returning, Finding, ff
    <3>2. ~Busy(o) => Returning(o) = {} /\ ~Returned(o)
      BY DEF Busy, Returning, Returned, At
    <3>3. ~Busy(o) => n = 0 /\ ~b
      BY <1>1, <3>2 DEF b
    <3> QED
      BY <1>0, <1>5, <1>8, <1>9, <2>1, <2>3, <3>1, <3>3
  <2> QED
    BY <2>4, <2>5
<1>15. ASSUME NEW q \in Refunds, NEW pc \in {"return", "reject"}, r \in At(o)', DecideStart(r, q, pc)
       PROVE  returned'[o] + after <= 1 + mishaps'[o]
  <2>1. Begin(r, refunds[q].order, q, pc, Booked) /\ refunds[q].status = "pending"
    BY <1>15 DEF DecideStart, Decidable
  <2>2. /\ req'[r] = [pc |-> pc, of |-> refunds[q].order, about |-> q, doc |-> Booked, answer |-> "none"]
        /\ ~Active(r) /\ UNCHANGED <<orders, refunds, charged, returned>>
        /\ mishaps'[o] = IF refunds[q].order = o /\ Busy(o) THEN mishaps[o] + 1 ELSE mishaps[o]
    BY <1>0, <2>1, Begun
  <2>3. refunds[q].order = o
    BY <1>15, <2>2 DEF At
  <2>4. r \notin At(o) /\ req'[r].pc = pc /\ req'[r].about = q /\ \A p \in Refunds : r \notin Deciding(p)
    BY <2>2 DEF At, Active, Deciding, Deciders
  <2>5. \A p \in Refunds \ {q} : refunds'[p] = refunds[p] /\ (r \in Deciding(p)' <=> r \in Deciding(p))
    BY <2>2, <2>4 DEF Deciding
  <2>6. q \notin Waiting(o)'
    <3>1. r \in Deciding(q)'
      BY <2>4 DEF Deciding, Deciders
    <3> QED
      BY <3>1 DEF Waiting
  <2>7. ww + (IF q \in Waiting(o) THEN 1 ELSE 0) = w
    <3>1. ww + (IF q \in Waiting(o) THEN 1 ELSE 0) = w + (IF q \in Waiting(o)' THEN 1 ELSE 0)
      BY <2>5, WaitingCounts DEF w, ww
    <3> QED
      BY <1>1, <2>6, <3>1
  <2>8. ww \in {w, w - 1} /\ (q \in Waiting(o) => ww = w - 1)
    BY <1>1, <2>7
  <2>9. nn = n + 1 /\ (ff <=> f)
    BY <1>2, <1>11, <1>15, <2>4 DEF Returning
  <2>10. ~c
    BY <2>1, <2>3 DEF Closed, c
  <2>11. ~Busy(o) => n = 0 /\ q \in Waiting(o)
    <3>1. ~Busy(o) => Returning(o) = {}
      BY DEF Busy, Returning, At
    <3>2. ~Busy(o) => Deciding(q) = {}
      BY <2>3 DEF Busy, Deciding, DecidedRight, Deciders, Active
    <3> QED
      BY <1>1, <2>1, <2>3, <3>1, <3>2 DEF Waiting
  <2> QED
    BY <1>0, <1>5, <1>8, <1>9, <2>2, <2>3, <2>8, <2>9, <2>10, <2>11
<1>16. ASSUME Arrive(r), r \in At(o)' PROVE returned'[o] + after <= 1 + mishaps'[o]
  <2>1. ASSUME NEW p \in Orders, CollectStart(r, p) \/ PayStart(r, p) \/ TouchStart(r, p) \/ AskStart(r, p)
        PROVE  returned'[o] + after <= 1 + mishaps'[o]
    <3>1. \E pc \in {"collect", "settle", "touch", "find"} : Begin(r, p, NoRefund, pc, orders[p])
      BY <2>1 DEF CollectStart, PayStart, TouchStart, AskStart
    <3>2. PICK pc \in {"collect", "settle", "touch", "find"} : Begin(r, p, NoRefund, pc, orders[p])
      BY <3>1
    <3>3. req'[r] = [pc |-> pc, of |-> p, about |-> NoRefund, doc |-> orders[p], answer |-> "none"]
      BY <1>0, <3>2, Begun
    <3>4. p = o
      BY <1>16, <3>3 DEF At
    <3> QED
      BY <1>14, <1>16, <3>2, <3>4
  <2>2. \/ \E p \in Orders : CollectStart(r, p) \/ PayStart(r, p) \/ TouchStart(r, p) \/ AskStart(r, p)
        \/ \E q \in Refunds, pc \in {"return", "reject"} : DecideStart(r, q, pc)
    BY <1>16 DEF Arrive
  <2>3. ASSUME NEW q \in Refunds, NEW pc \in {"return", "reject"}, DecideStart(r, q, pc)
        PROVE  returned'[o] + after <= 1 + mishaps'[o]
    BY <1>15, <1>16, <2>3
  <2> QED
    BY <2>1, <2>2, <2>3
<1>17. ASSUME Continue(r), r \in At(o) PROVE returned'[o] + after <= 1 + mishaps'[o]
  <2>1. /\ req[r].of = o /\ Active(r) /\ UNCHANGED mishaps
        /\ (req'[r].pc # "idle" => req'[r].of = o)
    BY <1>0, <1>17, OrderStays DEF At, Active, Continue, CollectPut, SettleRead, SettlePost, SettleRecord, TouchPut,
      AskFind, AskFile, ApproveReturn, ApproveRead, ApproveMark, Decide
  <2>2. /\ Return(r) => req'[r].pc = "idle"
        /\ \A pc : Goto(r, pc) => req'[r] = [req[r] EXCEPT !.pc = pc]
        /\ \A pc, doc : req' = [req EXCEPT ![r].pc = pc, ![r].doc = doc] =>
             req'[r] = [req[r] EXCEPT !.pc = pc, !.doc = doc]
        /\ \A pc, answer : req' = [req EXCEPT ![r].pc = pc, ![r].answer = answer] =>
             req'[r] = [req[r] EXCEPT !.pc = pc, !.answer = answer]
    <3>1. Return(r) => req'[r].pc = "idle"
      BY <1>0 DEF Return, Idle, TypeOK
    <3>2. ASSUME NEW pc, Goto(r, pc) PROVE req'[r] = [req[r] EXCEPT !.pc = pc]
      BY <1>0, <3>2 DEF Goto, TypeOK
    <3>3. ASSUME NEW pc, NEW doc, req' = [req EXCEPT ![r].pc = pc, ![r].doc = doc]
          PROVE  req'[r] = [req[r] EXCEPT !.pc = pc, !.doc = doc]
      BY <1>0, <3>3 DEF TypeOK
    <3>4. ASSUME NEW pc, NEW answer, req' = [req EXCEPT ![r].pc = pc, ![r].answer = answer]
          PROVE  req'[r] = [req[r] EXCEPT !.pc = pc, !.answer = answer]
      BY <1>0, <3>4 DEF TypeOK
    <3> QED
      BY <3>1, <3>2, <3>3, <3>4
  <2>3. CASE /\ req[r].pc \in {"collect", "settle", "post", "record", "touch"}
             /\ req'[r].pc \in {"idle", "settle", "post", "record"} /\ UNCHANGED <<refunds, returned>>
    <3>1. ww = w
      BY <1>10, <2>3 DEF Deciding, Deciders
    <3>2. nn = n /\ (ff <=> f) /\ (bb <=> b)
      BY <1>2, <1>11, <1>12, <2>3 DEF Returning
    <3> QED
      BY <1>0, <1>5, <1>8, <2>1, <2>3, <3>1, <3>2
  <2>4. ASSUME NEW due \in BOOLEAN, CollectPut(r, due)
        PROVE  /\ req[r].pc = "collect" /\ req'[r].pc \in {"idle", "settle"} /\ UNCHANGED <<refunds, returned>>
    <3>1. CASE due
      <4>1. req' = [req EXCEPT ![r].pc = "settle", ![r].doc = [state |-> "picked_up", charge |-> "pending"]]
        BY <2>4, <3>1 DEF CollectPut
      <4>2. req'[r].pc = "settle"
        BY <1>0, <4>1 DEF TypeOK
      <4> QED
        BY <2>4, <4>2 DEF CollectPut
    <3> QED
      BY <2>2, <2>4, <3>1 DEF CollectPut
  <2>5. CASE SettleRead(r) \/ SettlePost(r) \/ SettleRecord(r) \/ TouchPut(r) \/ \E due \in BOOLEAN : CollectPut(r, due)
    <3>1. SettleRead(r) \/ SettlePost(r) => req'[r].pc \in {"post", "record"}
      BY <1>0 DEF SettleRead, SettlePost, Goto, TypeOK
    <3>2. SettleRead(r) \/ SettlePost(r) => req[r].pc \in {"settle", "post"} /\ UNCHANGED <<refunds, returned>>
      BY DEF SettleRead, SettlePost
    <3>3. SettleRecord(r) \/ TouchPut(r) =>
            req[r].pc \in {"record", "touch"} /\ req'[r].pc = "idle" /\ UNCHANGED <<refunds, returned>>
      BY <2>2 DEF SettleRecord, TouchPut
    <3> QED
      BY <2>3, <2>4, <2>5, <3>1, <3>2, <3>3
  <2>6. CASE AskFind(r)
    <3>1. req[r].pc = "find" /\ UNCHANGED <<refunds, returned>> /\ req'[r].pc \in {"idle", "file"}
      <4>1. Goto(r, "file") => req'[r].pc = "file"
        BY <1>0 DEF Goto, TypeOK
      <4> QED
        BY <2>2, <2>6, <4>1 DEF AskFind
    <3>2. ww = w /\ r \in Returning(o) /\ f
      BY <1>10, <1>17, <3>1 DEF Deciding, Deciders, Returning, Finding, f
    <3>3. CASE Standing(o) = {}
      <4>1. req'[r].pc = "file"
        BY <1>0, <2>1, <2>6, <3>3 DEF AskFind, Goto, TypeOK
      <4>2. Waiting(o) = {} /\ r \in Returning(o)'
        BY <2>1, <3>3, <4>1 DEF Standing, Waiting, Returning, At, Active
      <4>3. w = 0 /\ nn = n /\ n > 0
        BY <1>1, <1>2, <1>3, <3>2, <4>2
      <4> QED
        BY <1>0, <1>5, <1>8, <2>1, <3>1, <3>2, <4>3
    <3>4. CASE Standing(o) # {}
      <4>1. req'[r].pc = "idle"
        BY <2>1, <2>2, <2>6, <3>4 DEF AskFind
      <4>2. nn = n - 1
        BY <1>2, <3>2, <4>1 DEF Returning
      <4> QED
        BY <1>0, <1>5, <1>8, <2>1, <3>1, <3>2, <4>2
    <3> QED
      BY <3>3, <3>4
  <2>7. ASSUME NEW q \in Refunds, AskFile(r, q) PROVE returned'[o] + after <= 1 + mishaps'[o]
    <3>1. /\ req[r].pc = "file" /\ ~Filed(q) /\ req'[r].pc = "idle" /\ UNCHANGED returned
          /\ refunds'[q] = [status |-> "pending", order |-> o]
          /\ \A p \in Refunds \ {q} : refunds'[p] = refunds[p]
      BY <1>0, <2>1, <2>2, <2>7 DEF AskFile, Filed, TypeOK
    <3>2. \A p \in Refunds : r \notin Deciding(p) /\ r \notin Deciding(p)'
      BY <3>1 DEF Deciding, Deciders
    <3>3. ww + (IF q \in Waiting(o) THEN 1 ELSE 0) = w + (IF q \in Waiting(o)' THEN 1 ELSE 0)
      BY <3>1, <3>2, WaitingCounts DEF w, ww
    <3>4. q \notin Waiting(o)
      BY <3>1 DEF Waiting, Filed
    <3>5. q \in Waiting(o)'
      <4>1. Deciding(q)' = {}
        BY <3>1, <3>2 DEF Deciding, DecidedRight
      <4> QED
        BY <3>1, <4>1 DEF Waiting
    <3>6. ww = w + 1
      BY <1>1, <3>3, <3>4, <3>5
    <3>7. nn = n - 1 /\ (ff <=> f) /\ ~c
      BY <1>2, <1>11, <1>17, <3>1 DEF Returning, Closed, c
    <3> QED
      BY <1>0, <1>5, <1>8, <2>1, <3>1, <3>6, <3>7
  <2>8. CASE ApproveReturn(r)
    <3>1. /\ req[r].pc = "return" /\ req'[r] = [req[r] EXCEPT !.pc = "order"] /\ UNCHANGED refunds
          /\ returned'[o] = returned[o] + 1
      BY <1>0, <2>1, <2>2, <2>8 DEF ApproveReturn, TypeOK
    <3>2. req'[r].pc = "order" /\ req'[r].about = req[r].about /\ req'[r].of = o
      BY <1>0, <2>1, <3>1 DEF TypeOK
    <3>3. ww = w
      BY <1>10, <3>1, <3>2 DEF Deciding, Deciders
    <3>4. nn = n - 1 /\ (ff <=> f) /\ ~c /\ bb
      BY <1>2, <1>11, <1>17, <3>1, <3>2 DEF Returning, Returned, Closed, c, bb, At, Active
    <3>5. ff => nn > 0
      <4>1. ff => Returning(o)' # {}
        BY DEF ff, Finding, Returning
      <4> QED
        BY <1>1, <4>1
    <3> QED
      BY <1>0, <1>5, <1>7, <2>1, <3>1, <3>3, <3>4, <3>5
  <2>9. CASE ApproveRead(r) \/ ApproveMark(r)
    <3>1. /\ req[r].pc \in {"order", "mark"} /\ UNCHANGED <<refunds, returned>>
          /\ req'[r].pc \in {"mark", "decide"} /\ req'[r].about = req[r].about
      BY <1>0, <2>9 DEF ApproveRead, ApproveMark, Goto, TypeOK
    <3>2. ww = w
      BY <1>10, <3>1 DEF Deciding, Deciders
    <3>3. nn = n /\ (ff <=> f) /\ (bb <=> b)
      BY <1>2, <1>11, <1>12, <1>17, <2>1, <3>1 DEF Returning, At, Active
    <3> QED
      BY <1>0, <1>5, <1>8, <2>1, <3>1, <3>2, <3>3
  <2>10. ASSUME NEW pc \in {"decide", "reject"}, NEW status \in {"approved", "rejected"}, Decide(r, pc, status),
                pc = "decide" <=> status = "approved"
         PROVE  returned'[o] + after <= 1 + mishaps'[o]
    <3> DEFINE q == req[r].about
    <3>1. req[r].pc = pc /\ req'[r].pc = "idle" /\ UNCHANGED returned /\ q \in Refunds
      BY <2>1, <2>2, <2>10 DEF Decide, IInv, RequestsAreTrue, Knows
    <3>2. /\ refunds'[q] = [status |-> status, order |-> o]
          /\ \A p \in Refunds \ {q} : refunds'[p] = refunds[p]
          /\ refunds[q].order = o
      BY <1>0, <2>1, <2>10, <3>1 DEF Decide, TypeOK, DecidedRight, Deciders
    <3>3. r \in Deciding(q) /\ \A p \in Refunds \ {q} : r \notin Deciding(p) /\ r \notin Deciding(p)'
      BY <3>1 DEF Deciding, Deciders
    <3>4. q \notin Waiting(o) /\ q \notin Waiting(o)'
      BY <2>10, <3>2, <3>3 DEF Waiting
    <3> HIDE DEF q
    <3>5. ww = w
      <4>1. ww + (IF q \in Waiting(o) THEN 1 ELSE 0) = w + (IF q \in Waiting(o)' THEN 1 ELSE 0)
        BY <3>2, <3>3, WaitingCounts DEF w, ww
      <4> QED
        BY <1>1, <3>4, <4>1
    <3>6. ff <=> f
      BY <1>11, <3>1 
    <3>7. CASE status = "approved"
      <4>1. nn = n
        BY <1>2, <2>10, <3>1, <3>7 DEF Returning
      <4>2. w = 0 /\ n = 0 => cc \/ bb
        <5>1. SUFFICES ASSUME Waiting(o) = {}, Returning(o) = {}, Returning(o)' = {}, ~Returned(o)' PROVE Closed(o)'
          BY <1>1, <4>1 DEF cc, bb
        <5>2. ASSUME NEW p \in Refunds, refunds'[p].order = o, refunds'[p].status = "pending" PROVE FALSE
          <6>1. p # q /\ refunds[p].order = o /\ refunds[p].status = "pending"
            BY <3>2, <3>7, <5>2
          <6>2. PICK s \in Requests : s \in Deciding(p)
            BY <5>1, <6>1 DEF Waiting, Deciding
          <6>3. s # r /\ s \in At(o) /\ req[s].pc \in Deciders
            BY <3>3, <6>1, <6>2 DEF Deciding, DecidedRight, At, Active, Deciders
          <6>4. s \in At(o)' /\ req'[s].pc = req[s].pc
            BY <6>3, FlagsStay
          <6> QED
            BY <5>1, <6>3, <6>4 DEF Returning, Returned, Deciders
        <5>3. refunds'[q].order = o /\ refunds'[q].status = "approved"
          BY <3>2, <3>7
        <5>4. \A s \in At(o)' : req'[s].pc \notin {"file", "return", "reject"}
          BY <5>1 DEF Returning
        <5> QED
          BY <3>1, <5>2, <5>3, <5>4 DEF Closed
      <4> QED
        BY <1>0, <1>5, <1>8, <2>1, <3>1, <3>5, <3>6, <4>1, <4>2
    <3>8. CASE status = "rejected"
      <4>1. pc = "reject"
        BY <2>10, <3>8
      <4>2. nn = n - 1 /\ ~c
        BY <1>2, <1>17, <3>1, <4>1 DEF Returning, Closed, c
      <4>3. ff => nn > 0
        <5>1. ff => Returning(o)' # {}
          BY DEF ff, Finding, Returning
        <5> QED
          BY <1>1, <5>1
      <4> QED
        BY <1>0, <1>5, <1>8, <2>1, <3>1, <3>5, <3>6, <4>2, <4>3
    <3> QED
      BY <2>10, <3>7, <3>8
  <2>11. Decide(r, "decide", "approved") \/ Decide(r, "reject", "rejected") =>
           returned'[o] + after <= 1 + mishaps'[o]
    BY <2>10
  <2> QED
    BY <1>17, <2>5, <2>6, <2>7, <2>8, <2>9, <2>11 DEF Continue
<1>18. ASSUME Fail(r), r \in At(o) PROVE returned'[o] + after <= 1 + mishaps'[o]
  <2>1. req[r].of = o
    BY <1>18 DEF At
  <2>2. CASE Lose(r)
    <3>1. /\ req'[r].pc = "idle" /\ UNCHANGED <<refunds, returned>> /\ mishaps'[o] = mishaps[o] + 1
      BY <1>0, <2>1, <2>2 DEF Lose, Mishap, Return, Idle, TypeOK
    <3>2. \A p \in Refunds : r \notin Deciding(p)' /\ (r \in Deciding(p) => p = req[r].about)
      BY <3>1 DEF Deciding, Deciders
    <3>3. ww \in {w, w + 1}
      <4>1. CASE req[r].pc \in Deciders
        <5>1. req[r].about \notin Waiting(o)
          BY <4>1 DEF Waiting, Deciding
        <5>2. ww + (IF req[r].about \in Waiting(o) THEN 1 ELSE 0) = w + (IF req[r].about \in Waiting(o)' THEN 1 ELSE 0)
          BY <3>1, <3>2, WaitingCounts DEF w, ww
        <5> QED
          BY <1>1, <5>1, <5>2
      <4>2. CASE req[r].pc \notin Deciders
        BY <1>10, <3>1, <3>2, <4>2 DEF Deciding
      <4> QED
        BY <4>1, <4>2
    <3>4. nn \in {n, n - 1} /\ r \notin At(o)'
      BY <1>2, <3>1 DEF Returning, At, Active
    <3>5. CASE req[r].pc = "find"
      <4>1. f /\ ww = w /\ nn = n - 1
        BY <1>2, <1>10, <1>18, <3>1, <3>4, <3>5 DEF f, Finding, Deciding, Deciders, Returning
      <4> QED
        BY <1>0, <1>5, <1>9, <3>1, <4>1
    <3>6. CASE req[r].pc # "find"
      BY <1>0, <1>5, <1>9, <1>11, <3>1, <3>3, <3>4, <3>6
    <3> QED
      BY <3>5, <3>6
  <2>3. ASSUME NEW committed \in BOOLEAN, SettleError(r, committed) PROVE returned'[o] + after <= 1 + mishaps'[o]
    <3>1. /\ req[r].pc = "post" /\ req'[r].pc = "record" /\ UNCHANGED <<refunds, returned>>
          /\ mishaps'[o] >= mishaps[o]
      BY <1>0, <2>1, <2>3 DEF SettleError, Mishap, TypeOK
    <3>2. ww = w /\ nn = n /\ (ff <=> f) /\ (bb <=> b)
      BY <1>2, <1>10, <1>11, <1>12, <3>1 DEF Deciding, Deciders, Returning
    <3> QED
      BY <1>0, <1>5, <1>8, <3>1, <3>2
  <2> QED
    BY <1>18, <2>2, <2>3 DEF Fail
<1>19. r \in At(o) /\ Arrive(r) => FALSE
  BY DEF At, Arrive, CollectStart, PayStart, TouchStart, AskStart, DecideStart, Begin
<1>20. (Continue(r) \/ Fail(r)) /\ r \notin At(o) => r \notin At(o)'
  BY <1>0, OrderStays DEF At
<1> QED
  BY <1>13, <1>16, <1>17, <1>18, <1>19, <1>20 DEF Steps

-----------------------------------------------------------------------------
Repeats == IInv /\ Shapes /\ DecidedRight /\ ChargesBounded /\ ReturnsBounded

\* At the start an order can be charged once, and then paid back once.
LEMMA RepeatsInit == Init => Repeats
<1> SUFFICES ASSUME Init PROVE Repeats
  OBVIOUS
<1>1. IInv
  BY InitInvariant
<1>2. Shapes
  BY DEF Init, Shapes, Shaped, Booked, Idle, Active
<1>3. \A q \in Refunds : ~Filed(q) /\ refunds[q].order \notin Orders
  BY NoneIsNeither DEF Init, Absent, Filed
<1>4. \A r \in Requests : req[r] = Idle
  BY DEF Init
<1>5. {q \in Refunds : Filed(q)} = {}
  BY <1>3
<1>6. DecidedRight
  BY <1>4, <1>5, FS_EmptySet DEF DecidedRight, Deciders, Idle
<1>7. ASSUME NEW o \in Orders
      PROVE  /\ charged[o] + Left(Open(o), Unspent(o), Spent(o)) <= 1 + mishaps[o]
             /\ returned[o] + OwedFor(o) <= 1 + mishaps[o]
  <2>1. At(o) = {}
    BY <1>4 DEF At, Active, Idle
  <2>2. Unspent(o) = {} /\ Spent(o) = {}
    BY <2>1 DEF Unspent, Spent
  <2>3. Left(Open(o), Unspent(o), Spent(o)) \in {0, 1}
    BY <2>2 DEF Left
  <2>4. Waiting(o) = {} /\ Returning(o) = {}
    BY <1>3, <2>1 DEF Waiting, Returning
  <2>5. OwedFor(o) \in {0, 1}
    BY <2>4, FS_EmptySet DEF OwedFor, Owed
  <2>6. charged[o] = 0 /\ returned[o] = 0 /\ mishaps[o] = 0
    BY DEF Init
  <2> QED
    BY <2>3, <2>5, <2>6
<1> QED
  BY <1>1, <1>2, <1>6, <1>7 DEF Repeats, ChargesBounded, ReturnsBounded

\* One step of any request keeps every bound.
LEMMA RepeatsPreserved == Repeats /\ [Next]_vars => Repeats'
<1> SUFFICES ASSUME Repeats, [Next]_vars PROVE Repeats'
  OBVIOUS
<1>0. IInv /\ Shapes /\ DecidedRight /\ ChargesBounded /\ ReturnsBounded /\ TypeOK
  BY DEF Repeats, IInv
<1>1. IInv'
  BY <1>0, TypesPreserved, OrdersPreserved, RefundsPreserved, RequestsPreserved DEF IInv
<1>2. Shapes' /\ DecidedRight'
  BY <1>0, ShapesPreserved, DecidedPreserved
<1>3. CASE UNCHANGED <<orders, refunds, charged, returned, req, mishaps>>
  <2>1. ASSUME NEW o \in Orders
        PROVE  /\ Open(o)' <=> Open(o)
               /\ Unspent(o)' = Unspent(o) /\ Spent(o)' = Spent(o) /\ Waiting(o)' = Waiting(o)
               /\ Returning(o)' = Returning(o)
               /\ (Finding(o)' <=> Finding(o)) /\ (Returned(o)' <=> Returned(o)) /\ (Closed(o)' <=> Closed(o))
    BY <1>3 DEF Open, MayCharge, At, Active, Unspent, Spent, Waiting, Deciding, Returning, Finding, Returned, Closed
  <2>2. ASSUME NEW o \in Orders
        PROVE  /\ Left(Open(o), Unspent(o), Spent(o))' = Left(Open(o), Unspent(o), Spent(o))
               /\ OwedFor(o)' = OwedFor(o)
    BY <2>1 DEF Left, OwedFor, Owed
  <2>3. ASSUME NEW o \in Orders
        PROVE  /\ (charged[o] + Left(Open(o), Unspent(o), Spent(o)) <= 1 + mishaps[o])'
               /\ (returned[o] + OwedFor(o) <= 1 + mishaps[o])'
    BY <1>0, <1>3, <2>2 DEF ChargesBounded, ReturnsBounded
  <2>4. ChargesBounded' /\ ReturnsBounded'
    BY <2>3 DEF ChargesBounded, ReturnsBounded
  <2> QED
    BY <1>1, <1>2, <2>4 DEF Repeats
<1>4. ASSUME NEW r \in Requests, Steps(r), \A s \in Requests \ {r} : req'[s] = req[s] PROVE Repeats'
  <2>1. ASSUME NEW o \in Orders
        PROVE  /\ (charged[o] + Left(Open(o), Unspent(o), Spent(o)) <= 1 + mishaps[o])'
               /\ (returned[o] + OwedFor(o) <= 1 + mishaps[o])'
    <3>1. /\ charged[o] + Left(Open(o), Unspent(o), Spent(o)) <= 1 + mishaps[o]
          /\ returned[o] + OwedFor(o) <= 1 + mishaps[o]
      BY <1>0 DEF ChargesBounded, ReturnsBounded
    <3>2. (charged[o] + Left(Open(o), Unspent(o), Spent(o)) <= 1 + mishaps[o])'
      BY <1>0, <1>1, <1>4, <3>1, ChargeStep
    <3>3. (returned[o] + OwedFor(o) <= 1 + mishaps[o])'
      BY <1>0, <1>1, <1>2, <1>4, <3>1, ReturnStep
    <3> QED
      BY <3>2, <3>3
  <2>2. ChargesBounded' /\ ReturnsBounded'
    BY <2>1 DEF ChargesBounded, ReturnsBounded
  <2> QED
    BY <1>1, <1>2, <2>2 DEF Repeats
<1> QED
  BY <1>0, <1>3, <1>4, OneMoves

\* A charge or a refund is posted again only after a mishap, and once for each: whatever the
\* requests about an order do to each other, n mishaps around it leave it with at most n + 1
\* charges and n + 1 refunds.
THEOREM RepeatsNeedMishaps == Spec => []RepeatsAreMishaps
<1>1. Repeats => RepeatsAreMishaps
  <2> SUFFICES ASSUME Repeats, NEW o \in Orders
               PROVE  charged[o] <= 1 + mishaps[o] /\ returned[o] <= 1 + mishaps[o]
    BY DEF RepeatsAreMishaps
  <2>1. /\ IsFiniteSet(Unspent(o)) /\ Cardinality(Unspent(o)) \in Nat
        /\ IsFiniteSet(Returning(o)) /\ Cardinality(Returning(o)) \in Nat
        /\ (Cardinality(Returning(o)) = 0 <=> Returning(o) = {})
    <3>1. Unspent(o) \subseteq Requests /\ Returning(o) \subseteq Requests
      BY DEF Unspent, Returning, At
    <3> QED
      BY <3>1, RequestsAreFinite, FS_Subset, FS_CardinalityType, FS_EmptySet
  <2>2. Cardinality(Waiting(o)) \in Nat
    <3>1. Waiting(o) \subseteq {q \in Refunds : Filed(q)}
      BY DEF Waiting, Filed
    <3> QED
      BY <3>1, FS_Subset, FS_CardinalityType DEF Repeats, DecidedRight
  <2>3. Finding(o) => Returning(o) # {}
    BY DEF Finding, Returning
  <2>4. Left(Open(o), Unspent(o), Spent(o)) \in Nat
    BY <2>1 DEF Left
  <2>5. OwedFor(o) \in Nat
    BY <2>1, <2>2, <2>3 DEF OwedFor, Owed
  <2>6. charged[o] \in Nat /\ returned[o] \in Nat /\ mishaps[o] \in Nat
    BY DEF Repeats, IInv, TypeOK
  <2>7. /\ charged[o] + Left(Open(o), Unspent(o), Spent(o)) <= 1 + mishaps[o]
        /\ returned[o] + OwedFor(o) <= 1 + mishaps[o]
    BY DEF Repeats, ChargesBounded, ReturnsBounded
  <2> QED
    BY <2>4, <2>5, <2>6, <2>7
<1> QED
  BY RepeatsInit, RepeatsPreserved, <1>1, PTL DEF Spec

-----------------------------------------------------------------------------
(***************************************************************************)
(* One story.  Around an order without a mishap there is one request at    *)
(* most, and where it is tells what the tables and the ledger must say.    *)
(***************************************************************************)
\* What the tables and the ledger say of an order around which nothing has gone wrong,
\* when the one request about it is x (Idle: none is).
StoryOf(o, x) ==
  /\ orders[o].state = "scheduled" => orders[o].charge = "none"
  /\ charged[o] = IF orders[o].charge \in {"paid", "refunded"} \/ (x.pc = "record" /\ x.answer = "paid")
                  THEN 1 ELSE 0
  /\ returned[o] = IF orders[o].charge = "refunded" \/ x.pc \in {"order", "mark"} THEN 1 ELSE 0
  /\ \A p, q \in Standing(o) : p = q
  /\ orders[o].charge = "refunded" => Standing(o) # {}
  /\ \A q \in Standing(o) :
       IF refunds[q].status = "approved"
       THEN orders[o].charge = "refunded" /\ x.pc \notin Deciders \union {"file"}
       ELSE orders[o].charge = "paid" \/ (orders[o].charge = "refunded" /\ x.pc = "decide" /\ x.about = q)
  /\ x.pc \in {"settle", "post", "record", "touch", "mark"} => x.doc = orders[o]
  /\ x.pc = "collect" => orders[o].state = "scheduled"
  /\ x.pc \in {"settle", "post", "record"} => Due(orders[o].charge)
  /\ x.pc \in {"find", "file", "return", "order", "mark", "reject"} => orders[o].charge = "paid"
  /\ x.pc = "decide" => orders[o].charge = "refunded"
  /\ x.pc = "file" => Standing(o) = {}
  /\ x.pc \in Deciders => refunds[x.about].status = "pending"

Story(o) ==
  /\ \A r, s \in At(o) : r = s
  /\ At(o) = {} => StoryOf(o, Idle)
  /\ \A r \in At(o) : StoryOf(o, req[r])

Stories == \A o \in Orders : mishaps[o] = 0 => Story(o)

\* A refund request stands for o before and after, unless o's own request deals with it.
LEMMA StandingStays ==
  ASSUME IInv, DecidedRight, NEW r \in Requests, Steps(r), NEW o \in Orders,
         refunds' = refunds \/ req[r].of # o
  PROVE  /\ Standing(o)' = Standing(o)
         /\ \A q \in Standing(o) : refunds'[q] = refunds[q]
<1>1. CASE refunds' = refunds
  BY <1>1 DEF Standing
<1>2. ASSUME req[r].of # o, NEW q \in Refunds, \A p \in Refunds \ {q} : refunds'[p] = refunds[p],
             Files(r, q) \/ Decides(r, q, "approved") \/ Decides(r, q, "rejected")
      PROVE  Standing(o)' = Standing(o) /\ \A p \in Standing(o) : refunds'[p] = refunds[p]
  <2>1. q \notin Standing(o) /\ refunds'[q].order # o
    BY <1>2 DEF Files, Filed, Decides, Standing
  <2>2. \A p \in Refunds : p # q => refunds'[p] = refunds[p]
    BY <1>2
  <2>3. \A p \in Standing(o) : refunds'[p] = refunds[p]
    BY <2>1, <2>2 DEF Standing
  <2>4. \A p \in Refunds : p \in Standing(o)' <=> p \in Standing(o)
    BY <2>1, <2>2 DEF Standing
  <2> QED
    BY <2>3, <2>4 DEF Standing
<1> QED
  BY <1>1, <1>2, RefundSteps

\* Nothing about o happens.
LEMMA StoryElsewhere ==
  ASSUME IInv, DecidedRight, NEW o \in Orders, NEW r \in Requests, Steps(r),
         \A s \in Requests \ {r} : req'[s] = req[s], r \notin At(o), r \notin At(o)', Story(o)
  PROVE  Story(o)'
<1>1. orders'[o] = orders[o] /\ charged'[o] = charged[o] /\ returned'[o] = returned[o]
  BY ElsewhereStays DEF IInv
<1>2. At(o)' = At(o) /\ \A s \in At(o) : req'[s] = req[s] /\ s \in Requests /\ req[s].of = o /\ Active(s)
  BY FlagsStay DEF At, Active
<1>3. Standing(o)' = Standing(o) /\ \A q \in Standing(o) : refunds'[q] = refunds[q]
  <2>1. refunds' = refunds \/ req[r].of # o
    BY ElsewhereStays DEF IInv
  <2> QED
    BY <2>1, StandingStays
<1>4. ASSUME NEW x, StoryOf(o, x), x.pc \in Deciders => x.about \in Standing(o) PROVE StoryOf(o, x)'
  BY <1>1, <1>3, <1>4 DEF StoryOf
<1>5. StoryOf(o, Idle) => StoryOf(o, Idle)'
  BY <1>4 DEF Idle, Deciders
<1>6. ASSUME NEW s \in At(o) PROVE StoryOf(o, req[s])'
  <2>1. StoryOf(o, req[s])
    BY DEF Story
  <2>2. req[s].pc \in Deciders => req[s].about \in Standing(o)
    <3>1. req[s].pc \in Deciders => req[s].about \in Refunds
      BY <1>2 DEF IInv, RequestsAreTrue, Knows, Deciders
    <3> QED
      BY <1>2, <2>1, <3>1 DEF StoryOf, Standing, DecidedRight
  <2>3. ASSUME NEW x, x = req[s] PROVE StoryOf(o, x)'
    BY <1>4, <2>1, <2>2, <2>3
  <2> QED
    BY <1>2, <2>3 DEF StoryOf
<1> QED
  BY <1>2, <1>5, <1>6 DEF Story

\* The story goes on when the one request about o moves, its refund requests left alone.
LEMMA StoryGoesOn ==
  ASSUME IInv, NEW o \in Orders, NEW x, StoryOf(o, x), x.pc \in Deciders => x.about \in Standing(o),
         NEW r \in Requests, x = req[r], r \in At(o), Continue(r), refunds' = refunds, NEW y, y = req'[r]
  PROVE  StoryOf(o, y)'
<1>0. TypeOK /\ Knows(r) /\ req[r].of = o /\ Active(r) /\ x.doc \in OrderDoc
  BY DEF IInv, RequestsAreTrue, At, TypeOK
<1>1. Standing(o)' = Standing(o)
  BY DEF Standing
<1>2. /\ Return(r) => y.pc = "idle"
      /\ \A pc : Goto(r, pc) => y = [x EXCEPT !.pc = pc]
  BY <1>0 DEF Return, Idle, Goto, TypeOK
<1>3. CASE CollectPut(r, FALSE)
  BY <1>0, <1>1, <1>2, <1>3 DEF CollectPut, PutOrder, StoryOf, Deciders, TypeOK
<1>4. CASE CollectPut(r, TRUE)
  <2>1. req' = [req EXCEPT ![r].pc = "settle", ![r].doc = [state |-> "picked_up", charge |-> "pending"]]
    BY <1>4 DEF CollectPut
  <2>2. y = [x EXCEPT !.pc = "settle", !.doc = [state |-> "picked_up", charge |-> "pending"]]
    BY <1>0, <2>1 DEF TypeOK
  <2>3. y.pc = "settle" /\ y.doc = [state |-> "picked_up", charge |-> "pending"]
    BY <1>0, <2>2 DEF TypeOK
  <2>4. /\ orders'[o] = [state |-> "picked_up", charge |-> "pending"] /\ UNCHANGED <<charged, returned>>
        /\ x.pc = "collect"
    BY <1>0, <1>4 DEF CollectPut, PutOrder, TypeOK
  <2> QED
    BY <1>1, <2>3, <2>4 DEF StoryOf, Due, Deciders
<1>5. CASE SettleRead(r)
  <2>1. /\ x.pc = "settle" /\ UNCHANGED <<orders, charged, returned>>
        /\ y.doc = x.doc /\ (y.pc = "post" \/ (y.pc = "record" /\ y.answer = "pending"))
    BY <1>0, <1>5 DEF SettleRead, Goto, TypeOK
  <2> QED
    BY <1>1, <2>1 DEF StoryOf, Deciders
<1>6. CASE SettlePost(r)
  <2>1. /\ x.pc = "post" /\ UNCHANGED <<orders, returned>> /\ y.doc = x.doc /\ y.pc = "record" /\ y.answer = "paid"
        /\ charged'[o] = charged[o] + 1
    BY <1>0, <1>6 DEF SettlePost, Post, TypeOK
  <2> QED
    BY <1>1, <2>1 DEF StoryOf, Deciders, Due
<1>7. CASE SettleRecord(r)
  <2>1. /\ x.pc = "record" /\ UNCHANGED <<charged, returned>> /\ orders'[o] = [x.doc EXCEPT !.charge = x.answer]
        /\ y.pc = "idle"
    BY <1>0, <1>2, <1>7 DEF SettleRecord, PutOrder, TypeOK
  <2>2. x.doc = orders[o] /\ Due(orders[o].charge) /\ x.answer \in {"pending", "paid", "failed"}
    BY <1>0, <2>1 DEF StoryOf, Knows
  <2>3. orders'[o].charge = x.answer /\ orders'[o].state = orders[o].state
    BY <1>0, <2>1, <2>2 DEF OrderDoc
  <2>4. orders'[o].state # "scheduled"
    BY <2>2, <2>3 DEF StoryOf, Due
  <2>5. Standing(o) = {}
    BY <2>1, <2>2 DEF StoryOf, Due
  <2> QED
    BY <1>1, <2>1, <2>2, <2>3, <2>4, <2>5 DEF StoryOf, Deciders, Due
<1>8. CASE TouchPut(r)
  <2>1. /\ x.pc = "touch" /\ UNCHANGED <<charged, returned>> /\ orders'[o] = x.doc /\ y.pc = "idle"
    BY <1>0, <1>2, <1>8 DEF TouchPut, PutOrder, TypeOK
  <2> QED
    BY <1>1, <2>1 DEF StoryOf, Deciders
<1>9. CASE AskFind(r)
  <2>1. /\ x.pc = "find" /\ UNCHANGED <<orders, charged, returned>>
        /\ y.pc = "idle" \/ (y.pc = "file" /\ Standing(o) = {})
    BY <1>0, <1>2, <1>9 DEF AskFind, Goto, TypeOK
  <2> QED
    BY <1>1, <2>1 DEF StoryOf, Deciders
<1>10. CASE ApproveReturn(r)
  <2>1. /\ x.pc = "return" /\ UNCHANGED <<orders, charged>> /\ returned'[o] = returned[o] + 1
        /\ y.pc = "order" /\ y.about = x.about
    BY <1>0, <1>10 DEF ApproveReturn, Goto, TypeOK
  <2> QED
    BY <1>1, <2>1 DEF StoryOf, Deciders
<1>11. CASE ApproveRead(r)
  <2>1. /\ x.pc = "order" /\ UNCHANGED <<orders, charged, returned>>
        /\ y.pc = "mark" /\ y.about = x.about /\ y.doc = orders[o]
    BY <1>0, <1>11 DEF ApproveRead, TypeOK
  <2> QED
    BY <1>1, <2>1 DEF StoryOf, Deciders
<1>12. CASE ApproveMark(r)
  <2>1. /\ x.pc = "mark" /\ UNCHANGED <<charged, returned>> /\ orders'[o] = [x.doc EXCEPT !.charge = "refunded"]
        /\ y.pc = "decide" /\ y.about = x.about
    BY <1>0, <1>12 DEF ApproveMark, PutOrder, Goto, TypeOK
  <2>2. x.doc = orders[o] /\ orders[o].charge = "paid" /\ orders[o].state # "scheduled"
    BY <2>1 DEF StoryOf
  <2>3. orders'[o].charge = "refunded" /\ orders'[o].state # "scheduled"
    BY <1>0, <2>1, <2>2 DEF OrderDoc
  <2>4. \A q \in Standing(o) : q = x.about /\ refunds[q].status # "approved"
    BY <2>1, <2>2 DEF StoryOf, Deciders
  <2> QED
    BY <1>1, <2>1, <2>2, <2>3, <2>4 DEF StoryOf, Deciders
<1>13. ASSUME NEW q \in Refunds, AskFile(r, q) PROVE FALSE
  BY <1>0, <1>13 DEF AskFile, TypeOK
<1>14. ASSUME NEW pc \in {"decide", "reject"}, NEW status \in {"approved", "rejected"}, Decide(r, pc, status)
       PROVE  FALSE
  <2>1. x.pc \in Deciders /\ x.about \in Refunds /\ refunds[x.about].status = "pending"
    BY <1>0, <1>14 DEF Decide, Deciders, Standing, StoryOf
  <2> QED
    BY <1>0, <1>14, <2>1 DEF Decide, TypeOK
<1> QED
  BY <1>3, <1>4, <1>5, <1>6, <1>7, <1>8, <1>9, <1>10, <1>11, <1>12, <1>13, <1>14 DEF Continue

\* It goes on when the request about o files a refund request or decides one,
LEMMA StoryTakesTurn ==
  ASSUME IInv, NEW o \in Orders, NEW x, StoryOf(o, x), NEW r \in Requests, x = req[r], r \in At(o),
         DecidedRight, Continue(r), NEW q \in Refunds, \A p \in Refunds \ {q} : refunds'[p] = refunds[p],
         Files(r, q) \/ Decides(r, q, "approved") \/ Decides(r, q, "rejected"),
         NEW y, y = req'[r], y.pc = "idle"
  PROVE  StoryOf(o, y)'
<1>0. TypeOK /\ Knows(r) /\ req[r].of = o
  BY DEF IInv, RequestsAreTrue, At
<1>1. x.pc \in {"file", "decide", "reject"}
  BY DEF Files, Decides
<1>2. UNCHANGED <<orders, charged, returned>>
  BY <1>1 DEF Continue, CollectPut, SettleRead, SettlePost, SettleRecord, TouchPut, AskFind, AskFile,
    ApproveReturn, ApproveRead, ApproveMark, Decide
<1>3. CASE Files(r, q)
  <2>1. x.pc = "file" /\ Standing(o) = {} /\ orders[o].charge = "paid"
    BY <1>3 DEF Files, StoryOf
  <2>2. Standing(o)' = {q} /\ refunds'[q].status = "pending"
    BY <1>0, <1>3, <2>1 DEF Files, Standing
  <2> QED
    BY <1>2, <2>1, <2>2 DEF StoryOf, Deciders
<1>4. CASE Decides(r, q, "approved")
  <2>1. x.pc = "decide" /\ x.about = q /\ orders[o].charge = "refunded" /\ refunds[q].order = o
    BY <1>0, <1>4 DEF Decides, StoryOf
  <2>2. refunds[q].status = "pending"
    BY <2>1 DEF StoryOf, Deciders
  <2>3. Standing(o) = {q}
    BY <2>1, <2>2 DEF StoryOf, Standing
  <2>4. refunds'[q].status = "approved" /\ refunds'[q].order = o
    BY <1>0, <1>4 DEF Decides
  <2>5. Standing(o)' = {q}
    BY <2>3, <2>4 DEF Standing
  <2> QED
    BY <1>2, <2>1, <2>4, <2>5 DEF StoryOf, Deciders
<1>5. CASE Decides(r, q, "rejected")
  <2>1. x.pc = "reject" /\ x.about = q /\ orders[o].charge = "paid" /\ refunds[q].order = o
    BY <1>0, <1>5 DEF Decides, StoryOf
  <2>2. refunds[q].status = "pending"
    BY <2>1 DEF StoryOf, Deciders
  <2>3. Standing(o) = {q}
    BY <2>1, <2>2 DEF StoryOf, Standing
  <2>4. refunds'[q].status = "rejected"
    BY <1>0, <1>5 DEF Decides
  <2>5. Standing(o)' = {}
    BY <2>3, <2>4 DEF Standing
  <2> QED
    BY <1>2, <2>1, <2>4, <2>5 DEF StoryOf, Deciders
<1> QED
  BY <1>3, <1>4, <1>5

\* it begins again with a request about an order that nothing else is about,
LEMMA StoryBegins ==
  ASSUME IInv, NEW o \in Orders, StoryOf(o, Idle), At(o) = {}, DecidedRight, NEW r \in Requests, Arrive(r),
         NEW y, y = req'[r], y.of = o
  PROVE  StoryOf(o, y)'
<1>0. TypeOK
  BY DEF IInv
<1>1. UNCHANGED <<orders, refunds, charged, returned>>
  BY DEF Arrive, CollectStart, PayStart, TouchStart, AskStart, DecideStart, Begin
<1>2. Standing(o)' = Standing(o)
  BY <1>1 DEF Standing
<1>3. ASSUME NEW p \in Orders, CollectStart(r, p) \/ PayStart(r, p) \/ TouchStart(r, p) \/ AskStart(r, p)
      PROVE  StoryOf(o, y)'
  <2>1. \E pc : /\ Begin(r, p, NoRefund, pc, orders[p])
                /\ \/ pc = "collect" /\ CollectJudges(p)
                   \/ pc = "settle" /\ Due(orders[p].charge)
                   \/ pc = "touch"
                   \/ pc = "find" /\ Refundable(orders[p].charge)
    BY <1>3 DEF CollectStart, PayStart, TouchStart, AskStart
  <2>2. PICK pc : /\ Begin(r, p, NoRefund, pc, orders[p])
                  /\ \/ pc = "collect" /\ CollectJudges(p)
                     \/ pc = "settle" /\ Due(orders[p].charge)
                     \/ pc = "touch"
                     \/ pc = "find" /\ Refundable(orders[p].charge)
    BY <2>1
  <2>3. y = [pc |-> pc, of |-> p, about |-> NoRefund, doc |-> orders[p], answer |-> "none"]
    BY <1>0, <2>2, Begun
  <2>4. y.pc = pc /\ y.doc = orders[o] /\ y.answer = "none" /\ p = o
    BY <2>3
  <2>5. pc \notin Deciders
    BY <2>2 DEF Deciders
  <2> QED
    BY <1>1, <1>2, <2>2, <2>4, <2>5 DEF StoryOf, Idle, CollectJudges, Refundable
<1>4. ASSUME NEW q \in Refunds, NEW pc \in {"return", "reject"}, DecideStart(r, q, pc) PROVE StoryOf(o, y)'
  <2>1. Begin(r, refunds[q].order, q, pc, Booked) /\ refunds[q].status = "pending"
    BY <1>4 DEF DecideStart, Decidable
  <2>2. y = [pc |-> pc, of |-> refunds[q].order, about |-> q, doc |-> Booked, answer |-> "none"]
    BY <1>0, <2>1, Begun
  <2>3. y.pc = pc /\ y.about = q /\ refunds[q].order = o
    BY <2>2
  <2>4. q \in Standing(o) /\ orders[o].charge = "paid"
    BY <2>1, <2>3 DEF Standing, StoryOf, Idle
  <2>5. \A p \in Standing(o) : p = q
    BY <2>4 DEF StoryOf
  <2> QED
    BY <1>1, <1>2, <2>1, <2>3, <2>4, <2>5 DEF StoryOf, Idle, Deciders
<1> QED
  BY <1>3, <1>4 DEF Arrive

\* and when the ledger answers with an error and has not posted.
LEMMA StoryOfAnError ==
  ASSUME IInv, NEW o \in Orders, NEW x, StoryOf(o, x), NEW r \in Requests, x = req[r], r \in At(o),
         SettleError(r, FALSE), NEW y, y = req'[r]
  PROVE  StoryOf(o, y)'
<1>0. TypeOK
  BY DEF IInv
<1>1. /\ x.pc = "post" /\ UNCHANGED <<orders, refunds, charged, returned>>
      /\ y.pc = "record" /\ y.answer = "failed" /\ y.doc = x.doc
  BY <1>0 DEF SettleError, TypeOK
<1>2. Standing(o)' = Standing(o)
  BY <1>1 DEF Standing
<1> QED
  BY <1>1, <1>2 DEF StoryOf, Deciders

\* Together: a step that is no mishap of o leaves o with a story.
LEMMA StoryStep ==
  ASSUME IInv, IInv', DecidedRight, NEW o \in Orders, NEW r \in Requests, Steps(r),
         \A s \in Requests \ {r} : req'[s] = req[s], mishaps[o] = 0 => Story(o), mishaps'[o] = 0
  PROVE  Story(o)'
<1>0. TypeOK /\ TypeOK' /\ mishaps[o] \in Nat
  BY DEF IInv, TypeOK
<1>1. mishaps[o] = 0 /\ (Arrive(r) /\ r \in At(o)' => ~Busy(o)) /\ (r \in At(o) => ~Lose(r) /\ ~SettleError(r, TRUE))
  <2>1. ASSUME Arrive(r) PROVE mishaps[o] = 0 /\ (r \in At(o)' => ~Busy(o))
    <3>1. ASSUME NEW p, NEW q, NEW pc, NEW doc, Begin(r, p, q, pc, doc)
          PROVE  mishaps[o] = 0 /\ (r \in At(o)' => ~Busy(o))
      <4>1. req'[r].of = p /\ mishaps'[o] = IF p = o /\ Busy(o) THEN mishaps[o] + 1 ELSE mishaps[o]
        BY <1>0, <3>1 DEF Begin, Mishap, TypeOK
      <4>2. ~(p = o /\ Busy(o)) /\ mishaps[o] = 0
        BY <1>0, <4>1
      <4> QED
        BY <4>1, <4>2 DEF At
    <3> QED
      BY <2>1, <3>1 DEF Arrive, CollectStart, PayStart, TouchStart, AskStart, DecideStart
  <2>2. ASSUME Lose(r) \/ SettleError(r, TRUE) PROVE mishaps[o] = 0 /\ r \notin At(o)
    <3>1. mishaps' = [mishaps EXCEPT ![req[r].of] = @ + 1]
      BY <2>2 DEF Lose, SettleError, Mishap
    <3>2. req[r].of # o
      BY <1>0, <3>1 DEF TypeOK
    <3> QED
      BY <1>0, <3>1, <3>2 DEF At, TypeOK
  <2>3. SettleError(r, FALSE) \/ Continue(r) => mishaps' = mishaps
    BY DEF SettleError, Continue, CollectPut, SettleRead, SettlePost, SettleRecord, TouchPut, AskFind, AskFile,
      ApproveReturn, ApproveRead, ApproveMark, Decide
  <2>4. r \in At(o) => ~Arrive(r)
    BY DEF At, Arrive, CollectStart, PayStart, TouchStart, AskStart, DecideStart, Begin
  <2>5. Fail(r) => Lose(r) \/ SettleError(r, TRUE) \/ SettleError(r, FALSE)
    BY DEF Fail
  <2> QED
    BY <2>1, <2>2, <2>3, <2>4, <2>5 DEF Steps
<1>2. Story(o)
  BY <1>1
<1>3. CASE r \notin At(o) /\ r \notin At(o)'
  BY <1>2, <1>3, StoryElsewhere
<1>4. ASSUME At(o) \subseteq {r}, NEW y, y = req'[r], StoryOf(o, y)', r \in At(o)' \/ y.pc = "idle" PROVE Story(o)'
  <2>1. At(o)' \subseteq {r}
    <3>1. \A s \in At(o)' : s \in Requests
      BY DEF At
    <3> QED
      BY <1>4, <3>1, FlagsStay
  <2>2. CASE r \in At(o)'
    <3>1. At(o)' = {r}
      BY <2>1, <2>2
    <3>2. StoryOf(o, req[r])'
      BY <1>4 DEF StoryOf
    <3> QED
      BY <3>1, <3>2 DEF Story
  <2>3. CASE r \notin At(o)'
    <3>1. At(o)' = {} /\ y.pc = "idle"
      BY <1>4, <2>1, <2>3
    <3>2. StoryOf(o, Idle)'
      BY <1>4, <3>1 DEF StoryOf, Idle, Deciders
    <3> QED
      BY <3>1, <3>2 DEF Story
  <2> QED
    BY <2>2, <2>3
<1>5. CASE r \in At(o)
  <2> DEFINE x == req[r]
  <2>1. At(o) \subseteq {r} /\ req[r].of = o /\ StoryOf(o, req[r])
    BY <1>2, <1>5 DEF Story, At
  <2>2. req[r].pc \in Deciders => req[r].about \in Standing(o)
    BY <1>5, <2>1 DEF StoryOf, Standing, DecidedRight, At, IInv, RequestsAreTrue, Knows, Deciders
  <2>3. r \in At(o)' \/ req'[r].pc = "idle"
    <3>1. Continue(r) \/ Fail(r)
      BY <1>5 DEF Steps, At, Arrive, CollectStart, PayStart, TouchStart, AskStart, DecideStart, Begin
    <3> QED
      BY <1>0, <2>1, <3>1, OrderStays DEF At, Active
  <2>4. ASSUME NEW y, y = req'[r], Continue(r) PROVE StoryOf(o, y)'
    <3>1. CASE refunds' = refunds
      BY <1>5, <2>1, <2>2, <2>4, <3>1, StoryGoesOn
    <3>2. ASSUME NEW q \in Refunds, \A p \in Refunds \ {q} : refunds'[p] = refunds[p], req'[r].pc = "idle",
                 Files(r, q) \/ Decides(r, q, "approved") \/ Decides(r, q, "rejected")
          PROVE  StoryOf(o, y)'
      BY <1>5, <2>1, <2>4, <3>2, StoryTakesTurn
    <3> QED
      BY <3>1, <3>2, RefundSteps
  <2>5. ASSUME NEW y, y = req'[r], Fail(r) PROVE StoryOf(o, y)'
    <3>1. SettleError(r, FALSE)
      BY <1>1, <1>5, <2>5 DEF Fail
    <3> QED
      BY <1>5, <2>1, <2>5, <3>1, StoryOfAnError
  <2>6. ~Arrive(r)
    BY <1>5 DEF At, Arrive, CollectStart, PayStart, TouchStart, AskStart, DecideStart, Begin
  <2> QED
    BY <1>4, <2>1, <2>3, <2>4, <2>5, <2>6 DEF Steps
<1>6. CASE r \notin At(o) /\ r \in At(o)'
  <2>1. Arrive(r)
    BY <1>0, <1>6, OrderStays DEF Steps, At
  <2>2. At(o) = {}
    BY <1>1, <1>6, <2>1 DEF Busy, At
  <2>3. StoryOf(o, Idle)
    BY <1>2, <2>2 DEF Story
  <2>4. ASSUME NEW y, y = req'[r] PROVE StoryOf(o, y)'
    <3>1. y.of = o
      BY <1>6, <2>4 DEF At
    <3> QED
      BY <2>1, <2>2, <2>3, <2>4, <3>1, StoryBegins
  <2> QED
    BY <1>4, <1>6, <2>2, <2>4
<1> QED
  BY <1>3, <1>5, <1>6

\* So every order keeps its story as long as nothing goes wrong around it.
LEMMA StoriesPreserved == IInv /\ DecidedRight /\ Stories /\ [Next]_vars => Stories'
<1> SUFFICES ASSUME IInv, DecidedRight, Stories, [Next]_vars PROVE Stories'
  OBVIOUS
<1>1. IInv' /\ TypeOK
  BY TypesPreserved, OrdersPreserved, RefundsPreserved, RequestsPreserved DEF IInv
<1>2. CASE UNCHANGED <<orders, refunds, charged, returned, req, mishaps>>
  <2>1. ASSUME NEW o \in Orders PROVE At(o)' = At(o) /\ Standing(o)' = Standing(o)
    BY <1>2 DEF At, Active, Standing
  <2>2. ASSUME NEW o \in Orders, NEW x, StoryOf(o, x) PROVE StoryOf(o, x)'
    BY <1>2, <2>1, <2>2 DEF StoryOf
  <2>3. ASSUME NEW o \in Orders, Story(o) PROVE Story(o)'
    <3>1. StoryOf(o, Idle) => StoryOf(o, Idle)'
      BY <2>2 DEF Idle
    <3>2. ASSUME NEW s, StoryOf(o, req[s]) PROVE StoryOf(o, req[s])'
      <4>1. ASSUME NEW x, x = req[s] PROVE StoryOf(o, x)'
        BY <2>2, <3>2, <4>1
      <4> QED
        BY <1>2, <4>1 DEF StoryOf
    <3> QED
      BY <2>1, <2>3, <3>1, <3>2 DEF Story
  <2> QED
    BY <1>2, <2>3 DEF Stories
<1>3. ASSUME NEW r \in Requests, Steps(r), \A s \in Requests \ {r} : req'[s] = req[s] PROVE Stories'
  BY <1>1, <1>3, StoryStep DEF Stories
<1> QED
  BY <1>1, <1>2, <1>3, OneMoves

\* An order around which nothing has gone wrong, and that no request is about, has one
\* story: its status, the charges and refunds in the ledger and its refund requests agree.
THEOREM BooksAlwaysAgree == Spec => []BooksAgree
<1>1. Init => Stories
  <2> SUFFICES ASSUME Init, NEW o \in Orders PROVE Story(o)
    BY DEF Stories
  <2>1. At(o) = {} /\ Standing(o) = {}
    BY NoneIsNeither DEF Init, At, Active, Standing, Idle, Absent
  <2>2. StoryOf(o, Idle)
    BY <2>1 DEF Init, StoryOf, Idle, Booked, Deciders
  <2> QED
    BY <2>1, <2>2 DEF Story
<1>2. Stories => BooksAgree
  <2> SUFFICES ASSUME Stories, NEW o \in Orders, mishaps[o] = 0, ~Busy(o)
               PROVE  /\ charged[o] = IF orders[o].charge \in {"paid", "refunded"} THEN 1 ELSE 0
                      /\ returned[o] = IF orders[o].charge = "refunded" THEN 1 ELSE 0
                      /\ returned[o] = Cardinality({q \in Standing(o) : refunds[q].status = "approved"})
                      /\ Cardinality(Standing(o)) <= 1
    BY DEF BooksAgree
  <2>1. StoryOf(o, Idle)
    BY DEF Stories, Story, Busy, At
  <2>2. /\ charged[o] = IF orders[o].charge \in {"paid", "refunded"} THEN 1 ELSE 0
        /\ returned[o] = IF orders[o].charge = "refunded" THEN 1 ELSE 0
    BY <2>1 DEF StoryOf, Idle
  <2>3. CASE Standing(o) = {}
    <3>1. {q \in Standing(o) : refunds[q].status = "approved"} = {}
      BY <2>3
    <3>2. orders[o].charge # "refunded"
      BY <2>1, <2>3 DEF StoryOf
    <3> QED
      BY <2>2, <2>3, <3>1, <3>2, FS_EmptySet
  <2>4. ASSUME NEW q \in Standing(o)
        PROVE  /\ returned[o] = Cardinality({p \in Standing(o) : refunds[p].status = "approved"})
               /\ Cardinality(Standing(o)) <= 1
    <3>1. Standing(o) = {q} /\ Cardinality({q}) = 1
      BY <2>1, FS_Singleton DEF StoryOf
    <3>2. CASE refunds[q].status = "approved"
      <4>1. {p \in Standing(o) : refunds[p].status = "approved"} = {q} /\ orders[o].charge = "refunded"
        BY <2>1, <3>1, <3>2 DEF StoryOf
      <4> QED
        BY <2>2, <3>1, <4>1
    <3>3. CASE refunds[q].status # "approved"
      <4>1. {p \in Standing(o) : refunds[p].status = "approved"} = {} /\ orders[o].charge # "refunded"
        BY <2>1, <3>1, <3>3 DEF StoryOf, Idle
      <4> QED
        BY <2>2, <3>1, <4>1, FS_EmptySet, SMTT(30)
    <3> QED
      BY <3>2, <3>3
  <2> QED
    BY <2>2, <2>3, <2>4
<1>3. Repeats => IInv /\ DecidedRight
  BY DEF Repeats
<1> QED
  BY RepeatsInit, RepeatsPreserved, StoriesPreserved, <1>1, <1>2, <1>3, PTL DEF Spec

=============================================================================
