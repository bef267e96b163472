-------------------- MODULE PaymentReconciliationProofs --------------------
(***************************************************************************)
(* Proofs about the three jobs of job-runner.ts.  PaymentReconciliation is *)
(* extended; Outbox and RecurringPickups follow as instances, Box and      *)
(* Days, in the second and the third part.                                 *)
(*                                                                         *)
(* Top-ups, for any number of them, of request handlers, of reconciliation *)
(* passes and of faults: IInv is inductive, and the safety properties,     *)
(* SettledStays and the refinement of TopUpPromise all rest on it.         *)
(***************************************************************************)
EXTENDS PaymentReconciliation, Integers, Sequences, SequenceTheorems, WellFoundedInduction, TLAPS

LEMMA IntentDocuments ==
  /\ Absent \in Intent
  /\ \A doc \in Intent, m \in MethodOrNone :
       /\ [status |-> "reconciled", method |-> m] \in Intent
       /\ [doc EXCEPT !.status = "reconciled"] \in Intent
       /\ [doc EXCEPT !.status = "failed"] \in Intent
  /\ [status |-> "pending", method |-> "none"] \in Intent
BY DEF Intent, Absent, MethodOrNone

LEMMA InitInvariant == Init => IInv
<1> SUFFICES ASSUME Init PROVE IInv
  OBVIOUS
<1> USE DEF Init
<1>1. TypeOK
  BY IntentDocuments, FaultsAreFinite
  DEF TypeOK, TablesOK, LocalsOK, Labels, NothingSeen, MethodOrNone
<1>2. KeysAreCredits
  BY DEF KeysAreCredits
<1>3. WorkersAreRight /\ RecordedByOne
  BY DEF WorkersAreRight, RecordedByOne, Crediting, Settling
<1>4. StatusIsEarned /\ UnknownIsAbsent
  BY DEF StatusIsEarned, UnknownIsAbsent, Absent
<1> QED
  BY <1>1, <1>2, <1>3, <1>4 DEF IInv

---------------------------------------------------------------------------
(* Types.  A step changes the locals of one worker, by Goto, by Return or   *)
(* by starting something, and at most one document.                         *)

LEMMA GotoTypes ==
  ASSUME LocalsOK, NEW w \in Workers, NEW label \in Labels, Goto(w, label)
  PROVE  LocalsOK'
BY DEF LocalsOK, Goto

LEMMA ReturnTypes ==
  ASSUME LocalsOK, NEW w \in Workers, Return(w)
  PROVE  LocalsOK'
BY IntentDocuments DEF LocalsOK, Return, Labels, NothingSeen, MethodOrNone

LEMMA WriteTypes ==
  ASSUME intents \in [TopUps -> Intent], NEW t, NEW doc \in Intent, WriteIntent(t, doc)
  PROVE  intents' \in [TopUps -> Intent]
BY DEF WriteIntent

LEMMA PostTypes ==
  ASSUME keys \in SUBSET TopUps, ledger \in [TopUps -> Nat], NEW t \in TopUps,
         PostOnce(t) \/ AlreadyPosted(t)
  PROVE  keys' \in SUBSET TopUps /\ ledger' \in [TopUps -> Nat]
BY DEF PostOnce, AlreadyPosted

LEMMA TypesPreserved == IInv /\ [Next]_vars => TypeOK'
<1> SUFFICES ASSUME TablesOK, LocalsOK, WorkersAreRight, [Next]_vars PROVE TypeOK'
  BY DEF IInv, TypeOK
<1> USE DEF TypeOK
<1> DEFINE OnlyTables == UNCHANGED <<pc, of, seen, said, todo>>
           OnlyLocals == UNCHANGED <<gateway, intents, keys, ledger, faults>>
<1>a. OnlyTables => LocalsOK'
  BY DEF LocalsOK
<1>b. OnlyLocals => TablesOK'
  BY DEF TablesOK
<1>1. ASSUME NEW t \in TopUps, Pay(t) \/ Decline(t) PROVE TypeOK'
  BY <1>1, <1>a DEF Pay, Decline, Resolve, TablesOK
<1>2. ASSUME NEW h \in Handlers, Request(h) PROVE TypeOK'
  <2> h \in Workers
    BY DEF Workers
  <2>1. ASSUME NEW t \in TopUps, StartTopUp(h, t) PROVE TypeOK'
    BY <2>1 DEF StartTopUp, TablesOK, LocalsOK, Labels
  <2>2. ASSUME NEW t \in TopUps, NEW m \in MethodOrNone, Webhook(h, t, m) PROVE TypeOK'
    BY <2>2 DEF Webhook, TablesOK, LocalsOK, Labels
  <2> QED
    BY <1>2, <2>1, <2>2 DEF Request
<1>3. ASSUME NEW h \in Handlers, HandlerStep(h) PROVE TypeOK'
  <2> h \in Workers
    BY DEF Workers
  <2>1. CASE RecordIntent(h)
    <3>1. LocalsOK'
      BY <2>1, ReturnTypes DEF RecordIntent
    <3>2. TablesOK'
      BY <2>1, WriteTypes, IntentDocuments DEF RecordIntent, TablesOK
    <3> QED
      BY <3>1, <3>2
  <2>2. CASE WebhookCredit(h)
    <3>1. LocalsOK'
      BY <2>2, GotoTypes, ReturnTypes DEF WebhookCredit, Labels
    <3>2. of[h] \in TopUps /\ (PostOnce(of[h]) \/ AlreadyPosted(of[h]))
      BY <2>2 DEF WebhookCredit, WorkersAreRight, Crediting
    <3>3. TablesOK'
      BY <2>2, <3>2, PostTypes DEF WebhookCredit, TablesOK
    <3> QED
      BY <3>1, <3>3
  <2>3. CASE WebhookSettle(h)
    <3>1. LocalsOK'
      BY <2>3, ReturnTypes DEF WebhookSettle
    <3>2. of[h] \in TopUps
      BY <2>3 DEF WebhookSettle, WorkersAreRight, Crediting
    <3>3. seen[h][of[h]].method \in MethodOrNone /\ said[h] \in MethodOrNone
      BY <3>2 DEF LocalsOK, Intent
    <3>4. [status |-> "reconciled",
           method |-> IF said[h] # "none" THEN said[h] ELSE seen[h][of[h]].method] \in Intent
      BY <3>3, IntentDocuments, Zenon DEF Intent
    <3>5. TablesOK'
      BY <2>3, <3>4, WriteTypes DEF WebhookSettle, TablesOK
    <3> QED
      BY <3>1, <3>5
  <2> QED
    BY <1>3, <2>1, <2>2, <2>3 DEF HandlerStep
<1>4. ASSUME NEW p \in Passes, PassStart(p) \/ PassStep(p) PROVE TypeOK'
  <2> p \in Workers
    BY DEF Workers
  <2>1. CASE PassStart(p)
    BY <2>1 DEF PassStart, TablesOK, LocalsOK, Labels
  <2>2. ASSUME NEW t \in TopUps, PassAsk(p, t) PROVE TypeOK'
    <3>1. AfterAnswer(gateway[t]) \in Labels
      BY DEF AfterAnswer, Labels
    <3> QED
      BY <2>2, <3>1 DEF PassAsk, TablesOK, LocalsOK
  <2>3. ASSUME NEW t \in TopUps, PassReject(p, t) PROVE TypeOK'
    <3>1. LocalsOK'
      BY <2>3, ReturnTypes DEF PassReject
    <3>2. TablesOK'
      BY <2>3, FaultsAreFinite DEF PassReject, TablesOK
    <3> QED
      BY <3>1, <3>2
  <2>4. CASE PassEnd(p)
    BY <2>4, <1>b, ReturnTypes DEF PassEnd
  <2>5. CASE PassCredit(p)
    <3>1. LocalsOK'
      BY <2>5, GotoTypes DEF PassCredit, Labels
    <3>2. of[p] \in TopUps
      BY <2>5 DEF PassCredit, WorkersAreRight, Crediting
    <3>3. TablesOK'
      BY <2>5, <3>2, PostTypes DEF PassCredit, TablesOK
    <3> QED
      BY <3>1, <3>3
  <2>6. CASE PassSettle(p) \/ PassFail(p)
    <3>1. LocalsOK'
      BY <2>6, GotoTypes DEF PassSettle, PassFail, Labels
    <3>2. of[p] \in TopUps
      BY <2>6 DEF PassSettle, PassFail, WorkersAreRight, Crediting
    <3>3. seen[p][of[p]] \in Intent
      BY <3>2 DEF LocalsOK
    <3>4. /\ [seen[p][of[p]] EXCEPT !.status = "reconciled"] \in Intent
          /\ [seen[p][of[p]] EXCEPT !.status = "failed"] \in Intent
      BY <3>3, IntentDocuments, "none" \in MethodOrNone DEF MethodOrNone
    <3>5. intents' \in [TopUps -> Intent]
      <4>1. CASE PassSettle(p)
        BY <4>1, <3>4, WriteTypes DEF PassSettle, TablesOK
      <4>2. CASE PassFail(p)
        BY <4>2, <3>4, WriteTypes DEF PassFail, TablesOK
      <4> QED
        BY <2>6, <4>1, <4>2
    <3>6. TablesOK'
      BY <2>6, <3>5 DEF PassSettle, PassFail, TablesOK
    <3> QED
      BY <3>1, <3>6
  <2> QED
    BY <1>4, <2>1, <2>2, <2>3, <2>4, <2>5, <2>6 DEF PassStep, PassLook
<1>5. CASE Restart
  BY <1>5, IntentDocuments, FaultsAreFinite
  DEF Restart, TablesOK, LocalsOK, Labels, NothingSeen, MethodOrNone
<1>6. CASE UNCHANGED vars
  BY <1>6, <1>a, <1>b DEF vars
<1> QED
  BY <1>1, <1>2, <1>3, <1>4, <1>5, <1>6 DEF Next

---------------------------------------------------------------------------
(* The other parts.  Only the steps that write the state a part speaks of   *)
(* can disturb it.                                                          *)

LEMMA KeysPreserved == IInv /\ [Next]_vars => KeysAreCredits'
<1> SUFFICES ASSUME IInv, [Next]_vars PROVE KeysAreCredits'
  OBVIOUS
<1> USE DEF IInv, TypeOK, TablesOK, KeysAreCredits
<1>1. ASSUME NEW t \in TopUps, Pay(t) \/ Decline(t) PROVE KeysAreCredits'
  BY <1>1 DEF Pay, Decline, Resolve, Payable
<1>2. ASSUME NEW h \in Handlers, Request(h) PROVE KeysAreCredits'
  BY <1>2 DEF Request, StartTopUp, Webhook
<1>3. ASSUME NEW w \in Workers, pc[w] \in Crediting, UNCHANGED gateway,
             PostOnce(of[w]) \/ AlreadyPosted(of[w])
      PROVE  KeysAreCredits'
  BY <1>3 DEF WorkersAreRight, PostOnce, AlreadyPosted
<1>4. ASSUME NEW h \in Handlers, HandlerStep(h) PROVE KeysAreCredits'
  <2>1. CASE RecordIntent(h) \/ WebhookSettle(h)
    BY <2>1 DEF RecordIntent, WebhookSettle
  <2>2. CASE WebhookCredit(h)
    BY <2>2, <1>3 DEF WebhookCredit, Workers, Crediting
  <2> QED
    BY <1>4, <2>1, <2>2 DEF HandlerStep
<1>5. ASSUME NEW p \in Passes, PassStart(p) \/ PassStep(p) PROVE KeysAreCredits'
  <2>1. CASE PassStart(p) \/ PassLook(p) \/ PassSettle(p) \/ PassFail(p)
    BY <2>1 DEF PassStart, PassLook, PassAsk, PassReject, PassEnd, PassSettle, PassFail
  <2>2. CASE PassCredit(p)
    BY <2>2, <1>3 DEF PassCredit, Workers, Crediting
  <2> QED
    BY <1>5, <2>1, <2>2 DEF PassStep
<1>6. CASE Restart \/ UNCHANGED vars
  BY <1>6 DEF Restart, vars
<1> QED
  BY <1>1, <1>2, <1>4, <1>5, <1>6 DEF Next

LEMMA StatusPreserved == IInv /\ [Next]_vars => (StatusIsEarned /\ UnknownIsAbsent)'
<1> SUFFICES ASSUME IInv, [Next]_vars PROVE (StatusIsEarned /\ UnknownIsAbsent)'
  OBVIOUS
<1> USE DEF IInv, TypeOK, TablesOK, StatusIsEarned, UnknownIsAbsent
<1>1. ASSUME NEW t \in TopUps, Pay(t) \/ Decline(t)
      PROVE  (StatusIsEarned /\ UnknownIsAbsent)'
  BY <1>1 DEF Pay, Decline, Resolve, Payable
<1>2. ASSUME NEW h \in Handlers, Request(h) PROVE (StatusIsEarned /\ UnknownIsAbsent)'
  BY <1>2 DEF Request, StartTopUp, Webhook
<1>3. ASSUME NEW h \in Handlers, HandlerStep(h) PROVE (StatusIsEarned /\ UnknownIsAbsent)'
  <2> h \in Workers
    BY DEF Workers
  <2>1. CASE RecordIntent(h)
    BY <2>1 DEF RecordIntent, WriteIntent, WorkersAreRight, Intent
  <2>2. CASE WebhookCredit(h)
    BY <2>2 DEF WebhookCredit, PostOnce, AlreadyPosted
  <2>3. CASE WebhookSettle(h)
    BY <2>3 DEF WebhookSettle, WriteIntent, WorkersAreRight, Crediting, Settling, Intent
  <2> QED
    BY <1>3, <2>1, <2>2, <2>3 DEF HandlerStep
<1>4. ASSUME NEW p \in Passes, PassStart(p) \/ PassStep(p)
      PROVE  (StatusIsEarned /\ UnknownIsAbsent)'
  <2> p \in Workers
    BY DEF Workers
  <2>1. CASE PassStart(p) \/ PassLook(p)
    BY <2>1 DEF PassStart, PassLook, PassAsk, PassReject, PassEnd
  <2>2. CASE PassCredit(p)
    BY <2>2 DEF PassCredit, PostOnce, AlreadyPosted
  <2>3. CASE PassSettle(p)
    <3>1. of[p] \in TopUps /\ of[p] \in keys /\ gateway[of[p]] = "paid"
      BY <2>3 DEF PassSettle, WorkersAreRight, Crediting, Settling
    <3>2. intents'[of[p]].status = "reconciled"
      BY <2>3, <3>1 DEF PassSettle, WriteIntent, LocalsOK, Intent
    <3> QED
      BY <2>3, <3>1, <3>2 DEF PassSettle, WriteIntent
  <2>4. CASE PassFail(p)
    <3>1. of[p] \in TopUps /\ gateway[of[p]] = "failed"
      BY <2>4 DEF PassFail, WorkersAreRight
    <3>2. intents'[of[p]].status = "failed"
      BY <2>4, <3>1 DEF PassFail, WriteIntent, LocalsOK, Intent
    <3> QED
      BY <2>4, <3>1, <3>2 DEF PassFail, WriteIntent
  <2> QED
    BY <1>4, <2>1, <2>2, <2>3, <2>4 DEF PassStep
<1>5. CASE Restart \/ UNCHANGED vars
  BY <1>5 DEF Restart, vars
<1> QED
  BY <1>1, <1>2, <1>3, <1>4, <1>5 DEF Next

\* A step changes the locals of one worker only, and what the others rely on is not
\* taken from them: keys are never given back, "paid" and "failed" are final, and
\* an intent leaves "absent" only by the hand of the worker that records it.
LEMMA WorkersPreserved == IInv /\ [Next]_vars => (WorkersAreRight /\ RecordedByOne)'
<1> SUFFICES ASSUME IInv, [Next]_vars PROVE (WorkersAreRight /\ RecordedByOne)'
  OBVIOUS
<1> USE DEF IInv, TypeOK, TablesOK, LocalsOK, WorkersAreRight, RecordedByOne,
            Crediting, Settling
<1>1. ASSUME NEW t \in TopUps, Pay(t) \/ Decline(t)
      PROVE  (WorkersAreRight /\ RecordedByOne)'
  BY <1>1 DEF Pay, Decline, Resolve, Payable
<1>2. ASSUME NEW h \in Handlers, Request(h) PROVE (WorkersAreRight /\ RecordedByOne)'
  <2> h \in Workers
    BY DEF Workers
  <2>1. ASSUME NEW t \in TopUps, StartTopUp(h, t)
        PROVE  (WorkersAreRight /\ RecordedByOne)'
    BY <2>1 DEF StartTopUp, UnknownIsAbsent
  <2>2. ASSUME NEW t \in TopUps, NEW m \in MethodOrNone, Webhook(h, t, m)
        PROVE  (WorkersAreRight /\ RecordedByOne)'
    BY <2>2 DEF Webhook
  <2> QED
    BY <1>2, <2>1, <2>2 DEF Request
<1>3. ASSUME NEW h \in Handlers, HandlerStep(h) PROVE (WorkersAreRight /\ RecordedByOne)'
  <2> h \in Workers
    BY DEF Workers
  <2>1. CASE RecordIntent(h)
    BY <2>1 DEF RecordIntent, WriteIntent, Return
  <2>2. CASE WebhookCredit(h)
    <3>1. CASE PostOnce(of[h]) /\ Goto(h, "settle")
      BY <2>2, <3>1 DEF WebhookCredit, PostOnce, Goto
    <3>2. CASE AlreadyPosted(of[h]) /\ Return(h)
      BY <2>2, <3>2 DEF WebhookCredit, AlreadyPosted, Return
    <3> QED
      BY <2>2, <3>1, <3>2 DEF WebhookCredit
  <2>3. CASE WebhookSettle(h)
    BY <2>3 DEF WebhookSettle, WriteIntent, Return
  <2> QED
    BY <1>3, <2>1, <2>2, <2>3 DEF HandlerStep
<1>4. ASSUME NEW p \in Passes, PassStart(p) \/ PassStep(p)
      PROVE  (WorkersAreRight /\ RecordedByOne)'
  <2> p \in Workers
    BY DEF Workers
  <2>1. CASE PassStart(p)
    BY <2>1 DEF PassStart
  <2>2. ASSUME NEW t \in TopUps, PassAsk(p, t) PROVE (WorkersAreRight /\ RecordedByOne)'
    BY <2>2 DEF PassAsk, AfterAnswer
  <2>3. ASSUME NEW t \in TopUps, PassReject(p, t) PROVE (WorkersAreRight /\ RecordedByOne)'
    BY <2>3 DEF PassReject, Return
  <2>4. CASE PassEnd(p)
    BY <2>4 DEF PassEnd, Return
  <2>5. CASE PassCredit(p)
    BY <2>5 DEF PassCredit, PostOnce, AlreadyPosted, Goto
  <2>6. CASE PassSettle(p)
    BY <2>6 DEF PassSettle, WriteIntent, Goto
  <2>7. CASE PassFail(p)
    BY <2>7 DEF PassFail, WriteIntent, Goto
  <2> QED
    BY <1>4, <2>1, <2>2, <2>3, <2>4, <2>5, <2>6, <2>7 DEF PassStep, PassLook
<1>5. CASE Restart
  BY <1>5 DEF Restart
<1>6. CASE UNCHANGED vars
  BY <1>6 DEF vars
<1> QED
  BY <1>1, <1>2, <1>3, <1>4, <1>5, <1>6 DEF Next

---------------------------------------------------------------------------
(* Theorems *)

\* The tables, the keys and the locals of the workers fit together in every state.
THEOREM Invariance == Spec => []IInv
<1>1. IInv /\ [Next]_vars => IInv'
  BY TypesPreserved, KeysPreserved, WorkersPreserved, StatusPreserved DEF IInv
<1> QED
  BY InitInvariant, <1>1, PTL DEF Spec

\* Type correctness of the tables and of the handlers' local variables.
THEOREM TypeCorrectness == Spec => []TypeOK
<1>1. IInv => TypeOK
  BY DEF IInv
<1> QED
  BY Invariance, <1>1, PTL

\* postOnce keeps handleWebhook and runOnce from both crediting one top-up, whatever
\* the number of retries, passes and restarts.
THEOREM NoDoubleCredit == Spec => []CreditedOnce
<1>1. ASSUME IInv, NEW t \in TopUps PROVE ledger[t] <= 1
  <2>1. ledger[t] = 0 \/ ledger[t] = 1
    BY <1>1 DEF IInv, KeysAreCredits
  <2> QED
    BY <2>1
<1>2. IInv => CreditedOnce
  BY <1>1 DEF CreditedOnce
<1> QED
  BY Invariance, <1>2, PTL

\* No path of the code credits an order the gateway was not paid for.
THEOREM NoUnpaidCredit == Spec => []CreditedOnlyIfPaid
<1>1. IInv => CreditedOnlyIfPaid
  BY DEF IInv, KeysAreCredits, CreditedOnlyIfPaid
<1> QED
  BY Invariance, <1>1, PTL

\* The status the revenue report counts by agrees with the ledger.
THEOREM StatusIsTrue == Spec => []StatusMatchesLedger
<1>1. IInv => StatusMatchesLedger
  BY DEF IInv, KeysAreCredits, StatusIsEarned, StatusMatchesLedger
<1> QED
  BY Invariance, <1>1, PTL

\* A stale read never undoes a settlement: RecordIntent writes only over "absent",
\* and "reconciled" and "failed" exclude each other through the gateway's answer.
THEOREM SettlementIsFinal == Spec => SettledStays
<1> DEFINE Stays ==
      \A t \in TopUps :
        intents[t].status \in {"reconciled", "failed"} =>
          intents'[t].status = intents[t].status
<1>1. ASSUME IInv, [Next]_vars PROVE Stays
  <2> SUFFICES ASSUME NEW t \in TopUps, intents[t].status \in {"reconciled", "failed"},
                      intents'[t].status # intents[t].status
               PROVE  FALSE
    OBVIOUS
  <2> USE <1>1 DEF IInv, TypeOK, TablesOK, StatusIsEarned
  <2>1. PICK w \in Workers :
          \/ RecordIntent(w) \/ WebhookSettle(w) \/ PassSettle(w) \/ PassFail(w)
    BY DEF Next, Pay, Decline, Resolve, Request, StartTopUp, Webhook, HandlerStep,
           WebhookCredit, PassStart, PassStep, PassLook, PassAsk, PassReject, PassEnd,
           PassCredit, Restart, vars, Workers
  <2>2. of[w] = t
    BY <2>1 DEF RecordIntent, WebhookSettle, PassSettle, PassFail, WriteIntent
  <2>3. CASE RecordIntent(w)
    BY <2>2, <2>3 DEF RecordIntent, WorkersAreRight
  <2>4. CASE WebhookSettle(w) \/ PassSettle(w)
    <3>1. t \in keys /\ gateway[t] = "paid"
      BY <2>2, <2>4 DEF WebhookSettle, PassSettle, WorkersAreRight, Crediting, Settling
    <3>2. intents[t].status = "reconciled"
      BY <3>1
    <3>3. intents'[t].status = "reconciled"
      BY <2>2, <2>4 DEF WebhookSettle, PassSettle, WriteIntent, LocalsOK, Intent
    <3> QED
      BY <3>2, <3>3
  <2>5. CASE PassFail(w)
    <3>1. gateway[t] = "failed"
      BY <2>2, <2>5 DEF PassFail, WorkersAreRight
    <3>2. intents[t].status = "failed"
      BY <3>1 DEF KeysAreCredits
    <3>3. intents'[t].status = "failed"
      BY <2>2, <2>5 DEF PassFail, WriteIntent, LocalsOK, Intent
    <3> QED
      BY <3>2, <3>3
  <2> QED
    BY <2>1, <2>3, <2>4, <2>5
<1>2. IInv /\ [Next]_vars => [Stays]_vars
  BY <1>1
<1> QED
  BY Invariance, <1>2, PTL DEF Spec, SettledStays

---------------------------------------------------------------------------
(* Refinement *)

LEMMA StepKeepsPromise ==
  ASSUME IInv, IInv', [Next]_vars
  PROVE  [Promise!Next]_Promise!vars
<1> USE DEF IInv, TypeOK, TablesOK, Promise!vars
<1> DEFINE paid == {t \in TopUps : gateway[t] = "paid"}
<1>1. ASSUME NEW t \in TopUps, Pay(t) PROVE Promise!Pay(t)
  BY <1>1 DEF Pay, Resolve, Promise!Pay
<1>2. ASSUME NEW t \in TopUps, Decline(t) PROVE UNCHANGED <<paid, ledger>>
  BY <1>2 DEF Decline, Resolve, Payable
<1>3. ASSUME NEW h \in Handlers, NEW t \in TopUps, StartTopUp(h, t)
      PROVE  UNCHANGED <<paid, ledger>>
  BY <1>3 DEF StartTopUp
<1>4. ASSUME NEW w \in Workers, pc[w] \in Crediting, UNCHANGED gateway, PostOnce(of[w])
      PROVE  Promise!Credit(of[w]) /\ of[w] \in TopUps
  BY <1>4 DEF PostOnce, WorkersAreRight, KeysAreCredits, Promise!Credit
<1>5. ASSUME NEW h \in Handlers, WebhookCredit(h)
      PROVE  UNCHANGED <<paid, ledger>> \/ Promise!Next
  BY <1>4, <1>5 DEF WebhookCredit, AlreadyPosted, Crediting, Workers, Promise!Next
<1>6. ASSUME NEW p \in Passes, PassCredit(p)
      PROVE  UNCHANGED <<paid, ledger>> \/ Promise!Next
  BY <1>4, <1>6 DEF PassCredit, AlreadyPosted, Crediting, Workers, Promise!Next
<1>7. CASE \/ \E h \in Handlers : RecordIntent(h) \/ WebhookSettle(h)
           \/ \E h \in Handlers, t \in TopUps, m \in MethodOrNone : Webhook(h, t, m)
           \/ \E p \in Passes : PassStart(p) \/ PassLook(p) \/ PassSettle(p) \/ PassFail(p)
           \/ Restart
           \/ UNCHANGED vars
  BY <1>7 DEF RecordIntent, WebhookSettle, Webhook, PassStart, PassLook, PassAsk,
              PassReject, PassEnd, PassSettle, PassFail, Restart, vars
<1> QED
  BY <1>1, <1>2, <1>3, <1>5, <1>6, <1>7
  DEF Next, Request, HandlerStep, PassStep, Promise!Next

\* handleWebhook, runOnce and postOnce implement the promise: every step is a payment,
\* the one credit of a paid top-up, or invisible.
THEOREM KeepsPromise == Spec => Promise!Safety
<1>1. Init => Promise!Init
  BY DEF Init, Promise!Init
<1>2. IInv /\ IInv' /\ [Next]_vars => [Promise!Next]_Promise!vars
  BY StepKeepsPromise
<1> QED
  BY Invariance, <1>1, <1>2, PTL DEF Spec, Promise!Safety

-----------------------------------------------------------------------------
(***************************************************************************)
(* The outbox.                                                             *)
(*                                                                         *)
(* For any number of events, passes and crashes, any batch and any lease,  *)
(* as long as a batch is delivered within its lease (Prompt), which is     *)
(* what the comment on OUTBOX_BATCH asks for.                              *)
(***************************************************************************)

CONSTANTS EventCount, Batch, Lease, Prompt, MaxCrashes

VARIABLES status, leased, sends, step, batch, current, outcome, crashes

Box == INSTANCE Outbox WITH pc <- step

\* What Outbox assumes of its constants.
BoxAssumed ==
  /\ EventCount \in Nat /\ {Batch, Lease} \subseteq Nat \ {0} /\ MaxCrashes \in Nat
  /\ Prompt \in BOOLEAN

LEMMA BoxBegins ==
  ASSUME BoxAssumed
  PROVE  Box!Init => Box!IInv
<1> SUFFICES ASSUME Box!Init PROVE Box!IInv
  OBVIOUS
<1> USE DEF Box!Init
<1>1. Box!TypeOK
  BY DEF BoxAssumed, Box!TypeOK, Box!Outcomes
<1>2. Box!HoldersAreRight /\ Box!HeldByOne /\ Box!TriesAreCounted
  BY DEF Box!HoldersAreRight, Box!HeldByOne, Box!TriesAreCounted
<1> QED
  BY <1>1, <1>2 DEF Box!IInv

LEMMA BoxKeepsTypes ==
  ASSUME BoxAssumed
  PROVE  Box!IInv /\ [Box!Next]_(Box!vars) => Box!TypeOK'
<1> SUFFICES ASSUME Box!TypeOK, Box!HoldersAreRight, [Box!Next]_(Box!vars) PROVE Box!TypeOK'
  BY DEF Box!IInv
<1> USE DEF Box!TypeOK
<1>1. ASSUME NEW e \in Box!Events, Box!Enqueue(e) PROVE Box!TypeOK'
  BY <1>1 DEF Box!Enqueue
<1>2. ASSUME NEW p \in Passes, Box!Claim(p) PROVE Box!TypeOK'
  <2>1. Box!Oldest \in SUBSET Box!Events
    BY DEF Box!Oldest, Box!Claimable
  <2> QED
    BY <1>2, <2>1 DEF BoxAssumed, Box!Claim
<1>3. ASSUME NEW p \in Passes, NEW e \in Box!Events, NEW result \in Box!Outcomes, Box!Deliver(p, e, result)
      PROVE  Box!TypeOK'
  BY <1>3 DEF Box!Deliver
<1>4. ASSUME NEW p \in Passes, Box!Mark(p) PROVE Box!TypeOK'
  BY <1>4 DEF Box!Mark, Box!StatusAfter
<1>5. ASSUME NEW p \in Passes, Box!EndPass(p) PROVE Box!TypeOK'
  BY <1>5 DEF Box!EndPass
<1>6. ASSUME NEW p \in Passes, Box!Crash(p) PROVE Box!TypeOK'
  BY <1>6 DEF BoxAssumed, Box!Crash
<1>7. CASE Box!Tick
  <2>1. \A n \in 0..Lease + 1 : n # 0 => n - 1 \in 0..Lease + 1
    BY DEF BoxAssumed
  <2>2. \A e \in Box!Events : (IF leased[e] = 0 THEN 0 ELSE leased[e] - 1) \in 0..Lease + 1
    BY <2>1 DEF BoxAssumed
  <2>3. leased' \in [Box!Events -> 0..Lease + 1]
    BY <1>7, <2>2 DEF Box!Tick
  <2> QED
    BY <1>7, <2>3 DEF Box!Tick
<1>8. CASE UNCHANGED Box!vars
  BY <1>8 DEF Box!vars
<1> QED
  BY <1>1, <1>2, <1>3, <1>4, <1>5, <1>6, <1>7, <1>8 DEF Box!Next, Box!Work

\* A claim takes only what no pass holds, because what is held is still leased.
LEMMA HoldersKept ==
  ASSUME BoxAssumed, Prompt
  PROVE  Box!IInv /\ [Box!Next]_(Box!vars) => (Box!HoldersAreRight /\ Box!HeldByOne)'
<1> SUFFICES ASSUME Box!IInv, [Box!Next]_(Box!vars) PROVE (Box!HoldersAreRight /\ Box!HeldByOne)'
  OBVIOUS
<1> USE DEF Box!IInv, Box!TypeOK, Box!HoldersAreRight, Box!HeldByOne
<1>1. ASSUME NEW e \in Box!Events, Box!Enqueue(e) PROVE (Box!HoldersAreRight /\ Box!HeldByOne)'
  BY <1>1 DEF Box!Enqueue
<1>2. ASSUME NEW p \in Passes, Box!Claim(p) PROVE (Box!HoldersAreRight /\ Box!HeldByOne)'
  <2>1. \A e \in Box!Oldest : e \in Box!Events /\ status[e] = "pending" /\ leased[e] = 0
    BY DEF Box!Oldest, Box!Claimable
  <2>2. \A q \in Passes : q # p => batch'[q] = batch[q] /\ batch[q] \intersect Box!Oldest = {}
    BY <1>2, <2>1 DEF Box!Claim
  <2>3. batch'[p] = Box!Oldest /\ step'[p] = "next"
    BY <1>2 DEF Box!Claim
  <2>4. Box!HeldByOne'
    BY <2>2, <2>3
  <2>5. \A e \in Box!Events : leased'[e] = leased[e] \/ leased'[e] = Lease + 1
    BY <1>2 DEF Box!Claim
  <2>6. \A e \in Box!Oldest : leased'[e] > 0
    BY <1>2, <2>1 DEF BoxAssumed, Box!Claim
  <2>7. Box!HoldersAreRight'
    <3> SUFFICES ASSUME NEW q \in Passes
                 PROVE  /\ \A e \in batch'[q] : status'[e] = "pending" /\ leased'[e] > 0
                        /\ step'[q] = "idle" => batch'[q] = {}
                        /\ step'[q] = "mark" => current'[q] \in batch'[q]
      OBVIOUS
    <3>1. CASE q = p
      BY <1>2, <2>1, <2>3, <2>6, <3>1 DEF Box!Claim
    <3>2. CASE q # p
      BY <1>2, <2>2, <2>5, <3>2 DEF BoxAssumed, Box!Claim
    <3> QED
      BY <3>1, <3>2
  <2> QED
    BY <2>4, <2>7
<1>3. ASSUME NEW p \in Passes, NEW e \in Box!Events, NEW result \in Box!Outcomes, Box!Deliver(p, e, result)
      PROVE  (Box!HoldersAreRight /\ Box!HeldByOne)'
  BY <1>3 DEF Box!Deliver
<1>4. ASSUME NEW p \in Passes, Box!Mark(p) PROVE (Box!HoldersAreRight /\ Box!HeldByOne)'
  BY <1>4 DEF Box!Mark
<1>5. ASSUME NEW p \in Passes, Box!EndPass(p) \/ Box!Crash(p) PROVE (Box!HoldersAreRight /\ Box!HeldByOne)'
  BY <1>5 DEF Box!EndPass, Box!Crash
<1>6. CASE Box!Tick
  <2>1. \A p \in Passes : \A e \in batch[p] : leased[e] > 1
    BY <1>6 DEF BoxAssumed, Box!Tick, Box!Overdue
  <2> QED
    BY <1>6, <2>1 DEF Box!Tick
<1>7. CASE UNCHANGED Box!vars
  BY <1>7 DEF Box!vars
<1> QED
  BY <1>1, <1>2, <1>3, <1>4, <1>5, <1>6, <1>7 DEF Box!Next, Box!Work

LEMMA TriesKept ==
  ASSUME BoxAssumed
  PROVE  Box!IInv /\ [Box!Next]_(Box!vars) => Box!TriesAreCounted'
<1> SUFFICES ASSUME Box!IInv, [Box!Next]_(Box!vars) PROVE Box!TriesAreCounted'
  OBVIOUS
<1> USE DEF Box!IInv, Box!TypeOK, Box!TriesAreCounted, Box!Tried
<1>1. ASSUME NEW e \in Box!Events, Box!Enqueue(e) PROVE Box!TriesAreCounted'
  BY <1>1 DEF Box!Enqueue
<1>2. ASSUME NEW p \in Passes, Box!Claim(p) \/ Box!EndPass(p) PROVE Box!TriesAreCounted'
  BY <1>2 DEF Box!Claim, Box!EndPass
<1>3. ASSUME NEW p \in Passes, NEW e \in Box!Events, NEW result \in Box!Outcomes, Box!Deliver(p, e, result)
      PROVE  Box!TriesAreCounted'
  <2>1. ~Box!Tried(e) /\ status[e] = "pending"
    BY <1>3 DEF Box!Deliver, Box!HoldersAreRight, Box!HeldByOne
  <2>2. sends[e] <= crashes
    BY <2>1
  <2>3. Box!Tried(e)'
    BY <1>3 DEF Box!Deliver
  <2>4. \A d \in Box!Events : d # e => sends'[d] = sends[d] /\ (Box!Tried(d) => Box!Tried(d)')
    BY <1>3 DEF Box!Deliver
  <2> QED
    BY <1>3, <2>2, <2>3, <2>4 DEF Box!Deliver
<1>4. ASSUME NEW p \in Passes, Box!Mark(p) PROVE Box!TriesAreCounted'
  BY <1>4 DEF Box!Mark, Box!StatusAfter, Box!HoldersAreRight
<1>5. ASSUME NEW p \in Passes, Box!Crash(p) PROVE Box!TriesAreCounted'
  BY <1>5 DEF Box!Crash
<1>6. CASE Box!Tick
  BY <1>6 DEF Box!Tick
<1>7. CASE UNCHANGED Box!vars
  BY <1>7 DEF Box!vars
<1> QED
  BY <1>1, <1>2, <1>3, <1>4, <1>5, <1>6, <1>7 DEF Box!Next, Box!Work

\* Passes, leases, deliveries and the event table fit together in every state.
THEOREM BoxInvariance == ASSUME BoxAssumed, Prompt PROVE Box!Spec => []Box!IInv
<1>1. Box!IInv /\ [Box!Next]_(Box!vars) => Box!IInv'
  BY BoxKeepsTypes, HoldersKept, TriesKept DEF Box!IInv
<1> QED
  BY BoxBegins, <1>1, PTL DEF Box!Spec

\* claimPending: two passes never work on the same event.
THEOREM Exclusion == ASSUME BoxAssumed, Prompt PROVE Box!Spec => []Box!HeldByOne
<1>1. Box!IInv => Box!HeldByOne
  BY DEF Box!IInv
<1> QED
  BY BoxInvariance, <1>1, PTL

\* Only a crash makes a notification go out again.
THEOREM RepeatsAreCrashes == ASSUME BoxAssumed, Prompt PROVE Box!Spec => []Box!RepeatsNeedACrash
<1>1. Box!IInv => Box!RepeatsNeedACrash
  BY DEF Box!IInv, Box!TriesAreCounted, Box!RepeatsNeedACrash
<1> QED
  BY BoxInvariance, <1>1, PTL

\* A handled event stays as it was marked: a pass marks only what it still holds.
THEOREM MarksAreFinal == ASSUME BoxAssumed, Prompt PROVE Box!Spec => Box!MarkedOnce
<1> DEFINE Stays ==
      \A e \in Box!Events : status[e] \in {"sent", "failed"} => status'[e] = status[e]
<1>1. ASSUME Box!IInv, [Box!Next]_(Box!vars) PROVE Stays
  <2> USE <1>1 DEF Box!IInv, Box!TypeOK
  <2>1. ASSUME NEW p \in Passes, Box!Mark(p) PROVE Stays
    BY <2>1 DEF Box!Mark, Box!HoldersAreRight
  <2>2. ASSUME NEW e \in Box!Events, Box!Enqueue(e) PROVE Stays
    BY <2>2 DEF Box!Enqueue
  <2> QED
    BY <2>1, <2>2 DEF Box!Next, Box!Work, Box!Claim, Box!Deliver, Box!EndPass, Box!Crash, Box!Tick, Box!vars
<1>2. Box!IInv /\ [Box!Next]_(Box!vars) => [Stays]_(Box!vars)
  BY <1>1
<1> QED
  BY BoxInvariance, <1>2, PTL DEF Box!Spec, Box!MarkedOnce

-----------------------------------------------------------------------------
(***************************************************************************)
(* The jobs of RecurringPickups.                                           *)
(*                                                                         *)
(* For any residents, schedules, slots, recurrences and number of workers: *)
(* generators that do not meet book nobody twice for a day (NeverTwice).   *)
(* What is looked at and what is written lie three store calls apart, so   *)
(* the invariant says what a generator knows on the way: as long as no two *)
(* met nobody else is at work beside it (Alone), and the day it is at was  *)
(* free and still is (DayIsFree).                                          *)
(*                                                                         *)
(* And a sweep misses no day (DaysAreCovered): with nobody beside it, a    *)
(* day it is done with stays as it left it (CoverInv).                     *)
(***************************************************************************)

CONSTANTS
  Residents, NoResident, Schedules, Owner, Offered, Allowance, Lapsed, LastSlot, Places, Kept,
  Week, WindowsADay, Horizon, Offset, Sweeps, Requests, MaxRequests, MaxTime

VARIABLES now, room, pickups, schedules, work, started, losses, calm

Days == INSTANCE RecurringPickups WITH faults <- losses

\* What RecurringPickups assumes of its constants.
Assumed ==
  /\ NoResident \notin Residents /\ Lapsed \subseteq Residents /\ Owner \in [Schedules -> Residents]
  /\ {Week, WindowsADay} \subseteq Nat \ {0}
  /\ {LastSlot, Horizon, Offset, MaxRequests, MaxFaults, MaxTime} \subseteq Nat
  /\ Places \in [Days!Slots -> Nat]
  /\ Passes \intersect Sweeps = {} /\ Requests \intersect (Passes \union Sweeps) = {}

People == Residents \union {NoResident}
Pickup == [who : People, slot : Days!Slots, live : BOOLEAN, recurring : BOOLEAN, by : Days!Workers]

\* The shape of what a worker goes through and holds; days and documents play no part.
IsItem(x) ==
  /\ x = [id |-> x.id, who |-> x.who, window |-> x.window, days |-> x.days, doc |-> x.doc]
  /\ x.who \in People

IsJob(x) ==
  /\ x = [pc |-> x.pc, at |-> x.at, todo |-> x.todo, item |-> x.item, left |-> x.left,
          slot |-> x.slot, recurring |-> x.recurring]
  /\ x.pc \in {"idle", "look", "pick", "reserve", "release", "put", "save", "edit"}
  /\ IsItem(x.item) /\ \A item \in x.todo : IsItem(item)
  /\ x.slot \in Days!Slots /\ x.recurring \in BOOLEAN

\* What each worker holds has the shape, and so has each pickup.
Shape ==
  /\ pickups \in Seq(Pickup)
  /\ work = [w \in Days!Workers |-> work[w]]
  /\ \A w \in Days!Workers : IsJob(work[w])
  /\ calm \in BOOLEAN

\* Until two met, a generator at work is the only worker that is.
Alone ==
  calm => \A w \in Days!Generators : Days!Busy(w) => \A v \in Days!Workers \ {w} : ~Days!Busy(v)

\* Until two met, the day a generator is about to book is not taken.
DayIsFree ==
  calm => \A w \in Days!Generators :
    /\ work[w].pc \in {"pick", "reserve", "put"} => ~Days!Taken(w, work[w].item.who, Days!Today(w))
    /\ work[w].pc \in {"reserve", "put"} => Days!Day(work[w].slot) = Days!Today(w)

\* Requests do not look, save or pick, generators do not edit.
Right ==
  /\ \A q \in Requests : work[q].pc \in {"idle", "reserve", "release", "put", "edit"}
  /\ \A w \in Days!Generators : work[w].pc # "edit"

DaysInv == Shape /\ Right /\ Alone /\ DayIsFree /\ Days!NeverTwice

-----------------------------------------------------------------------------
(* Records *)

LEMMA SlotZero ==
  ASSUME Assumed
  PROVE  0 \in Days!Slots
BY DEF Assumed, Days!Slots

LEMMA IdleIsJob ==
  ASSUME Assumed
  PROVE  IsJob(Days!Idle) /\ Days!Idle.pc = "idle" /\ IsItem(Days!NoItem)
BY SlotZero DEF IsJob, Days!Idle, Days!Job, IsItem, Days!NoItem, People

\* One worker goes on: what holds of all of them still does.
LEMMA OneMoves ==
  ASSUME Assumed, DaysInv, NEW w \in Days!Workers, NEW rec, IsJob(rec), Days!Goes(w, rec),
         calm' => calm /\ (Days!Busy(w) \/ ~Days!Meets(w)),
         w \in Requests => rec.pc \in {"idle", "reserve", "release", "put", "edit"},
         w \in Days!Generators => rec.pc # "edit"
  PROVE  /\ work' = [v \in Days!Workers |-> work'[v]] /\ \A v \in Days!Workers : IsJob(work'[v])
         /\ work'[w] = rec /\ \A v \in Days!Workers \ {w} : work'[v] = work[v]
         /\ Right' /\ Alone'
<1>1. /\ work' = [v \in Days!Workers |-> work'[v]]
      /\ work'[w] = rec /\ \A v \in Days!Workers \ {w} : work'[v] = work[v]
  BY DEF Days!Goes, DaysInv, Shape
<1>2. \A v \in Days!Workers : IsJob(work'[v])
  BY <1>1 DEF DaysInv, Shape
<1>3. Right'
  BY <1>1 DEF DaysInv, Right, Days!Generators, Days!Workers
<1>4. Alone'
  <2> SUFFICES ASSUME calm', NEW g \in Days!Generators, Days!Busy(g)', NEW v \in Days!Workers \ {g}
               PROVE  ~Days!Busy(v)'
    BY DEF Alone
  <2>1. g \in Days!Workers /\ calm
    BY DEF Days!Generators, Days!Workers
  <2>2. CASE g = w
    BY <1>1, <2>1, <2>2 DEF Days!Busy, DaysInv, Alone, Days!Meets
  <2>3. CASE g # w
    <3>1. Days!Busy(g)
      BY <1>1, <2>1, <2>3 DEF Days!Busy
    <3>2. Days!Busy(w)
      BY <2>1, <2>3, <3>1 DEF Days!Meets
    <3> QED
      BY <2>1, <2>3, <3>1, <3>2 DEF DaysInv, Alone
  <2> QED
    BY <2>2, <2>3
<1> QED
  BY <1>1, <1>2, <1>3, <1>4

\* One worker goes on and nobody's pickups change.
LEMMA OneGoesOn ==
  ASSUME Assumed, DaysInv, NEW w \in Days!Workers, NEW rec, IsJob(rec), Days!Goes(w, rec),
         pickups' = pickups,
         calm' \in BOOLEAN, calm' => calm /\ (Days!Busy(w) \/ ~Days!Meets(w)),
         w \in Requests => rec.pc \in {"idle", "reserve", "release", "put", "edit"},
         w \in Days!Generators => rec.pc # "edit",
         calm /\ w \in Days!Generators /\ rec.pc \in {"pick", "reserve", "put"} =>
           ~Days!Taken(w, rec.item.who, Days!First(rec.left)),
         calm /\ w \in Days!Generators /\ rec.pc \in {"reserve", "put"} => Days!Day(rec.slot) = Days!First(rec.left)
  PROVE  DaysInv'
<1>1. /\ work' = [v \in Days!Workers |-> work'[v]] /\ \A v \in Days!Workers : IsJob(work'[v])
      /\ work'[w] = rec /\ \A v \in Days!Workers \ {w} : work'[v] = work[v]
      /\ Right' /\ Alone'
  BY OneMoves
<1>2. Shape'
  BY <1>1 DEF DaysInv, Shape
<1>5. DayIsFree'
  <2> SUFFICES ASSUME calm', NEW g \in Days!Generators
               PROVE  /\ work'[g].pc \in {"pick", "reserve", "put"} =>
                           ~Days!Taken(g, work[g].item.who, Days!Today(g))'
                      /\ work'[g].pc \in {"reserve", "put"} => Days!Day(work'[g].slot) = Days!First(work'[g].left)
    BY DEF DayIsFree, Days!Today
  <2>1. g \in Days!Workers /\ calm
    BY DEF Days!Generators, Days!Workers
  <2>2. Days!Taken(g, work[g].item.who, Days!Today(g))' <=>
        Days!Taken(g, work'[g].item.who, Days!First(work'[g].left))
    BY DEF Days!Taken, Days!Today
  <2>3. CASE g = w
    BY <1>1, <2>1, <2>2, <2>3
  <2>4. CASE g # w
    BY <1>1, <2>1, <2>2, <2>4 DEF DaysInv, DayIsFree, Days!Today
  <2> QED
    BY <2>3, <2>4
<1>6. Days!NeverTwice'
  BY DEF DaysInv, Days!NeverTwice
<1> QED
  BY <1>1, <1>2, <1>5, <1>6 DEF DaysInv

\* A worker that is back where nothing is known of a day.
Rests(w) ==
  \E rec : /\ IsJob(rec) /\ Days!Goes(w, rec)
           /\ rec.pc \in {"idle", "look", "save"} /\ (w \in Requests => rec.pc = "idle")

LEMMA Resting ==
  ASSUME Assumed, DaysInv, NEW w \in Days!Workers, Rests(w), pickups' = pickups,
         calm' \in BOOLEAN, calm' => calm /\ (Days!Busy(w) \/ ~Days!Meets(w))
  PROVE  DaysInv'
<1> PICK rec : /\ IsJob(rec) /\ Days!Goes(w, rec)
               /\ rec.pc \in {"idle", "look", "save"} /\ (w \in Requests => rec.pc = "idle")
  BY DEF Rests
<1> QED
  BY OneGoesOn

LEMMA NextRests ==
  ASSUME Assumed, NEW w \in Days!Generators, NEW items, NEW at, \A item \in items : IsItem(item),
         Days!NextItem(w, items, at)
  PROVE  Rests(w)
<1> w \notin Requests
  BY DEF Assumed, Days!Generators
<1>1. CASE items = {} /\ Days!Goes(w, Days!Idle)
  BY <1>1, IdleIsJob DEF Rests
<1>2. CASE items # {}
  <2> PICK item \in items :
        Days!Goes(w, Days!Job(IF item.days # {} THEN "look" ELSE "save", at, items \ {item}, item, item.days))
    BY <1>2 DEF Days!NextItem
  <2> DEFINE rec == Days!Job(IF item.days # {} THEN "look" ELSE "save", at, items \ {item}, item, item.days)
  <2>1. IsJob(rec) /\ rec.pc \in {"look", "save"}
    BY SlotZero DEF IsJob, Days!Job
  <2> QED
    BY <2>1 DEF Rests
<1> QED
  BY <1>1, <1>2 DEF Days!NextItem

LEMMA SkipRests ==
  ASSUME Assumed, Shape, NEW w \in Days!Generators, Days!SkipDay(w)
  PROVE  Rests(w)
<1> w \notin Requests /\ w \in Days!Workers
  BY DEF Assumed, Days!Generators, Days!Workers
<1> IsJob(work[w])
  BY DEF Shape
<1> DEFINE left == work[w].left \ {Days!Today(w)}
<1>1. CASE left = {} /\ w \in Passes
  <2>1. Days!NextItem(w, work[w].todo, 0)
    BY <1>1 DEF Days!SkipDay, Days!Onward
  <2> QED
    BY <2>1, NextRests DEF IsJob
<1>2. CASE ~(left = {} /\ w \in Passes)
  <2> DEFINE rec == Days!Job(IF left # {} THEN "look" ELSE "save", work[w].at, work[w].todo, work[w].item, left)
  <2>1. Days!Goes(w, rec)
    BY <1>2 DEF Days!SkipDay, Days!Onward
  <2>2. IsJob(rec) /\ rec.pc \in {"look", "save"}
    BY SlotZero DEF IsJob, Days!Job
  <2> QED
    BY <2>1, <2>2 DEF Rests
<1> QED
  BY <1>1, <1>2

LEMMA RefusedRests ==
  ASSUME Assumed, Shape, NEW w \in Days!Workers, Days!Refused(w)
  PROVE  Rests(w)
<1>1. CASE w \in Sweeps
  BY <1>1, SkipRests DEF Days!Refused, Days!Generators
<1>2. CASE w \notin Sweeps
  BY <1>2, IdleIsJob DEF Days!Refused, Rests
<1> QED
  BY <1>1, <1>2

-----------------------------------------------------------------------------
(* The steps *)

LEMMA SavesKeep ==
  ASSUME Assumed, DaysInv, NEW w \in Days!Workers, Days!SweepSaves(w)
  PROVE  DaysInv'
<1>1. w \in Days!Generators /\ Days!Busy(w) /\ IsJob(work[w])
  BY DEF DaysInv, Right, Days!SweepSaves, Days!Generators, Days!Workers, Days!Busy, Shape
<1>2. Rests(w)
  BY <1>1, NextRests DEF Days!SweepSaves, IsJob
<1> QED
  BY <1>1, <1>2, Resting DEF Days!SweepSaves, DaysInv, Shape

LEMMA LookKeeps ==
  ASSUME Assumed, DaysInv, NEW w \in Days!Workers, Days!Look(w)
  PROVE  DaysInv'
<1>1. w \in Days!Generators /\ Days!Busy(w) /\ IsJob(work[w])
  BY DEF DaysInv, Right, Days!Look, Days!Generators, Days!Workers, Days!Busy, Shape
<1>2. CASE Days!Taken(w, work[w].item.who, Days!Today(w))
  <2>1. Rests(w)
    BY <1>1, <1>2, SkipRests DEF Days!Look, DaysInv
  <2> QED
    BY <1>1, <2>1, Resting DEF Days!Look, DaysInv, Shape
<1>3. CASE ~Days!Taken(w, work[w].item.who, Days!Today(w))
  <2> DEFINE rec == [work[w] EXCEPT !.pc = "pick"]
  <2>1. Days!Goes(w, rec)
    BY <1>3 DEF Days!Look
  <2>2. IsJob(rec) /\ rec.pc = "pick" /\ rec.item = work[w].item /\ rec.left = work[w].left
    BY <1>1 DEF IsJob
  <2>3. ~Days!Taken(w, rec.item.who, Days!First(rec.left))
    BY <1>3, <2>2 DEF Days!Today
  <2> HIDE DEF rec
  <2>4. w \notin Requests
    BY <1>1 DEF Assumed, Days!Generators
  <2> QED
    BY <1>1, <2>1, <2>2, <2>3, <2>4, OneGoesOn DEF Days!Look, DaysInv, Shape
<1> QED
  BY <1>2, <1>3

LEMMA PickKeeps ==
  ASSUME Assumed, DaysInv, NEW w \in Days!Workers, Days!Pick(w)
  PROVE  DaysInv'
<1>1. w \in Days!Generators /\ Days!Busy(w) /\ IsJob(work[w])
  BY DEF DaysInv, Right, Days!Pick, Days!Generators, Days!Workers, Days!Busy, Shape
<1>2. CASE Days!Choices(w) = {}
  <2>1. Rests(w)
    BY <1>1, <1>2, SkipRests DEF Days!Pick, DaysInv
  <2> QED
    BY <1>1, <2>1, Resting DEF Days!Pick, DaysInv, Shape
<1>3. CASE Days!Choices(w) # {}
  <2> DEFINE job == Days!Job("reserve", work[w].at, work[w].todo, work[w].item, work[w].left)
  <2> PICK slot \in Days!Choices(w) : Days!Goes(w, [job EXCEPT !.slot = slot])
    BY <1>3 DEF Days!Pick
  <2> DEFINE rec == [job EXCEPT !.slot = slot]
  <2>1. slot \in Days!Slots /\ Days!Day(slot) = Days!Today(w)
    BY DEF Days!Choices, Days!Bookable, Days!InWindow
  <2>0. IsJob(job) /\ job.pc = "reserve" /\ job.item = work[w].item /\ job.left = work[w].left
    BY <1>1, SlotZero DEF IsJob, Days!Job
  <2>5. Days!Goes(w, rec)
    OBVIOUS
  <2> HIDE DEF job
  <2>2. /\ IsJob(rec) /\ rec.pc = "reserve" /\ rec.slot = slot
        /\ rec.item = work[w].item /\ rec.left = work[w].left
    BY <2>0, <2>1 DEF IsJob
  <2>3. calm => ~Days!Taken(w, rec.item.who, Days!First(rec.left))
    BY <1>1, <2>2 DEF DaysInv, DayIsFree, Days!Today, Days!Pick
  <2>4. Days!Day(rec.slot) = Days!First(rec.left)
    BY <2>1, <2>2 DEF Days!Today
  <2> HIDE DEF rec
  <2>6. w \notin Requests
    BY <1>1 DEF Assumed, Days!Generators
  <2> QED
    BY <1>1, <2>2, <2>3, <2>4, <2>5, <2>6, OneGoesOn DEF Days!Pick, DaysInv, Shape
<1> QED
  BY <1>2, <1>3

LEMMA ReserveKeeps ==
  ASSUME Assumed, DaysInv, NEW w \in Days!Workers, Days!Reserve(w)
  PROVE  DaysInv'
<1>1. Days!Busy(w) /\ IsJob(work[w])
  BY DEF DaysInv, Days!Reserve, Days!Busy, Shape
<1>2. CASE room[work[w].slot] = 0
  <2>1. Rests(w)
    BY <1>2, RefusedRests DEF Days!Reserve, DaysInv
  <2> QED
    BY <1>1, <2>1, Resting DEF Days!Reserve, DaysInv, Shape
<1>3. CASE room[work[w].slot] # 0
  <2> DEFINE rec == [work[w] EXCEPT !.pc = IF Days!Admitted(w) THEN "put" ELSE "release"]
  <2>1. Days!Goes(w, rec)
    BY <1>3 DEF Days!Reserve
  <2>2. /\ IsJob(rec) /\ rec.pc \in {"put", "release"} /\ rec.slot = work[w].slot
        /\ rec.item = work[w].item /\ rec.left = work[w].left
    BY <1>1 DEF IsJob
  <2>3. calm /\ w \in Days!Generators =>
        ~Days!Taken(w, rec.item.who, Days!First(rec.left)) /\ Days!Day(rec.slot) = Days!First(rec.left)
    BY <2>2 DEF DaysInv, DayIsFree, Days!Today, Days!Reserve
  <2> HIDE DEF rec
  <2> QED
    BY <1>1, <2>1, <2>2, <2>3, OneGoesOn DEF Days!Reserve, DaysInv, Shape
<1> QED
  BY <1>2, <1>3

LEMMA ReleaseKeeps ==
  ASSUME Assumed, DaysInv, NEW w \in Days!Workers, Days!Release(w)
  PROVE  DaysInv'
<1>1. Rests(w) /\ Days!Busy(w)
  BY RefusedRests DEF Days!Release, DaysInv, Days!Busy
<1> QED
  BY <1>1, Resting DEF Days!Release, DaysInv, Shape

LEMMA PutKeeps ==
  ASSUME Assumed, DaysInv, NEW w \in Days!Workers, Days!Put(w)
  PROVE  DaysInv'
<1> DEFINE new == [who |-> work[w].item.who, slot |-> work[w].slot, live |-> TRUE,
                   recurring |-> work[w].recurring, by |-> w]
<1>1. /\ pickups' = Append(pickups, new) /\ calm' = calm
      /\ Days!Busy(w) /\ IsJob(work[w]) /\ pickups \in Seq(Pickup)
  BY DEF DaysInv, Days!Put, Days!Busy, Shape
<1>2. new \in Pickup
  BY <1>1 DEF IsJob, IsItem, Pickup
<1>3. Rests(w)
  <2>1. CASE w \in Requests
    BY <2>1, IdleIsJob DEF Days!Put, Rests
  <2>2. CASE w \notin Requests
    BY <2>2, SkipRests DEF Days!Put, DaysInv, Days!Generators, Days!Workers
  <2> QED
    BY <2>1, <2>2
<1> PICK rec : /\ IsJob(rec) /\ Days!Goes(w, rec)
               /\ rec.pc \in {"idle", "look", "save"} /\ (w \in Requests => rec.pc = "idle")
  BY <1>3 DEF Rests
<1>4. /\ work' = [v \in Days!Workers |-> work'[v]] /\ \A v \in Days!Workers : IsJob(work'[v])
      /\ work'[w] = rec /\ \A v \in Days!Workers \ {w} : work'[v] = work[v]
      /\ Right' /\ Alone'
  BY <1>1, OneMoves
<1>5. Shape'
  <2>1. pickups' \in Seq(Pickup)
    BY <1>1, <1>2, AppendProperties
  <2> QED
    BY <1>1, <1>4, <2>1 DEF DaysInv, Shape
\* Nobody is at work beside a generator, so no other is about to book.
<1>6. DayIsFree'
  <2> SUFFICES ASSUME calm', NEW g \in Days!Generators
               PROVE  work'[g].pc \notin {"pick", "reserve", "put"}
    BY DEF DayIsFree
  <2>1. CASE g = w
    BY <1>4, <2>1
  <2>2. CASE g # w
    <3>1. g \in Days!Workers /\ work'[g] = work[g]
      BY <1>4, <2>2 DEF Days!Generators, Days!Workers
    <3>2. ~Days!Busy(g)
      BY <1>1, <2>2, <3>1 DEF DaysInv, Alone
    <3> QED
      BY <3>1, <3>2 DEF Days!Busy
  <2> QED
    BY <2>1, <2>2
<1>7. Days!NeverTwice'
  <2> SUFFICES ASSUME calm, NEW i \in DOMAIN pickups', NEW j \in DOMAIN pickups', i < j,
                      pickups'[j].by \in Days!Generators, pickups'[i].who = pickups'[j].who,
                      Days!Day(pickups'[i].slot) = Days!Day(pickups'[j].slot)
               PROVE  pickups'[j].by \in Sweeps /\ ~(pickups'[i].live /\ pickups'[j].live)
    BY <1>1 DEF Days!NeverTwice, Days!Day
  <2> HIDE DEF new
  <2>1. /\ DOMAIN pickups = 1..Len(pickups) /\ DOMAIN pickups' = 1..(Len(pickups) + 1)
        /\ Len(pickups) \in Nat /\ pickups'[Len(pickups) + 1] = new
        /\ \A k \in DOMAIN pickups : pickups'[k] = pickups[k]
    BY <1>1, <1>2, AppendProperties, LenProperties
  <2>2. i \in DOMAIN pickups /\ pickups'[i] = pickups[i]
    BY <2>1
  <2>3. CASE j \in DOMAIN pickups
    <3>1. pickups'[j] = pickups[j]
      BY <2>1, <2>3
    <3> QED
      BY <2>2, <2>3, <3>1 DEF DaysInv, Days!NeverTwice
  <2>4. CASE j \notin DOMAIN pickups
    <3>1. pickups'[j] = new
      BY <2>1, <2>4
    <3>2. /\ w \in Days!Generators /\ pickups[i].who = work[w].item.who /\ new.by = w
          /\ Days!Day(pickups[i].slot) = Days!Day(work[w].slot)
      BY <2>2, <3>1 DEF new
    <3>3. Days!Day(work[w].slot) = Days!Today(w) /\ ~Days!Taken(w, work[w].item.who, Days!Today(w))
      BY <3>2 DEF DaysInv, DayIsFree, Days!Put
    <3>4. w \in Sweeps /\ ~pickups[i].live
      BY <2>2, <3>2, <3>3 DEF Days!Taken
    <3> QED
      BY <2>2, <3>1, <3>2, <3>4
  <2> QED
    BY <2>3, <2>4
<1> QED
  BY <1>4, <1>5, <1>6, <1>7 DEF DaysInv

LEMMA BeginsKeep ==
  ASSUME Assumed, DaysInv, NEW w \in Days!Workers, Days!PassBegins(w) \/ Days!SweepBegins(w)
  PROVE  DaysInv'
<1>1. /\ w \in Days!Generators /\ Rests(w) /\ pickups' = pickups
      /\ calm' = (calm /\ ~Days!Meets(w))
  <2>1. CASE Days!PassBegins(w)
    <3> DEFINE items == {Days!DueItem(i) : i \in {j \in DOMAIN pickups : Days!Due(pickups[j])}}
    <3>1. ASSUME NEW i \in DOMAIN pickups  PROVE  IsItem(Days!DueItem(i))
      <4>1. pickups[i] \in Pickup
        BY ElementOfSeq DEF DaysInv, Shape
      <4> QED
        BY <4>1 DEF Pickup, Days!DueItem, IsItem
    <3>2. \A item \in items : IsItem(item)
      BY <3>1
    <3>3. w \in Days!Generators /\ Days!NextItem(w, items, 0)
      BY <2>1 DEF Days!PassBegins, Days!Generators
    <3> QED
      BY <2>1, <3>2, <3>3, NextRests DEF Days!PassBegins, Days!Begin
  <2>2. CASE Days!SweepBegins(w)
    <3> DEFINE items == {Days!ActiveItem(s) : s \in {t \in Schedules : schedules[t].status = "active"}}
    <3>1. \A s \in Schedules : IsItem(Days!ActiveItem(s))
      BY DEF Assumed, Days!ActiveItem, IsItem, People
    <3>2. \A item \in items : IsItem(item)
      BY <3>1
    <3>3. w \in Days!Generators /\ Days!NextItem(w, items, now)
      BY <2>2 DEF Days!SweepBegins, Days!Generators
    <3> QED
      BY <2>2, <3>2, <3>3, NextRests DEF Days!SweepBegins, Days!Begin
  <2> QED
    BY <2>1, <2>2
<1> QED
  BY <1>1, Resting DEF DaysInv, Shape

LEMMA RequestsKeep ==
  ASSUME Assumed, DaysInv, NEW q \in Requests, NEW rec, IsJob(rec), rec.pc \in {"reserve", "edit"},
         Days!Request(q, rec), pickups' = pickups
  PROVE  DaysInv'
<1>1. q \in Days!Workers /\ q \notin Days!Generators
  BY DEF Assumed, Days!Workers, Days!Generators
<1> QED
  BY <1>1, OneGoesOn DEF Days!Request, Days!Begin, DaysInv, Shape

LEMMA BookKeeps ==
  ASSUME Assumed, DaysInv, NEW q \in Requests, NEW who \in Residents, NEW slot \in Days!Slots,
         NEW recurring \in BOOLEAN, Days!Book(q, who, slot, recurring)
  PROVE  DaysInv'
<1> DEFINE rec == [pc |-> "reserve", at |-> 0, todo |-> {}, item |-> [Days!NoItem EXCEPT !.who = who],
                   left |-> {}, slot |-> slot, recurring |-> recurring]
<1>1. IsItem([Days!NoItem EXCEPT !.who = who])
  BY DEF IsItem, Days!NoItem, People
<1>2. IsJob(rec) /\ rec.pc = "reserve"
  BY <1>1 DEF IsJob
<1>3. Days!Request(q, rec) /\ pickups' = pickups
  BY DEF Days!Book
<1> HIDE DEF rec
<1> QED
  BY <1>2, <1>3, RequestsKeep

LEMMA EditKeeps ==
  ASSUME Assumed, DaysInv, NEW q \in Requests, NEW s, NEW doc, Days!Edit(q, s, doc)
  PROVE  DaysInv'
<1> DEFINE item == [id |-> s, who |-> NoResident, window |-> 0, days |-> {}, doc |-> doc]
<1> DEFINE rec == Days!Job("edit", 0, {}, item, {})
<1>1. IsItem(item)
  BY DEF IsItem, People
<1>2. IsJob(rec) /\ rec.pc = "edit"
  BY <1>1, SlotZero DEF IsJob, Days!Job
<1>3. Days!Request(q, rec) /\ pickups' = pickups
  BY DEF Days!Edit
<1> HIDE DEF rec
<1> QED
  BY <1>2, <1>3, RequestsKeep

LEMMA EditPutKeeps ==
  ASSUME Assumed, DaysInv, NEW q \in Days!Workers, Days!EditPut(q)
  PROVE  DaysInv'
<1>1. Rests(q) /\ Days!Busy(q)
  BY IdleIsJob DEF Days!EditPut, Rests, Days!Busy
<1> QED
  BY <1>1, Resting DEF Days!EditPut, DaysInv, Shape

\* Nobody goes on; the pickups stay, or change while no generator is at work.
LEMMA CancelKeeps ==
  ASSUME Assumed, DaysInv, NEW i \in DOMAIN pickups, Days!Cancel(i)
  PROVE  DaysInv'
<1>1. /\ pickups' = [pickups EXCEPT ![i].live = FALSE] /\ work' = work
      /\ calm' = (calm /\ \A w \in Days!Generators : ~Days!Busy(w))
      /\ pickups \in Seq(Pickup)
  BY DEF Days!Cancel, DaysInv, Shape
<1>2. DOMAIN pickups' = DOMAIN pickups
  BY <1>1
<1>3. ASSUME NEW k \in DOMAIN pickups
      PROVE  /\ pickups'[k] \in Pickup /\ pickups'[k].who = pickups[k].who
             /\ pickups'[k].slot = pickups[k].slot /\ pickups'[k].by = pickups[k].by
             /\ pickups'[k].live => pickups[k].live
  <2>1. pickups[k] \in Pickup
    BY <1>1, ElementOfSeq
  <2>2. pickups'[k] = IF k = i THEN [pickups[k] EXCEPT !.live = FALSE] ELSE pickups[k]
    BY <1>1
  <2> QED
    BY <2>1, <2>2 DEF Pickup
<1>4. Shape'
  <2>1. [pickups[i] EXCEPT !.live = FALSE] \in Pickup
    BY <1>1, <1>3
  <2>2. pickups' \in Seq(Pickup)
    BY <1>1, <2>1, ExceptSeq
  <2> QED
    BY <1>1, <2>2 DEF DaysInv, Shape
<1>5. Right' /\ Alone'
  BY <1>1 DEF DaysInv, Right, Alone, Days!Busy
<1>6. DayIsFree'
  BY <1>1 DEF DayIsFree, Days!Busy
<1>7. Days!NeverTwice'
  <2> SUFFICES ASSUME calm, NEW j \in DOMAIN pickups, NEW k \in DOMAIN pickups, j < k,
                      pickups'[k].by \in Days!Generators, pickups'[j].who = pickups'[k].who,
                      Days!Day(pickups'[j].slot) = Days!Day(pickups'[k].slot)
               PROVE  pickups'[k].by \in Sweeps /\ ~(pickups'[j].live /\ pickups'[k].live)
    BY <1>1, <1>2 DEF Days!NeverTwice, Days!Day
  <2>1. /\ pickups[k].by \in Days!Generators /\ pickups[j].who = pickups[k].who
        /\ Days!Day(pickups[j].slot) = Days!Day(pickups[k].slot)
    BY <1>3
  <2> QED
    BY <1>3, <2>1 DEF DaysInv, Days!NeverTwice
<1> QED
  BY <1>4, <1>5, <1>6, <1>7 DEF DaysInv

LEMMA MoveKeeps ==
  ASSUME Assumed, DaysInv, NEW i \in DOMAIN pickups, NEW slot \in Days!Slots, Days!Move(i, slot)
  PROVE  DaysInv'
<1>1. pickups' = [pickups EXCEPT ![i].slot = slot] /\ work' = work /\ calm' = FALSE /\ pickups \in Seq(Pickup)
  BY DEF Days!Move, DaysInv, Shape
<1>2. Shape'
  <2>1. [pickups[i] EXCEPT !.slot = slot] \in Pickup
    <3>1. pickups[i] \in Pickup
      BY <1>1, ElementOfSeq
    <3> QED
      BY <3>1 DEF Pickup
  <2>2. pickups' \in Seq(Pickup)
    BY <1>1, <2>1, ExceptSeq
  <2> QED
    BY <1>1, <2>2 DEF DaysInv, Shape
<1> QED
  BY <1>1, <1>2 DEF DaysInv, Right, Alone, DayIsFree, Days!NeverTwice

\* Neither a worker nor a pickup changes, or every worker is gone.
LEMMA StillKeeps ==
  ASSUME Assumed, DaysInv, pickups' = pickups, calm' \in BOOLEAN, calm' => calm,
         work' = work \/ work' = [w \in Days!Workers |-> Days!Idle]
  PROVE  DaysInv'
<1>1. CASE work' = work
  BY <1>1 DEF DaysInv, Shape, Right, Alone, DayIsFree, Days!NeverTwice, Days!Busy, Days!Taken,
               Days!Today
<1>2. CASE work' = [w \in Days!Workers |-> Days!Idle]
  <2>1. \A w \in Days!Workers : work'[w] = Days!Idle
    BY <1>2
  <2>2. Requests \subseteq Days!Workers /\ Days!Generators \subseteq Days!Workers
    BY DEF Days!Workers, Days!Generators
  <2>3. Shape' /\ Right'
    BY <1>2, <2>1, <2>2, IdleIsJob DEF DaysInv, Shape, Right
  <2>4. Alone' /\ DayIsFree'
    BY <2>1, <2>2, IdleIsJob DEF Alone, DayIsFree, Days!Busy
  <2> QED
    BY <2>3, <2>4 DEF DaysInv, Days!NeverTwice
<1> QED
  BY <1>1, <1>2

LEMMA CreateKeeps ==
  ASSUME Assumed, DaysInv, NEW s \in Schedules, NEW r, NEW window, NEW start,
         Days!Create(s, r, window, start)
  PROVE  DaysInv'
BY StillKeeps DEF Days!Create, DaysInv, Shape

-----------------------------------------------------------------------------
(* The theorems *)

LEMMA InitHolds == ASSUME Assumed PROVE Days!Init => DaysInv
<1> SUFFICES ASSUME Days!Init  PROVE  DaysInv
  OBVIOUS
<1>1. \A w \in Days!Workers : work[w] = Days!Idle
  BY DEF Days!Init
<1>2. Requests \subseteq Days!Workers /\ Days!Generators \subseteq Days!Workers
  BY DEF Days!Workers, Days!Generators
<1>3. Shape /\ Right
  BY <1>1, <1>2, IdleIsJob DEF Days!Init, Shape, Right
<1>4. Alone /\ DayIsFree /\ Days!NeverTwice
  BY <1>1, <1>2, IdleIsJob DEF Days!Init, Alone, DayIsFree, Days!NeverTwice, Days!Busy
<1> QED
  BY <1>3, <1>4 DEF DaysInv

LEMMA StepKeeps == ASSUME Assumed PROVE DaysInv /\ [Days!Next]_(Days!vars) => DaysInv'
<1> SUFFICES ASSUME DaysInv, [Days!Next]_(Days!vars)  PROVE  DaysInv'
  OBVIOUS
<1>1. ASSUME NEW w \in Days!Workers, Days!PassBegins(w) \/ Days!SweepBegins(w) \/ Days!Step(w)
      PROVE  DaysInv'
  BY <1>1, BeginsKeep, SavesKeep, LookKeeps, PickKeeps, ReserveKeeps, ReleaseKeeps, PutKeeps,
     EditPutKeeps DEF Days!Step
<1>2. ASSUME Days!Resident  PROVE  DaysInv'
  <2>1. ASSUME NEW q \in Requests, NEW s \in Schedules, NEW r, NEW window, NEW state,
               Days!Update(q, s, r, window, state) \/ Days!Stop(q, s)
        PROVE  DaysInv'
    BY <2>1, EditKeeps DEF Days!Update, Days!Stop
  <2> QED
    BY <1>2, <2>1, BookKeeps, CancelKeeps, MoveKeeps, CreateKeeps DEF Days!Resident
<1>3. CASE Days!Tick
  BY <1>3, StillKeeps DEF Days!Tick, DaysInv, Shape
<1>4. CASE Days!Restart
  BY <1>4, StillKeeps DEF Days!Restart, DaysInv, Shape
<1>5. CASE UNCHANGED Days!vars
  BY <1>5, StillKeeps DEF Days!vars, DaysInv, Shape
<1> QED
  BY <1>1, <1>2, <1>3, <1>4, <1>5 DEF Days!Next

\* In every behaviour each worker has its shape, no other works beside a generator as long
\* as none met, and the day a generator is about to book is still free.
THEOREM JobsInvariance == ASSUME Assumed PROVE Days!Spec => []DaysInv
<1> QED
  BY InitHolds, StepKeeps, PTL DEF Days!Spec

\* Generators that do not meet book no resident twice for a day (recurring-service.ts:43,
\* schedule-service.ts:151): whatever is booked, cancelled or stopped by hand before, after
\* and between their runs, and wherever the server stops.
THEOREM NobodyTwice == ASSUME Assumed PROVE Days!Spec => []Days!NeverTwice
<1>1. DaysInv => Days!NeverTwice
  BY DEF DaysInv
<1> QED
  BY <1>1, JobsInvariance, PTL

-----------------------------------------------------------------------------
(* What a sweep has gone through (DaysAreCovered).  A sweep that met nobody  *)
(* is the only one to change a pickup or a place while it is at work, so a   *)
(* day it is done with stays as it left it, until time has passed.           *)

IsDoc(d) ==
  d = [status |-> d.status, r |-> d.r, window |-> d.window, start |-> d.start] /\ d.start \in Int

\* Every schedule starts on a day, stored or held by a worker.
HoldsDocs(rec) == IsDoc(rec.item.doc) /\ \A item \in rec.todo : IsDoc(item.doc)

Documents ==
  /\ schedules = [s \in Schedules |-> schedules[s]] /\ \A s \in Schedules : IsDoc(schedules[s])
  /\ \A w \in Days!Workers : HoldsDocs(work[w])

\* The slots of a day that can be booked, when these are the places left.
Free(day, rooms) == {slot \in Days!Slots : Days!Day(slot) = day /\ rooms[slot] > 0 /\ now < slot}

\* A day is seen to: collected on, full, or open only to subscribers.
SeenTo(who, day, rooms, picks) ==
  \/ \E i \in DOMAIN picks : picks[i].who = who /\ picks[i].live /\ Days!Day(picks[i].slot) = day
  \/ Free(day, rooms) = {}
  \/ who \in Lapsed /\ Free(day, rooms) \intersect Kept # {}

Planned(item, at) ==
  item.days = Days!Occurrences(item.doc, Days!Day(at), Days!Day(at) + Horizon)

\* A sweep goes through the days of its schedules that lay ahead when it began.
Sweeping(rec) ==
  /\ rec.at \in Nat /\ rec.at <= now
  /\ Planned(rec.item, rec.at) /\ \A item \in rec.todo : Planned(item, rec.at)
  /\ rec.left \subseteq rec.item.days
  /\ rec.left = {} <=> rec.pc = "save"

\* The days behind a sweep are seen to; the slot it has picked is one of the day it is at,
\* open, with a place until it is reserved, and given back only if it is not for everybody.
Learned(rec, rooms, picks) ==
  /\ \A day \in rec.item.days \ rec.left : SeenTo(rec.item.who, day, rooms, picks)
  /\ rec.pc \in {"reserve", "release", "put"} =>
       Days!Day(rec.slot) = Days!First(rec.left) /\ now < rec.slot
  /\ rec.pc = "reserve" => rooms[rec.slot] > 0
  /\ rec.pc = "release" => rec.slot \in Kept /\ rec.item.who \in Lapsed

SweepsLearn ==
  calm => \A w \in Sweeps :
    Days!Busy(w) /\ work[w].at = now => Learned(work[w], room, pickups)

CoverInv ==
  /\ now \in Nat /\ room \in [Days!Slots -> Nat] /\ Documents
  /\ \A w \in Sweeps : Days!Busy(w) => Sweeping(work[w])
  /\ SweepsLearn

LEMMA DaysAreNumbers ==
  ASSUME Assumed
  PROVE  /\ \A t \in Int : Days!Day(t) \in Int
         /\ Horizon \in Nat
BY DEF Assumed, Days!Day

\* occurrencesBetween gives days of the range it is asked for, and all that are wanted.
LEMMA OccurrencesLieAhead ==
  ASSUME NEW doc, IsDoc(doc), NEW from \in Int, NEW to \in Int
  PROVE  \A day \in Days!Occurrences(doc, from, to) : day \in Int /\ from <= day
BY DEF Days!Occurrences, Days!EveryOther, IsDoc

LEMMA WantedDaysOccur ==
  ASSUME Assumed, NEW doc, IsDoc(doc), NEW from \in Int, NEW to \in Int, NEW day \in from..to,
         Days!Wants(doc, day)
  PROVE  day \in Days!Occurrences(doc, from, to)
<1> DEFINE begin == IF from > doc.start THEN from ELSE doc.start
<1>1. day \in Int /\ doc.start \in Int /\ day \in begin..to
  BY DEF Days!Wants, IsDoc
<1>2. CASE doc.r.every = "one_time"
  BY <1>1, <1>2 DEF Days!Wants, Days!Occurrences
<1>3. CASE doc.r.every = "daily"
  BY <1>1, <1>3 DEF Days!Wants, Days!Occurrences
<1>4. CASE doc.r.every = "alternate_days"
  <2>1. PICK k \in 0..LastSlot : day = doc.start + 2 * k
    BY <1>4 DEF Days!Wants
  <2>2. k \in Int
    BY <2>1 DEF Assumed
  <2>3. (day - doc.start) % 2 = 0
    BY <1>1, <2>1, <2>2
  <2> QED
    BY <1>1, <1>4, <2>3 DEF Days!Occurrences, Days!EveryOther
<1>5. CASE doc.r.every \notin {"one_time", "daily", "alternate_days"}
  BY <1>1, <1>5 DEF Days!Wants, Days!Occurrences
<1> QED
  BY <1>2, <1>3, <1>4, <1>5

\* A set of natural numbers has a least element.
LEMMA LeastOf ==
  ASSUME NEW T \in SUBSET Nat, T # {}
  PROVE  \E n \in T : \A m \in T : n <= m
<1> DEFINE R == OpToRel(<, Nat)
<1>1. IsWellFoundedOn(R, Nat)
  BY NatLessThanWellFounded
<1>2. \A x, y \in Nat : y < x => <<y, x>> \in R
  BY DEF OpToRel
<1> HIDE DEF R
<1>3. PICK n \in T : \A m \in T : ~(<<m, n>> \in R)
  BY <1>1, WFMin
<1>4. \A m \in T : ~(m < n)
  BY <1>2, <1>3
<1> QED
  BY <1>4

\* The day a generator is at is one of those it has still to look at.
LEMMA FirstIsOne ==
  ASSUME NEW from \in Int, NEW T, T # {}, \A day \in T : day \in Int /\ from <= day
  PROVE  Days!First(T) \in T
<1> DEFINE above == {day - from : day \in T}
<1>1. above \in SUBSET Nat /\ above # {}
  OBVIOUS
<1> HIDE DEF above
<1>2. PICK n \in above : \A k \in above : n <= k
  BY <1>1, LeastOf
<1> USE DEF above
<1>3. PICK day \in T : n = day - from
  BY <1>2
<1>4. ASSUME NEW other \in T  PROVE  day <= other
  <2>1. other - from \in above
    OBVIOUS
  <2> HIDE DEF above
  <2> QED
    BY <1>2, <1>3, <2>1
<1> QED
  BY <1>3, <1>4 DEF Days!First

-----------------------------------------------------------------------------
(* One worker goes on *)

LEMMA CoverGoes ==
  ASSUME Assumed, DaysInv, CoverInv, NEW w \in Days!Workers, NEW rec, Days!Goes(w, rec),
         HoldsDocs(rec), now' = now, room' \in [Days!Slots -> Nat],
         schedules' = [s \in Schedules |-> schedules'[s]], \A s \in Schedules : IsDoc(schedules'[s]),
         calm' => calm /\ (Days!Busy(w) \/ ~Days!Meets(w)),
         w \in Sweeps /\ rec.pc # "idle" => Sweeping(rec),
         w \in Sweeps /\ rec.pc # "idle" /\ rec.at = now /\ calm' => Learned(rec, room', pickups')
  PROVE  CoverInv'
<1>1. work'[w] = rec /\ \A v \in Days!Workers \ {w} : work'[v] = work[v]
  BY DEF Days!Goes, DaysInv, Shape
<1>2. Sweeps \subseteq Days!Workers /\ Sweeps \subseteq Days!Generators
  BY DEF Days!Workers, Days!Generators
<1>3. Documents'
  BY <1>1 DEF CoverInv, Documents
<1>4. ASSUME NEW v \in Sweeps, Days!Busy(v)'  PROVE  Sweeping(work'[v])
  BY <1>1, <1>2, <1>4 DEF CoverInv, Days!Busy
<1>5. \A v \in Sweeps : Days!Busy(v)' => Sweeping(work[v])'
  BY <1>4 DEF Sweeping
<1>6. SweepsLearn'
  <2> SUFFICES ASSUME calm', NEW v \in Sweeps, Days!Busy(v)', work'[v].at = now
               PROVE  Learned(work'[v], room', pickups')
    BY DEF SweepsLearn, Learned, SeenTo, Free
  <2>1. CASE v = w
    BY <1>1, <2>1 DEF Days!Busy
  <2>2. CASE v # w
    <3>1. Days!Busy(v) /\ v \in Days!Generators /\ v \in Days!Workers
      BY <1>1, <1>2, <2>2 DEF Days!Busy
    <3>2. Days!Busy(w)
      BY <2>2, <3>1 DEF Days!Meets
    <3> QED
      BY <2>2, <3>1, <3>2 DEF DaysInv, Alone
  <2> QED
    BY <2>1, <2>2
<1> QED
  BY <1>3, <1>5, <1>6 DEF CoverInv

LEMMA IdleHolds == HoldsDocs(Days!Idle) /\ IsDoc(Days!NoSchedule) /\ Days!Idle.pc = "idle"
BY DEF HoldsDocs, IsDoc, Days!Idle, Days!Job, Days!NoItem, Days!NoSchedule

LEMMA CoverIdles ==
  ASSUME Assumed, DaysInv, CoverInv, NEW w \in Days!Workers, Days!Goes(w, Days!Idle), Days!Busy(w),
         UNCHANGED <<now, calm>>, room' \in [Days!Slots -> Nat],
         schedules' = [s \in Schedules |-> schedules'[s]], \A s \in Schedules : IsDoc(schedules'[s])
  PROVE  CoverInv'
BY CoverGoes, IdleHolds

\* A generator goes on to an item, and has all its days before it.
LEMMA CoverNext ==
  ASSUME Assumed, DaysInv, CoverInv, NEW w \in Days!Generators, NEW items, NEW at,
         Days!NextItem(w, items, at), \A item \in items : IsDoc(item.doc),
         w \in Sweeps => at \in Nat /\ at <= now /\ \A item \in items : Planned(item, at),
         now' = now, room' \in [Days!Slots -> Nat],
         schedules' = [s \in Schedules |-> schedules'[s]], \A s \in Schedules : IsDoc(schedules'[s]),
         calm' => calm /\ (Days!Busy(w) \/ ~Days!Meets(w))
  PROVE  CoverInv'
<1>0. w \in Days!Workers
  BY DEF Days!Workers, Days!Generators
<1>1. CASE items = {} /\ Days!Goes(w, Days!Idle)
  BY <1>0, <1>1, IdleHolds, CoverGoes
<1>2. CASE items # {}
  <2> PICK item \in items :
        Days!Goes(w, Days!Job(IF item.days # {} THEN "look" ELSE "save", at, items \ {item}, item, item.days))
    BY <1>2 DEF Days!NextItem
  <2> DEFINE rec == Days!Job(IF item.days # {} THEN "look" ELSE "save", at, items \ {item}, item, item.days)
  <2>1. /\ rec.at = at /\ rec.item = item /\ rec.todo \subseteq items /\ rec.left = item.days
        /\ rec.pc = IF item.days # {} THEN "look" ELSE "save"
    BY DEF Days!Job
  <2>2. Days!Goes(w, rec)
    OBVIOUS
  <2> HIDE DEF rec
  <2>3. HoldsDocs(rec)
    BY <2>1 DEF HoldsDocs
  <2>4. w \in Sweeps => Sweeping(rec)
    BY <2>1 DEF Sweeping
  <2>5. Learned(rec, room', pickups')
    BY <2>1 DEF Learned
  <2> QED
    BY <1>0, <2>2, <2>3, <2>4, <2>5, CoverGoes
<1> QED
  BY <1>1, <1>2 DEF Days!NextItem

LEMMA TodayIsLeft ==
  ASSUME Assumed, CoverInv, NEW w \in Sweeps, Days!Busy(w), work[w].pc # "save"
  PROVE  Days!Today(w) \in work[w].left
<1>1. Sweeping(work[w]) /\ IsDoc(work[w].item.doc)
  BY DEF CoverInv, Documents, HoldsDocs, Days!Workers
<1>2. /\ Days!Day(work[w].at) \in Int /\ Days!Day(work[w].at) + Horizon \in Int
      /\ work[w].left \subseteq
           Days!Occurrences(work[w].item.doc, Days!Day(work[w].at), Days!Day(work[w].at) + Horizon)
      /\ work[w].left # {}
  BY <1>1, DaysAreNumbers DEF Sweeping, Planned
<1>3. \A day \in work[w].left : day \in Int /\ Days!Day(work[w].at) <= day
  BY <1>1, <1>2, OccurrencesLieAhead
<1> QED
  BY <1>2, <1>3, FirstIsOne DEF Days!Today

\* A generator is done with a day, which is seen to.
LEMMA CoverSkips ==
  ASSUME Assumed, DaysInv, CoverInv, NEW w \in Days!Generators, Days!SkipDay(w), Days!Busy(w),
         work[w].pc # "save", UNCHANGED <<now, schedules, calm>>, room' \in [Days!Slots -> Nat],
         w \in Sweeps /\ calm /\ work[w].at = now =>
           \A day \in (work[w].item.days \ work[w].left) \union {Days!Today(w)} :
             SeenTo(work[w].item.who, day, room', pickups')
  PROVE  CoverInv'
<1>0. w \in Days!Workers /\ HoldsDocs(work[w])
  BY DEF Days!Workers, Days!Generators, CoverInv, Documents
<1> DEFINE left == work[w].left \ {Days!Today(w)}
<1>1. /\ schedules' = [s \in Schedules |-> schedules'[s]] /\ \A s \in Schedules : IsDoc(schedules'[s])
      /\ calm' => calm /\ Days!Busy(w)
  BY DEF CoverInv, Documents
<1>2. CASE left = {} /\ w \in Passes
  <2>1. Days!NextItem(w, work[w].todo, 0) /\ w \notin Sweeps
    BY <1>2 DEF Days!SkipDay, Days!Onward, Assumed
  <2> QED
    BY <1>0, <1>1, <2>1, CoverNext DEF HoldsDocs
<1>3. CASE ~(left = {} /\ w \in Passes)
  <2> DEFINE rec == Days!Job(IF left # {} THEN "look" ELSE "save", work[w].at, work[w].todo, work[w].item, left)
  <2>1. Days!Goes(w, rec)
    BY <1>3 DEF Days!SkipDay, Days!Onward
  <2>2. /\ rec.at = work[w].at /\ rec.item = work[w].item /\ rec.todo = work[w].todo /\ rec.left = left
        /\ rec.pc = IF left # {} THEN "look" ELSE "save"
    BY DEF Days!Job
  <2> HIDE DEF rec
  <2>3. HoldsDocs(rec)
    BY <1>0, <2>2 DEF HoldsDocs
  <2>4. w \in Sweeps => Sweeping(rec)
    BY <2>2 DEF CoverInv, Sweeping
  <2>5. w \in Sweeps /\ rec.at = now /\ calm' => Learned(rec, room', pickups')
    BY <2>2 DEF Learned
  <2> QED
    BY <1>0, <1>1, <2>1, <2>3, <2>4, <2>5, CoverGoes
<1> QED
  BY <1>2, <1>3

\* A generator stays at the day.
LEMMA CoverStays ==
  ASSUME Assumed, DaysInv, CoverInv, NEW w \in Days!Generators, Days!Busy(w), work[w].pc # "save",
         NEW rec, Days!Goes(w, rec), rec.pc \notin {"idle", "save"}, rec.at = work[w].at,
         rec.todo = work[w].todo, rec.item = work[w].item, rec.left = work[w].left,
         UNCHANGED <<now, schedules, calm>>, room' \in [Days!Slots -> Nat],
         w \in Sweeps /\ calm /\ rec.at = now => Learned(rec, room', pickups')
  PROVE  CoverInv'
<1>1. w \in Days!Workers /\ HoldsDocs(rec)
  BY DEF Days!Workers, Days!Generators, CoverInv, Documents, HoldsDocs
<1>2. w \in Sweeps => Sweeping(rec)
  BY DEF CoverInv, Sweeping
<1>3. schedules' = [s \in Schedules |-> schedules'[s]] /\ \A s \in Schedules : IsDoc(schedules'[s])
  BY DEF CoverInv, Documents
<1> QED
  BY <1>1, <1>2, <1>3, CoverGoes

\* What is taken from or given back to the day a sweep is at leaves the days behind it alone.
LEMMA OtherDays ==
  ASSUME Assumed, CoverInv, NEW w \in Sweeps, Days!Busy(w), work[w].pc # "save",
         NEW slot \in Days!Slots, Days!Day(slot) = Days!Today(w), NEW n,
         room' = [room EXCEPT ![slot] = n],
         NEW day \in work[w].item.days \ work[w].left, NEW who, NEW picks,
         SeenTo(who, day, room, picks)
  PROVE  SeenTo(who, day, room', picks)
<1>1. day # Days!Today(w)
  BY TodayIsLeft
<1>2. Free(day, room') = Free(day, room)
  BY <1>1 DEF CoverInv, Free
<1> QED
  BY <1>2 DEF SeenTo

-----------------------------------------------------------------------------
(* The steps of a sweep *)

LEMMA LookCovers ==
  ASSUME Assumed, DaysInv, CoverInv, NEW w \in Days!Workers, Days!Look(w)
  PROVE  CoverInv'
<1>1. w \in Days!Generators /\ Days!Busy(w) /\ IsJob(work[w]) /\ work[w].pc = "look"
  BY DEF DaysInv, Right, Days!Look, Days!Generators, Days!Workers, Days!Busy, Shape
<1>2. UNCHANGED <<now, schedules, calm, room, pickups>> /\ room' \in [Days!Slots -> Nat]
  BY DEF Days!Look, CoverInv
<1>3. w \in Sweeps /\ calm /\ work[w].at = now => Learned(work[w], room, pickups)
  BY <1>1 DEF CoverInv, SweepsLearn
<1>4. CASE Days!Taken(w, work[w].item.who, Days!Today(w))
  <2>1. Days!SkipDay(w)
    BY <1>4 DEF Days!Look
  <2>2. w \in Sweeps => SeenTo(work[w].item.who, Days!Today(w), room, pickups)
    BY <1>4 DEF Days!Taken, SeenTo
  <2> QED
    BY <1>1, <1>2, <1>3, <2>1, <2>2, CoverSkips DEF Learned
<1>5. CASE ~Days!Taken(w, work[w].item.who, Days!Today(w))
  <2> DEFINE rec == [work[w] EXCEPT !.pc = "pick"]
  <2>1. Days!Goes(w, rec)
    BY <1>5 DEF Days!Look
  <2>2. /\ rec.pc = "pick" /\ rec.item = work[w].item /\ rec.left = work[w].left
        /\ rec.at = work[w].at /\ rec.todo = work[w].todo
    BY <1>1 DEF IsJob
  <2> HIDE DEF rec
  <2>3. w \in Sweeps /\ calm /\ rec.at = now => Learned(rec, room', pickups')
    BY <1>2, <1>3, <2>2 DEF Learned
  <2> QED
    BY <1>1, <1>2, <2>1, <2>2, <2>3, CoverStays
<1> QED
  BY <1>4, <1>5

LEMMA PickCovers ==
  ASSUME Assumed, DaysInv, CoverInv, NEW w \in Days!Workers, Days!Pick(w)
  PROVE  CoverInv'
<1>1. w \in Days!Generators /\ Days!Busy(w) /\ IsJob(work[w]) /\ work[w].pc = "pick"
  BY DEF DaysInv, Right, Days!Pick, Days!Generators, Days!Workers, Days!Busy, Shape
<1>2. UNCHANGED <<now, schedules, calm, room, pickups>> /\ room' \in [Days!Slots -> Nat]
  BY DEF Days!Pick, CoverInv
<1>3. w \in Sweeps /\ calm /\ work[w].at = now => Learned(work[w], room, pickups)
  BY <1>1 DEF CoverInv, SweepsLearn
<1>4. CASE Days!Choices(w) = {}
  <2>1. Days!SkipDay(w)
    BY <1>4 DEF Days!Pick
  <2>2. w \in Sweeps => Free(Days!Today(w), room) = {}
    BY <1>4 DEF Days!Choices, Days!Bookable, Days!Open, Free
  <2> QED
    BY <1>1, <1>2, <1>3, <2>1, <2>2, CoverSkips DEF Learned, SeenTo
<1>5. CASE Days!Choices(w) # {}
  <2> DEFINE job == Days!Job("reserve", work[w].at, work[w].todo, work[w].item, work[w].left)
  <2> PICK slot \in Days!Choices(w) : Days!Goes(w, [job EXCEPT !.slot = slot])
    BY <1>5 DEF Days!Pick
  <2> DEFINE rec == [job EXCEPT !.slot = slot]
  <2>1. slot \in Days!Slots /\ Days!Day(slot) = Days!Today(w) /\ room[slot] > 0 /\ now < slot
    BY DEF Days!Choices, Days!Bookable, Days!InWindow, Days!Open
  <2>2. Days!Goes(w, rec)
    OBVIOUS
  <2>3. /\ rec.pc = "reserve" /\ rec.item = work[w].item /\ rec.left = work[w].left
        /\ rec.at = work[w].at /\ rec.todo = work[w].todo /\ rec.slot = slot
    BY DEF Days!Job
  <2> HIDE DEF rec
  <2>4. w \in Sweeps /\ calm /\ rec.at = now => Learned(rec, room', pickups')
    BY <1>2, <1>3, <2>1, <2>3 DEF Learned, Days!Today
  <2> QED
    BY <1>1, <1>2, <2>2, <2>3, <2>4, CoverStays
<1> QED
  BY <1>4, <1>5

LEMMA WhoIsAtWork ==
  ASSUME Assumed, DaysInv, NEW w \in Days!Workers,
         work[w].pc \in {"reserve", "release", "put"}
  PROVE  /\ Days!Busy(w) /\ IsJob(work[w]) /\ work[w].slot \in Days!Slots
         /\ w \in Days!Generators \/ w \in Requests
         /\ Sweeps \subseteq Days!Generators
         /\ w \in Requests => w \notin Sweeps
BY DEF Assumed, DaysInv, Shape, IsJob, Days!Busy, Days!Workers, Days!Generators

LEMMA RefusedCovers ==
  ASSUME Assumed, DaysInv, CoverInv, NEW w \in Days!Workers, Days!Refused(w),
         work[w].pc \in {"reserve", "release"},
         UNCHANGED <<now, schedules, calm>>, room' \in [Days!Slots -> Nat],
         w \in Sweeps /\ calm /\ work[w].at = now =>
           \A day \in (work[w].item.days \ work[w].left) \union {Days!Today(w)} :
             SeenTo(work[w].item.who, day, room', pickups')
  PROVE  CoverInv'
<1>1. Days!Busy(w) /\ (w \in Sweeps => w \in Days!Generators)
  BY WhoIsAtWork
<1>2. schedules' = [s \in Schedules |-> schedules'[s]] /\ \A s \in Schedules : IsDoc(schedules'[s])
  BY DEF CoverInv, Documents
<1>3. CASE w \in Sweeps
  BY <1>1, <1>3, CoverSkips DEF Days!Refused
<1>4. CASE w \notin Sweeps
  BY <1>1, <1>2, <1>4, CoverIdles DEF Days!Refused
<1> QED
  BY <1>3, <1>4

LEMMA ReserveCovers ==
  ASSUME Assumed, DaysInv, CoverInv, NEW w \in Days!Workers, Days!Reserve(w)
  PROVE  CoverInv'
<1>1. /\ Days!Busy(w) /\ IsJob(work[w]) /\ work[w].slot \in Days!Slots /\ work[w].pc = "reserve"
      /\ w \in Days!Generators \/ w \in Requests
      /\ w \in Requests => w \notin Sweeps
  BY WhoIsAtWork DEF Days!Reserve
<1>2. UNCHANGED <<now, schedules, calm, pickups>>
  BY DEF Days!Reserve
<1>3. w \in Sweeps /\ calm /\ work[w].at = now => Learned(work[w], room, pickups)
  BY <1>1 DEF CoverInv, SweepsLearn
<1>4. CASE room[work[w].slot] = 0
  <2>1. Days!Refused(w) /\ room' = room
    BY <1>4 DEF Days!Reserve
  <2>2. ~(w \in Sweeps /\ calm /\ work[w].at = now)
    BY <1>1, <1>3, <1>4 DEF Learned
  <2> QED
    BY <1>1, <1>2, <2>1, <2>2, RefusedCovers DEF CoverInv
<1>5. CASE room[work[w].slot] # 0
  <2> DEFINE rec == [work[w] EXCEPT !.pc = IF Days!Admitted(w) THEN "put" ELSE "release"]
  <2>1. Days!Goes(w, rec) /\ room' = [room EXCEPT ![work[w].slot] = room[work[w].slot] - 1]
    BY <1>5 DEF Days!Reserve
  <2>2. room' \in [Days!Slots -> Nat]
    BY <1>1, <1>5, <2>1 DEF CoverInv
  <2>3. /\ rec.pc = IF Days!Admitted(w) THEN "put" ELSE "release"
        /\ rec.item = work[w].item /\ rec.left = work[w].left /\ rec.slot = work[w].slot
        /\ rec.at = work[w].at /\ rec.todo = work[w].todo
    BY <1>1 DEF IsJob
  <2> HIDE DEF rec
  <2>4. ASSUME w \in Sweeps, calm, rec.at = now  PROVE  Learned(rec, room', pickups')
    <3>1. Learned(work[w], room, pickups)
      BY <1>3, <2>3, <2>4
    <3>2. Days!Day(work[w].slot) = Days!Today(w) /\ now < work[w].slot
      BY <1>1, <3>1 DEF Learned, Days!Today
    <3>3. \A day \in work[w].item.days \ work[w].left : SeenTo(work[w].item.who, day, room', pickups)
      BY <1>1, <2>1, <2>4, <3>1, <3>2, OtherDays DEF Learned
    <3>4. ~Days!Admitted(w) => work[w].slot \in Kept /\ work[w].item.who \in Lapsed
      BY <3>2 DEF Days!Admitted, Days!Open
    <3> QED
      BY <1>2, <2>3, <3>2, <3>3, <3>4 DEF Learned, Days!Today
  <2>5. CASE w \in Days!Generators
    BY <1>1, <1>2, <2>1, <2>2, <2>3, <2>4, <2>5, CoverStays
  <2>6. CASE w \in Requests
    <3>1. HoldsDocs(rec)
      BY <2>3 DEF CoverInv, Documents, HoldsDocs
    <3>2. schedules' = [s \in Schedules |-> schedules'[s]] /\ \A s \in Schedules : IsDoc(schedules'[s])
      BY <1>2 DEF CoverInv, Documents
    <3> QED
      BY <1>1, <1>2, <2>1, <2>2, <2>6, <3>1, <3>2, CoverGoes
  <2> QED
    BY <1>1, <2>5, <2>6
<1> QED
  BY <1>4, <1>5

LEMMA ReleaseCovers ==
  ASSUME Assumed, DaysInv, CoverInv, NEW w \in Days!Workers, Days!Release(w)
  PROVE  CoverInv'
<1>1. Days!Busy(w) /\ work[w].slot \in Days!Slots /\ work[w].pc = "release"
  BY WhoIsAtWork DEF Days!Release
<1>2. /\ UNCHANGED <<now, schedules, calm, pickups>> /\ Days!Refused(w)
      /\ room' = [room EXCEPT ![work[w].slot] = room[work[w].slot] + 1]
  BY DEF Days!Release
<1>3. room' \in [Days!Slots -> Nat] /\ room'[work[w].slot] > 0
  BY <1>1, <1>2 DEF CoverInv
<1>4. ASSUME w \in Sweeps, calm, work[w].at = now,
             NEW day \in (work[w].item.days \ work[w].left) \union {Days!Today(w)}
      PROVE  SeenTo(work[w].item.who, day, room', pickups')
  <2>1. Learned(work[w], room, pickups)
    BY <1>1, <1>4 DEF CoverInv, SweepsLearn
  <2>2. /\ Days!Day(work[w].slot) = Days!Today(w) /\ now < work[w].slot
        /\ work[w].slot \in Kept /\ work[w].item.who \in Lapsed
    BY <1>1, <2>1 DEF Learned, Days!Today
  <2>3. CASE day = Days!Today(w)
    <3>1. work[w].slot \in Free(day, room')
      BY <1>1, <1>3, <2>2, <2>3 DEF Free
    <3> QED
      BY <2>2, <3>1 DEF SeenTo
  <2>4. CASE day \in work[w].item.days \ work[w].left
    BY <1>1, <1>2, <1>4, <2>1, <2>2, <2>4, OtherDays DEF Learned
  <2> QED
    BY <1>4, <2>3, <2>4
<1> QED
  BY <1>1, <1>2, <1>3, <1>4, RefusedCovers

LEMMA PutCovers ==
  ASSUME Assumed, DaysInv, CoverInv, NEW w \in Days!Workers, Days!Put(w)
  PROVE  CoverInv'
<1> DEFINE new == [who |-> work[w].item.who, slot |-> work[w].slot, live |-> TRUE,
                   recurring |-> work[w].recurring, by |-> w]
<1>1. /\ Days!Busy(w) /\ IsJob(work[w]) /\ work[w].slot \in Days!Slots /\ work[w].pc = "put"
      /\ w \in Days!Generators \/ w \in Requests
      /\ w \in Requests => w \notin Sweeps
  BY WhoIsAtWork DEF Days!Put
<1>2. /\ UNCHANGED <<now, schedules, calm, room>> /\ pickups' = Append(pickups, new)
      /\ room' \in [Days!Slots -> Nat] /\ pickups \in Seq(Pickup)
  BY DEF Days!Put, CoverInv, DaysInv, Shape
<1>3. new \in Pickup
  BY <1>1 DEF IsJob, IsItem, Pickup
<1>4. /\ DOMAIN pickups = 1..Len(pickups) /\ DOMAIN pickups' = 1..(Len(pickups) + 1)
      /\ Len(pickups) \in Nat /\ pickups'[Len(pickups) + 1] = new
      /\ \A k \in DOMAIN pickups : pickups'[k] = pickups[k]
  <2> HIDE DEF new
  <2> QED
    BY <1>2, <1>3, AppendProperties, LenProperties
<1>5. ASSUME NEW who, NEW day, SeenTo(who, day, room, pickups)
      PROVE  SeenTo(who, day, room', pickups')
  BY <1>2, <1>4, <1>5 DEF SeenTo
<1>6. ASSUME w \in Sweeps, calm, work[w].at = now,
             NEW day \in (work[w].item.days \ work[w].left) \union {Days!Today(w)}
      PROVE  SeenTo(work[w].item.who, day, room', pickups')
  <2>1. Learned(work[w], room, pickups)
    BY <1>1, <1>6 DEF CoverInv, SweepsLearn
  <2>2. CASE day = Days!Today(w)
    <3>1. new.who = work[w].item.who /\ new.live /\ Days!Day(new.slot) = day
      BY <1>1, <2>1, <2>2 DEF Learned, Days!Today
    <3> QED
      BY <1>4, <3>1 DEF SeenTo
  <2>3. CASE day \in work[w].item.days \ work[w].left
    BY <1>5, <2>1, <2>3 DEF Learned
  <2> QED
    BY <1>6, <2>2, <2>3
<1> HIDE DEF new
<1>7. CASE w \in Requests
  <2>1. Days!Goes(w, Days!Idle)
    BY <1>7 DEF Days!Put
  <2>2. schedules' = [s \in Schedules |-> schedules'[s]] /\ \A s \in Schedules : IsDoc(schedules'[s])
    BY <1>2 DEF CoverInv, Documents
  <2> QED
    BY <1>1, <1>2, <2>1, <2>2, CoverIdles
<1>8. CASE w \notin Requests
  <2>1. Days!SkipDay(w)
    BY <1>8 DEF Days!Put
  <2> QED
    BY <1>1, <1>2, <1>6, <1>8, <2>1, CoverSkips
<1> QED
  BY <1>7, <1>8

LEMMA SavesCover ==
  ASSUME Assumed, DaysInv, CoverInv, NEW w \in Days!Workers, Days!SweepSaves(w)
  PROVE  CoverInv'
<1>1. w \in Days!Generators /\ Days!Busy(w) /\ HoldsDocs(work[w])
  BY DEF DaysInv, Right, Days!SweepSaves, Days!Generators, Days!Workers, Days!Busy, CoverInv, Documents
<1>2. /\ schedules' = [s \in Schedules |-> schedules'[s]] /\ \A s \in Schedules : IsDoc(schedules'[s])
      /\ UNCHANGED <<now, calm, room>> /\ room' \in [Days!Slots -> Nat]
      /\ Days!NextItem(w, work[w].todo, work[w].at)
  BY <1>1 DEF Days!SweepSaves, CoverInv, Documents, HoldsDocs
<1>3. w \in Sweeps => Sweeping(work[w])
  BY <1>1 DEF CoverInv
<1> QED
  BY <1>1, <1>2, <1>3, CoverNext DEF HoldsDocs, Sweeping

LEMMA BeginsCover ==
  ASSUME Assumed, DaysInv, CoverInv, NEW w \in Days!Workers, Days!PassBegins(w) \/ Days!SweepBegins(w)
  PROVE  CoverInv'
<1>1. /\ schedules' = [s \in Schedules |-> schedules'[s]] /\ \A s \in Schedules : IsDoc(schedules'[s])
      /\ UNCHANGED <<now, room, pickups>> /\ room' \in [Days!Slots -> Nat]
      /\ calm' => calm /\ (Days!Busy(w) \/ ~Days!Meets(w))
      /\ w \in Days!Generators
  BY DEF Days!PassBegins, Days!SweepBegins, Days!Begin, CoverInv, Documents, Days!Generators
<1>2. CASE Days!PassBegins(w)
  <2> DEFINE items == {Days!DueItem(i) : i \in {j \in DOMAIN pickups : Days!Due(pickups[j])}}
  <2>1. \A item \in items : IsDoc(item.doc)
    BY IdleHolds DEF Days!DueItem
  <2>2. Days!NextItem(w, items, 0) /\ w \notin Sweeps
    BY <1>2 DEF Days!PassBegins, Assumed
  <2> HIDE DEF items
  <2> QED
    BY <1>1, <2>1, <2>2, CoverNext
<1>3. CASE Days!SweepBegins(w)
  <2> DEFINE items == {Days!ActiveItem(s) : s \in {t \in Schedules : schedules[t].status = "active"}}
  <2>1. \A item \in items : IsDoc(item.doc) /\ Planned(item, now)
    BY DEF Days!ActiveItem, CoverInv, Documents, Planned
  <2>2. Days!NextItem(w, items, now) /\ now \in Nat /\ now <= now
    BY <1>3 DEF Days!SweepBegins, CoverInv
  <2> HIDE DEF items
  <2> QED
    BY <1>1, <2>1, <2>2, CoverNext
<1> QED
  BY <1>2, <1>3

-----------------------------------------------------------------------------
(* Residents, the clock, a stop *)

LEMMA RequestsCover ==
  ASSUME Assumed, DaysInv, CoverInv, NEW q \in Requests, NEW rec, HoldsDocs(rec),
         Days!Request(q, rec), UNCHANGED <<now, room, schedules>>
  PROVE  CoverInv'
<1>1. q \in Days!Workers /\ q \notin Sweeps
  BY DEF Assumed, Days!Workers
<1>2. schedules' = [s \in Schedules |-> schedules'[s]] /\ \A s \in Schedules : IsDoc(schedules'[s])
  BY DEF CoverInv, Documents
<1> QED
  BY <1>1, <1>2, CoverGoes DEF Days!Request, Days!Begin, CoverInv

LEMMA BookCovers ==
  ASSUME Assumed, DaysInv, CoverInv, NEW q \in Requests, NEW who \in Residents, NEW slot \in Days!Slots,
         NEW recurring \in BOOLEAN, Days!Book(q, who, slot, recurring)
  PROVE  CoverInv'
<1> DEFINE rec == [pc |-> "reserve", at |-> 0, todo |-> {}, item |-> [Days!NoItem EXCEPT !.who = who],
                   left |-> {}, slot |-> slot, recurring |-> recurring]
<1>1. HoldsDocs(rec)
  BY IdleHolds DEF HoldsDocs, Days!NoItem
<1>2. Days!Request(q, rec) /\ UNCHANGED <<now, room, schedules>>
  BY DEF Days!Book
<1> HIDE DEF rec
<1> QED
  BY <1>1, <1>2, RequestsCover

LEMMA EditCovers ==
  ASSUME Assumed, DaysInv, CoverInv, NEW q \in Requests, NEW s, NEW doc, IsDoc(doc),
         Days!Edit(q, s, doc)
  PROVE  CoverInv'
<1> DEFINE item == [id |-> s, who |-> NoResident, window |-> 0, days |-> {}, doc |-> doc]
           rec == Days!Job("edit", 0, {}, item, {})
<1>1. HoldsDocs(rec)
  BY DEF HoldsDocs, Days!Job
<1>2. Days!Request(q, rec) /\ UNCHANGED <<now, room, schedules>>
  BY DEF Days!Edit
<1> HIDE DEF rec
<1> QED
  BY <1>1, <1>2, RequestsCover

LEMMA EditPutCovers ==
  ASSUME Assumed, DaysInv, CoverInv, NEW q \in Days!Workers, Days!EditPut(q)
  PROVE  CoverInv'
<1>1. Days!Busy(q) /\ HoldsDocs(work[q])
  BY DEF Days!EditPut, Days!Busy, CoverInv, Documents
<1>2. schedules' = [s \in Schedules |-> schedules'[s]] /\ \A s \in Schedules : IsDoc(schedules'[s])
  BY <1>1 DEF Days!EditPut, CoverInv, Documents, HoldsDocs
<1> QED
  BY <1>1, <1>2, CoverIdles DEF Days!EditPut, CoverInv

\* A resident's change of a pickup or a new schedule meets every generator at work.
LEMMA NobodyIsSweeping ==
  ASSUME CoverInv, work' = work, now' = now, room' \in [Days!Slots -> Nat], Documents',
         calm' => \A w \in Days!Generators : ~Days!Busy(w)
  PROVE  CoverInv'
<1>1. Sweeps \subseteq Days!Generators
  BY DEF Days!Generators
<1> QED
  BY <1>1 DEF CoverInv, SweepsLearn, Days!Busy, Sweeping

LEMMA ChangesCover ==
  ASSUME Assumed, DaysInv, CoverInv, NEW i \in DOMAIN pickups,
         Days!Cancel(i) \/ \E slot \in Days!Slots : Days!Move(i, slot)
  PROVE  CoverInv'
<1>1. pickups[i].slot \in Days!Slots
  <2>1. pickups[i] \in Pickup
    BY ElementOfSeq DEF DaysInv, Shape
  <2> QED
    BY <2>1 DEF Pickup
<1>2. room' \in [Days!Slots -> Nat]
  <2>1. CASE Days!Cancel(i)
    BY <1>1, <2>1 DEF Days!Cancel, CoverInv
  <2>2. ASSUME NEW slot \in Days!Slots, Days!Move(i, slot)  PROVE  room' \in [Days!Slots -> Nat]
    BY <1>1, <2>2 DEF Days!Move, CoverInv
  <2> QED
    BY <2>1, <2>2
<1>3. /\ work' = work /\ now' = now /\ schedules' = schedules
      /\ calm' => \A w \in Days!Generators : ~Days!Busy(w)
  BY DEF Days!Cancel, Days!Move
<1>4. Documents'
  BY <1>3 DEF CoverInv, Documents
<1> QED
  BY <1>2, <1>3, <1>4, NobodyIsSweeping

LEMMA CreateCovers ==
  ASSUME Assumed, DaysInv, CoverInv, NEW s \in Schedules, NEW r, NEW window, NEW start \in Int,
         Days!Create(s, r, window, start)
  PROVE  CoverInv'
<1>1. /\ work' = work /\ now' = now /\ room' \in [Days!Slots -> Nat]
      /\ calm' => \A w \in Days!Generators : ~Days!Busy(w)
  BY DEF Days!Create, CoverInv
<1>2. Documents'
  BY <1>1 DEF Days!Create, CoverInv, Documents, IsDoc
<1> QED
  BY <1>1, <1>2, NobodyIsSweeping

LEMMA TickCovers ==
  ASSUME Assumed, CoverInv, Days!Tick
  PROVE  CoverInv'
<1>1. now' = now + 1 /\ now' \in Nat /\ UNCHANGED <<room, schedules, work, calm>>
  BY DEF Days!Tick, CoverInv
<1>2. \A w \in Sweeps : Days!Busy(w) => Sweeping(work[w])' /\ work[w].at # now'
  BY <1>1 DEF CoverInv, Sweeping
<1>3. SweepsLearn'
  BY <1>1, <1>2 DEF SweepsLearn, Days!Busy
<1>4. Documents'
  BY <1>1 DEF CoverInv, Documents
<1> QED
  BY <1>1, <1>2, <1>3, <1>4 DEF CoverInv, Days!Busy

LEMMA RestartCovers ==
  ASSUME Assumed, CoverInv, Days!Restart
  PROVE  CoverInv'
<1>1. \A w \in Days!Workers : work'[w] = Days!Idle
  BY DEF Days!Restart
<1>2. Sweeps \subseteq Days!Workers
  BY DEF Days!Workers
<1>3. \A w \in Sweeps : ~Days!Busy(w)'
  BY <1>1, <1>2, IdleHolds DEF Days!Busy
<1>4. Documents'
  BY <1>1, IdleHolds DEF Days!Restart, CoverInv, Documents
<1> QED
  BY <1>3, <1>4 DEF Days!Restart, CoverInv, SweepsLearn

LEMMA InitCovers == ASSUME Assumed, Days!Init PROVE CoverInv
<1>1. \A w \in Days!Workers : work[w] = Days!Idle
  BY DEF Days!Init
<1>2. Sweeps \subseteq Days!Workers
  BY DEF Days!Workers
<1>3. \A w \in Sweeps : ~Days!Busy(w)
  BY <1>1, <1>2, IdleHolds DEF Days!Busy
<1>4. Documents
  BY <1>1, IdleHolds DEF Days!Init, Documents
<1> QED
  BY <1>3, <1>4 DEF Assumed, Days!Init, CoverInv, SweepsLearn

LEMMA EditedDoc ==
  ASSUME NEW d, IsDoc(d), NEW new
  PROVE  /\ IsDoc([d EXCEPT !.r = new]) /\ IsDoc([d EXCEPT !.window = new])
         /\ IsDoc([d EXCEPT !.status = new])
<1>1. /\ [d EXCEPT !.r = new] = [status |-> d.status, r |-> new, window |-> d.window, start |-> d.start]
      /\ [d EXCEPT !.window = new] = [status |-> d.status, r |-> d.r, window |-> new, start |-> d.start]
      /\ [d EXCEPT !.status = new] = [status |-> new, r |-> d.r, window |-> d.window, start |-> d.start]
  BY DEF IsDoc
<1> QED
  BY <1>1 DEF IsDoc

LEMMA ResidentCovers ==
  ASSUME Assumed, DaysInv, CoverInv, Days!Resident
  PROVE  CoverInv'
<1>0. \A s \in Schedules : IsDoc(schedules[s])
  BY DEF CoverInv, Documents
<1>1. ASSUME NEW q \in Requests, NEW s \in Schedules, NEW r, NEW window, NEW state,
             Days!Update(q, s, r, window, state)
      PROVE  CoverInv'
  <2> DEFINE d1 == [schedules[s] EXCEPT !.r = r]
             d2 == [d1 EXCEPT !.window = window]
             d3 == [d2 EXCEPT !.status = state]
  <2>1. Days!Edit(q, s, d3)
    BY <1>1 DEF Days!Update
  <2>2. IsDoc(d1)
    BY <1>0, EditedDoc
  <2> HIDE DEF d1
  <2>3. IsDoc(d2)
    BY <2>2, EditedDoc
  <2> HIDE DEF d2
  <2>4. IsDoc(d3)
    BY <2>3, EditedDoc
  <2> HIDE DEF d3
  <2> QED
    BY <2>1, <2>4, EditCovers
<1>2. ASSUME NEW q \in Requests, NEW s \in Schedules, Days!Stop(q, s)
      PROVE  CoverInv'
  BY <1>0, <1>2, EditedDoc, EditCovers DEF Days!Stop
<1>3. \A start \in 0..Days!Day(LastSlot) : start \in Int
  OBVIOUS
<1>4. ASSUME NEW s \in Schedules, NEW r, NEW window, NEW start \in 0..Days!Day(LastSlot),
             Days!Create(s, r, window, start)
      PROVE  CoverInv'
  BY <1>3, <1>4, CreateCovers
<1> QED
  BY <1>1, <1>2, <1>4, BookCovers, ChangesCover DEF Days!Resident

LEMMA StepCovers == ASSUME Assumed PROVE DaysInv /\ CoverInv /\ [Days!Next]_(Days!vars) => CoverInv'
<1> SUFFICES ASSUME DaysInv, CoverInv, [Days!Next]_(Days!vars)  PROVE  CoverInv'
  OBVIOUS
<1>1. ASSUME NEW w \in Days!Workers, Days!PassBegins(w) \/ Days!SweepBegins(w) \/ Days!Step(w)
      PROVE  CoverInv'
  BY <1>1, BeginsCover, SavesCover, LookCovers, PickCovers, ReserveCovers, ReleaseCovers, PutCovers,
     EditPutCovers DEF Days!Step
<1>2. CASE UNCHANGED Days!vars
  BY <1>2 DEF Days!vars, CoverInv, Documents, SweepsLearn, Sweeping, Learned, SeenTo, Free, Days!Busy
<1> QED
  BY <1>1, <1>2, ResidentCovers, TickCovers, RestartCovers DEF Days!Next

\* A sweep that met nobody, and in whose time no slot closed, leaves its resident with a
\* collection on every day the schedule stands for up to the horizon, or with no slot that
\* could be booked (ScheduleService.generateUpcoming, schedule-service.ts:141).
THEOREM NoDayIsMissed == ASSUME Assumed PROVE Days!Spec => Days!DaysAreCovered
<1> DEFINE Covers ==
      \A w \in Sweeps : Days!SweepSaves(w) /\ calm /\ work[w].at = now =>
        \A day \in Days!Day(work[w].at)..(Days!Day(work[w].at) + Horizon) :
          Days!Wants(work[w].item.doc, day) =>
            \/ Days!Collected(work[w].item.who, day)
            \/ Days!Bookable(day) = {}
            \/ work[w].item.who \in Lapsed /\ Days!Bookable(day) \intersect Kept # {}
<1>1. ASSUME CoverInv  PROVE  Covers
  <2> SUFFICES ASSUME NEW w \in Sweeps, Days!SweepSaves(w), calm, work[w].at = now,
                      NEW day \in Days!Day(now)..(Days!Day(now) + Horizon),
                      Days!Wants(work[w].item.doc, day)
               PROVE  \/ Days!Collected(work[w].item.who, day)
                      \/ Days!Bookable(day) = {}
                      \/ work[w].item.who \in Lapsed /\ Days!Bookable(day) \intersect Kept # {}
    OBVIOUS
  <2>1. Days!Busy(w) /\ work[w].pc = "save" /\ IsDoc(work[w].item.doc)
    BY <1>1 DEF Days!SweepSaves, Days!Busy, CoverInv, Documents, HoldsDocs, Days!Workers
  <2>2. Sweeping(work[w]) /\ Learned(work[w], room, pickups) /\ now \in Nat
    BY <1>1, <2>1 DEF CoverInv, SweepsLearn
  <2>3. Days!Day(now) \in Int /\ Days!Day(now) + Horizon \in Int
    BY <2>2, DaysAreNumbers
  <2>4. day \in work[w].item.days \ work[w].left
    BY <2>1, <2>2, <2>3, WantedDaysOccur DEF Sweeping, Planned
  <2>5. SeenTo(work[w].item.who, day, room, pickups)
    BY <2>2, <2>4 DEF Learned
  <2>6. Free(day, room) = Days!Bookable(day)
    BY DEF Free, Days!Bookable, Days!Open
  <2> QED
    BY <2>5, <2>6 DEF SeenTo, Days!Collected
<1>2. Days!Spec => []CoverInv
  <2>1. Days!Init => CoverInv
    BY InitCovers
  <2>2. DaysInv /\ CoverInv /\ [Days!Next]_(Days!vars) => CoverInv'
    BY StepCovers
  <2> QED
    BY JobsInvariance, <2>1, <2>2, PTL DEF Days!Spec
<1>3. CoverInv => [Covers]_(Days!vars)
  BY <1>1
<1> QED
  BY <1>2, <1>3, PTL DEF Days!DaysAreCovered

=============================================================================
