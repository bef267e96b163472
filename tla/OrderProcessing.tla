-------------------------- MODULE OrderProcessing --------------------------
(***************************************************************************)
(* What happens to an order between its collection and its delivery.       *)
(*   washnpress-v2/src/services/order-service.ts   advanceBatch, qcBatch,  *)
(*        syncOrderToBatches, startWash ... reprocess, outForDelivery,     *)
(*        deliver, raiseDispute, and rate and assignOperator, which put    *)
(*        back the order they read                                         *)
(*   washnpress-v2/src/domain/   order-state-machine.ts, processing.ts,    *)
(*        batches.ts, qc.ts                                                *)
(* Every handler reads the order, works on the document and puts it back:  *)
(* the read and the put are two steps, and two requests may overlap.       *)
(*                                                                         *)
(* There is one order.  It is worked batch by batch, one batch for every   *)
(* line of which anything arrived, or as a whole.  The clients offer the   *)
(* second only for an order without batches, one collected before there    *)
(* were any or that names no service; the server takes either for any      *)
(* order, so both may be mixed here.  Left out: quantities, the remarks    *)
(* and photographs of a failed check, issues and messages.                 *)
(***************************************************************************)
EXTENDS Naturals, Sequences, FiniteSets

CONSTANTS
  Lines,      \* the lines of the order
  Orders,     \* what the lines of an order may be sent for
  Requests    \* requests under way at the same time

Steps == {"wash", "dry_clean", "premium", "finishing", "iron", "qc"}
CleanSteps == {"wash", "dry_clean", "premium"}

Services == [clean : CleanSteps \union {"none"}, press : BOOLEAN]

ASSUME OrdersAreLines == Orders \subseteq UNION {[named -> Services] : named \in SUBSET Lines}

VARIABLES
  lines,   \* what the lines of the order are sent for
  made,    \* the lines there is a batch for
  order,   \* the order's document, batches included, and whether its stage comes
           \* from a call on the whole order (history, nothing looks at it)
  req,     \* what each request is about to put
  raced    \* history: a request began while another was under way

vars == <<lines, made, order, req, raced>>

States == {"picked_up", "in_wash", "ironing", "qc", "qc_hold", "ready_for_delivery",
           "out_for_delivery", "delivered", "disputed"}
Verdicts == {"null", "true", "false"}

Order == [state : States, qcPassed : Verdicts,
          done : [Lines -> SUBSET Steps], passed : [Lines -> Verdicts], held : SUBSET Lines,
          whole : BOOLEAN]

Collected == [state |-> "picked_up", qcPassed |-> "null", done |-> [l \in Lines |-> {}],
              passed |-> [l \in Lines |-> "null"], held |-> {}, whole |-> FALSE]

-----------------------------------------------------------------------------
(* domain/batches.ts and domain/qc.ts *)

SequenceFor(kind) ==
  (IF kind.clean = "none" THEN <<>> ELSE <<kind.clean>>)
    \o (IF kind.clean = "dry_clean" THEN <<"finishing">> ELSE IF kind.press THEN <<"iron">> ELSE <<>>)
    \o <<"qc">>

\* nextStep
FirstLeft(seq, done) ==
  LET left == {i \in DOMAIN seq : seq[i] \notin done}
  IN IF left = {} THEN "none" ELSE seq[CHOOSE i \in left : \A j \in left : i <= j]

NextStep(doc, l) == FirstLeft(SequenceFor(lines[l]), doc.done[l])

\* statusOf: the first that applies.
Status(doc, l) ==
  IF NextStep(doc, l) = "none" THEN "completed"
  ELSE IF l \in doc.held THEN "held"
  ELSE IF doc.passed[l] = "false" THEN "qc_failed"
  ELSE IF NextStep(doc, l) = "qc" THEN "awaiting_qc"
  ELSE IF doc.done[l] = {} THEN "pending" ELSE "in_progress"

Working(l) == {SequenceFor(lines[l])[i] : i \in DOMAIN SequenceFor(lines[l])} \ {"qc"}

LastWorking(l) ==
  LET seq == SequenceFor(lines[l]) IN IF Len(seq) = 1 THEN {} ELSE {seq[Len(seq) - 1]}

\* planCorrection: the step a failure for rework at `wanted` undoes.
Undone(l, wanted) ==
  IF wanted \in Working(l) THEN {wanted}
  ELSE IF wanted = "wash" /\ Working(l) \intersect CleanSteps # {} THEN Working(l) \intersect CleanSteps
  ELSE LastWorking(l)

Completed(doc) == {l \in made : Status(doc, l) = "completed"}

Stopped(doc) == {l \in made : Status(doc, l) \in {"qc_failed", "held"}}

\* Slip: the most advanced batch gives the stage.
MidwayOfLast(doc) ==
  LET pending == {NextStep(doc, l) : l \in made} IN
  CASE "qc" \in pending -> "qc"
    [] "qc" \notin pending /\ "iron" \in pending -> "ironing"
    [] OTHER -> "in_wash"

\* intermediateStageFromBatches
Midway(doc) ==
  LET pending == {NextStep(doc, l) : l \in made} IN
  CASE pending \intersect CleanSteps # {} -> "in_wash"
    [] pending \intersect CleanSteps = {} /\ "iron" \in pending -> "ironing"
    [] pending \intersect (CleanSteps \union {"iron"}) = {} /\ "qc" \in pending -> "qc"
    [] OTHER -> "none"

\* Slip: one finished batch makes the order ready.
SomeComplete(doc) == Completed(doc) # {}

AllComplete(doc) == made # {} /\ Completed(doc) = made

\* syncOrderToBatches.  A hold or a finish that the order shows already is passed over,
\* and its state follows the batches like any other.
Synced(doc) ==
  CASE Stopped(doc) # {} /\ doc.state # "qc_hold" ->
         [doc EXCEPT !.state = "qc_hold", !.qcPassed = "false", !.whole = FALSE]
    [] Stopped(doc) = {} /\ AllComplete(doc) /\ doc.state # "ready_for_delivery" ->
         [doc EXCEPT !.state = "ready_for_delivery", !.qcPassed = "true", !.whole = FALSE]
    [] OTHER -> IF Midway(doc) # "none" THEN [doc EXCEPT !.state = Midway(doc), !.whole = FALSE]
                ELSE doc

-----------------------------------------------------------------------------
(* domain/order-state-machine.ts and domain/processing.ts *)

Transitions ==
  [picked_up |-> {"in_wash", "ironing", "qc"}, in_wash |-> {"ironing", "qc"}, ironing |-> {"qc"},
   qc |-> {"ready_for_delivery", "qc_hold"}, qc_hold |-> {"in_wash", "ironing", "disputed"},
   ready_for_delivery |-> {"out_for_delivery"}, out_for_delivery |-> {"delivered"},
   delivered |-> {"disputed"}, disputed |-> {}]

NeedsClean == (lines = <<>>) \/ \E l \in DOMAIN lines : lines[l].clean # "none"
NeedsPress == (lines = <<>>) \/ \E l \in DOMAIN lines : lines[l].press

\* isAllowedNext
Needed(from, to) ==
  /\ to = "in_wash" => NeedsClean
  /\ to = "ironing" => NeedsPress /\ (from = "picked_up" => ~NeedsClean)
  /\ to = "qc" => /\ from = "picked_up" => ~NeedsClean /\ ~NeedsPress
                  /\ from = "in_wash" => ~NeedsPress

\* apply
MayBecome(doc, to) == to \in Transitions[doc.state] /\ Needed(doc.state, to)

-----------------------------------------------------------------------------
(* A request reads the order, and puts what it made of it *)

Idle == [pc |-> "idle", doc |-> Collected]

Begin(r, doc) ==
  /\ req[r].pc = "idle"
  /\ req' = [req EXCEPT ![r] = [pc |-> "put", doc |-> doc]]
  /\ raced' = (raced \/ \E q \in Requests : req[q].pc # "idle")
  /\ UNCHANGED <<lines, made, order>>

Put(r) ==
  /\ req[r].pc = "put"
  /\ order' = req[r].doc
  /\ req' = [req EXCEPT ![r] = Idle]
  /\ UNCHANGED <<lines, made, raced>>

\* The process stops, or the put rejects.
Lose(r) ==
  /\ req[r].pc = "put"
  /\ req' = [req EXCEPT ![r] = Idle]
  /\ UNCHANGED <<lines, made, order, raced>>

-----------------------------------------------------------------------------
(* Batch by batch *)

AdvanceBatch(r, l) ==
  /\ l \in made
  /\ NextStep(order, l) \notin {"none", "qc"}
  /\ Begin(r, Synced([order EXCEPT !.done[l] = @ \union {NextStep(order, l)}]))

\* recordQc(batch, true)
Passed(doc, l) ==
  [doc EXCEPT !.done[l] = @ \union {"qc"}, !.passed[l] = "true", !.held = @ \ {l}]

\* recordQc(batch, false): work is undone, or the batch is held for a person.
Failed(doc, l, undone, person) ==
  [doc EXCEPT !.done[l] = @ \ undone, !.passed[l] = "false",
              !.held = IF person THEN @ \union {l} ELSE @ \ {l}]

\* Slip: the check does not ask whether the batch is due for it.
AtAnyStep(doc, l) == l \in made

DueForQc(doc, l) == l \in made /\ NextStep(doc, l) = "qc"

PassBatch(r, l) == DueForQc(order, l) /\ Begin(r, Synced(Passed(order, l)))

ReworkBatch(r, l, wanted) ==
  DueForQc(order, l) /\ Begin(r, Synced(Failed(order, l, Undone(l, wanted), FALSE)))

HoldBatch(r, l) == DueForQc(order, l) /\ Begin(r, Synced(Failed(order, l, {}, TRUE)))

-----------------------------------------------------------------------------
(* As a whole *)

\* The clients offer an order that has batches on its batches only, "for good", but "the
\* buttons are a convenience, not the rule": the server does not look at the batches.
Whole(r, to, verdict) ==
  MayBecome(order, to) /\ Begin(r, [order EXCEPT !.state = to, !.qcPassed = verdict, !.whole = TRUE])

StartWash(r) == Whole(r, "in_wash", order.qcPassed)

CompleteWash(r) == Whole(r, IF NeedsPress THEN "ironing" ELSE "qc", order.qcPassed)

CompleteIroning(r) == Whole(r, "qc", order.qcPassed)

SubmitQc(r, pass) ==
  IF pass THEN Whole(r, "ready_for_delivery", "true") ELSE Whole(r, "qc_hold", "false")

Reprocess(r, to) == to \in {"in_wash", "ironing"} /\ Whole(r, to, "null")

-----------------------------------------------------------------------------
(* Delivery, and what puts the order back as it was *)

Become(r, to, verdict) ==
  MayBecome(order, to) /\ Begin(r, [order EXCEPT !.state = to, !.qcPassed = verdict])

OutForDelivery(r) == Become(r, "out_for_delivery", order.qcPassed)

Deliver(r) == Become(r, "delivered", order.qcPassed)

RaiseDispute(r) == Become(r, "disputed", order.qcPassed)

\* startIroning (the note), rate, assignOperator
Touch(r) == Begin(r, order)

-----------------------------------------------------------------------------
(* The specification *)

Init ==
  /\ lines \in Orders
  /\ made \in SUBSET DOMAIN lines
  /\ order = Collected
  /\ req = [r \in Requests |-> Idle]
  /\ raced = FALSE

Arrive(r) ==
  \/ \E l \in Lines : \/ AdvanceBatch(r, l) \/ PassBatch(r, l) \/ HoldBatch(r, l)
                      \/ \E wanted \in {"wash", "iron"} : ReworkBatch(r, l, wanted)
  \/ StartWash(r) \/ CompleteWash(r) \/ CompleteIroning(r)
  \/ \E pass \in BOOLEAN : SubmitQc(r, pass)
  \/ \E to \in {"in_wash", "ironing"} : Reprocess(r, to)
  \/ OutForDelivery(r) \/ Deliver(r) \/ RaiseDispute(r) \/ Touch(r)

Next == \E r \in Requests : Arrive(r) \/ Put(r) \/ Lose(r)

Spec == Init /\ [][Next]_vars

-----------------------------------------------------------------------------
(* Properties *)

TypeOK ==
  /\ lines \in Orders
  /\ made \subseteq DOMAIN lines
  /\ order \in Order
  /\ req \in [Requests -> [pc : {"idle", "put"}, doc : Order]]
  /\ raced \in BOOLEAN

\* An order is ready, and leaves, only after a check that it passed, and when it is its
\* batches that made it ready, with all of them done: whoever wrote the order last, however
\* stale, and whatever was called on it in between.  A check of the whole order looks at
\* no batch, so of an order last called on as a whole this says nothing of the batches.
ReadyIsDone ==
  order.state \in {"ready_for_delivery", "out_for_delivery", "delivered"} =>
    order.qcPassed = "true" /\ (~order.whole => Completed(order) = made)

\* "An order can never claim to be ready for delivery while a batch is still in a
\* machine", says syncOrderToBatches, and batch by batch it cannot.  The calls on the whole
\* order that the server takes as well break it, so no run checks it.
NeverClaimsReady ==
  order.state \in {"ready_for_delivery", "out_for_delivery", "delivered"} => Completed(order) = made

\* Work done stays done, but for the one step a failed check sends back to; a batch that
\* has passed stays passed.  Until requests overlap: then a stale put undoes either.
WorkStays ==
  [][~raced' => \A l \in Lines :
       /\ Cardinality(order.done[l] \ order'.done[l]) <= IF order'.passed[l] = "false" THEN 1 ELSE 0
       /\ order.passed[l] = "true" => order'.passed[l] = "true"]_vars

\* The batches that still have one of the steps before them.
StillTo(steps) == {l \in made : (steps \intersect (Working(l) \union {"qc"})) \ order.done[l] # {}}

\* "Washing while any batch still needs washing, ironing once the washing is done and
\* something still needs the iron, and at the checks once ... only QC remains": of an
\* order with none failed or held, whoever wrote it last and however the requests on it
\* overlapped.  Until the next batch moves, a call on the whole order, the hand-over and a
\* dispute show the stage of their own.
\* The finishing of dry cleaning has no stage: while it is due the order may show the
\* stage before it, or the checks of another batch.
ShowsTheStage ==
  Stopped(order) = {} /\ ~order.whole /\ (\E l \in made : order.done[l] # {})
      /\ order.state \notin {"out_for_delivery", "delivered", "disputed"} =>
    CASE order.state = "in_wash" -> StillTo(CleanSteps \union {"finishing"}) # {}
      [] order.state = "ironing" -> StillTo(CleanSteps) = {} /\ StillTo({"iron", "finishing"}) # {}
      [] order.state = "qc"      -> StillTo(CleanSteps \union {"iron"}) = {} /\ StillTo({"qc"}) # {}
      [] order.state = "ready_for_delivery" -> StillTo(Steps) = {}
      [] OTHER -> StillTo({"finishing"}) # {}

\* "Keeps the order on hold while a batch is held for a person" (and while any has failed
\* its check): the title of two tests.  They look right after the failure; the code
\* forgets the hold with the next batch that moves, so no run checks it.
StaysOnHold == Stopped(order) # {} /\ ~raced /\ ~order.whole => order.state = "qc_hold"

=============================================================================
