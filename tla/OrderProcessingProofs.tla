----------------------- MODULE OrderProcessingProofs -----------------------
(***************************************************************************)
(* Proofs about OrderProcessing for any lines, services and requests:      *)
(* nothing is ready without a check it passed, nor made ready by batches   *)
(* that are not all done; until requests overlap no work is undone but the *)
(* one step a failed check sends back; and the order shows the stage its   *)
(* batches are at, until a call on the whole order shows another.          *)
(***************************************************************************)
EXTENDS OrderProcessing, FiniteSetTheorems, SequenceTheorems, TLAPS

(***************************************************************************)
(* What a batch goes through.                                              *)
(***************************************************************************)

\* At most one cleaning step, at most one step after it, and the check.
Shaped(seq) ==
  /\ seq \in Seq(Steps) /\ seq[Len(seq)] = "qc"
  /\ \/ Len(seq) = 1
     \/ Len(seq) = 2 /\ seq[1] \in CleanSteps \union {"iron"}
     \/ Len(seq) = 3 /\ seq[1] \in CleanSteps /\ seq[2] \in {"iron", "finishing"}

LEMMA Tuples ==
  ASSUME NEW S
  PROVE  /\ <<>> \in Seq(S) /\ Len(<<>>) = 0
         /\ \A a \in S : <<a>> \in Seq(S) /\ Len(<<a>>) = 1 /\ <<a>>[1] = a
<1>1. <<>> \in Seq(S) /\ Len(<<>>) = 0
  OBVIOUS
<1>2. ASSUME NEW a \in S PROVE <<a>> \in Seq(S)
  OBVIOUS
<1>3. ASSUME NEW a \in S PROVE Len(<<a>>) = 1 /\ <<a>>[1] = a
  OBVIOUS
<1> QED
  BY <1>1, <1>2, <1>3

LEMMA Sequences == \A kind \in Services : Shaped(SequenceFor(kind))
<1> SUFFICES ASSUME NEW kind \in Services PROVE Shaped(SequenceFor(kind))
  OBVIOUS
<1> DEFINE clean == IF kind.clean = "none" THEN <<>> ELSE <<kind.clean>>
           after == IF kind.clean = "dry_clean" THEN <<"finishing">> ELSE IF kind.press THEN <<"iron">> ELSE <<>>
           before == clean \o after
<1>0. /\ <<>> \in Seq(Steps) /\ Len(<<>>) = 0
      /\ \A a \in Steps : <<a>> \in Seq(Steps) /\ Len(<<a>>) = 1 /\ <<a>>[1] = a
  BY Tuples
<1>1. SequenceFor(kind) = before \o <<"qc">>
  BY DEF SequenceFor
<1> {"finishing", "iron", "qc"} \subseteq Steps /\ CleanSteps \subseteq Steps /\ "none" \notin CleanSteps
  BY DEF Steps, CleanSteps
<1> kind.clean \in CleanSteps \union {"none"}
  BY DEF Services
<1>2. \/ clean = <<>> /\ kind.clean = "none"
      \/ clean = <<kind.clean>> /\ kind.clean \in CleanSteps
  OBVIOUS
<1>3. after \in {<<>>, <<"iron">>} \/ (after = <<"finishing">> /\ kind.clean = "dry_clean")
  OBVIOUS
<1> HIDE DEF clean, after
<1>4. clean \in Seq(Steps) /\ Len(clean) \in {0, 1} /\ (Len(clean) = 1 => clean[1] \in CleanSteps)
  <2>1. CASE clean = <<>>
    BY <1>0, <2>1
  <2>2. CASE clean = <<kind.clean>> /\ kind.clean \in CleanSteps
    BY <1>0, <2>2
  <2> QED
    BY <1>2, <2>1, <2>2
<1>5. /\ after \in Seq(Steps) /\ Len(after) \in {0, 1}
      /\ Len(after) = 1 => after[1] \in {"iron", "finishing"}
      /\ Len(after) = 1 /\ Len(clean) = 0 => after[1] = "iron"
  <2>1. after = <<"finishing">> => Len(clean) = 1
    BY <1>0, <1>2, <1>3
  <2>2. CASE after = <<>>
    BY <1>0, <2>2
  <2>3. CASE after = <<"iron">>
    BY <1>0, <2>3
  <2>4. CASE after = <<"finishing">>
    BY <1>0, <2>1, <2>4
  <2> QED
    BY <1>3, <2>2, <2>3, <2>4
<1>6. /\ before \in Seq(Steps) /\ Len(before) = Len(clean) + Len(after)
      /\ \A i \in 1..Len(clean) + Len(after) :
           before[i] = IF i <= Len(clean) THEN clean[i] ELSE after[i - Len(clean)]
  BY <1>4, <1>5, ConcatProperties
<1> HIDE DEF before
<1> DEFINE seq == before \o <<"qc">>
<1>7. /\ seq \in Seq(Steps) /\ Len(seq) = Len(before) + 1
      /\ \A i \in 1..Len(before) + 1 : seq[i] = IF i <= Len(before) THEN before[i] ELSE <<"qc">>[i - Len(before)]
  BY <1>6, Tuples, ConcatProperties
<1>8. seq[Len(seq)] = "qc"
  BY <1>6, <1>7, Tuples
<1> HIDE DEF seq
<1>9. Shaped(seq)
  <2>1. CASE Len(clean) = 0 /\ Len(after) = 0
    BY <2>1, <1>6, <1>7, <1>8 DEF Shaped
  <2>2. CASE Len(clean) = 0 /\ Len(after) = 1
    BY <2>2, <1>4, <1>5, <1>6, <1>7, <1>8 DEF Shaped
  <2>3. CASE Len(clean) = 1 /\ Len(after) = 0
    BY <2>3, <1>4, <1>5, <1>6, <1>7, <1>8 DEF Shaped
  <2>4. CASE Len(clean) = 1 /\ Len(after) = 1
    BY <2>4, <1>4, <1>5, <1>6, <1>7, <1>8 DEF Shaped
  <2> QED
    BY <1>4, <1>5, <2>1, <2>2, <2>3, <2>4
<1> QED
  BY <1>1, <1>9 DEF seq

LEMMA ShapedSteps ==
  ASSUME NEW seq, Shaped(seq)
  PROVE  /\ DOMAIN seq \subseteq 1..3
         /\ \A i \in DOMAIN seq : seq[i] \in Steps
BY DEF Shaped, Steps, CleanSteps

\* What is left of a sequence has a first step.
LEMMA LeftHasAFirst ==
  ASSUME NEW seq, Shaped(seq), NEW left \in SUBSET DOMAIN seq, left # {}
  PROVE  (CHOOSE i \in left : \A j \in left : i <= j) \in left
<1>1. left \subseteq 1..3
  BY ShapedSteps
<1>2. \E i \in left : \A j \in left : i <= j
  <2>1. CASE 1 \in left
    BY <1>1, <2>1
  <2>2. CASE 1 \notin left /\ 2 \in left
    BY <1>1, <2>2
  <2>3. CASE 1 \notin left /\ 2 \notin left
    BY <1>1, <2>3
  <2> QED
    BY <2>1, <2>2, <2>3
<1> QED
  BY <1>2

LEMMA FirstLeftIsAStep ==
  ASSUME NEW seq, Shaped(seq), NEW done
  PROVE  FirstLeft(seq, done) \in Steps \union {"none"}
<1> DEFINE left == {i \in DOMAIN seq : seq[i] \notin done}
<1>1. left # {} => (CHOOSE i \in left : \A j \in left : i <= j) \in left
  BY LeftHasAFirst
<1>2. FirstLeft(seq, done) = IF left = {} THEN "none" ELSE seq[CHOOSE i \in left : \A j \in left : i <= j]
  BY DEF FirstLeft
<1> HIDE DEF left
<1>3. left # {} => seq[CHOOSE i \in left : \A j \in left : i <= j] \in Steps
  BY <1>1, ShapedSteps DEF left
<1> QED
  BY <1>2, <1>3

(***************************************************************************)
(* The invariant.  Every document, the stored one and the one each request *)
(* is about to put, tells the truth about itself: it is ready only with    *)
(* its check passed and, where its batches made it so, with all of them    *)
(* done; and a batch that passed has been checked.                         *)
(* While requests have not overlapped, there is one of them at most, and   *)
(* what it will put keeps the work of the stored order.                    *)
(***************************************************************************)
Ready(doc) ==
  doc.state \in {"ready_for_delivery", "out_for_delivery", "delivered"} =>
    doc.qcPassed = "true" /\ (~doc.whole => Completed(doc) = made)

\* Of an order with a batch to do, only a check of the whole can have made it ready.
ReadyAsAWhole(doc) ==
  doc.state \in {"ready_for_delivery", "out_for_delivery", "delivered"} => doc.qcPassed = "true" /\ doc.whole

Checked(doc) == \A l \in Lines : doc.passed[l] = "true" => "qc" \in doc.done[l]

Keeps(old, new) ==
  \A l \in Lines :
    /\ Cardinality(old.done[l] \ new.done[l]) <= IF new.passed[l] = "false" THEN 1 ELSE 0
    /\ old.passed[l] = "true" => new.passed[l] = "true"

Alone ==
  ~raced => \A r \in Requests : req[r].pc = "put" =>
    Keeps(order, req[r].doc) /\ \A q \in Requests : q # r => req[q].pc = "idle"

IInv ==
  /\ TypeOK
  /\ Ready(order) /\ Checked(order)
  /\ \A r \in Requests : Ready(req[r].doc) /\ Checked(req[r].doc)
  /\ Alone

\* What a request makes of the order it read.
Good(doc) == doc \in Order /\ Ready(doc) /\ Checked(doc) /\ Keeps(order, doc)

-----------------------------------------------------------------------------
(* Documents *)

LEMMA OrderFields ==
  ASSUME NEW doc \in Order
  PROVE  /\ doc.state \in States /\ doc.qcPassed \in Verdicts
         /\ doc.done \in [Lines -> SUBSET Steps] /\ doc.passed \in [Lines -> Verdicts]
         /\ doc.held \in SUBSET Lines /\ doc.whole \in BOOLEAN
BY DEF Order

LEMMA Staged ==
  ASSUME NEW doc \in Order, NEW state \in States, NEW verdict \in Verdicts
  PROVE  /\ [doc EXCEPT !.state = state, !.qcPassed = verdict] \in Order
         /\ [doc EXCEPT !.state = state, !.qcPassed = verdict, !.whole = TRUE] \in Order
BY DEF Order

\* Documents with the same work have the same batches completed.
LEMMA SameWork ==
  ASSUME NEW old \in Order, NEW new \in Order, new.done = old.done
  PROVE  Completed(new) = Completed(old)
BY DEF Completed, Status, NextStep

LEMMA Finished == \A doc : Completed(doc) = {l \in made : NextStep(doc, l) = "none"}
BY DEF Completed, Status

LEMMA NothingLost == \A set : Cardinality(set \ set) = 0
<1> SUFFICES ASSUME NEW set PROVE Cardinality(set \ set) = 0
  OBVIOUS
<1>1. set \ set = {}
  OBVIOUS
<1> QED
  BY <1>1, FS_EmptySet

LEMMA KeepsAsItWas ==
  ASSUME NEW old \in Order, NEW new \in Order, new.done = old.done, new.passed = old.passed
  PROVE  Keeps(old, new)
BY NothingLost DEF Keeps

LEMMA MidwayIsAState == \A doc : Midway(doc) \in {"in_wash", "ironing", "qc", "none"}
BY DEF Midway

\* syncOrderToBatches leaves the work alone and is right about the end of it.
LEMMA SyncedIsRight ==
  ASSUME NEW doc \in Order, ReadyAsAWhole(doc)
  PROVE  /\ Synced(doc) \in Order /\ Ready(Synced(doc))
         /\ Synced(doc).done = doc.done /\ Synced(doc).passed = doc.passed
<1> doc = [state |-> doc.state, qcPassed |-> doc.qcPassed, done |-> doc.done, passed |-> doc.passed, held |-> doc.held,
         whole |-> doc.whole]
  BY DEF Order
<1>1. CASE Stopped(doc) # {} /\ doc.state # "qc_hold"
  <2> DEFINE new == [doc EXCEPT !.state = "qc_hold", !.qcPassed = "false", !.whole = FALSE]
  <2>1. Synced(doc) = new
    BY <1>1 DEF Synced
  <2>2. new \in Order /\ new.state = "qc_hold" /\ new.done = doc.done /\ new.passed = doc.passed
    BY DEF Order, States, Verdicts
  <2> QED
    BY <2>1, <2>2 DEF Ready
<1>2. CASE Stopped(doc) = {} /\ AllComplete(doc) /\ doc.state # "ready_for_delivery"
  <2> DEFINE new == [doc EXCEPT !.state = "ready_for_delivery", !.qcPassed = "true", !.whole = FALSE]
  <2>1. Synced(doc) = new
    BY <1>2 DEF Synced
  <2>2. new \in Order /\ new.qcPassed = "true" /\ new.done = doc.done /\ new.passed = doc.passed
    BY DEF Order, States, Verdicts
  <2>3. Completed(new) = made
    BY <1>2, <2>2, SameWork DEF AllComplete
  <2> QED
    BY <2>1, <2>2, <2>3 DEF Ready
<1>3. CASE ~(Stopped(doc) # {} /\ doc.state # "qc_hold")
           /\ ~(Stopped(doc) = {} /\ AllComplete(doc) /\ doc.state # "ready_for_delivery")
  <2> DEFINE new == [doc EXCEPT !.state = Midway(doc), !.whole = FALSE]
  <2>1. Synced(doc) = IF Midway(doc) # "none" THEN new ELSE doc
    BY <1>3 DEF Synced
  <2>2. CASE Midway(doc) = "none"
    BY <2>1, <2>2 DEF Ready, ReadyAsAWhole
  <2>3. CASE Midway(doc) # "none"
    <3>1. new \in Order /\ new.state \in {"in_wash", "ironing", "qc"} /\ new.done = doc.done /\ new.passed = doc.passed
      BY <2>3, MidwayIsAState DEF Order, States
    <3> QED
      BY <2>1, <2>3, <3>1 DEF Ready
  <2> QED
    BY <2>2, <2>3
<1> QED
  BY <1>1, <1>2, <1>3

-----------------------------------------------------------------------------
(* A request *)

LEMMA BeginKeeps ==
  ASSUME IInv, NEW r \in Requests, NEW doc, Good(doc), Begin(r, doc)
  PROVE  IInv'
<1> USE DEF Begin
<1>1. /\ req \in [Requests -> [pc : {"idle", "put"}, doc : Order]]
      /\ [pc |-> "put", doc |-> doc] \in [pc : {"idle", "put"}, doc : Order]
      /\ req' = [req EXCEPT ![r] = [pc |-> "put", doc |-> doc]]
  BY DEF IInv, TypeOK, Good
<1>2. /\ req' \in [Requests -> [pc : {"idle", "put"}, doc : Order]]
      /\ req'[r].pc = "put" /\ req'[r].doc = doc
      /\ \A q \in Requests : q # r => req'[q] = req[q]
  BY <1>1
<1>3. TypeOK'
  BY <1>2 DEF IInv, TypeOK
<1>4. Ready(order)' /\ Checked(order)'
  BY DEF IInv, Ready, Checked, Completed, Status, NextStep
<1>5. ASSUME NEW q \in Requests PROVE Ready(req[q].doc)' /\ Checked(req[q].doc)'
  <2>1. CASE q = r
    BY <1>2, <2>1 DEF Good, Ready, Checked, Completed, Status, NextStep
  <2>2. CASE q # r
    BY <1>2, <2>2 DEF IInv, Ready, Checked, Completed, Status, NextStep
  <2> QED
    BY <2>1, <2>2
<1>6. Alone'
  <2> SUFFICES ASSUME ~raced', NEW q \in Requests, req'[q].pc = "put"
               PROVE  /\ Keeps(order', req'[q].doc)
                      /\ \A other \in Requests : other # q => req'[other].pc = "idle"
    BY DEF Alone
  <2>1. \A other \in Requests : req[other].pc = "idle"
    BY DEF Alone
  <2>2. q = r
    BY <1>2, <2>1
  <2> QED
    BY <1>2, <2>1, <2>2 DEF Good
<1> QED
  BY <1>3, <1>4, <1>5, <1>6 DEF IInv

-----------------------------------------------------------------------------
(* The batches *)

LEMMA Batches ==
  ASSUME IInv, NEW l \in made
  PROVE  l \in Lines /\ Shaped(SequenceFor(lines[l]))
<1>1. PICK named \in SUBSET Lines : lines \in [named -> Services]
  BY OrdersAreLines DEF IInv, TypeOK
<1>2. l \in named /\ lines[l] \in Services
  BY <1>1 DEF IInv, TypeOK
<1> QED
  BY <1>2, Sequences

\* An order with a batch under way is among the ready ones only as a whole.
LEMMA NotYetReady ==
  ASSUME IInv, NEW l \in made, NextStep(order, l) # "none",
         NEW doc, doc.state = order.state, doc.qcPassed = order.qcPassed, doc.whole = order.whole
  PROVE  ReadyAsAWhole(doc)
<1>1. Completed(order) # made
  BY Finished
<1>2. order.whole \in BOOLEAN
  BY DEF IInv, TypeOK, Order
<1> QED
  BY <1>1, <1>2 DEF IInv, Ready, ReadyAsAWhole

LEMMA AtMostOne == ASSUME NEW x, NEW set \in SUBSET {x} PROVE Cardinality(set) <= 1
<1>1. set = {} \/ set = {x}
  OBVIOUS
<1>2. CASE set = {}
  BY <1>2, FS_EmptySet
<1>3. CASE set = {x}
  BY <1>3, FS_Singleton
<1> QED
  BY <1>1, <1>2, <1>3

\* A failed check undoes one working step at most.
LEMMA UndoneIsOne ==
  ASSUME IInv, NEW l \in made, NEW wanted
  PROVE  (\E x : Undone(l, wanted) \subseteq {x}) /\ "qc" \notin Undone(l, wanted)
<1> DEFINE seq == SequenceFor(lines[l])
<1>1. Shaped(seq)
  BY Batches
<1> HIDE DEF seq
<1>2. Working(l) = {seq[i] : i \in DOMAIN seq} \ {"qc"} /\ LastWorking(l) = IF Len(seq) = 1 THEN {} ELSE {seq[Len(seq) - 1]}
  BY DEF Working, LastWorking, seq
<1>3. DOMAIN seq = 1..Len(seq) /\ Len(seq) \in 1..3
  BY <1>1 DEF Shaped
<1>4. \A i \in 1..Len(seq) : seq[i] \in CleanSteps => i = 1
  BY <1>1, <1>3 DEF Shaped, CleanSteps
<1>5. Working(l) \intersect CleanSteps \subseteq {seq[1]}
  BY <1>2, <1>3, <1>4
<1>6. "qc" \notin Working(l) /\ "qc" \notin LastWorking(l)
  BY <1>1, <1>2, <1>3 DEF Shaped, CleanSteps
<1>7. \E x : LastWorking(l) \subseteq {x}
  BY <1>2
<1> QED
  BY <1>5, <1>6, <1>7 DEF Undone

LEMMA AdvanceKeeps ==
  ASSUME IInv, NEW r \in Requests, NEW l \in Lines, AdvanceBatch(r, l)
  PROVE  IInv'
<1> DEFINE new == [order EXCEPT !.done[l] = @ \union {NextStep(order, l)}]
<1>1. order \in Order /\ l \in made /\ NextStep(order, l) # "none" /\ Begin(r, Synced(new))
  BY DEF AdvanceBatch, IInv, TypeOK
<1>2. NextStep(order, l) \in Steps
  BY <1>1, Batches, FirstLeftIsAStep DEF NextStep
<1>3. /\ new \in Order /\ new.state = order.state /\ new.passed = order.passed
      /\ new.qcPassed = order.qcPassed /\ new.whole = order.whole
      /\ \A k \in Lines : order.done[k] \subseteq new.done[k]
  BY <1>1, <1>2 DEF Order
<1> HIDE DEF new
<1>4. /\ Synced(new) \in Order /\ Ready(Synced(new))
      /\ Synced(new).done = new.done /\ Synced(new).passed = order.passed
  BY <1>1, <1>3, NotYetReady, SyncedIsRight
<1>5. Checked(Synced(new))
  BY <1>3, <1>4 DEF IInv, Checked
<1>6. Keeps(order, Synced(new))
  <2>1. \A k \in Lines : order.done[k] \ Synced(new).done[k] = {}
    BY <1>3, <1>4
  <2> QED
    BY <1>4, <2>1, FS_EmptySet DEF Keeps
<1> QED
  BY <1>1, <1>4, <1>5, <1>6, BeginKeeps DEF Good

LEMMA PassKeeps ==
  ASSUME IInv, NEW r \in Requests, NEW l \in Lines, PassBatch(r, l)
  PROVE  IInv'
<1> DEFINE new == Passed(order, l)
<1>1. order \in Order /\ l \in made /\ NextStep(order, l) = "qc" /\ Begin(r, Synced(new))
  BY DEF PassBatch, DueForQc, IInv, TypeOK
<1>2. /\ new \in Order /\ new.state = order.state
      /\ new.qcPassed = order.qcPassed /\ new.whole = order.whole
      /\ \A k \in Lines : order.done[k] \subseteq new.done[k]
      /\ \A k \in Lines : k # l => new.passed[k] = order.passed[k]
      /\ new.passed[l] = "true" /\ "qc" \in new.done[l]
  BY <1>1 DEF Passed, Order, Steps, Verdicts
<1> HIDE DEF new
<1>3. /\ Synced(new) \in Order /\ Ready(Synced(new))
      /\ Synced(new).done = new.done /\ Synced(new).passed = new.passed
  BY <1>1, <1>2, NotYetReady, SyncedIsRight
<1>4. Checked(Synced(new))
  BY <1>2, <1>3 DEF IInv, Checked
<1>5. Keeps(order, Synced(new))
  <2>1. \A k \in Lines : order.done[k] \ Synced(new).done[k] = {}
    BY <1>2, <1>3
  <2>2. \A k \in Lines : Cardinality(order.done[k] \ Synced(new).done[k]) = 0
    BY <2>1, FS_EmptySet
  <2>3. \A k \in Lines : order.passed[k] = "true" => Synced(new).passed[k] = "true"
    BY <1>2, <1>3
  <2> QED
    BY <2>2, <2>3 DEF Keeps
<1> QED
  BY <1>1, <1>3, <1>4, <1>5, BeginKeeps DEF Good

\* A batch that is due for its check has not passed one.
LEMMA FailKeeps ==
  ASSUME IInv, NEW r \in Requests, NEW l \in Lines, NEW undone, NEW person \in BOOLEAN,
         DueForQc(order, l), \E x : undone \subseteq {x}, "qc" \notin undone,
         Begin(r, Synced(Failed(order, l, undone, person)))
  PROVE  IInv'
<1> DEFINE new == Failed(order, l, undone, person)
<1>1. order \in Order /\ l \in made /\ NextStep(order, l) = "qc"
  BY DEF DueForQc, IInv, TypeOK
<1>2. /\ new \in Order /\ new.state = order.state
      /\ new.qcPassed = order.qcPassed /\ new.whole = order.whole
      /\ \A k \in Lines : k # l => new.passed[k] = order.passed[k] /\ new.done[k] = order.done[k]
      /\ new.passed[l] = "false" /\ new.done[l] = order.done[l] \ undone
  BY <1>1 DEF Failed, Order, Verdicts
<1>3. order.passed[l] # "true"
  <2>1. "qc" \notin order.done[l]
    <3> DEFINE seq == SequenceFor(lines[l])
               left == {i \in DOMAIN seq : seq[i] \notin order.done[l]}
               first == CHOOSE i \in left : \A j \in left : i <= j
    <3>1. Shaped(seq) /\ FirstLeft(seq, order.done[l]) = "qc"
      BY <1>1, Batches DEF NextStep
    <3>2. left # {} /\ seq[first] = "qc"
      BY <3>1 DEF FirstLeft
    <3>3. left \in SUBSET DOMAIN seq
      OBVIOUS
    <3>4. first \in left
      <4> HIDE DEF seq, left
      <4> QED
        BY <3>1, <3>2, <3>3, LeftHasAFirst
    <3> QED
      BY <3>2, <3>4
  <2> QED
    BY <2>1 DEF IInv, Checked
<1> HIDE DEF new
<1>4. /\ Synced(new) \in Order /\ Ready(Synced(new))
      /\ Synced(new).done = new.done /\ Synced(new).passed = new.passed
  BY <1>1, <1>2, NotYetReady, SyncedIsRight
<1>5. Checked(Synced(new))
  BY <1>2, <1>4 DEF IInv, Checked
<1>6. Keeps(order, Synced(new))
  <2> SUFFICES ASSUME NEW k \in Lines
               PROVE  /\ Cardinality(order.done[k] \ new.done[k]) <= IF new.passed[k] = "false" THEN 1 ELSE 0
                      /\ order.passed[k] = "true" => new.passed[k] = "true"
    BY <1>4 DEF Keeps
  <2>1. CASE k = l
    <3>1. PICK x : undone \subseteq {x}
      OBVIOUS
    <3>2. order.done[k] \ new.done[k] \in SUBSET {x}
      BY <1>2, <2>1, <3>1
    <3> QED
      BY <1>2, <1>3, <2>1, <3>2, AtMostOne
  <2>2. CASE k # l
    BY <1>2, <2>2, NothingLost
  <2> QED
    BY <2>1, <2>2
<1> QED
  BY <1>4, <1>5, <1>6, BeginKeeps DEF Good, new

LEMMA ReworkKeeps ==
  ASSUME IInv, NEW r \in Requests, NEW l \in Lines, NEW wanted, ReworkBatch(r, l, wanted)
  PROVE  IInv'
BY UndoneIsOne, FailKeeps DEF ReworkBatch, DueForQc

LEMMA HoldKeeps ==
  ASSUME IInv, NEW r \in Requests, NEW l \in Lines, HoldBatch(r, l)
  PROVE  IInv'
<1> DEFINE nothing == {}
<1>1. (\E x : nothing \subseteq {x}) /\ "qc" \notin nothing
  OBVIOUS
<1>2. DueForQc(order, l) /\ Begin(r, Synced(Failed(order, l, nothing, TRUE)))
  BY DEF HoldBatch
<1> HIDE DEF nothing
<1> QED
  BY <1>1, <1>2, FailKeeps

-----------------------------------------------------------------------------
(* The order as a whole *)

\* A new stage on the order read, the history of where it came from with it.
LEMMA StageKeeps ==
  ASSUME IInv, NEW r \in Requests, NEW doc \in Order, Begin(r, doc),
         doc.done = order.done, doc.passed = order.passed, Ready(doc)
  PROVE  IInv'
<1>1. order \in Order
  BY DEF IInv, TypeOK
<1>2. Checked(doc)
  BY DEF IInv, Checked
<1>3. Keeps(order, doc)
  BY <1>1, KeepsAsItWas
<1> QED
  BY <1>2, <1>3, BeginKeeps DEF Good

\* No call on the whole order makes it ready but the check that passes it.
LEMMA WholeBecomes ==
  ASSUME IInv, NEW r \in Requests, NEW to \in States, NEW verdict \in Verdicts, Whole(r, to, verdict),
         to \in {"ready_for_delivery", "out_for_delivery", "delivered"} => verdict = "true"
  PROVE  IInv'
<1> DEFINE new == [order EXCEPT !.state = to, !.qcPassed = verdict, !.whole = TRUE]
<1>1. order \in Order /\ Begin(r, new)
  BY DEF Whole, IInv, TypeOK
<1>2. /\ new \in Order /\ new.state = to /\ new.qcPassed = verdict /\ new.whole = TRUE
      /\ new.done = order.done /\ new.passed = order.passed
  BY <1>1 DEF Order
<1> HIDE DEF new
<1>3. Ready(new)
  BY <1>2 DEF Ready
<1> QED
  BY <1>1, <1>2, <1>3, StageKeeps

LEMMA WholeKeeps ==
  ASSUME IInv, NEW r \in Requests,
         \/ StartWash(r) \/ CompleteWash(r) \/ CompleteIroning(r)
         \/ \E pass \in BOOLEAN : SubmitQc(r, pass)
         \/ \E to \in {"in_wash", "ironing"} : Reprocess(r, to)
  PROVE  IInv'
<1> order.qcPassed \in Verdicts
  BY DEF IInv, TypeOK, Order
<1> {"in_wash", "ironing", "qc", "qc_hold", "ready_for_delivery"} \subseteq States
  BY DEF States
<1> {"null", "true", "false"} \subseteq Verdicts
  BY DEF Verdicts
<1>1. CASE StartWash(r)
  BY <1>1, WholeBecomes DEF StartWash
<1>2. CASE CompleteWash(r)
  <2>1. PICK to \in {"ironing", "qc"} : Whole(r, to, order.qcPassed)
    BY <1>2 DEF CompleteWash
  <2> QED
    BY <2>1, WholeBecomes
<1>3. CASE CompleteIroning(r)
  BY <1>3, WholeBecomes DEF CompleteIroning
<1>4. CASE \E pass \in BOOLEAN : SubmitQc(r, pass)
  <2>1. Whole(r, "ready_for_delivery", "true") \/ Whole(r, "qc_hold", "false")
    BY <1>4 DEF SubmitQc
  <2> QED
    BY <2>1, WholeBecomes
<1>5. CASE \E to \in {"in_wash", "ironing"} : Reprocess(r, to)
  <2>1. PICK to \in {"in_wash", "ironing"} : Whole(r, to, "null")
    BY <1>5 DEF Reprocess
  <2> QED
    BY <2>1, WholeBecomes
<1> QED
  BY <1>1, <1>2, <1>3, <1>4, <1>5

\* The hand-over follows an order that was ready, whichever way it had become so.
LEMMA BecomeKeeps ==
  ASSUME IInv, NEW r \in Requests, NEW to \in States, Become(r, to, order.qcPassed),
         to \in {"ready_for_delivery", "out_for_delivery", "delivered"} =>
           order.state \in {"ready_for_delivery", "out_for_delivery", "delivered"}
  PROVE  IInv'
<1> DEFINE new == [order EXCEPT !.state = to, !.qcPassed = order.qcPassed]
<1>1. order \in Order /\ order.qcPassed \in Verdicts /\ Begin(r, new)
  BY DEF Become, IInv, TypeOK, Order
<1>2. /\ new \in Order /\ new.state = to /\ new.qcPassed = order.qcPassed /\ new.whole = order.whole
      /\ new.done = order.done /\ new.passed = order.passed
  BY <1>1 DEF Order
<1> HIDE DEF new
<1>3. Ready(new)
  BY <1>1, <1>2, SameWork DEF IInv, Ready
<1> QED
  BY <1>1, <1>2, <1>3, StageKeeps

LEMMA DeliveryKeeps ==
  ASSUME IInv, NEW r \in Requests, OutForDelivery(r) \/ Deliver(r) \/ RaiseDispute(r)
  PROVE  IInv'
<1>1. order.qcPassed \in Verdicts /\ order.state \in States
  BY DEF IInv, TypeOK, Order
<1>2. CASE OutForDelivery(r)
  <2>1. order.state = "ready_for_delivery"
    BY <1>1, <1>2 DEF OutForDelivery, Become, MayBecome, Transitions, States
  <2> QED
    BY <1>1, <1>2, <2>1, BecomeKeeps DEF OutForDelivery, States
<1>3. CASE Deliver(r)
  <2>1. order.state = "out_for_delivery"
    BY <1>1, <1>3 DEF Deliver, Become, MayBecome, Transitions, States
  <2> QED
    BY <1>1, <1>3, <2>1, BecomeKeeps DEF Deliver, States
<1>4. CASE RaiseDispute(r)
  BY <1>1, <1>4, BecomeKeeps DEF RaiseDispute, States
<1> QED
  BY <1>2, <1>3, <1>4

LEMMA TouchKeeps ==
  ASSUME IInv, NEW r \in Requests, Touch(r)
  PROVE  IInv'
<1>1. Good(order)
  BY KeepsAsItWas DEF IInv, TypeOK, Good
<1> QED
  BY <1>1, BeginKeeps DEF Touch

-----------------------------------------------------------------------------
(* The put, and what ends before it *)

LEMMA Returned ==
  ASSUME IInv, NEW r \in Requests, req' = [req EXCEPT ![r] = Idle], UNCHANGED <<lines, made>>
  PROVE  /\ req' \in [Requests -> [pc : {"idle", "put"}, doc : Order]]
         /\ req'[r].pc = "idle" /\ \A q \in Requests : q # r => req'[q] = req[q]
         /\ \A q \in Requests : Ready(req[q].doc)' /\ Checked(req[q].doc)'
<1>1. Collected \in Order
  BY DEF Collected, Order, States, Verdicts
<1>2. /\ req \in [Requests -> [pc : {"idle", "put"}, doc : Order]]
      /\ Idle \in [pc : {"idle", "put"}, doc : Order] /\ Idle.pc = "idle" /\ Idle.doc = Collected
  BY <1>1 DEF Idle, IInv, TypeOK
<1>3. /\ req' \in [Requests -> [pc : {"idle", "put"}, doc : Order]]
      /\ req'[r] = Idle /\ \A q \in Requests : q # r => req'[q] = req[q]
  BY <1>2
<1>4. ASSUME NEW q \in Requests PROVE Ready(req[q].doc)' /\ Checked(req[q].doc)'
  <2>1. CASE q = r
    BY <1>2, <1>3, <2>1 DEF Ready, Checked, Collected
  <2>2. CASE q # r
    BY <1>3, <2>2 DEF IInv, Ready, Checked, Completed, Status, NextStep
  <2> QED
    BY <2>1, <2>2
<1> QED
  BY <1>2, <1>3, <1>4

LEMMA PutKeeps ==
  ASSUME IInv, NEW r \in Requests, Put(r)
  PROVE  IInv'
<1>1. /\ req' \in [Requests -> [pc : {"idle", "put"}, doc : Order]]
      /\ req'[r].pc = "idle" /\ \A q \in Requests : q # r => req'[q] = req[q]
      /\ \A q \in Requests : Ready(req[q].doc)' /\ Checked(req[q].doc)'
  BY Returned DEF Put
<1>2. TypeOK'
  BY <1>1 DEF IInv, TypeOK, Put
<1>3. Ready(order)' /\ Checked(order)'
  BY DEF Put, IInv, Ready, Checked, Completed, Status, NextStep
<1>4. Alone'
  <2>1. ~raced => \A q \in Requests : req'[q].pc = "idle"
    BY <1>1 DEF IInv, Alone, Put
  <2> QED
    BY <2>1 DEF Alone, Put
<1> QED
  BY <1>1, <1>2, <1>3, <1>4 DEF IInv

LEMMA LoseKeeps ==
  ASSUME IInv, NEW r \in Requests, Lose(r)
  PROVE  IInv'
<1>1. /\ req' \in [Requests -> [pc : {"idle", "put"}, doc : Order]]
      /\ req'[r].pc = "idle" /\ \A q \in Requests : q # r => req'[q] = req[q]
      /\ \A q \in Requests : Ready(req[q].doc)' /\ Checked(req[q].doc)'
  BY Returned DEF Lose
<1>2. TypeOK'
  BY <1>1 DEF IInv, TypeOK, Lose
<1>3. Ready(order)' /\ Checked(order)'
  BY DEF Lose, IInv, Ready, Checked, Completed, Status, NextStep
<1>4. Alone'
  BY <1>1 DEF IInv, Alone, Lose
<1> QED
  BY <1>1, <1>2, <1>3, <1>4 DEF IInv

LEMMA StutterKeeps == IInv /\ UNCHANGED vars => IInv'
BY DEF IInv, TypeOK, Ready, Checked, Alone, Completed, Status, NextStep, vars

LEMMA Initially == Init => IInv
<1> SUFFICES ASSUME Init PROVE IInv
  OBVIOUS
<1>1. Collected \in Order /\ Idle \in [pc : {"idle", "put"}, doc : Order]
  BY DEF Collected, Idle, Order, States, Verdicts
<1>2. TypeOK
  BY <1>1 DEF Init, TypeOK
<1>3. /\ Ready(order) /\ Checked(order)
      /\ \A r \in Requests : req[r].pc = "idle" /\ Ready(req[r].doc) /\ Checked(req[r].doc)
  BY DEF Init, Idle, Collected, Ready, Checked
<1> QED
  BY <1>2, <1>3 DEF IInv, Alone

LEMMA StepKeeps == IInv /\ [Next]_vars => IInv'
<1> SUFFICES ASSUME IInv, [Next]_vars PROVE IInv'
  OBVIOUS
<1>1. CASE UNCHANGED vars
  BY <1>1, StutterKeeps
<1>2. ASSUME NEW r \in Requests, Arrive(r) PROVE IInv'
  <2>1. CASE \E l \in Lines : \/ AdvanceBatch(r, l) \/ PassBatch(r, l) \/ HoldBatch(r, l)
                              \/ \E wanted \in {"wash", "iron"} : ReworkBatch(r, l, wanted)
    BY <2>1, AdvanceKeeps, PassKeeps, HoldKeeps, ReworkKeeps
  <2>2. CASE \/ StartWash(r) \/ CompleteWash(r) \/ CompleteIroning(r)
             \/ \E pass \in BOOLEAN : SubmitQc(r, pass)
             \/ \E to \in {"in_wash", "ironing"} : Reprocess(r, to)
    BY <2>2, WholeKeeps
  <2>3. CASE OutForDelivery(r) \/ Deliver(r) \/ RaiseDispute(r)
    BY <2>3, DeliveryKeeps
  <2>4. CASE Touch(r)
    BY <2>4, TouchKeeps
  <2> QED
    BY <1>2, <2>1, <2>2, <2>3, <2>4 DEF Arrive
<1> QED
  BY <1>1, <1>2, PutKeeps, LoseKeeps DEF Next

-----------------------------------------------------------------------------
(* The theorems *)

\* Whatever the lines, their services and the number of requests, the documents keep
\* their shape and tell the truth about their batches.
THEOREM Invariance == Spec => []IInv
BY Initially, StepKeeps, PTL DEF Spec

\* Nothing is ready without a check that it passed, and the batches make an order ready
\* only when all of them are done (syncOrderToBatches): however stale the order that is put
\* back, and whatever calls on the whole order came in between.
THEOREM NeverReadyEarly == Spec => []ReadyIsDone
<1>1. IInv => ReadyIsDone
  BY DEF IInv, Ready, ReadyIsDone
<1> QED
  BY <1>1, Invariance, PTL

\* While requests on the order do not overlap, a step takes back at most the one working
\* step a failed check sends the batch to (planCorrection), and never a passed check.
THEOREM WorkIsKept == Spec => WorkStays
<1> DEFINE Stays == ~raced' => \A l \in Lines :
                      /\ Cardinality(order.done[l] \ order'.done[l]) <= IF order'.passed[l] = "false" THEN 1 ELSE 0
                      /\ order.passed[l] = "true" => order'.passed[l] = "true"
<1>1. ASSUME IInv, [Next]_vars PROVE [Stays]_vars
  <2>1. CASE order' = order
    <3>1. \A l \in Lines : Cardinality(order.done[l] \ order'.done[l]) = 0
      BY <2>1, NothingLost
    <3> QED
      BY <2>1, <3>1
  <2>2. ASSUME NEW r \in Requests, Put(r) PROVE Stays
    BY <1>1, <2>2 DEF IInv, Alone, Keeps, Put
  <2>3. order' = order \/ \E r \in Requests : Put(r)
    BY <1>1 DEF Next, vars, Arrive, Lose, Begin, AdvanceBatch, PassBatch, HoldBatch, ReworkBatch,
                StartWash, CompleteWash, CompleteIroning, SubmitQc, Reprocess, OutForDelivery,
                Deliver, RaiseDispute, Touch, Become, Whole
  <2> QED
    BY <2>1, <2>2, <2>3
<1> QED
  BY <1>1, Invariance, PTL DEF Spec, WorkStays

-----------------------------------------------------------------------------
(***************************************************************************)
(* The stage.  A batch is checked last, so what it does next tells what it *)
(* still has before it, and the steps the batches do next give the stage   *)
(* of the order.                                                           *)
(***************************************************************************)
\* What a batch still has before it.
Still(doc, l) == (Working(l) \union {"qc"}) \ doc.done[l]

\* The batches that have one of these steps before them.
Ahead(doc, steps) == {l \in made : (steps \intersect (Working(l) \union {"qc"})) \ doc.done[l] # {}}

\* A batch has its check behind it only with everything else.
CheckedLast(doc) == \A l \in made : "qc" \in doc.done[l] => Working(l) \subseteq doc.done[l]

\* ShowsTheStage, of a document.
Shows(doc) ==
  Stopped(doc) = {} /\ ~doc.whole /\ (\E l \in made : doc.done[l] # {})
      /\ doc.state \notin {"out_for_delivery", "delivered", "disputed"} =>
    CASE doc.state = "in_wash" -> Ahead(doc, CleanSteps \union {"finishing"}) # {}
      [] doc.state = "ironing" -> Ahead(doc, CleanSteps) = {} /\ Ahead(doc, {"iron", "finishing"}) # {}
      [] doc.state = "qc"      -> Ahead(doc, CleanSteps \union {"iron"}) = {} /\ Ahead(doc, {"qc"}) # {}
      [] doc.state = "ready_for_delivery" -> Ahead(doc, Steps) = {}
      [] OTHER -> Ahead(doc, {"finishing"}) # {}

Tells(doc) == CheckedLast(doc) /\ Shows(doc)

\* The first of the steps left comes before the others left.
LEMMA FirstIsLeast ==
  ASSUME NEW seq, Shaped(seq), NEW done, \E i \in DOMAIN seq : seq[i] \notin done
  PROVE  \E first \in DOMAIN seq :
           /\ FirstLeft(seq, done) = seq[first] /\ seq[first] \notin done
           /\ \A j \in DOMAIN seq : seq[j] \notin done => first <= j
<1> DEFINE left == {i \in DOMAIN seq : seq[i] \notin done}
           first == CHOOSE i \in left : \A j \in left : i <= j
<1>1. left # {} /\ left \in SUBSET DOMAIN seq
  OBVIOUS
<1>2. FirstLeft(seq, done) = seq[first]
  BY <1>1 DEF FirstLeft
<1>3. \E i \in left : \A j \in left : i <= j
  <2>1. left \subseteq 1..3
    BY ShapedSteps
  <2> HIDE DEF left
  <2>2. CASE 1 \in left
    BY <2>1, <2>2
  <2>3. CASE 1 \notin left /\ 2 \in left
    BY <2>1, <2>3
  <2>4. CASE 1 \notin left /\ 2 \notin left
    BY <1>1, <2>1, <2>4
  <2> QED
    BY <2>2, <2>3, <2>4
<1>4. first \in left /\ \A j \in left : first <= j
  <2> HIDE DEF left
  <2> QED
    BY <1>3
<1> QED
  BY <1>2, <1>4

\* What a batch does next, and what that says of the rest.
LEMMA NextTells ==
  ASSUME NEW doc, NEW l, Shaped(SequenceFor(lines[l]))
  PROVE  /\ NextStep(doc, l) = "none" <=> Still(doc, l) = {}
         /\ NextStep(doc, l) # "none" => NextStep(doc, l) \in Still(doc, l)
         /\ NextStep(doc, l) \notin CleanSteps => CleanSteps \intersect Still(doc, l) = {}
         /\ NextStep(doc, l) \notin CleanSteps \union {"iron"} => "iron" \notin Still(doc, l)
         /\ NextStep(doc, l) = "qc" => Still(doc, l) = {"qc"}
<1> DEFINE seq == SequenceFor(lines[l])
           done == doc.done[l]
           left == Still(doc, l)
<1>0. left = (Working(l) \union {"qc"}) \ done
  BY DEF Still
<1>1. /\ Shaped(seq) /\ NextStep(doc, l) = FirstLeft(seq, done)
      /\ Working(l) \union {"qc"} = {seq[i] : i \in DOMAIN seq} \union {"qc"}
  BY DEF NextStep, Working
<1> HIDE DEF seq
<1>2. DOMAIN seq = 1..Len(seq) /\ Len(seq) \in 1..3 /\ seq[Len(seq)] = "qc" /\ \A i \in DOMAIN seq : seq[i] # "none"
  BY <1>1 DEF Shaped, Steps
<1>3. \A x : x \in left <=> \E i \in DOMAIN seq : x = seq[i] /\ seq[i] \notin done
  BY <1>0, <1>1, <1>2
<1>4. CASE left = {}
  <2>1. FirstLeft(seq, done) = "none"
    BY <1>3, <1>4 DEF FirstLeft
  <2> QED
    BY <1>1, <1>4, <2>1
<1>5. CASE left # {}
  <2>1. PICK first \in DOMAIN seq :
           /\ FirstLeft(seq, done) = seq[first] /\ seq[first] \notin done
           /\ \A j \in DOMAIN seq : seq[j] \notin done => first <= j
    BY <1>1, <1>3, <1>5, FirstIsLeast
  <2>2. seq[first] \in left /\ seq[first] # "none"
    BY <1>2, <1>3, <2>1
  <2>3. ASSUME NEW x \in CleanSteps, x \in left PROVE seq[first] = x
    <3>1. PICK i \in DOMAIN seq : x = seq[i] /\ seq[i] \notin done
      BY <1>3, <2>3
    <3>2. i = 1
      BY <1>1, <1>2, <2>3, <3>1 DEF Shaped, CleanSteps
    <3> QED
      BY <1>2, <2>1, <3>1, <3>2
  <2>4. ASSUME "iron" \in left PROVE seq[first] \in CleanSteps \union {"iron"}
    <3>1. PICK i \in DOMAIN seq : "iron" = seq[i] /\ seq[i] \notin done
      BY <1>3, <2>4
    <3>2. first <= i
      BY <2>1, <3>1
    <3> QED
      BY <1>1, <1>2, <3>1, <3>2 DEF Shaped
  <2>5. ASSUME seq[first] = "qc", NEW x \in left PROVE x = "qc"
    <3>1. PICK i \in DOMAIN seq : x = seq[i] /\ seq[i] \notin done
      BY <1>3, <2>5
    <3>2. first <= i
      BY <2>1, <3>1
    <3>3. first = Len(seq)
      BY <1>1, <1>2, <2>5 DEF Shaped, CleanSteps
    <3> QED
      BY <1>2, <3>1, <3>2, <3>3
  <2> HIDE DEF left
  <2>6. /\ NextStep(doc, l) = "none" <=> left = {}
        /\ NextStep(doc, l) # "none" => NextStep(doc, l) \in left
    BY <1>1, <1>5, <2>1, <2>2
  <2>7. NextStep(doc, l) = seq[first]
    BY <1>1, <2>1
  <2> QED
    BY <2>3, <2>4, <2>5, <2>6, <2>7, <2>2 DEF left
<1> QED
  BY <1>4, <1>5

\* syncOrderToBatches leaves the order at the stage its batches are at.
LEMMA SyncedShows ==
  ASSUME NEW doc \in Order, \A l \in made : Shaped(SequenceFor(lines[l])) /\ l \in Lines, CheckedLast(doc),
         ReadyAsAWhole(doc)
  PROVE  Tells(Synced(doc))
<1> DEFINE new == Synced(doc)
<1>1. /\ new \in Order /\ Ready(new) /\ new.done = doc.done /\ new.passed = doc.passed /\ new.held = doc.held
  <2>1. new.held = doc.held
    BY DEF Synced, Order
  <2> QED
    BY <2>1, SyncedIsRight
<1>2. CheckedLast(new)
  BY <1>1 DEF CheckedLast
<1>3. /\ Stopped(new) = Stopped(doc) /\ Completed(new) = Completed(doc)
      /\ \A l : NextStep(new, l) = NextStep(doc, l) /\ Still(new, l) = Still(doc, l)
      /\ \A steps : Ahead(new, steps) = {l \in made : steps \intersect Still(doc, l) # {}}
  BY <1>1 DEF Stopped, Completed, Status, NextStep, Still, Ahead
<1>4. Stopped(doc) = {} /\ ~new.whole =>
        /\ new.state = IF AllComplete(doc) THEN "ready_for_delivery"
                       ELSE IF Midway(doc) # "none" THEN Midway(doc) ELSE doc.state
        /\ ~AllComplete(doc) /\ Midway(doc) = "none" => ~doc.whole
  <2> SUFFICES ASSUME Stopped(doc) = {}, ~new.whole
               PROVE  /\ new.state = IF AllComplete(doc) THEN "ready_for_delivery"
                                     ELSE IF Midway(doc) # "none" THEN Midway(doc) ELSE doc.state
                      /\ ~AllComplete(doc) /\ Midway(doc) = "none" => ~doc.whole
    OBVIOUS
  <2>1. CASE AllComplete(doc) /\ doc.state # "ready_for_delivery"
    <3>1. new = [doc EXCEPT !.state = "ready_for_delivery", !.qcPassed = "true", !.whole = FALSE]
      BY <2>1 DEF Synced
    <3> HIDE DEF new
    <3> QED
      BY <2>1, <3>1 DEF Order
  <2>2. CASE AllComplete(doc) /\ doc.state = "ready_for_delivery"
    <3>1. {NextStep(doc, l) : l \in made} \subseteq {"none"}
      BY <2>2, Finished DEF AllComplete
    <3>2. Midway(doc) = "none"
      BY <3>1 DEF Midway, CleanSteps
    <3>3. new = doc
      BY <2>2, <3>2 DEF Synced
    <3> QED
      BY <2>2, <3>3 DEF ReadyAsAWhole
  <2>3. CASE ~AllComplete(doc)
    <3>1. new = IF Midway(doc) # "none" THEN [doc EXCEPT !.state = Midway(doc), !.whole = FALSE] ELSE doc
      BY <2>3 DEF Synced
    <3>2. ~new.whole
      OBVIOUS
    <3> HIDE DEF new
    <3> QED
      BY <2>3, <3>1, <3>2 DEF Order
  <2> QED
    BY <2>1, <2>2, <2>3
<1> HIDE DEF new
<1>5. SUFFICES ASSUME Stopped(doc) = {}, ~new.whole PROVE Shows(new)
  <2>1. Stopped(new) # {} \/ new.whole => Shows(new)
    BY DEF Shows
  <2> QED
    BY <1>2, <1>3, <2>1 DEF Tells, new
<1>6. CASE AllComplete(doc)
  <2>1. new.state = "ready_for_delivery"
    BY <1>4, <1>5, <1>6
  <2>2. \A l \in made : Still(doc, l) = {}
    BY <1>6, Finished, NextTells DEF AllComplete
  <2> QED
    BY <1>3, <2>1, <2>2 DEF Shows
<1>7. CASE ~AllComplete(doc)
  <2> DEFINE pending == {NextStep(doc, l) : l \in made}
  <2>1. SUFFICES ASSUME NEW k \in made, NextStep(doc, k) # "none" PROVE Shows(new)
    <3>1. made = {} => Shows(new)
      BY DEF Shows
    <3>2. made # {} => \E k \in made : NextStep(doc, k) # "none"
      BY <1>7, Finished DEF AllComplete
    <3> QED
      BY <3>1, <3>2
  <2>2. new.state = IF Midway(doc) # "none" THEN Midway(doc) ELSE doc.state
    BY <1>4, <1>5, <1>7
  <2>3. CASE \E l \in made : NextStep(doc, l) \in CleanSteps
    <3>1. PICK l \in made : NextStep(doc, l) \in CleanSteps
      BY <2>3
    <3>2. pending \intersect CleanSteps # {}
      BY <3>1
    <3>3. new.state = "in_wash"
      <4>1. Midway(doc) = "in_wash"
        BY <3>2 DEF Midway
      <4> QED
        BY <2>2, <4>1
    <3>4. NextStep(doc, l) \in Still(doc, l)
      BY <3>1, NextTells DEF CleanSteps
    <3> QED
      BY <1>3, <3>1, <3>3, <3>4 DEF Shows
  <2>4. CASE /\ \A l \in made : NextStep(doc, l) \notin CleanSteps
             /\ \E l \in made : NextStep(doc, l) = "iron"
    <3>1. PICK l \in made : NextStep(doc, l) = "iron"
      BY <2>4
    <3>2. pending \intersect CleanSteps = {} /\ "iron" \in pending
      BY <2>4, <3>1
    <3>3. new.state = "ironing"
      <4>1. Midway(doc) = "ironing"
        BY <3>2 DEF Midway
      <4> QED
        BY <2>2, <4>1
    <3>4. /\ "iron" \in Still(doc, l)
          /\ \A m \in made : CleanSteps \intersect Still(doc, m) = {}
      BY <2>4, <3>1, NextTells
    <3> QED
      BY <1>3, <3>3, <3>4 DEF Shows
  <2>5. CASE /\ \A l \in made : NextStep(doc, l) \notin CleanSteps \union {"iron"}
             /\ \E l \in made : NextStep(doc, l) = "qc"
    <3>1. PICK l \in made : NextStep(doc, l) = "qc"
      BY <2>5
    <3>2. pending \intersect (CleanSteps \union {"iron"}) = {} /\ "qc" \in pending
      BY <2>5, <3>1
    <3>3. new.state = "qc"
      <4>1. Midway(doc) = "qc"
        BY <3>2 DEF Midway
      <4> QED
        BY <2>2, <4>1
    <3>4. /\ "qc" \in Still(doc, l)
          /\ \A m \in made : (CleanSteps \union {"iron"}) \intersect Still(doc, m) = {}
      BY <2>5, <3>1, NextTells
    <3> QED
      BY <1>3, <3>3, <3>4 DEF Shows
  <2>6. CASE \A l \in made : NextStep(doc, l) \notin CleanSteps \union {"iron", "qc"}
    <3>1. Midway(doc) = "none"
      <4>1. pending \intersect CleanSteps = {} /\ "iron" \notin pending /\ "qc" \notin pending
        BY <2>6
      <4> QED
        BY <4>1 DEF Midway
    <3>2. new.state = doc.state /\ doc.state \notin {"ready_for_delivery", "out_for_delivery", "delivered"}
      BY <1>4, <1>5, <1>7, <2>2, <3>1 DEF ReadyAsAWhole
    <3>3. NextStep(doc, k) = "finishing"
      <4>1. NextStep(doc, k) \in Steps \union {"none"}
        BY FirstLeftIsAStep DEF NextStep
      <4> QED
        BY <2>1, <2>6, <4>1 DEF Steps, CleanSteps
    <3>4. /\ "finishing" \in Still(doc, k) /\ "qc" \notin doc.done[k]
          /\ \A m \in made : (CleanSteps \union {"iron"}) \intersect Still(doc, m) = {}
      <4>1. "finishing" \in Still(doc, k)
        BY <3>3, NextTells
      <4>2. "qc" \notin doc.done[k]
        BY <4>1 DEF CheckedLast, Still
      <4> QED
        BY <2>6, <4>1, <4>2, NextTells
    <3>5. "qc" \in Still(doc, k)
      BY <3>4 DEF Still
    <3>6. /\ Ahead(new, CleanSteps \union {"finishing"}) # {} /\ Ahead(new, {"iron", "finishing"}) # {}
          /\ Ahead(new, {"qc"}) # {} /\ Ahead(new, {"finishing"}) # {}
          /\ Ahead(new, CleanSteps) = {} /\ Ahead(new, CleanSteps \union {"iron"}) = {}
      BY <1>3, <3>4, <3>5
    <3> QED
      BY <3>2, <3>6 DEF Shows
  <2> QED
    BY <2>3, <2>4, <2>5, <2>6
<1> QED
  BY <1>6, <1>7

\* Every document of the order shows its own batches, the stored one and those on their way.
StageInv == IInv /\ Tells(order) /\ \A r \in Requests : Tells(req[r].doc)

\* A document goes on telling the same while the lines are the same.
LEMMA TellsOn ==
  ASSUME NEW doc, Tells(doc), UNCHANGED <<lines, made>> PROVE Tells(doc)'
<1>1. CheckedLast(doc)'
  BY DEF Tells, CheckedLast, Working
<1>2. Stopped(doc)' = Stopped(doc)
  BY DEF Stopped, Status, NextStep
<1>3. \A steps : Ahead(doc, steps)' = Ahead(doc, steps)
  BY DEF Ahead, Working
<1>4. Shows(doc)'
  BY <1>2, <1>3 DEF Tells, Shows
<1> QED
  BY <1>1, <1>4 DEF Tells

\* Nothing is done to what was just collected.
LEMMA UntouchedTells == ASSUME IInv PROVE Tells(Collected)
BY Batches DEF Tells, CheckedLast, Shows, Collected

\* A request that made such a document of the order keeps the invariant.
LEMMA BeginTells ==
  ASSUME StageInv, NEW r \in Requests, NEW doc, Begin(r, doc), Tells(doc)
  PROVE  Tells(order)' /\ \A q \in Requests : Tells(req[q].doc)'
<1>1. UNCHANGED <<lines, made, order>> /\ req' = [req EXCEPT ![r] = [pc |-> "put", doc |-> doc]]
  BY DEF Begin
<1>2. \A q \in Requests : req'[q].doc = doc \/ req'[q].doc = req[q].doc
  BY <1>1 DEF StageInv, IInv, TypeOK
<1>3. ASSUME NEW d, Tells(d) PROVE Tells(d)'
  BY <1>1, <1>3, TellsOn
<1>4. ASSUME NEW q \in Requests, NEW d, d = req'[q].doc PROVE Tells(d)'
  BY <1>2, <1>3, <1>4 DEF StageInv
<1>5. Tells(order)'
  <2>1. ASSUME NEW d, d = order' PROVE Tells(d)'
    BY <1>1, <1>3, <2>1 DEF StageInv
  <2> QED
    BY <2>1 DEF Tells, CheckedLast, Shows, Ahead, Still, Working, Stopped, Status, NextStep
<1>6. ASSUME NEW q \in Requests PROVE Tells(req[q].doc)'
  BY <1>4 DEF Tells, CheckedLast, Shows, Ahead, Still, Working, Stopped, Status, NextStep
<1> QED
  BY <1>5, <1>6

\* Batch by batch.
LEMMA BatchTells ==
  ASSUME StageInv, NEW r \in Requests, NEW l \in Lines,
         \/ AdvanceBatch(r, l) \/ PassBatch(r, l) \/ HoldBatch(r, l)
         \/ \E wanted \in {"wash", "iron"} : ReworkBatch(r, l, wanted)
  PROVE  \E doc : Begin(r, doc) /\ Tells(doc)
<1>0. IInv /\ order \in Order /\ \A k \in made : Shaped(SequenceFor(lines[k])) /\ k \in Lines
  BY Batches DEF StageInv, IInv, TypeOK
<1>1. l \in made /\ NextStep(order, l) # "none"
  BY DEF AdvanceBatch, PassBatch, HoldBatch, ReworkBatch, DueForQc
<1>3. ASSUME NEW new \in Order, new.state = order.state, new.qcPassed = order.qcPassed,
             new.whole = order.whole, \A k \in Lines \ {l} : new.done[k] = order.done[k],
             "qc" \in new.done[l] => Working(l) \subseteq new.done[l], Begin(r, Synced(new))
      PROVE  \E doc : Begin(r, doc) /\ Tells(doc)
  <2>1. CheckedLast(new)
    BY <1>0, <1>3 DEF CheckedLast, StageInv, Tells
  <2>2. ReadyAsAWhole(new)
    BY <1>0, <1>1, <1>3, NotYetReady
  <2> QED
    BY <1>0, <1>3, <2>1, <2>2, SyncedShows
<1>4. CASE AdvanceBatch(r, l)
  <2> DEFINE new == [order EXCEPT !.done[l] = @ \union {NextStep(order, l)}]
  <2>1. NextStep(order, l) \in Steps \ {"qc"} /\ Begin(r, Synced(new))
    BY <1>0, <1>1, <1>4, FirstLeftIsAStep DEF NextStep, AdvanceBatch
  <2>2. /\ new \in Order /\ new.state = order.state
        /\ new.qcPassed = order.qcPassed /\ new.whole = order.whole
        /\ \A k \in Lines \ {l} : new.done[k] = order.done[k]
        /\ new.done[l] = order.done[l] \union {NextStep(order, l)}
    BY <1>0, <2>1 DEF Order
  <2>3. "qc" \in order.done[l] => Working(l) \subseteq order.done[l]
    BY <1>1 DEF StageInv, Tells, CheckedLast
  <2> HIDE DEF new
  <2> QED
    BY <1>3, <2>1, <2>2, <2>3
<1>5. CASE DueForQc(order, l)
  <2>1. Still(order, l) = {"qc"}
    BY <1>0, <1>5, NextTells DEF DueForQc
  <2>2. "qc" \notin order.done[l] /\ Working(l) \subseteq order.done[l]
    BY <2>1 DEF Still, Working
  <2>3. CASE Begin(r, Synced(Passed(order, l)))
    <3> DEFINE new == Passed(order, l)
    <3>1. /\ new \in Order /\ new.state = order.state
          /\ new.qcPassed = order.qcPassed /\ new.whole = order.whole
          /\ \A k \in Lines \ {l} : new.done[k] = order.done[k]
          /\ order.done[l] \subseteq new.done[l]
      BY <1>0 DEF Passed, Order, Steps, Verdicts
    <3> HIDE DEF new
    <3> QED
      BY <1>3, <2>2, <2>3, <3>1 DEF new
  <2>4. ASSUME NEW undone, NEW person \in BOOLEAN, Begin(r, Synced(Failed(order, l, undone, person)))
        PROVE  \E doc : Begin(r, doc) /\ Tells(doc)
    <3> DEFINE new == Failed(order, l, undone, person)
    <3>1. /\ new \in Order /\ new.state = order.state
          /\ new.qcPassed = order.qcPassed /\ new.whole = order.whole
          /\ \A k \in Lines \ {l} : new.done[k] = order.done[k]
          /\ new.done[l] = order.done[l] \ undone
      BY <1>0 DEF Failed, Order, Verdicts
    <3> HIDE DEF new
    <3> QED
      BY <1>3, <2>2, <2>4, <3>1 DEF new
  <2>5. \/ AdvanceBatch(r, l) \/ Begin(r, Synced(Passed(order, l)))
        \/ \E undone : \E person \in BOOLEAN : Begin(r, Synced(Failed(order, l, undone, person)))
    BY DEF PassBatch, HoldBatch, ReworkBatch
  <2> QED
    BY <1>4, <2>3, <2>4, <2>5
<1> QED
  BY <1>4, <1>5 DEF PassBatch, HoldBatch, ReworkBatch

\* As a whole, and its delivery: a document that shows no stage of its batches.
LEMMA BecomeTells ==
  ASSUME StageInv, NEW r \in Requests, NEW doc, Begin(r, doc), doc.done = order.done,
         doc.whole \/ doc.state \in {"out_for_delivery", "delivered", "disputed"}
  PROVE  \E new : Begin(r, new) /\ Tells(new)
<1>1. CheckedLast(doc)
  BY DEF CheckedLast, StageInv, Tells
<1>2. Shows(doc)
  BY DEF Shows
<1> QED
  BY <1>1, <1>2 DEF Tells

LEMMA WholeTells ==
  ASSUME StageInv, NEW r \in Requests, NEW to, NEW verdict, Whole(r, to, verdict)
  PROVE  \E doc : Begin(r, doc) /\ Tells(doc)
<1> DEFINE new == [order EXCEPT !.state = to, !.qcPassed = verdict, !.whole = TRUE]
<1>1. new.done = order.done /\ new.whole /\ Begin(r, new)
  BY DEF Whole, StageInv, IInv, TypeOK, Order
<1> HIDE DEF new
<1> QED
  BY <1>1, BecomeTells

LEMMA DeliveryTells ==
  ASSUME StageInv, NEW r \in Requests, NEW to \in {"out_for_delivery", "delivered", "disputed"},
         Become(r, to, order.qcPassed)
  PROVE  \E doc : Begin(r, doc) /\ Tells(doc)
<1> DEFINE new == [order EXCEPT !.state = to, !.qcPassed = order.qcPassed]
<1>1. new.done = order.done /\ new.state = to /\ Begin(r, new)
  BY DEF Become, StageInv, IInv, TypeOK, Order
<1> HIDE DEF new
<1> QED
  BY <1>1, BecomeTells

\* Whatever a request makes of the order it read.
LEMMA ArriveTells ==
  ASSUME StageInv, NEW r \in Requests, Arrive(r) PROVE \E doc : Begin(r, doc) /\ Tells(doc)
<1>1. CASE \E l \in Lines : \/ AdvanceBatch(r, l) \/ PassBatch(r, l) \/ HoldBatch(r, l)
                            \/ \E wanted \in {"wash", "iron"} : ReworkBatch(r, l, wanted)
  BY <1>1, BatchTells
<1>2. CASE \/ StartWash(r) \/ CompleteWash(r) \/ CompleteIroning(r)
           \/ \E pass \in BOOLEAN : SubmitQc(r, pass)
           \/ \E to \in {"in_wash", "ironing"} : Reprocess(r, to)
  <2>1. \E to, verdict : Whole(r, to, verdict)
    BY <1>2 DEF StartWash, CompleteWash, CompleteIroning, SubmitQc, Reprocess
  <2> QED
    BY <2>1, WholeTells
<1>3. CASE OutForDelivery(r) \/ Deliver(r) \/ RaiseDispute(r)
  BY <1>3, DeliveryTells DEF OutForDelivery, Deliver, RaiseDispute
<1>4. CASE Touch(r)
  BY <1>4 DEF Touch, StageInv
<1> QED
  BY <1>1, <1>2, <1>3, <1>4 DEF Arrive

\* A put brings one of these documents, a lost one leaves the order alone.
LEMMA StageKept == StageInv /\ [Next]_vars => StageInv'
<1> SUFFICES ASSUME StageInv, [Next]_vars PROVE StageInv'
  OBVIOUS
<1>1. IInv'
  BY StepKeeps DEF StageInv
<1> USE DEF StageInv
<1>2. ASSUME NEW r \in Requests, Arrive(r) PROVE Tells(order)' /\ \A q \in Requests : Tells(req[q].doc)'
  <2>1. PICK doc : Begin(r, doc) /\ Tells(doc)
    BY <1>2, ArriveTells
  <2> QED
    BY <2>1, BeginTells
<1>3. ASSUME UNCHANGED <<lines, made>>, order' = order \/ (\E r \in Requests : order' = req[r].doc),
             \A q \in Requests : req'[q].doc = req[q].doc \/ req'[q].doc = Collected
      PROVE  Tells(order)' /\ \A q \in Requests : Tells(req[q].doc)'
  <2>1. ASSUME NEW d, d = order' PROVE Tells(d)'
    <3>1. Tells(d)
      BY <1>3, <2>1
    <3> QED
      BY <1>3, <3>1, TellsOn
  <2>2. ASSUME NEW q \in Requests, NEW d, d = req'[q].doc PROVE Tells(d)'
    <3>1. Tells(d)
      BY <1>3, <2>2, UntouchedTells
    <3> QED
      BY <1>3, <3>1, TellsOn
  <2>3. Tells(order)'
    BY <2>1 DEF Tells, CheckedLast, Shows, Ahead, Still, Working, Stopped, Status, NextStep
  <2>4. ASSUME NEW q \in Requests PROVE Tells(req[q].doc)'
    BY <2>2 DEF Tells, CheckedLast, Shows, Ahead, Still, Working, Stopped, Status, NextStep
  <2> QED
    BY <2>3, <2>4
<1>4. ASSUME NEW r \in Requests, Put(r) \/ Lose(r)
      PROVE  /\ UNCHANGED <<lines, made>> /\ (order' = order \/ order' = req[r].doc)
             /\ \A q \in Requests : req'[q].doc = req[q].doc \/ req'[q].doc = Collected
  BY <1>4 DEF Put, Lose, Idle, IInv, TypeOK
<1>5. Tells(order)' /\ \A q \in Requests : Tells(req[q].doc)'
  <2>1. CASE UNCHANGED vars
    BY <1>3, <2>1 DEF vars
  <2>2. ASSUME NEW r \in Requests, Put(r) \/ Lose(r)
        PROVE  Tells(order)' /\ \A q \in Requests : Tells(req[q].doc)'
    <3>1. /\ UNCHANGED <<lines, made>> /\ (order' = order \/ order' = req[r].doc)
          /\ \A q \in Requests : req'[q].doc = req[q].doc \/ req'[q].doc = Collected
      BY <1>4, <2>2
    <3>2. UNCHANGED <<lines, made>> /\ (order' = order \/ \E q \in Requests : order' = req[q].doc)
      BY <3>1
    <3> HIDE DEF StageInv
    <3> QED
      BY <1>3, <3>1, <3>2
  <2> QED
    BY <1>2, <2>1, <2>2 DEF Next
<1> QED
  BY <1>1, <1>5

\* Residents and staff are shown the stage the batches are at, whoever wrote the order last
\* and however the requests on it overlapped, unless a call on the whole order came after
\* the last move of a batch.
THEOREM StageIsShown == Spec => []ShowsTheStage
<1>1. Init => StageInv
  <2> SUFFICES ASSUME Init PROVE StageInv
    OBVIOUS
  <2>1. order = Collected /\ \A r \in Requests : req[r].doc = Collected
    BY DEF Init, Idle
  <2> QED
    BY <2>1, Initially, UntouchedTells DEF StageInv
<1>2. StageInv => ShowsTheStage
  <2>1. \A steps : StillTo(steps) = Ahead(order, steps)
    BY DEF StillTo, Ahead, Still
  <2> QED
    BY <2>1 DEF StageInv, Tells, Shows, ShowsTheStage
<1> QED
  BY StageKept, <1>1, <1>2, PTL DEF Spec

=============================================================================
