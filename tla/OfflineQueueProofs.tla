-------------------------- MODULE OfflineQueueProofs --------------------------
(***************************************************************************)
(* Proofs about OfflineQueue for any orders, steps, actions, tries and     *)
(* faults, and any number of drains under way at once.                     *)
(*                                                                         *)
(* enqueue and sync save lists they read some time ago, so the invariant   *)
(* speaks of every list there is, the saved one and those in hand: what is *)
(* in it has been in the queue, and has been refused as often as it says   *)
(* (ListOK, Queued).  A drain has got every earlier action of an order it  *)
(* does not hold back accepted (Orderly).  Until storage failed or two met *)
(* over the list, one at most has it in hand, and each list still to be    *)
(* saved holds all that is owed (Held).                                    *)
(***************************************************************************)
EXTENDS OfflineQueue, WellFoundedInduction, TLAPS

ListOK(list, count) ==
  /\ list \subseteq Action
  /\ \A a, b \in list : a.id = b.id => a = b
  /\ \A a \in list : a.tries <= count[a.id]

Queued(list, fates) == \A a \in list : fates[a.id] # "none"

IsTap(x, count, fates) ==
  /\ x.pc \in {"idle", "save"}
  /\ x.pc = "save" => /\ ListOK(x.list, count)
                      /\ x.id \in Ids /\ fates[x.id] = "none" /\ x.id \in IdsOf(x.list)
                      /\ \A a \in x.list : a.id # x.id => fates[a.id] # "none"

IsDrain(x, count, fates) ==
  /\ x = [pc |-> x.pc, list |-> x.list, at |-> x.at, gone |-> x.gone, blocked |-> x.blocked]
  /\ x.pc \in {"idle", "send", "save"}
  /\ ListOK(x.list, count) /\ Queued(x.list, fates)
  /\ x.pc = "send" => \E a \in x.list : a.id = x.at /\ a.order \notin x.blocked

\* What a drain has passed and does not hold back, the server has taken.
Orderly(x, fates) ==
  x.pc = "send" => \A a \in x.list : a.id < x.at /\ a.order \notin x.blocked => fates[a.id] = "accepted"

OwedBy(fates) == {id \in Ids : fates[id] = "owed"}

\* What the drain will save holds all that is owed.
Covers(x, owed) ==
  /\ x.pc = "send" => owed \subseteq IdsOf(x.list) \ x.gone
  /\ x.pc = "save" => owed \subseteq IdsOf(x.list)

\* One at most has the list in hand.
Alone ==
  /\ tap.pc = "save" => \A d \in Drains : drain[d].pc = "idle"
  /\ \A d, e \in Drains : d # e => drain[d].pc = "idle" \/ drain[e].pc = "idle"

Held ==
  calm => /\ Alone
          /\ OwedBy(fate) \subseteq IdsOf(stored)
          /\ tap.pc = "save" => OwedBy(fate) \subseteq IdsOf(tap.list)
          /\ \A d \in Drains : Covers(drain[d], OwedBy(fate))

DrainsOK ==
  /\ drain = [d \in Drains |-> drain[d]]
  /\ \A d \in Drains : IsDrain(drain[d], refusals, fate) /\ Orderly(drain[d], fate)

ListsOK == ListOK(stored, refusals) /\ Queued(stored, fate) /\ IsTap(tap, refusals, fate) /\ DrainsOK

IInv == TypeOK /\ ListsOK /\ GivenUpWasRefused /\ Held

-----------------------------------------------------------------------------
(* Lists *)

LEMMA LeastOf ==
  ASSUME NEW T \in SUBSET Nat, T # {}
  PROVE  \E n \in T : \A m \in T : n <= m
<1> DEFINE R == OpToRel(<, Nat)
<1>1. IsWellFoundedOn(R, Nat)
  BY NatLessThanWellFounded
<1>2. \A x, y \in Nat : y < x => <<y, x>> \in R
  BY DEF OpToRel
<1> HIDE DEF R
<1>3. PICK n \in T : \A m \in T : ~(<<m, n>> \in R)
  BY <1>1, WFMin
<1>4. \A m \in T : ~(m < n)
  BY <1>2, <1>3
<1> QED
  BY <1>4

LEMMA IdsAreNat == Ids \subseteq Nat \ {0} /\ MaxActions \in Nat /\ \A id \in Ids : id <= MaxActions
BY BoundsAreNat DEF Ids

\* A drain goes on to the next action it does not hold back, or has a list to save.
LEMMA GoesOn ==
  ASSUME NEW list, NEW count, NEW fates, NEW at \in Nat, NEW gone, NEW blocked,
         ListOK(list, count), Queued(list, fates),
         (\E b \in list : b.id > at) =>
           \A a \in list : a.id <= at /\ a.order \notin blocked => fates[a.id] = "accepted"
  PROVE  /\ IsDrain(Going(list, at, gone, blocked), count, fates)
         /\ Orderly(Going(list, at, gone, blocked), fates)
         /\ Going(list, at, gone, blocked).pc # "idle"
         /\ \A owed : owed \subseteq IdsOf(list) \ gone => Covers(Going(list, at, gone, blocked), owed)
<1> DEFINE later == {action.id : action \in {a \in list : a.id > at /\ a.order \notin blocked}}
           x == Going(list, at, gone, blocked)
<1>0. \A a \in list : a.id \in Ids /\ a.id \in Nat
  BY IdsAreNat DEF ListOK, Action
<1>1. CASE later = {}
  <2>1. x = [pc |-> "save", list |-> Remaining(list, gone, blocked), at |-> 0, gone |-> {}, blocked |-> {}]
    BY <1>1 DEF Going
  <2>2. Remaining(list, gone, blocked) = {a \in list : a.id \notin gone}
    BY DEF Remaining
  <2> HIDE DEF x
  <2>3. IsDrain(x, count, fates) /\ Orderly(x, fates)
    BY <2>1, <2>2 DEF IsDrain, Orderly, ListOK, Queued
  <2>4. ASSUME NEW owed, owed \subseteq IdsOf(list) \ gone  PROVE  Covers(x, owed)
    BY <2>1, <2>2, <2>4 DEF Covers, IdsOf
  <2> QED
    BY <2>1, <2>3, <2>4 DEF x
<1>2. CASE later # {}
  <2> DEFINE next == CHOOSE id \in later : \A j \in later : id <= j
  <2>1. later \subseteq Nat
    BY <1>0
  <2>2. \E id \in later : \A j \in later : id <= j
    BY <1>2, <2>1, LeastOf
  <2>3. next \in later /\ \A j \in later : next <= j
    BY <2>2
  <2>4. x = [pc |-> "send", list |-> list, at |-> next, gone |-> gone, blocked |-> blocked]
    BY <1>2 DEF Going
  <2>5. PICK b \in list : b.id = next /\ b.id > at /\ b.order \notin blocked
    BY <2>3
  <2>6. \A a \in list : a.id > at /\ a.order \notin blocked => next <= a.id
    BY <2>3
  <2> HIDE DEF next, x, later
  <2>7. IsDrain(x, count, fates)
    BY <2>4, <2>5 DEF IsDrain
  <2>8. ASSUME NEW a \in list, a.id < next, a.order \notin blocked  PROVE  fates[a.id] = "accepted"
    <3>1. ~(a.id > at)
      BY <1>0, <2>5, <2>6, <2>8
    <3> QED
      BY <1>0, <2>5, <2>8, <3>1
  <2>9. Orderly(x, fates)
    BY <2>4, <2>8 DEF Orderly
  <2>10. ASSUME NEW owed, owed \subseteq IdsOf(list) \ gone  PROVE  Covers(x, owed)
    BY <2>4, <2>10 DEF Covers
  <2> QED
    BY <2>4, <2>7, <2>9, <2>10 DEF x
<1> QED
  BY <1>1, <1>2

\* Refusals are counted and never taken back, and what has been queued or accepted stays so.
Grows ==
  \A id \in Ids : /\ refusals'[id] >= refusals[id]
                  /\ fate'[id] = "none" => fate[id] = "none"
                  /\ fate[id] = "accepted" => fate'[id] = "accepted"

LEMMA ListsStay ==
  ASSUME TypeOK, TypeOK', Grows, NEW list, ListOK(list, refusals)
  PROVE  ListOK(list, refusals') /\ (Queued(list, fate) => Queued(list, fate'))
<1>1. \A id \in Ids : refusals[id] \in Nat /\ refusals'[id] \in Nat
  BY BoundsAreNat DEF TypeOK
<1>2. \A a \in list : a.id \in Ids /\ a.tries \in Nat
  BY BoundsAreNat DEF ListOK, Action
<1> QED
  BY <1>1, <1>2 DEF Grows, ListOK, Queued

\* One drain goes on; the others have what they had.
LEMMA OneDrains ==
  ASSUME TypeOK, TypeOK', DrainsOK, Grows, NEW d \in Drains, NEW x, drain' = [drain EXCEPT ![d] = x],
         IsDrain(x, refusals', fate'), Orderly(x, fate')
  PROVE  DrainsOK' /\ drain'[d] = x /\ \A e \in Drains : e # d => drain'[e] = drain[e]
<1>1. drain'[d] = x /\ (\A e \in Drains : e # d => drain'[e] = drain[e]) /\ drain' = [e \in Drains |-> drain'[e]]
  BY DEF DrainsOK
<1>2. ASSUME NEW e \in Drains, e # d
      PROVE  IsDrain(drain[e], refusals', fate') /\ Orderly(drain[e], fate')
  <2>1. IsDrain(drain[e], refusals, fate) /\ Orderly(drain[e], fate)
    BY DEF DrainsOK
  <2> PICK y : y = drain[e]
    OBVIOUS
  <2>2. ListOK(y.list, refusals') /\ Queued(y.list, fate') /\ y.list \subseteq Action
    BY <2>1, ListsStay DEF IsDrain, ListOK
  <2>3. \A a \in y.list : a.id \in Ids
    BY <2>2 DEF Action
  <2> QED
    BY <2>1, <2>2, <2>3 DEF IsDrain, Orderly, Grows
<1> QED
  BY <1>1, <1>2 DEF DrainsOK

LEMMA NoDrainIsOne ==
  ASSUME NEW count, NEW fates
  PROVE  IsDrain(NoDrain, count, fates) /\ Orderly(NoDrain, fates) /\ NoDrain.pc = "idle"
BY DEF NoDrain, IsDrain, Orderly, ListOK, Queued

LEMMA SameDrains ==
  ASSUME TypeOK, TypeOK', DrainsOK, Grows, drain' = drain
  PROVE  DrainsOK'
<1> SUFFICES ASSUME NEW d \in Drains
             PROVE  IsDrain(drain[d], refusals', fate') /\ Orderly(drain[d], fate')
  BY DEF DrainsOK
<1>1. IsDrain(drain[d], refusals, fate) /\ Orderly(drain[d], fate)
  BY DEF DrainsOK
<1> PICK y : y = drain[d]
  OBVIOUS
<1>2. ListOK(y.list, refusals') /\ Queued(y.list, fate') /\ y.list \subseteq Action
  BY <1>1, ListsStay DEF IsDrain, ListOK
<1>3. \A a \in y.list : a.id \in Ids
  BY <1>2 DEF Action
<1> QED
  BY <1>1, <1>2, <1>3 DEF IsDrain, Orderly, Grows

\* The queue as it is saved, and what the operator has in hand, where neither changes.
LEMMA RestStays ==
  ASSUME TypeOK, TypeOK', ListsOK, Grows
  PROVE  /\ stored' = stored => ListOK(stored', refusals') /\ Queued(stored', fate')
         /\ tap' = tap /\ (tap.pc = "save" => fate'[tap.id] = "none") => IsTap(tap', refusals', fate')
<1>1. ListOK(stored, refusals) /\ Queued(stored, fate) /\ IsTap(tap, refusals, fate)
  BY DEF ListsOK
<1>2. ASSUME stored' = stored  PROVE  ListOK(stored', refusals') /\ Queued(stored', fate')
  <2> PICK list : list = stored
    OBVIOUS
  <2>1. ListOK(list, refusals') /\ Queued(list, fate')
    BY <1>1, ListsStay
  <2> QED
    BY <1>2, <2>1
<1>3. ASSUME tap' = tap, tap.pc = "save" => fate'[tap.id] = "none"
      PROVE  IsTap(tap', refusals', fate')
  <2> PICK x : x = tap
    OBVIOUS
  <2>1. x.pc = "save" => ListOK(x.list, refusals')
    BY <1>1, ListsStay DEF IsTap
  <2>2. x.pc = "save" => \A a \in x.list : a.id \in Ids
    BY <1>1 DEF IsTap, ListOK, Action
  <2> QED
    BY <1>1, <1>3, <2>1, <2>2 DEF IsTap, Grows
<1> QED
  BY <1>2, <1>3

\* What is held by the one that has the list in hand goes on being held.
LEMMA HeldStays ==
  ASSUME Held, OwedBy(fate') \subseteq OwedBy(fate), calm' => calm,
         stored' = stored, tap' = tap \/ tap'.pc = "idle",
         \A d \in Drains : \/ drain'[d] = drain[d]
                           \/ drain'[d].pc = "idle"
                           \/ drain[d].pc # "idle" /\ (calm => Covers(drain'[d], OwedBy(fate')))
  PROVE  Held'
<1> SUFFICES ASSUME calm, calm'
             PROVE  /\ Alone' /\ OwedBy(fate') \subseteq IdsOf(stored')
                    /\ tap'.pc = "save" => OwedBy(fate') \subseteq IdsOf(tap'.list)
                    /\ \A d \in Drains : Covers(drain'[d], OwedBy(fate'))
  BY DEF Held
<1>1. Alone'
  BY DEF Held, Alone
<1>2. OwedBy(fate') \subseteq IdsOf(stored') /\ (tap'.pc = "save" => OwedBy(fate') \subseteq IdsOf(tap'.list))
  BY DEF Held
<1>3. ASSUME NEW d \in Drains  PROVE  Covers(drain'[d], OwedBy(fate'))
  BY DEF Held, Covers
<1> QED
  BY <1>1, <1>2, <1>3

LEMMA StoreTypes ==
  ASSUME TypeOK, NEW list, Read(list) \/ Save(list)
  PROVE  faults' \in 0..MaxFaults /\ calm' \in BOOLEAN /\ (calm' => calm)
<1>1. faults \in Nat /\ faults <= MaxFaults /\ MaxFaults \in Nat /\ calm \in BOOLEAN
  BY BoundsAreNat DEF TypeOK
<1>2. faults' = faults \/ (faults < MaxFaults /\ faults' = faults + 1)
  BY DEF Read, Save
<1>3. calm' = calm \/ calm' = (calm /\ ~Busy) \/ calm' = FALSE
  BY DEF Read, Save
<1>4. faults' \in 0..MaxFaults
  BY <1>1, <1>2
<1>5. CASE calm' = calm
  BY <1>1, <1>4, <1>5
<1>6. CASE calm' = (calm /\ ~Busy)
  <2>1. (calm /\ ~Busy) \in BOOLEAN
    OBVIOUS
  <2>2. calm' \in BOOLEAN
    BY <1>6, <2>1, Zenon
  <2>3. calm' => calm
    BY <1>6, Zenon
  <2> QED
    BY <1>4, <2>2, <2>3
<1>7. CASE calm' = FALSE
  BY <1>4, <1>7
<1> QED
  BY <1>3, <1>5, <1>6, <1>7

LEMMA NothingGrows ==
  ASSUME TypeOK, refusals' = refusals, fate' = fate
  PROVE  Grows
BY BoundsAreNat DEF TypeOK, Grows

-----------------------------------------------------------------------------
(* The steps *)

LEMMA MoveKeeps ==
  ASSUME IInv, NEW o \in Orders, Move(o)
  PROVE  IInv'
<1> USE DEF IInv
<1>1. UNCHANGED <<stored, tap, drain, fate, refusals, faults, calm>>
  BY DEF Move
<1>2. TypeOK'
  BY DEF Move, TypeOK
<1>3. Grows
  BY <1>1, NothingGrows
<1>4. ListsOK'
  BY <1>1, <1>2, <1>3, RestStays, SameDrains DEF ListsOK, IsTap
<1>5. GivenUpWasRefused' /\ Held'
  BY <1>1, HeldStays DEF GivenUpWasRefused
<1> QED
  BY <1>2, <1>4, <1>5

LEMMA EnqueueLoadKeeps ==
  ASSUME IInv, NEW o \in Orders, NEW step \in 1..LastStep[o], EnqueueLoad(o, step)
  PROVE  IInv'
<1> USE DEF IInv
<1>1. /\ UNCHANGED <<stage, stored, drain, fate, refusals>> /\ tap.pc = "idle" /\ step \in Nat
      /\ LastStep[o] \in Nat
  BY BoundsAreNat DEF EnqueueLoad
<1> PICK id \in Ids, list \in {stored, {}} :
      /\ fate[id] = "none" /\ Read(list)
      /\ tap' = [pc |-> "save", id |-> id,
                 list |-> list \union {[id |-> id, order |-> o, step |-> step, tries |-> 0]}]
  BY DEF EnqueueLoad
<1> DEFINE new == [id |-> id, order |-> o, step |-> step, tries |-> 0]
<1>2. TypeOK' /\ Grows
  BY <1>1, StoreTypes, NothingGrows DEF TypeOK
<1>3. ListOK(list, refusals) /\ Queued(list, fate)
  BY DEF ListsOK, ListOK, Queued
<1>4. new \in Action /\ new.id = id /\ new.tries = 0
  BY <1>1, BoundsAreNat DEF Action
<1> DEFINE longer == list \union {new}
<1>5. tap' = [pc |-> "save", id |-> id, list |-> longer]
  OBVIOUS
<1> HIDE DEF new
<1>6. ListOK(longer, refusals')
  <2>1. refusals'[id] \in Nat /\ refusals' = refusals
    BY <1>1, BoundsAreNat DEF TypeOK
  <2>2. \A a \in list : a.id # id
    BY <1>3 DEF Queued
  <2> QED
    BY <1>3, <1>4, <2>1, <2>2 DEF ListOK
<1> HIDE DEF longer
<1>7. IsTap(tap', refusals', fate')
  BY <1>1, <1>3, <1>4, <1>5, <1>6 DEF IsTap, IdsOf, Queued, longer
<1>8. ListsOK'
  BY <1>1, <1>2, <1>7, RestStays, SameDrains DEF ListsOK
<1>9. Held'
  <2> SUFFICES ASSUME calm'  PROVE Held'
    BY DEF Held
  <2>1. calm /\ list = stored /\ \A d \in Drains : drain[d].pc = "idle"
    BY DEF Read, Busy
  <2>2. IdsOf(stored) \subseteq IdsOf(tap'.list)
    BY <1>5, <2>1 DEF IdsOf, longer
  <2> QED
    BY <1>1, <2>1, <2>2 DEF Held, Alone, Covers
<1> QED
  BY <1>1, <1>2, <1>8, <1>9 DEF GivenUpWasRefused

LEMMA EnqueueSaveKeeps ==
  ASSUME IInv, EnqueueSave
  PROVE  IInv'
<1> USE DEF IInv
<1>1. /\ UNCHANGED <<stage, drain, refusals>> /\ tap.pc = "save" /\ Save(tap.list) /\ tap' = NoTap
      /\ fate' = [fate EXCEPT ![tap.id] = "owed"]
  BY DEF EnqueueSave
<1> PICK x : x = tap
  OBVIOUS
<1>2. /\ ListOK(x.list, refusals) /\ x.id \in Ids /\ fate[x.id] = "none" /\ x.id \in IdsOf(x.list)
      /\ \A a \in x.list : a.id # x.id => fate[a.id] # "none"
  BY <1>1 DEF ListsOK, IsTap
<1>3. /\ fate'[x.id] = "owed" /\ (\A id \in Ids : id # x.id => fate'[id] = fate[id])
      /\ fate' \in [Ids -> Fates]
  BY <1>1, <1>2 DEF TypeOK, Fates
<1>4. TypeOK' /\ Grows
  <2>1. Grows
    BY <1>1, <1>2, <1>3, BoundsAreNat DEF TypeOK, Grows
  <2>2. stored' = stored \/ stored' = x.list
    BY <1>1 DEF Save
  <2>3. stage' \in [Orders -> Nat] /\ stored' \subseteq Action /\ refusals' \in [Ids -> 0..MaxTries]
    BY <1>1, <1>2, <2>2 DEF TypeOK, ListOK
  <2> QED
    BY <1>1, <1>3, <2>1, <2>3, StoreTypes DEF TypeOK
<1>5. ListOK(x.list, refusals') /\ Queued(x.list, fate')
  <2>1. \A a \in x.list : a.id \in Ids
    BY <1>2 DEF ListOK, Action
  <2> QED
    BY <1>1, <1>2, <1>3, <2>1 DEF Queued
<1>6. ListsOK'
  <2>1. ListOK(stored', refusals') /\ Queued(stored', fate')
    BY <1>1, <1>4, <1>5, RestStays DEF Save
  <2>2. IsTap(tap', refusals', fate')
    BY <1>1 DEF IsTap, NoTap
  <2> QED
    BY <1>1, <1>4, <2>1, <2>2, SameDrains DEF ListsOK
<1>7. Held'
  <2> SUFFICES ASSUME calm'  PROVE Held'
    BY DEF Held
  <2>1. calm /\ stored' = x.list /\ tap'.pc = "idle" /\ \A d \in Drains : drain'[d].pc = "idle"
    BY <1>1 DEF Save, NoTap, Held, Alone
  <2>2. OwedBy(fate') \subseteq OwedBy(fate) \union {x.id}
    BY <1>3 DEF OwedBy
  <2>3. OwedBy(fate') \subseteq IdsOf(stored')
    BY <1>1, <1>2, <2>1, <2>2 DEF Held
  <2> QED
    BY <2>1, <2>3 DEF Held, Alone, Covers
<1>8. GivenUpWasRefused'
  BY <1>1, <1>3 DEF GivenUpWasRefused
<1> QED
  BY <1>4, <1>6, <1>7, <1>8

LEMMA DrainLoadKeeps ==
  ASSUME IInv, NEW d \in Drains, DrainLoad(d)
  PROVE  IInv'
<1> USE DEF IInv
<1>1. UNCHANGED <<stage, stored, tap, fate, refusals>> /\ drain[d].pc = "idle"
  BY DEF DrainLoad
<1> PICK list : /\ list \in {stored, {}} /\ Read(list)
                /\ drain' = [drain EXCEPT ![d] = Going(list, 0, {}, {})]
  BY DEF DrainLoad
<1>2. TypeOK' /\ Grows
  BY <1>1, StoreTypes, NothingGrows DEF TypeOK
<1>3. ListOK(list, refusals') /\ Queued(list, fate')
  BY <1>1 DEF ListsOK, ListOK, Queued
<1> DEFINE x == Going(list, 0, {}, {})
<1>4. /\ IsDrain(x, refusals', fate') /\ Orderly(x, fate')
      /\ \A owed : owed \subseteq IdsOf(list) => Covers(x, owed)
  <2>1. \A id \in Ids : ~(id <= 0)
    BY BoundsAreNat DEF Ids
  <2>3. \A a \in list : ~(a.id <= 0)
    BY <1>3, <2>1 DEF ListOK, Action
  <2>2. \A owed : owed \subseteq IdsOf(list) => owed \subseteq IdsOf(list) \ {}
    OBVIOUS
  <2> QED
    BY <1>3, <2>2, <2>3, GoesOn
<1>5. drain' = [drain EXCEPT ![d] = x]
  OBVIOUS
<1> HIDE DEF x
<1>6. DrainsOK' /\ drain'[d] = x /\ \A e \in Drains : e # d => drain'[e] = drain[e]
  BY <1>2, <1>4, <1>5, OneDrains DEF ListsOK
<1>7. ListsOK'
  BY <1>1, <1>2, <1>6, RestStays DEF ListsOK, IsTap
<1>8. Held'
  <2> SUFFICES ASSUME calm'  PROVE Held'
    BY DEF Held
  <2>1. calm /\ list = stored /\ tap.pc # "save" /\ \A e \in Drains : drain[e].pc = "idle"
    BY DEF Read, Busy
  <2>2. OwedBy(fate') \subseteq IdsOf(stored') /\ Covers(x, OwedBy(fate'))
    BY <1>1, <1>4, <2>1 DEF Held
  <2>3. \A e \in Drains : Covers(drain'[e], OwedBy(fate'))
    BY <1>6, <2>1, <2>2 DEF Covers
  <2> QED
    BY <1>1, <1>6, <2>1, <2>2, <2>3 DEF Held, Alone
<1> QED
  BY <1>1, <1>2, <1>7, <1>8 DEF GivenUpWasRefused

\* What a drain that sends is sending.
Sending(d, x, a) ==
  /\ x = drain[d] /\ a = Sent(d) /\ x.pc = "send"
  /\ IsDrain(x, refusals, fate) /\ Orderly(x, fate)
  /\ a \in x.list /\ a.id = x.at /\ a.order \notin x.blocked
  /\ a \in Action /\ a.id \in Ids /\ fate[a.id] # "none"

LEMMA SomethingIsSent ==
  ASSUME IInv, NEW d \in Drains, drain[d].pc = "send"
  PROVE  \E x, a : Sending(d, x, a)
<1> PICK x : x = drain[d]
  OBVIOUS
<1>1. IsDrain(x, refusals, fate) /\ Orderly(x, fate)
  BY DEF IInv, ListsOK, DrainsOK
<1> PICK b \in x.list : b.id = x.at /\ b.order \notin x.blocked
  BY <1>1 DEF IsDrain
<1> PICK a : a = CHOOSE action \in x.list : action.id = x.at
  OBVIOUS
<1>2. a \in x.list /\ a.id = x.at
  OBVIOUS
<1>3. a = b /\ a \in Action
  BY <1>1, <1>2 DEF IsDrain, ListOK
<1>4. fate[a.id] # "none" /\ a.id \in Ids
  BY <1>1, <1>2, <1>3 DEF IsDrain, Queued, Action
<1>5. a = Sent(d)
  BY DEF Sent
<1> QED
  BY <1>1, <1>2, <1>3, <1>4, <1>5 DEF Sending

\* The invariant of a step of a drain under way, from what it goes on with.
LEMMA DrainKeeps ==
  ASSUME IInv, TypeOK', Grows, NEW d \in Drains, NEW x, drain[d].pc # "idle",
         drain' = [drain EXCEPT ![d] = x], UNCHANGED <<stored, tap, calm>>,
         IsDrain(x, refusals', fate'), Orderly(x, fate'),
         calm => Covers(x, OwedBy(fate')),
         tap.pc = "save" => fate'[tap.id] = "none",
         OwedBy(fate') \subseteq OwedBy(fate)
  PROVE  ListsOK' /\ Held'
<1> USE DEF IInv
<1>1. DrainsOK' /\ drain'[d] = x /\ \A e \in Drains : e # d => drain'[e] = drain[e]
  BY OneDrains DEF ListsOK
<1>2. ListsOK'
  BY <1>1, RestStays DEF ListsOK
<1>3. Held'
  BY <1>1, HeldStays
<1> QED
  BY <1>2, <1>3

LEMMA AcceptedKeeps ==
  ASSUME IInv, NEW d \in Drains, Accepted(d)
  PROVE  IInv'
<1> USE DEF IInv
<1> PICK x, a : Sending(d, x, a)
  BY SomethingIsSent DEF Accepted
<1> DEFINE y == Going(x.list, x.at, x.gone \union {a.id}, x.blocked)
<1>1. /\ UNCHANGED <<stored, tap, refusals, faults, calm>>
      /\ stage' = [stage EXCEPT ![a.order] = a.step]
      /\ fate' = [fate EXCEPT ![a.id] = "accepted"]
      /\ drain' = [drain EXCEPT ![d] = y]
  BY DEF Accepted, Sending
<1>2. /\ fate'[a.id] = "accepted" /\ (\A id \in Ids : id # a.id => fate'[id] = fate[id])
      /\ fate' \in [Ids -> Fates]
  BY <1>1 DEF TypeOK, Fates, Sending
<1>3. TypeOK' /\ Grows
  <2>1. Grows
    BY <1>1, <1>2, BoundsAreNat DEF TypeOK, Grows, Sending
  <2>2. stage' \in [Orders -> Nat]
    BY <1>1 DEF TypeOK, Sending, Action
  <2> QED
    BY <1>1, <1>2, <2>1, <2>2 DEF TypeOK
<1>4. ListOK(x.list, refusals') /\ Queued(x.list, fate')
  BY <1>3, ListsStay DEF Sending, IsDrain
<1>5. \A b \in x.list : b.id \in Ids /\ b.id \in Nat
  BY <1>4, IdsAreNat DEF ListOK, Action
<1>6. \A b \in x.list : b.id <= x.at /\ b.order \notin x.blocked => fate'[b.id] = "accepted"
  BY <1>2, <1>5 DEF Sending, Orderly
<1>7. /\ IsDrain(y, refusals', fate') /\ Orderly(y, fate')
      /\ \A owed : owed \subseteq IdsOf(x.list) \ (x.gone \union {a.id}) => Covers(y, owed)
  <2>1. x.at \in Nat
    BY <1>5 DEF Sending
  <2> QED
    BY <1>4, <1>6, <2>1, GoesOn
<1> HIDE DEF y
<1>8. OwedBy(fate') \subseteq OwedBy(fate) \ {a.id}
  BY <1>2 DEF OwedBy
<1>9. calm => Covers(y, OwedBy(fate'))
  <2>1. calm => OwedBy(fate) \subseteq IdsOf(x.list) \ x.gone
    BY DEF Held, Covers, Sending
  <2> QED
    BY <1>7, <1>8, <2>1
<1>10. tap.pc = "save" => fate'[tap.id] = "none"
  BY <1>2 DEF ListsOK, IsTap, Sending
<1>11. ListsOK' /\ Held'
  BY <1>1, <1>3, <1>7, <1>8, <1>9, <1>10, DrainKeeps DEF Sending
<1>12. GivenUpWasRefused'
  BY <1>1, <1>2 DEF GivenUpWasRefused
<1> QED
  BY <1>3, <1>11, <1>12

\* A refusal is counted, in the list that was sent and on the server's side.
LEMMA RefusedKeeps ==
  ASSUME IInv, NEW d \in Drains, Refused(d)
  PROVE  IInv'
<1> USE DEF IInv
<1> PICK x, a : Sending(d, x, a)
  BY SomethingIsSent DEF Refused
<1> DEFINE again == (x.list \ {a}) \union {[a EXCEPT !.tries = @ + 1]}
           blocked == x.blocked \union {a.order}
           y == IF Spent(a) THEN Going(x.list, x.at, x.gone \union {a.id}, blocked)
                            ELSE Going(again, x.at, x.gone, blocked)
<1>1. /\ UNCHANGED <<stage, stored, tap, faults, calm>>
      /\ fate' = IF Spent(a) /\ fate[a.id] = "owed" THEN [fate EXCEPT ![a.id] = "given_up"] ELSE fate
      /\ refusals' = [refusals EXCEPT ![a.id] = IF @ < MaxTries THEN @ + 1 ELSE @]
      /\ drain' = [drain EXCEPT ![d] = y]
  BY DEF Refused, Sending, Blocks, Counted
<1>2. /\ a.tries \in Nat /\ a.tries <= MaxTries /\ a.tries <= refusals[a.id] /\ MaxTries \in Nat
      /\ a.id \in Ids /\ a.id \in Nat /\ refusals[a.id] \in 0..MaxTries /\ x.at = a.id
  <2>1. a.id \in Ids /\ a.id \in Nat /\ x.at = a.id /\ a.tries <= refusals[a.id]
    BY IdsAreNat DEF Sending, IsDrain, ListOK
  <2>2. a.tries \in 0..MaxTries
    BY DEF Sending, Action
  <2>3. refusals[a.id] \in 0..MaxTries
    BY <2>1 DEF TypeOK
  <2> QED
    BY <2>1, <2>2, <2>3, BoundsAreNat
<1>3. /\ \A id \in Ids : id # a.id => refusals'[id] = refusals[id] /\ fate'[id] = fate[id]
      /\ refusals'[a.id] \in 0..MaxTries /\ refusals'[a.id] >= refusals[a.id]
      /\ a.tries + 1 <= MaxTries => a.tries + 1 <= refusals'[a.id]
      /\ fate'[a.id] = fate[a.id] \/ (fate[a.id] = "owed" /\ fate'[a.id] = "given_up" /\ Spent(a))
      /\ Spent(a) => fate'[a.id] # "owed"
  <2>1. refusals'[a.id] = IF refusals[a.id] < MaxTries THEN refusals[a.id] + 1 ELSE refusals[a.id]
    BY <1>1, <1>2 DEF TypeOK
  <2>2. \A id \in Ids : id # a.id => refusals'[id] = refusals[id] /\ fate'[id] = fate[id]
    BY <1>1, <1>2 DEF TypeOK
  <2>3. \/ fate'[a.id] = fate[a.id] /\ (Spent(a) => fate[a.id] # "owed")
        \/ fate[a.id] = "owed" /\ fate'[a.id] = "given_up" /\ Spent(a)
    BY <1>1, <1>2 DEF TypeOK
  <2> QED
    BY <1>2, <2>1, <2>2, <2>3
<1>4. TypeOK' /\ Grows
  <2>1. Grows
    BY <1>2, <1>3, BoundsAreNat DEF TypeOK, Grows
  <2>2. refusals' \in [Ids -> 0..MaxTries]
    BY <1>1, <1>2, <1>3 DEF TypeOK
  <2>3. fate' \in [Ids -> Fates]
    BY <1>1 DEF TypeOK, Fates
  <2> QED
    BY <1>1, <2>1, <2>2, <2>3 DEF TypeOK
<1>5. ListOK(x.list, refusals') /\ Queued(x.list, fate')
  BY <1>4, ListsStay DEF Sending, IsDrain
<1>6. \A b \in x.list : b.id \in Ids /\ b.id \in Nat
  BY <1>5, IdsAreNat DEF ListOK, Action
<1>7. \A b \in x.list : b.id <= x.at /\ b.order \notin blocked => fate'[b.id] = "accepted"
  <2>1. \A b \in x.list : b.id = x.at => b = a
    BY <1>5 DEF Sending, ListOK
  <2>2. \A b \in x.list : b.id < x.at /\ b.order \notin blocked => fate'[b.id] = "accepted"
    BY <1>2, <1>3, <1>6 DEF Sending, Orderly
  <2> QED
    BY <1>2, <1>6, <2>1, <2>2
<1>8. CASE Spent(a)
  <2> DEFINE gone == x.gone \union {a.id}
  <2>1. y = Going(x.list, x.at, gone, blocked)
    BY <1>8
  <2> HIDE DEF y, blocked
  <2>2. /\ IsDrain(y, refusals', fate') /\ Orderly(y, fate')
        /\ \A owed : owed \subseteq IdsOf(x.list) \ gone => Covers(y, owed)
    BY <1>2, <1>5, <1>7, <2>1, GoesOn
  <2>3. OwedBy(fate') \subseteq OwedBy(fate) \ {a.id}
    BY <1>3, <1>8 DEF OwedBy
  <2>4. calm => Covers(y, OwedBy(fate'))
    <3>1. calm => OwedBy(fate) \subseteq IdsOf(x.list) \ x.gone
      BY DEF Held, Covers, Sending
    <3> QED
      BY <2>2, <2>3, <3>1
  <2>5. tap.pc = "save" => fate'[tap.id] = "none"
    BY <1>3 DEF ListsOK, IsTap, Sending
  <2>6. ListsOK' /\ Held'
    BY <1>1, <1>4, <2>2, <2>3, <2>4, <2>5, DrainKeeps DEF Sending
  <2>7. GivenUpWasRefused'
    <3>1. refusals'[a.id] >= MaxTries
      BY <1>2, <1>3, <1>8 DEF Spent
    <3> QED
      BY <1>3, <3>1 DEF GivenUpWasRefused
  <2> QED
    BY <1>4, <2>6, <2>7
<1>9. CASE ~Spent(a)
  <2> DEFINE b == [a EXCEPT !.tries = @ + 1]
  <2>1. y = Going(again, x.at, x.gone, blocked) /\ again = (x.list \ {a}) \union {b}
    BY <1>9
  <2>2. a.tries + 1 < MaxTries
    BY <1>2, <1>9 DEF Spent
  <2>3. b \in Action /\ b.id = a.id /\ b.order = a.order /\ b.tries = a.tries + 1
    BY <1>2, <2>2 DEF Sending, Action
  <2>4. b.tries <= refusals'[b.id]
    BY <1>2, <1>3, <2>2, <2>3
  <2> HIDE DEF y, b, again
  <2>5. ListOK(again, refusals') /\ Queued(again, fate')
    <3>1. \A c \in x.list : c.id = a.id => c = a
      BY <1>5 DEF Sending, ListOK
    <3>2. a \in x.list
      BY DEF Sending
    <3>3. again \subseteq Action /\ \A c \in again : c.tries <= refusals'[c.id]
      BY <1>5, <2>1, <2>3, <2>4 DEF ListOK
    <3>4. \A c, e \in again : c.id = e.id => c = e
      BY <1>5, <2>1, <2>3, <3>1, <3>2 DEF ListOK
    <3>5. Queued(again, fate')
      BY <1>5, <2>1, <2>3, <3>2 DEF Queued
    <3> QED
      BY <3>3, <3>4, <3>5 DEF ListOK
  <2>6. \A c \in again : c.id <= x.at /\ c.order \notin blocked => fate'[c.id] = "accepted"
    BY <1>7, <2>1, <2>3
  <2> HIDE DEF blocked
  <2>7. /\ IsDrain(y, refusals', fate') /\ Orderly(y, fate')
        /\ \A owed : owed \subseteq IdsOf(again) \ x.gone => Covers(y, owed)
    BY <1>2, <2>1, <2>5, <2>6, GoesOn
  <2>8. fate' = fate
    BY <1>1, <1>9
  <2>9. IdsOf(again) = IdsOf(x.list)
    BY <2>1, <2>3 DEF IdsOf, Sending
  <2>10. calm => Covers(y, OwedBy(fate'))
    <3>1. calm => OwedBy(fate) \subseteq IdsOf(x.list) \ x.gone
      BY DEF Held, Covers, Sending
    <3> QED
      BY <2>7, <2>8, <2>9, <3>1
  <2>11. tap.pc = "save" => fate'[tap.id] = "none"
    BY <2>8 DEF ListsOK, IsTap
  <2>12. ListsOK' /\ Held'
    BY <1>1, <1>4, <2>7, <2>8, <2>10, <2>11, DrainKeeps DEF Sending
  <2>13. GivenUpWasRefused'
    BY <1>2, <1>3, <2>8, BoundsAreNat DEF GivenUpWasRefused, TypeOK
  <2> QED
    BY <1>4, <2>12, <2>13
<1> QED
  BY <1>8, <1>9

LEMMA UnansweredKeeps ==
  ASSUME IInv, NEW d \in Drains, Unanswered(d)
  PROVE  IInv'
<1> USE DEF IInv
<1> PICK x, a : Sending(d, x, a)
  BY SomethingIsSent DEF Unanswered
<1> DEFINE y == Going(x.list, MaxActions, x.gone, x.blocked)
<1>1. UNCHANGED <<stage, stored, tap, fate, refusals, faults, calm>> /\ drain' = [drain EXCEPT ![d] = y]
  BY DEF Unanswered, Sending
<1>2. TypeOK' /\ Grows
  BY <1>1, NothingGrows DEF TypeOK
<1>3. ListOK(x.list, refusals') /\ Queued(x.list, fate')
  BY <1>1 DEF Sending, IsDrain
<1>4. MaxActions \in Nat /\ \A b \in x.list : ~(b.id > MaxActions)
  <2>1. MaxActions \in Nat /\ \A id \in Ids : ~(id > MaxActions)
    BY BoundsAreNat DEF Ids
  <2> QED
    BY <1>3, <2>1 DEF ListOK, Action
<1>5. /\ IsDrain(y, refusals', fate') /\ Orderly(y, fate')
      /\ \A owed : owed \subseteq IdsOf(x.list) \ x.gone => Covers(y, owed)
  BY <1>3, <1>4, GoesOn, IdsAreNat
<1> HIDE DEF y
<1>6. calm => Covers(y, OwedBy(fate'))
  <2>1. calm => OwedBy(fate) \subseteq IdsOf(x.list) \ x.gone
    BY DEF Held, Covers, Sending
  <2> QED
    BY <1>1, <1>5, <2>1
<1>7. ListsOK' /\ Held'
  BY <1>1, <1>2, <1>5, <1>6, DrainKeeps DEF Sending, ListsOK, IsTap
<1> QED
  BY <1>1, <1>2, <1>7 DEF GivenUpWasRefused

LEMMA DrainSaveKeeps ==
  ASSUME IInv, NEW d \in Drains, DrainSave(d)
  PROVE  IInv'
<1> USE DEF IInv
<1> PICK x : x = drain[d]
  OBVIOUS
<1>1. /\ UNCHANGED <<stage, tap, fate, refusals>> /\ drain' = [drain EXCEPT ![d] = NoDrain]
      /\ x.pc = "save" /\ Save(x.list)
  BY DEF DrainSave
<1>2. ListOK(x.list, refusals) /\ Queued(x.list, fate)
  BY DEF ListsOK, DrainsOK, IsDrain
<1>3. stored' = stored \/ stored' = x.list
  BY <1>1 DEF Save
<1>4. TypeOK' /\ Grows
  <2>1. stored' \subseteq Action
    BY <1>2, <1>3 DEF TypeOK, ListOK
  <2> QED
    BY <1>1, <2>1, StoreTypes, NothingGrows DEF TypeOK
<1>5. DrainsOK' /\ drain'[d] = NoDrain /\ \A e \in Drains : e # d => drain'[e] = drain[e]
  BY <1>1, <1>4, NoDrainIsOne, OneDrains DEF ListsOK
<1>6. ListsOK'
  BY <1>1, <1>2, <1>3, <1>5 DEF ListsOK
<1>7. Held'
  <2> SUFFICES ASSUME calm'  PROVE Held'
    BY DEF Held
  <2>1. calm /\ stored' = x.list /\ Alone /\ Covers(x, OwedBy(fate))
    BY <1>1 DEF Save, Held
  <2>2. \A e \in Drains : drain'[e].pc = "idle"
    BY <1>1, <1>5, <2>1, NoDrainIsOne DEF Alone
  <2>3. tap'.pc # "save"
    BY <1>1, <2>1 DEF Alone
  <2>4. OwedBy(fate') \subseteq IdsOf(stored')
    BY <1>1, <2>1 DEF Covers
  <2> QED
    BY <2>2, <2>3, <2>4 DEF Held, Alone, Covers
<1> QED
  BY <1>1, <1>4, <1>6, <1>7 DEF GivenUpWasRefused

LEMMA SignOutKeeps ==
  ASSUME IInv, SignOut
  PROVE  IInv'
<1> USE DEF IInv
<1>1. /\ UNCHANGED <<stage, tap, drain, refusals, faults>> /\ tap.pc = "idle" /\ stored' = {}
      /\ fate' = [id \in Ids |-> IF fate[id] = "owed" THEN "signed_out" ELSE fate[id]]
      /\ calm' = (calm /\ ~Busy)
  BY DEF SignOut
<1>2. fate' \in [Ids -> Fates] /\ \A id \in Ids : fate'[id] = fate[id] \/ (fate[id] = "owed" /\ fate'[id] = "signed_out")
  BY <1>1 DEF TypeOK, Fates
<1>3. TypeOK' /\ Grows
  <2>1. Grows
    BY <1>1, <1>2, BoundsAreNat DEF TypeOK, Grows
  <2>2. calm' \in BOOLEAN
    <3>1. (calm /\ ~Busy) \in BOOLEAN
      OBVIOUS
    <3> QED
      BY <1>1, <3>1, Zenon
  <2> QED
    BY <1>1, <1>2, <2>1, <2>2 DEF TypeOK
<1>4. ListsOK'
  <2>1. ListOK(stored', refusals') /\ Queued(stored', fate')
    BY <1>1 DEF ListOK, Queued
  <2>2. IsTap(tap', refusals', fate')
    BY <1>1 DEF ListsOK, IsTap
  <2> QED
    BY <1>1, <1>3, <2>1, <2>2, SameDrains DEF ListsOK
<1>5. Held'
  <2>1. OwedBy(fate') = {}
    BY <1>1 DEF OwedBy
  <2>2. calm' => calm
    BY <1>1, Zenon
  <2> QED
    BY <1>1, <2>1, <2>2 DEF Held, Alone, Covers
<1>6. GivenUpWasRefused'
  BY <1>1, <1>2 DEF GivenUpWasRefused
<1> QED
  BY <1>3, <1>4, <1>5, <1>6

LEMMA KillKeeps ==
  ASSUME IInv, Kill
  PROVE  IInv'
<1> USE DEF IInv
<1>1. /\ UNCHANGED <<stage, stored, fate, refusals, calm>> /\ tap' = NoTap /\ drain' = [d \in Drains |-> NoDrain]
      /\ faults' = faults + 1 /\ faults < MaxFaults
  BY DEF Kill
<1>2. TypeOK'
  <2>1. faults' \in 0..MaxFaults
    BY <1>1, BoundsAreNat DEF TypeOK
  <2> QED
    BY <1>1, <2>1 DEF TypeOK
<1>3. \A d \in Drains : drain'[d] = NoDrain
  BY <1>1
<1>4. ListsOK'
  BY <1>1, <1>3, NoDrainIsOne DEF ListsOK, DrainsOK, IsTap, NoTap
<1>5. Held'
  BY <1>1, <1>3, NoDrainIsOne DEF Held, Alone, Covers, NoTap
<1> QED
  BY <1>1, <1>2, <1>4, <1>5 DEF GivenUpWasRefused

-----------------------------------------------------------------------------
(* The theorems *)

LEMMA InitHolds == Init => IInv
<1> SUFFICES ASSUME Init  PROVE  IInv
  OBVIOUS
<1> USE DEF Init
<1>1. \A d \in Drains : drain[d] = NoDrain
  OBVIOUS
<1>2. TypeOK
  BY BoundsAreNat DEF TypeOK, Fates
<1>3. ListsOK
  BY <1>1, NoDrainIsOne DEF ListsOK, DrainsOK, IsTap, NoTap, ListOK, Queued
<1>4. Held
  BY <1>1, NoDrainIsOne DEF Held, Alone, Covers, NoTap, OwedBy
<1> QED
  BY <1>2, <1>3, <1>4 DEF IInv, GivenUpWasRefused

LEMMA StepKeeps == IInv /\ [Next]_vars => IInv'
<1> SUFFICES ASSUME IInv, [Next]_vars  PROVE  IInv'
  OBVIOUS
<1>1. ASSUME NEW d \in Drains, Drain(d)  PROVE  IInv'
  BY <1>1, DrainLoadKeeps, AcceptedKeeps, RefusedKeeps, UnansweredKeeps, DrainSaveKeeps DEF Drain
<1>2. CASE UNCHANGED vars
  <2>1. TypeOK' /\ GivenUpWasRefused' /\ Held'
    BY <1>2 DEF vars, IInv, TypeOK, GivenUpWasRefused, Held, Alone
  <2>2. ListsOK'
    BY <1>2 DEF vars, IInv, ListsOK, DrainsOK
  <2> QED
    BY <2>1, <2>2 DEF IInv
<1> QED
  BY <1>1, <1>2, MoveKeeps, EnqueueLoadKeeps, EnqueueSaveKeeps, SignOutKeeps, KillKeeps DEF Next

\* In every behaviour every list there is holds what has been queued, refused as often as
\* it says, and until two met one at most has it in hand.
THEOREM Invariance == Spec => []IInv
<1> QED
  BY InitHolds, StepKeeps, PTL DEF Spec

\* What the operator was told is saved stays on the phone until the server accepts it, the
\* queue gives it up or the operator signs out (queue.ts:73, 120), wherever the app is
\* killed, as long as storage works and no two use the list at once.
THEOREM SavedIsKept == Spec => []WorkIsKept
<1>1. IInv => WorkIsKept
  BY DEF IInv, Held, WorkIsKept, OwedBy
<1> QED
  BY Invariance, <1>1, PTL

\* afterFailure gives up only what the server refused MAX_ACTION_ATTEMPTS times
\* (queue-rules.ts:55), also where drains meet and save each other's counts over.
THEOREM NothingGivenUpEarly == Spec => []GivenUpWasRefused
<1>1. IInv => GivenUpWasRefused
  BY DEF IInv
<1> QED
  BY Invariance, <1>1, PTL

\* Whatever meets or fails, the server takes from the queue an action of an order only
\* after every earlier one of the order in the list being drained (queue.ts:83).
THEOREM OrdersInOrder == Spec => InOrderWithinOrder
<1> DEFINE InTurn ==
      \A d \in Drains : Accepted(d) =>
        \A action \in drain[d].list :
          action.id < drain[d].at /\ action.order = Sent(d).order => fate[action.id] = "accepted"
<1>1. ASSUME IInv  PROVE InTurn
  <2> SUFFICES ASSUME NEW d \in Drains, Accepted(d), NEW b \in drain[d].list,
                      b.id < drain[d].at, b.order = Sent(d).order
               PROVE  fate[b.id] = "accepted"
    OBVIOUS
  <2> PICK x, a : Sending(d, x, a)
    BY <1>1, SomethingIsSent DEF Accepted
  <2> QED
    BY DEF Sending, Orderly
<1>2. IInv /\ [Next]_vars => [InTurn]_vars
  BY <1>1
<1> QED
  BY Invariance, <1>2, PTL DEF Spec, InOrderWithinOrder

=============================================================================
