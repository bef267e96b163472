----------------------- MODULE TowerAssignmentsProofs -----------------------
(***************************************************************************)
(* For any operators, towers, orders, requests and faults: the two sides   *)
(* of an assignment agree, an order follows its tower, nobody blocked is   *)
(* left with work, and a collected order is a record (README, section 4).  *)
(*                                                                         *)
(* Each property is about records that no two requests were busy with at   *)
(* once, and none is busy with now.  The steps of a request lie many store *)
(* calls apart, so the invariant says what holds in between:               *)
(*   Shapes     a request writes, and chooses among, only what it is about *)
(*   Contests   two that meet on a record have it contested (met)          *)
(*   Knowledge  what a request read of a record that is not contested is   *)
(*              what the tables still say, or what it has itself put there *)
(*   Sides, Follows, Cleared                                               *)
(*              where the tables are not yet as the property wants them    *)
(*              there is a request that has this still to do               *)
(***************************************************************************)
EXTENDS TowerAssignments, TLAPS

Ids == Operators \union Towers \union Orders

\* An order that was booked is in a tower.
Real(doc) == doc \in Order /\ doc.state # "absent" /\ doc.tower \in Towers

\* The steps of setBlockOperators and reassignBlock, of an edit of an operator, of
\* setAvailability, of handing over, of a booking or a move, and of the boot.
Listing == {"eligible", "list"}
Touching == {"touch", "touched"}
Covering == {"cover", "choose", "find", "reassign"}
Patching == {"update", "towers", "member"}
Leaving == {"status", "open", "target"}
Handing == {"hand", "handed"}
Housing == {"booking", "place", "moving", "moved", "relocate"}
Booting == {"operators", "give", "join", "waiting", "staff", "backfill"}

Steps ==
  {"idle", "set", "write"} \union Listing \union Touching \union Covering \union Patching
    \union Leaving \union Handing \union Housing \union Booting

Job ==
  [pc : Steps, tower : Towers \union {NoTower}, who : Operators \union {NoOne},
   to : Operators \union {NoOne}, wanted : SUBSET Operators, user : User, doc : Order,
   todo : SUBSET Ids, left : SUBSET Ids,
   seenTowers : [Towers -> SUBSET Operators], seenUsers : [Operators -> User],
   seenOrders : [Orders -> Order], edits : SUBSET Ids, reads : SUBSET Ids]

\* What a request is about covers what it is going to write, and its choice.
IsJob(j) ==
  /\ j \in Job
  /\ j.pc = "idle" => j.edits = {} /\ j.reads = {}
  /\ j.pc \in Listing \union Touching \union Covering => j.tower \in Towers \intersect j.edits
  /\ j.pc \in Listing => j.wanted \subseteq j.edits /\ j.left \subseteq j.edits /\ j.left \subseteq Operators
  /\ j.pc \in Touching => j.wanted \subseteq j.edits /\ j.todo \subseteq Operators \intersect j.edits
  /\ j.pc = "touched" => j.who \in j.todo
  /\ j.pc \in {"choose", "find", "reassign", "place", "moved", "relocate", "booking", "moving"} =>
       j.wanted \subseteq j.reads
  /\ j.pc \in {"find", "reassign", "place", "moved", "relocate"} => j.to \in j.wanted \union {NoOne}
  /\ j.pc \in {"target", "reassign", "write"} \union Handing => j.todo \subseteq Orders \intersect j.edits
  /\ j.pc \in Patching \union Leaving \union {"set"} => j.who \in Operators \intersect j.edits
  /\ j.pc = "member" => j.todo \subseteq Towers \intersect j.edits
  /\ j.pc \in Leaving \union Handing \union {"write"} => j.to \in j.reads \union {NoOne}
  /\ j.pc = "handed" => j.left \subseteq j.todo /\ \E o \in Orders : j.left = {o}
  /\ j.pc \in Housing => j.tower \in Towers \intersect j.reads
  /\ j.pc \in {"moving", "moved", "relocate", "write"} => \E o \in Orders \intersect j.edits : j.todo = {o}
  /\ j.pc \in {"handed", "relocate", "write"} => Real(j.doc)
  /\ j.pc \in {"reassign", "staff", "backfill"} => j.todo \subseteq Orders
       /\ \A o \in j.todo : Real(j.seenOrders[o]) /\ j.seenOrders[o].state = "scheduled"
  /\ j.pc = "reassign" => \A o \in j.todo : j.seenOrders[o].tower = j.tower
  /\ j.pc = "relocate" => j.doc.by = j.to /\ j.doc.tower = j.tower
  /\ j.pc = "write" => j.doc.state \in {"collected", "closed"}
  /\ j.pc = "handed" => j.doc.by = j.to
  /\ j.pc \in Booting => j.edits = Ids
  /\ j.pc \in {"give", "join"} => j.todo \subseteq Operators
  /\ j.pc = "join" => j.who \in j.todo /\ j.left \subseteq Towers

\* The orders a request is about were booked; the boot goes through all there are.
Booked(j, os) == j.pc \notin Booting => \A o \in Orders \intersect About(j) : os[o].state # "absent"

\* x has order o to see to, by the orders os.
Holds(x, o, os) == os[o].by = x /\ os[o].state \in {"scheduled", "collected"}

\* Whoever was chosen can take work, by the accounts us; m is contested.
Able(x, us, m) == x \in Operators \ m => us[x].status # "blocked"

\* It hands over an order without having asked whether the operator is on duty.
GivenUnasked(j, m) == j.pc \in Handing /\ j.todo \subseteq m

\* What a request knows of the records that no two were busy with: the lists of towers,
KnowsTowers(j, ts, m) ==
  /\ j.pc \in Listing /\ j.tower \notin m => ts[j.tower] = j.left
  /\ j.pc \in Touching \union {"choose", "find", "reassign"} \union Housing /\ j.tower \notin m =>
       ts[j.tower] = j.wanted
  /\ j.pc = "member" => \A t \in j.todo \ m : j.seenTowers[t] = ts[t]
  /\ j.pc \in {"operators", "give", "join", "backfill"} => \A t \in Towers \ m : j.seenTowers[t] = ts[t]
  /\ j.pc = "update" /\ j.who \notin m =>
       \A t \in Towers \ (m \union j.edits) : t \in j.user.towers <=> j.who \in ts[t]

\* The steps of a request that has chosen who gets the order.
Choosing == {"find", "reassign", "place", "moved", "relocate", "write"} \union Handing

\* operators' accounts,
KnowsUsers(j, us, m) ==
  /\ j.pc \in Choosing => Able(j.to, us, m) \/ GivenUnasked(j, m)
  /\ j.pc = "touched" /\ j.who \notin m =>
       /\ j.user.status = us[j.who].status
       /\ \A t \in Towers \ {j.tower} : t \in j.user.towers <=> t \in us[j.who].towers
  /\ j.pc = "touched" => (j.tower \in j.user.towers <=> j.who \in j.wanted)
  /\ j.pc = "update" /\ j.who \notin m => j.user.status = us[j.who].status
  /\ j.pc \in {"towers", "member"} /\ j.who \notin m => us[j.who] = j.user
  /\ j.pc \in {"status", "set"} /\ j.who \notin m => j.user.towers = us[j.who].towers
  /\ j.pc = "give" => \A x \in j.todo \ m : j.seenUsers[x] = us[x] /\ us[x].towers = {}
  /\ j.pc = "join" =>
       /\ \A x \in j.todo \ (m \union {j.who}) : j.seenUsers[x] = us[x] /\ us[x].towers = {}
       /\ \A t \in Towers \ j.left : j.who \in j.seenTowers[t]
       /\ j.who \notin m => us[j.who].towers = Towers
  /\ j.pc = "backfill" => \A x \in Operators \ m : j.seenUsers[x] = us[x]

\* and orders.
KnowsOrders(j, os, m) ==
  /\ j.pc = "target" /\ j.who \notin m => \A o \in Orders \ m : Holds(j.who, o, os) => o \in j.todo
  /\ j.pc \in {"reassign", "staff", "backfill"} => \A o \in j.todo \ m : j.seenOrders[o] = os[o]
  /\ j.pc = "handed" => \A o \in j.left \ m : j.doc.state = os[o].state /\ j.doc.tower = os[o].tower
  /\ j.pc = "relocate" => \A o \in j.todo \ m :
       os[o].state = "scheduled" /\ j.doc.state = "scheduled"
  /\ j.pc = "write" => \A o \in j.todo \ m :
       /\ j.doc.tower = os[o].tower
       /\ j.doc.state = "collected" => os[o].state = "scheduled"
       /\ j.doc.state = "closed" => os[o].state \in {"scheduled", "collected"}
       /\ j.doc.by = os[o].by \/ (j.doc.state = "collected" /\ j.doc.by = j.to)

Knows(j, ts, us, os, m) == KnowsTowers(j, ts, m) /\ KnowsUsers(j, us, m) /\ KnowsOrders(j, os, m)

-----------------------------------------------------------------------------
(* The parts of the invariant *)

Shapes ==
  /\ TypeOK
  /\ req = [r \in Requests |-> req[r]]
  /\ \A r \in Requests : IsJob(req[r]) /\ Booked(req[r], orders)
  /\ \A o \in Orders : orders[o].state # "absent" <=> orders[o].tower \in Towers

Contests ==
  \A q, r \in Requests : q # r /\ Active(q) /\ Active(r) /\ Conflict(req[q], req[r]) =>
    About(req[q]) \union About(req[r]) \subseteq met

Knowledge == \A r \in Requests : Knows(req[r], towers, users, orders, met)

\* Tower t and operator x are still to be brought together, or apart.
Mending(j, x, t) ==
  \/ j.pc \in Touching /\ j.tower = t /\ x \in j.todo
  \/ j.pc = "towers" /\ j.who = x /\ t \in j.edits
  \/ j.pc = "member" /\ j.who = x /\ t \in j.todo
  \/ j.pc = "join" /\ j.who = x /\ t \in j.left

Agree(x, t) == x \in towers[t] <=> t \in users[x].towers

\* A tower and an operator agree, or a request is about to see to it.
Sides ==
  \A x \in Operators \ met, t \in Towers \ met :
    Agree(x, t) \/ \E r \in Requests : Mending(req[r], x, t)

\* Order o of tower t is still to be looked at by reassignBlock, or to be reassigned.
Straying(j, o, t) ==
  /\ j.tower = t
  /\ \/ j.pc \in Touching \union {"cover", "choose", "find"}
     \/ j.pc = "reassign" /\ o \in j.todo

\* Order o is to go to somebody of tower t.
Waits(o, t) == o \notin byHand /\ t \notin loose /\ orders[o].state = "scheduled" /\ orders[o].tower = t

Placed(o, t) == orders[o].by \in towers[t] \union {NoOne}

Follows ==
  \A o \in Orders \ met, t \in Towers \ met :
    Waits(o, t) => Placed(o, t) \/ \E r \in Requests : Straying(req[r], o, t)

\* The work of x is still to be gone through, or order o to be handed over.
Clearing(j, x, o) == j.who = x /\ (j.pc = "open" \/ (j.pc \in {"target"} \union Handing /\ o \in j.todo))

\* Operator x, blocked by somebody who goes through his work, has order o.
HeldUp(x, o) == x \notin unseen /\ users[x].status = "blocked" /\ Holds(x, o, orders)

Cleared ==
  \A x \in Operators \ met, o \in Orders \ met :
    HeldUp(x, o) => \E r \in Requests : Clearing(req[r], x, o)

IInv == Shapes /\ Contests /\ Knowledge /\ Sides /\ Follows /\ Cleared

-----------------------------------------------------------------------------
(* One request goes on *)

\* A request that is over is about nothing.
LEMMA IdleIsJob == IsJob(Idle) /\ Idle.pc = "idle" /\ About(Idle) = {}
<1>1. Nobody \in User /\ Absent \in Order
  BY DEF Nobody, User, Status, Absent, Order
<1>2. Idle \in Job
  BY <1>1 DEF Idle, Job, Steps
<1> QED
  BY <1>2 DEF IsJob, Idle, About, Listing, Touching, Covering, Patching, Leaving, Handing, Housing, Booting

\* The fields of what a request holds have their types.
LEMMA JobFields ==
  ASSUME NEW j, IsJob(j)
  PROVE  /\ j \in Job /\ j.pc \in Steps /\ j.tower \in Towers \union {NoTower}
         /\ j.who \in Operators \union {NoOne} /\ j.to \in Operators \union {NoOne}
         /\ j.wanted \subseteq Operators /\ j.user \in User /\ j.doc \in Order
         /\ j.todo \subseteq Ids /\ j.left \subseteq Ids
         /\ j.seenTowers \in [Towers -> SUBSET Operators] /\ j.seenUsers \in [Operators -> User]
         /\ j.seenOrders \in [Orders -> Order] /\ j.edits \subseteq Ids /\ j.reads \subseteq Ids
BY DEF IsJob, Job

\* Two that meet: what either is about is contested.
LEMMA AllContested ==
  ASSUME NEW r \in Requests, NEW job, NEW q \in Requests \ {r}, Active(q), Conflict(job, req[q])
  PROVE  About(job) \union About(req[q]) \subseteq Contested(r, job)
BY DEF Contested

\* What a request knows it goes on knowing as long as nobody writes what it is about.
LEMMA KnowsStays ==
  ASSUME NEW j, IsJob(j),
         NEW ts, NEW us, NEW os, NEW m, Knows(j, ts, us, os, m),
         NEW ts2, NEW us2, NEW os2, NEW m2, m \subseteq m2,
         \A t \in Towers \intersect About(j) : t \notin m2 => ts2[t] = ts[t],
         \A x \in Operators \intersect About(j) : x \notin m2 => us2[x] = us[x],
         \A o \in Orders \intersect About(j) : o \notin m2 => os2[o] = os[o],
         \A t \in Towers \ m2, x \in Operators \intersect j.edits : x \notin m2 => (x \in ts2[t] <=> x \in ts[t]),
         \A o \in Orders \ m2, x \in Operators \intersect j.edits : x \notin m2 => (Holds(x, o, os2) => Holds(x, o, os))
  PROVE  Knows(j, ts2, us2, os2, m2)
<1> USE DEF Listing, Touching, Covering, Patching, Leaving, Handing, Housing, Booting
<1>1. KnowsTowers(j, ts2, m2)
  BY JobFields DEF Knows, KnowsTowers, IsJob, About, Ids
<1>2. KnowsUsers(j, us2, m2)
  <2>1. \A x \in Operators \intersect About(j) : Able(x, us, m) => Able(x, us2, m2)
    BY DEF Able
  <2>2. j.pc \in Choosing => Able(j.to, us2, m2) \/ GivenUnasked(j, m2)
    <3>1. j.pc \in Choosing /\ j.to \in Operators => j.to \in About(j)
      BY NoneIsNone DEF Choosing, IsJob, About
    <3> QED
      BY <3>1, <2>1 DEF Knows, KnowsUsers, Able, GivenUnasked
  <2>3. \A x \in Operators \intersect j.edits : x \notin m2 => us2[x] = us[x]
    BY DEF About
  <2>4. CASE j.pc \in Booting
    <3>1. j.edits = Ids
      BY <2>4 DEF IsJob
    <3> QED
      BY <2>2, <2>3, <2>4, <3>1, JobFields DEF Knows, KnowsUsers, IsJob, Ids
  <2>5. CASE j.pc \notin Booting
    BY <2>2, <2>3, <2>5 DEF Knows, KnowsUsers, IsJob
  <2> QED
    BY <2>4, <2>5
<1>3. KnowsOrders(j, os2, m2)
  <2>1. \A o \in Orders \intersect j.edits : o \notin m2 => os2[o] = os[o]
    BY DEF About
  <2>2. j.pc \in {"target", "reassign", "staff", "backfill", "handed", "relocate", "write"} =>
          j.todo \subseteq Orders \intersect (j.edits)
    BY DEF IsJob, Ids
  <2>3. j.pc = "target" => j.who \in Operators \intersect j.edits
    BY DEF IsJob
  <2>4. j.pc = "target" /\ j.who \notin m2 => \A o \in Orders \ m2 : Holds(j.who, o, os2) => o \in j.todo
    BY <2>3 DEF Knows, KnowsOrders
  <2>5. j.pc = "handed" => \A o \in j.left \ m2 : j.doc.state = os2[o].state /\ j.doc.tower = os2[o].tower
    BY <2>1, <2>2 DEF Knows, KnowsOrders, IsJob
  <2>6. j.pc \in {"reassign", "staff", "backfill"} => \A o \in j.todo \ m2 : j.seenOrders[o] = os2[o]
    BY <2>1, <2>2 DEF Knows, KnowsOrders
  <2>7. j.pc = "relocate" => \A o \in j.todo \ m2 :
          os2[o].state = "scheduled" /\ j.doc.state = "scheduled"
    BY <2>1, <2>2 DEF Knows, KnowsOrders
  <2> QED
    BY <2>1, <2>2, <2>4, <2>5, <2>6, <2>7 DEF Knows, KnowsOrders
<1> QED
  BY <1>1, <1>2, <1>3 DEF Knows

\* What a step of r writes is among what r edits, but for an order that was not there.
Writes(r) ==
  /\ \A t \in Towers \ req[r].edits : towers'[t] = towers[t]
  /\ \A x \in Operators \ req[r].edits : users'[x] = users[x]
  /\ \A o \in Orders \ req[r].edits :
       orders'[o] = orders[o] \/ (req[r].pc = "place" /\ orders[o].state = "absent")
  /\ \A o \in Orders : orders[o].state # "absent" => orders'[o].state # "absent"
  /\ \A t \in Towers \ met', x \in Operators \ req[r].edits : x \in towers'[t] <=> x \in towers[t]
  /\ \A o \in Orders \ met', x \in Operators \ About(req[r]) : Holds(x, o, orders') => Holds(x, o, orders)

\* What a step has to show of the tables alone.
TypesHold ==
  /\ TypeOK
  /\ \A o \in Orders : orders[o].state # "absent" <=> orders[o].tower \in Towers

\* One request goes on, within what it is about: the others know what they knew.
LEMMA OneMoves ==
  ASSUME Shapes, Contests, Knowledge, NEW r \in Requests, NEW job, IsJob(job),
         req' = [req EXCEPT ![r] = job], TypesHold', Booked(job, orders'),
         met \subseteq met', Contested(r, job) \subseteq met',
         Writes(r), Knows(job, towers', users', orders', met')
  PROVE  Shapes' /\ Contests' /\ Knowledge'
<1>1. /\ req' = [q \in Requests |-> req'[q]] /\ req'[r] = job
      /\ \A q \in Requests \ {r} : req'[q] = req[q]
  BY DEF Shapes
<1>2. Contests'
  <2> SUFFICES ASSUME NEW p \in Requests, NEW q \in Requests, p # q, Active(p)', Active(q)',
                      Conflict(req'[p], req'[q])
               PROVE  About(req'[p]) \union About(req'[q]) \subseteq met'
    BY DEF Contests
  <2>1. CASE p # r /\ q # r
    <3>1. req'[p] = req[p] /\ req'[q] = req[q] /\ Active(p) /\ Active(q)
      BY <1>1, <2>1 DEF Active
    <3> QED
      BY <3>1 DEF Contests
  <2>2. CASE p = r
    <3>1. req'[q] = req[q] /\ Active(q) /\ req'[p] = job
      BY <1>1, <2>2 DEF Active
    <3> QED
      BY <2>2, <3>1, AllContested
  <2>3. CASE q = r
    <3>1. req'[p] = req[p] /\ Active(p) /\ req'[q] = job /\ Conflict(job, req[p])
      BY <1>1, <2>3 DEF Active, Conflict
    <3> QED
      BY <2>3, <3>1, AllContested
  <2> QED
    BY <2>1, <2>2, <2>3
<1>3. ASSUME NEW q \in Requests \ {r}
      PROVE  Booked(req[q], orders') /\ Knows(req[q], towers', users', orders', met')
  <2>1. IsJob(req[q]) /\ IsJob(req[r]) /\ Booked(req[q], orders) /\ Knows(req[q], towers, users, orders, met)
    BY DEF Shapes, Knowledge
  <2>2. Booked(req[q], orders')
    BY <2>1 DEF Writes, Booked
  <2>3. \A a \in About(req[q]) : a \notin met' => a \notin req[r].edits
    <3> SUFFICES ASSUME NEW a \in About(req[q]), a \in req[r].edits PROVE a \in met
      OBVIOUS
    <3>1. Active(q) /\ Active(r)
      BY <2>1 DEF IsJob, About, Active
    <3>2. Conflict(req[q], req[r])
      BY DEF Conflict, About
    <3> QED
      BY <3>1, <3>2 DEF Contests
  <2>4. \A a \in req[q].edits : a \notin met' => a \notin About(req[r])
    <3> SUFFICES ASSUME NEW a \in req[q].edits, a \in About(req[r]) PROVE a \in met
      OBVIOUS
    <3>1. Active(q) /\ Active(r)
      BY <2>1 DEF IsJob, About, Active
    <3>2. Conflict(req[q], req[r])
      BY DEF Conflict, About
    <3> QED
      BY <3>1, <3>2 DEF Contests, About
  <2>5. \A o \in Orders \intersect About(req[q]) : o \notin met' => orders'[o] = orders[o]
    <3> SUFFICES ASSUME NEW o \in Orders \intersect About(req[q]), o \notin met',
                        req[r].pc = "place", orders[o].state = "absent"
                 PROVE  FALSE
      BY <2>3 DEF Writes
    <3>1. req[q].pc \in Booting
      BY <2>1 DEF Booked
    <3>2. req[q].edits = Ids /\ req[r].tower \in Towers \intersect req[r].reads
      BY <2>1, <3>1 DEF IsJob, Housing
    <3>3. Conflict(req[q], req[r]) /\ Active(q) /\ Active(r)
      BY <3>1, <3>2 DEF Conflict, Ids, Active, Booting
    <3> QED
      BY <3>3 DEF Contests, About
  <2>6. \A t \in Towers \intersect About(req[q]) : t \notin met' => towers'[t] = towers[t]
    BY <2>3 DEF Writes
  <2>7. \A x \in Operators \intersect About(req[q]) : x \notin met' => users'[x] = users[x]
    BY <2>3 DEF Writes
  <2>8. \A t \in Towers \ met', x \in Operators \intersect req[q].edits :
          x \notin met' => (x \in towers'[t] <=> x \in towers[t])
    BY <2>3 DEF Writes, About
  <2>9. \A o \in Orders \ met', x \in Operators \intersect req[q].edits :
          x \notin met' => (Holds(x, o, orders') => Holds(x, o, orders))
    BY <2>4 DEF Writes
  <2> QED
    BY <2>1, <2>2, <2>5, <2>6, <2>7, <2>8, <2>9, KnowsStays
<1>4. \A q \in Requests : IsJob(req'[q]) /\ Booked(req'[q], orders')
                          /\ Knows(req'[q], towers', users', orders', met')
  BY <1>1, <1>3 DEF Shapes
<1> QED
  BY <1>1, <1>2, <1>4 DEF Shapes, Knowledge, TypesHold

\* What a step has to show of the pairs and orders that it may disturb.
SidesStay(r, job) ==
  \A x \in Operators \ met', t \in Towers \ met' :
    Agree(x, t) \/ Mending(req[r], x, t) => Agree(x, t)' \/ Mending(job, x, t)

FollowsStays(r, job) ==
  \A o \in Orders \ met', t \in Towers \ met' :
    /\ Waits(o, t) => Placed(o, t) \/ Straying(req[r], o, t)
    /\ Waits(o, t)'
    => Placed(o, t)' \/ Straying(job, o, t)

ClearedStays(r, job) ==
  \A x \in Operators \ met', o \in Orders \ met' :
    /\ HeldUp(x, o) => Clearing(req[r], x, o)
    /\ HeldUp(x, o)'
    => Clearing(job, x, o)

\* One request goes on: what is not yet right is still somebody's to put right.
LEMMA AllStays ==
  ASSUME IInv, NEW r \in Requests, NEW job, req' = [req EXCEPT ![r] = job], met \subseteq met',
         SidesStay(r, job), FollowsStays(r, job), ClearedStays(r, job)
  PROVE  Sides' /\ Follows' /\ Cleared'
<1>1. req'[r] = job /\ \A q \in Requests \ {r} : req'[q] = req[q]
  BY DEF IInv, Shapes
<1>2. Sides'
  <2> SUFFICES ASSUME NEW x \in Operators \ met', NEW t \in Towers \ met'
               PROVE  Agree(x, t)' \/ \E q \in Requests : Mending(req'[q], x, t)
    BY DEF Sides
  <2>1. CASE \E q \in Requests \ {r} : Mending(req[q], x, t)
    BY <1>1, <2>1
  <2>2. CASE Agree(x, t) \/ Mending(req[r], x, t)
    BY <1>1, <2>2 DEF SidesStay
  <2> QED
    BY <2>1, <2>2 DEF IInv, Sides
<1>3. Follows'
  <2> SUFFICES ASSUME NEW o \in Orders \ met', NEW t \in Towers \ met', Waits(o, t)'
               PROVE  Placed(o, t)' \/ \E q \in Requests : Straying(req'[q], o, t)
    BY DEF Follows
  <2>1. CASE \E q \in Requests \ {r} : Straying(req[q], o, t)
    BY <1>1, <2>1
  <2>2. CASE Waits(o, t) => Placed(o, t) \/ Straying(req[r], o, t)
    BY <1>1, <2>2 DEF FollowsStays
  <2> QED
    BY <2>1, <2>2 DEF IInv, Follows
<1>4. Cleared'
  <2> SUFFICES ASSUME NEW x \in Operators \ met', NEW o \in Orders \ met', HeldUp(x, o)'
               PROVE  \E q \in Requests : Clearing(req'[q], x, o)
    BY DEF Cleared
  <2>1. CASE \E q \in Requests \ {r} : Clearing(req[q], x, o)
    BY <1>1, <2>1
  <2>2. CASE HeldUp(x, o) => Clearing(req[r], x, o)
    BY <1>1, <2>2 DEF ClearedStays
  <2> QED
    BY <2>1, <2>2 DEF IInv, Cleared
<1> QED
  BY <1>2, <1>3, <1>4

\* A step keeps the invariant when one request goes on and shows this much.
LEMMA Goes ==
  ASSUME IInv, NEW r \in Requests, NEW job, IsJob(job), req' = [req EXCEPT ![r] = job],
         TypesHold', Booked(job, orders'), met \subseteq met', Contested(r, job) \subseteq met',
         Writes(r), Knows(job, towers', users', orders', met'),
         SidesStay(r, job), FollowsStays(r, job), ClearedStays(r, job)
  PROVE  IInv'
BY OneMoves, AllStays DEF IInv

\* A request that goes from j to job is about no more than before.
SameScope(j, job) ==
  /\ \/ job.edits = j.edits /\ job.reads = j.reads
     \/ job.edits = {} /\ job.reads = {}
  /\ j.pc \in Booting /\ About(job) # {} => job.pc \in Booting

\* About the same as before, or about nothing: nothing is contested anew.
LEMMA NothingContested ==
  ASSUME IInv, NEW r \in Requests, Active(r), NEW job, SameScope(req[r], job)
  PROVE  Contested(r, job) \subseteq met
<1>1. ASSUME NEW q \in Requests \ {r}, Active(q), Conflict(job, req[q])
      PROVE  About(job) \union About(req[q]) \subseteq met
  <2>1. job.edits = req[r].edits /\ job.reads = req[r].reads
    BY <1>1 DEF Conflict, SameScope
  <2>2. Conflict(req[r], req[q]) /\ About(job) = About(req[r])
    BY <1>1, <2>1 DEF Conflict, About
  <2> QED
    BY <1>1, <2>2 DEF IInv, Contests
<1> QED
  BY <1>1 DEF Contested

\* A step that puts nothing.
LEMMA Reads ==
  ASSUME IInv, NEW r \in Requests, NEW job, IsJob(job), req' = [req EXCEPT ![r] = job],
         towers' = towers, users' = users, orders' = orders, byHand' = byHand, loose' = loose,
         TypeOK', Booked(job, orders), met \subseteq met', Contested(r, job) \subseteq met',
         Knows(job, towers, users, orders, met'),
         \A x \in Operators \ met', t \in Towers \ met' :
           Mending(req[r], x, t) => Agree(x, t) \/ Mending(job, x, t),
         \A o \in Orders \ met', t \in Towers \ met' :
           Straying(req[r], o, t) /\ Waits(o, t) => Placed(o, t) \/ Straying(job, o, t),
         \A x \in Operators \ met', o \in Orders \ met' :
           (HeldUp(x, o) => Clearing(req[r], x, o)) /\ HeldUp(x, o)' => Clearing(job, x, o)
  PROVE  IInv'
<1>1. TypesHold' /\ Writes(r) /\ Booked(job, orders')
  BY DEF IInv, Shapes, TypesHold, Writes
<1>2. SidesStay(r, job)
  BY DEF SidesStay, Agree
<1>3. FollowsStays(r, job)
  BY DEF FollowsStays, Waits, Placed
<1>4. ClearedStays(r, job)
  BY DEF ClearedStays
<1> QED
  BY <1>1, <1>2, <1>3, <1>4, Goes

\* Only records are contested.
LEMMA ContestedIds ==
  ASSUME Shapes, NEW r \in Requests, NEW job, IsJob(job)
  PROVE  Contested(r, job) \subseteq Ids
<1>1. About(job) \subseteq Ids /\ \A q \in Requests : About(req[q]) \subseteq Ids
  BY JobFields DEF Shapes, About
<1> QED
  BY <1>1 DEF Contested

\* A request begins.
LEMMA BeginsWith ==
  ASSUME IInv, NEW r \in Requests, NEW job, IsJob(job), NEW also \in SUBSET Ids, BeginWith(r, job, also),
         Booked(job, orders), Knows(job, towers, users, orders, met \union also)
  PROVE  IInv'
<1>1. Contested(r, job) \subseteq met' /\ met \union also \subseteq met' /\ req[r].pc = "idle"
  BY DEF BeginWith, Active
<1>2. TypeOK'
  BY ContestedIds, BoundsAreNatural DEF IInv, Shapes, TypeOK, BeginWith, Ids
<1>3. Knows(job, towers, users, orders, met')
  BY <1>1, KnowsStays
<1>4. \A x \in Operators, t \in Towers : ~Mending(req[r], x, t)
  BY <1>1 DEF Mending, Touching
<1> QED
  BY <1>1, <1>2, <1>3, <1>4, Reads DEF BeginWith, Straying, Clearing, HeldUp, Touching, Handing

LEMMA Begins ==
  ASSUME IInv, NEW r \in Requests, NEW job, IsJob(job), Begin(r, job),
         Booked(job, orders), Knows(job, towers, users, orders, met)
  PROVE  IInv'
<1>1. met \union {} = met
  OBVIOUS
<1> QED
  BY <1>1, BeginsWith DEF Begin

USE DEF Listing, Touching, Covering, Patching, Leaving, Handing, Housing, Booting

\* The tables have their types.
LEMMA Types ==
  ASSUME IInv
  PROVE  /\ towers \in [Towers -> SUBSET Operators] /\ users \in [Operators -> User]
         /\ orders \in [Orders -> Order] /\ met \subseteq Ids
         /\ \A o \in Orders : orders[o].state # "absent" <=> orders[o].tower \in Towers
         /\ \A x \in Operators : users[x].status \in Status /\ users[x].towers \in SUBSET Towers
         /\ \A o \in Orders : /\ orders[o].state \in {"absent", "scheduled", "collected", "closed"}
                              /\ orders[o].tower \in Towers \union {NoTower}
                              /\ orders[o].by \in Operators \union {NoOne}
BY DEF IInv, Shapes, TypeOK, User, Order, Ids

\* Every step a request goes to.
LEMMA AllSteps ==
  /\ "eligible" \in Steps /\ "list" \in Steps /\ "touch" \in Steps /\ "touched" \in Steps /\ "cover" \in Steps
  /\ "choose" \in Steps /\ "find" \in Steps /\ "reassign" \in Steps /\ "update" \in Steps
  /\ "towers" \in Steps /\ "member" \in Steps /\ "status" \in Steps /\ "open" \in Steps /\ "target" \in Steps
  /\ "hand" \in Steps /\ "handed" \in Steps /\ "set" \in Steps /\ "booking" \in Steps /\ "place" \in Steps
  /\ "moving" \in Steps /\ "moved" \in Steps /\ "relocate" \in Steps /\ "write" \in Steps
  /\ "operators" \in Steps /\ "give" \in Steps /\ "join" \in Steps /\ "waiting" \in Steps
  /\ "staff" \in Steps /\ "backfill" \in Steps
BY DEF Steps

LEMMA IdleFields ==
  /\ Idle \in Job /\ Nobody \in User /\ Absent \in Order
  /\ Idle.tower = NoTower /\ Idle.who = NoOne /\ Idle.to = NoOne /\ Idle.wanted = {} /\ Idle.todo = {}
  /\ Idle.left = {} /\ Idle.edits = {} /\ Idle.reads = {}
BY IdleIsJob DEF IsJob, Idle, Nobody, User, Status, Absent, Order

\* Every way to begin: the request is about what it is going to write and to read.
LEMMA SetStarts ==
  ASSUME IInv, NEW r \in Requests, NEW t \in Towers, NEW list \in SUBSET Operators, SetStart(r, t, list)
  PROVE  IInv'
<1> DEFINE job == [Idle EXCEPT !.pc = "eligible", !.tower = t, !.wanted = list, !.left = towers[t],
                               !.edits = {t} \union list \union towers[t]]
<1>1. /\ job \in Job /\ job.pc = "eligible" /\ job.tower = t /\ job.wanted = list /\ job.left = towers[t]
      /\ job.edits = {t} \union list \union towers[t] /\ job.reads = {}
  BY IdleFields, AllSteps, Types DEF Job, Ids
<1>2. IsJob(job)
  BY <1>1, Types DEF IsJob
<1>3. Booked(job, orders)
  BY <1>1, Types, Apart DEF Booked, About
<1>4. Knows(job, towers, users, orders, met)
  BY <1>1 DEF Knows, KnowsTowers, KnowsUsers, KnowsOrders, Choosing
<1> QED
  BY <1>2, <1>3, <1>4, Begins DEF SetStart

LEMMA PatchStarts ==
  ASSUME IInv, NEW r \in Requests, NEW x \in Operators, NEW list \in SUBSET Towers, PatchStart(r, x, list)
  PROVE  IInv'
<1> DEFINE u == [users[x] EXCEPT !.towers = list]
           job == [Idle EXCEPT !.pc = "update", !.who = x, !.user = u, !.edits = {x} \union Differing(x, list)]
<1>0. u \in User /\ u.towers = list /\ u.status = users[x].status
  BY Types DEF User
<1>d. \A t \in Towers : t \in list <=> (x \in towers[t]) # (t \in Differing(x, list))
  BY DEF Differing
<1> HIDE DEF u
<1>1. /\ job \in Job /\ job.pc = "update" /\ job.who = x /\ job.user = u
      /\ job.edits = {x} \union Differing(x, list) /\ job.reads = {}
  BY <1>0, IdleFields, AllSteps DEF Job, Ids, Differing
<1>2. IsJob(job)
  BY <1>1, Types DEF IsJob
<1>3. Booked(job, orders)
  BY <1>1, Types, Apart DEF Booked, About, Differing
<1>4. Knows(job, towers, users, orders, met)
  <2>1. \A t \in Towers \ (met \union job.edits) : t \in job.user.towers <=> job.who \in towers[t]
    BY <1>0, <1>1 DEF Differing
  <2> HIDE DEF job
  <2> QED
    BY <1>0, <1>1, <2>1 DEF Knows, KnowsTowers, KnowsUsers, KnowsOrders, Choosing
<1> QED
  BY <1>2, <1>3, <1>4, Begins DEF PatchStart, u

LEMMA StatusStarts ==
  ASSUME IInv, NEW r \in Requests, NEW x \in Operators, NEW status \in Status, StatusStart(r, x, status)
  PROVE  IInv'
<1> DEFINE u == [users[x] EXCEPT !.status = status]
           job == [Idle EXCEPT !.pc = "set", !.who = x, !.user = u, !.edits = {x}]
<1>0. u \in User /\ u.towers = users[x].towers
  BY Types DEF User
<1> HIDE DEF u
<1>1. job \in Job /\ job.pc = "set" /\ job.who = x /\ job.user = u /\ job.edits = {x} /\ job.reads = {}
  BY <1>0, IdleFields, AllSteps DEF Job, Ids
<1>2. IsJob(job) /\ Booked(job, orders) /\ Knows(job, towers, users, orders, met)
  <2> HIDE DEF job
  <2> QED
    BY <1>0, <1>1, Apart DEF IsJob, Booked, About, Knows, KnowsTowers, KnowsUsers, KnowsOrders, Choosing
<1> QED
  BY <1>2, Begins DEF StatusStart, u

LEMMA OffStarts ==
  ASSUME IInv, NEW r \in Requests, NEW x \in Operators, NEW status \in Status,
         NEW to \in Operators \union {NoOne}, OffStart(r, x, status, to)
  PROVE  IInv'
<1> DEFINE held == {x} \union HeldBy(x)
           near == {to} \ {NoOne}
           u == [users[x] EXCEPT !.status = status]
           job == [Idle EXCEPT !.pc = "status", !.who = x, !.to = to, !.user = u,
                               !.edits = held, !.reads = near]
<1>0. /\ u \in User /\ u.towers = users[x].towers
      /\ held \in SUBSET Ids /\ near \in SUBSET Ids
  BY Types DEF User, HeldBy, Ids
<1> HIDE DEF u, held, near
<1>1. /\ job \in Job /\ job.pc = "status" /\ job.who = x /\ job.to = to /\ job.user = u
      /\ job.edits = held /\ job.reads = near
  BY <1>0, IdleFields, AllSteps DEF Job
<1>2. IsJob(job) /\ Booked(job, orders) /\ Knows(job, towers, users, orders, met)
  <2> HIDE DEF job
  <2> QED
    BY <1>0, <1>1, Apart
    DEF held, near, IsJob, Booked, About, HeldBy, Knows, KnowsTowers, KnowsUsers, KnowsOrders, Choosing
<1> QED
  BY <1>2, Begins DEF OffStart, u, held, near

LEMMA BookStarts ==
  ASSUME IInv, NEW r \in Requests, NEW t \in Towers, BookStart(r, t)
  PROVE  IInv'
<1> DEFINE job == [Idle EXCEPT !.pc = "booking", !.tower = t, !.wanted = towers[t],
                               !.reads = {t} \union towers[t]]
<1>1. /\ job \in Job /\ job.pc = "booking" /\ job.tower = t /\ job.wanted = towers[t]
      /\ job.edits = {} /\ job.reads = {t} \union towers[t]
  BY IdleFields, AllSteps, Types DEF Job, Ids
<1>2. IsJob(job) /\ Booked(job, orders) /\ Knows(job, towers, users, orders, met)
  <2> HIDE DEF job
  <2> QED
    BY <1>1, Apart, Types DEF IsJob, Booked, About, Knows, KnowsTowers, KnowsUsers, KnowsOrders, Choosing
<1> QED
  BY <1>2, Begins DEF BookStart

LEMMA RelocateStarts ==
  ASSUME IInv, NEW r \in Requests, NEW o \in Orders, NEW t \in Towers, RelocateStart(r, o, t)
  PROVE  IInv'
<1> DEFINE near == {orders[o].tower, t} \union towers[t]
           job == [Idle EXCEPT !.pc = "moving", !.tower = t, !.wanted = towers[t], !.todo = {o},
                               !.edits = {o}, !.reads = near]
<1>0. /\ orders[o].tower \in Towers /\ orders[o].state # "absent"
      /\ near \in SUBSET Ids /\ {o} \in SUBSET Ids /\ towers[t] \in SUBSET Operators
  BY Types DEF RelocateStart, Ids
<1> HIDE DEF near
<1>1. /\ job \in Job /\ job.pc = "moving" /\ job.tower = t /\ job.wanted = towers[t] /\ job.todo = {o}
      /\ job.edits = {o} /\ job.reads = near
  BY <1>0, IdleFields, AllSteps DEF Job
<1>2. IsJob(job) /\ Booked(job, orders) /\ Knows(job, towers, users, orders, met)
  <2> HIDE DEF job
  <2> QED
    BY <1>0, <1>1, Apart DEF near, IsJob, Booked, About, Knows, KnowsTowers, KnowsUsers, KnowsOrders, Choosing
<1> QED
  BY <1>2, Begins DEF RelocateStart, near

LEMMA BootStarts ==
  ASSUME IInv, NEW r \in Requests, BootStart(r)
  PROVE  IInv'
<1> DEFINE job == [Idle EXCEPT !.pc = "operators", !.seenTowers = towers,
                               !.edits = Operators \union Towers \union Orders]
<1>1. job \in Job /\ job.pc = "operators" /\ job.seenTowers = towers /\ job.edits = Ids
  BY IdleFields, AllSteps, Types DEF Job, Ids
<1>2. IsJob(job) /\ Booked(job, orders) /\ Knows(job, towers, users, orders, met)
  <2> HIDE DEF job
  <2> QED
    BY <1>1 DEF IsJob, Booked, Knows, KnowsTowers, KnowsUsers, KnowsOrders, Choosing
<1> QED
  BY <1>2, Begins DEF BootStart

LEMMA HandStarts ==
  ASSUME IInv, NEW r \in Requests, NEW o \in Orders, NEW x \in Operators \union {NoOne},
         orders[o].state # "absent", NEW also \in SUBSET {o}, OffDuty(x) => o \in also,
         BeginWith(r, [OnOrder(o, x) EXCEPT !.pc = "hand"], also)
  PROVE  IInv'
<1> DEFINE near == {orders[o].tower, x} \ {NoOne}
           job == [OnOrder(o, x) EXCEPT !.pc = "hand"]
<1>0. near \in SUBSET Ids /\ {o} \in SUBSET Ids /\ orders[o].tower \in Towers
  BY Types DEF Ids
<1> HIDE DEF near
<1>1. /\ job \in Job /\ job.pc = "hand" /\ job.todo = {o} /\ job.to = x
      /\ job.edits = {o} /\ job.reads = near
  BY <1>0, IdleFields, AllSteps DEF Job, OnOrder, near
<1>2. IsJob(job) /\ Booked(job, orders) /\ Knows(job, towers, users, orders, met \union also)
  <2> HIDE DEF job
  <2> QED
    BY <1>0, <1>1, NoneIsNone, Apart
    DEF near, IsJob, Booked, About, Knows, KnowsTowers, KnowsUsers, KnowsOrders, Choosing, Able, GivenUnasked, OffDuty
<1> QED
  BY <1>2, BeginsWith DEF Ids

LEMMA WriteStarts ==
  ASSUME IInv, NEW r \in Requests, NEW o \in Orders, NEW x \in Operators \union {NoOne}, NEW doc \in Order,
         orders[o].state \in {"scheduled", "collected"}, x # NoOne => users[x].status = "active",
         doc.state \in {"collected", "closed"}, doc.tower = orders[o].tower,
         doc.state = "collected" => orders[o].state = "scheduled",
         doc.by = orders[o].by \/ (doc.state = "collected" /\ doc.by = x),
         Begin(r, [OnOrder(o, x) EXCEPT !.pc = "write", !.doc = doc])
  PROVE  IInv'
<1> DEFINE near == {orders[o].tower, x} \ {NoOne}
           job == [OnOrder(o, x) EXCEPT !.pc = "write", !.doc = doc]
<1>0. near \in SUBSET Ids /\ {o} \in SUBSET Ids /\ orders[o].tower \in Towers
  BY Types DEF Ids
<1> HIDE DEF near
<1>1. /\ job \in Job /\ job.pc = "write" /\ job.todo = {o} /\ job.to = x /\ job.doc = doc
      /\ job.edits = {o} /\ job.reads = near
  BY <1>0, IdleFields, AllSteps DEF Job, OnOrder, near
<1>2. Real(doc)
  BY <1>0 DEF Real
<1>3. IsJob(job) /\ Booked(job, orders) /\ Knows(job, towers, users, orders, met)
  <2> HIDE DEF job
  <2> QED
    BY <1>0, <1>1, <1>2, NoneIsNone, Apart
    DEF near, IsJob, Booked, About, Knows, KnowsTowers, KnowsUsers, KnowsOrders, Choosing, Able, GivenUnasked
<1> QED
  BY <1>3, Begins

\* Every request that begins keeps the invariant.
LEMMA Arrives ==
  ASSUME IInv, NEW r \in Requests, Arrive(r)
  PROVE  IInv'
<1>1. CASE \E t \in Towers : BookStart(r, t) \/ \E list \in SUBSET Operators : SetStart(r, t, list)
  BY <1>1, BookStarts, SetStarts
<1>2. CASE BootStart(r)
  BY <1>2, BootStarts
<1>3. ASSUME NEW x \in Operators,
             \/ \E list \in SUBSET Towers : PatchStart(r, x, list)
             \/ \E status \in Status : StatusStart(r, x, status)
             \/ \E status \in Status, to \in Operators \union {NoOne} : OffStart(r, x, status, to)
      PROVE  IInv'
  BY <1>3, PatchStarts, StatusStarts, OffStarts
<1>4. ASSUME NEW x \in Operators, NEW o \in Orders, ClaimStart(r, x, o) PROVE IInv'
  <2>1. users[x].status = "active" /\ orders[o].state # "absent"
    BY <1>4, Types DEF ClaimStart, MaySee
  <2> QED
    BY <1>4, <2>1, HandStarts DEF ClaimStart, Begin, OffDuty
<1>5. ASSUME NEW x \in Operators \union {NoOne}, NEW o \in Orders, AssignStart(r, o, x) PROVE IInv'
  BY <1>5, HandStarts DEF AssignStart
<1>6. ASSUME NEW x \in Operators, NEW o \in Orders, CollectStart(r, x, o) PROVE IInv'
  <2> DEFINE doc == [orders[o] EXCEPT !.state = "collected", !.by = IF @ = NoOne THEN x ELSE @]
  <2>1. /\ doc \in Order /\ doc.state = "collected" /\ doc.tower = orders[o].tower
        /\ doc.by = orders[o].by \/ doc.by = x
    BY Types DEF Order
  <2>2. /\ orders[o].state = "scheduled" /\ users[x].status = "active"
        /\ Begin(r, [OnOrder(o, x) EXCEPT !.pc = "write", !.doc = doc])
    BY <1>6 DEF CollectStart, MaySee
  <2> HIDE DEF doc
  <2> QED
    BY <2>1, <2>2, WriteStarts
<1>7. ASSUME NEW o \in Orders, CloseStart(r, o) PROVE IInv'
  <2> DEFINE doc == [orders[o] EXCEPT !.state = "closed"]
  <2>1. /\ doc \in Order /\ doc.state = "closed" /\ doc.tower = orders[o].tower
        /\ doc.by = orders[o].by
    BY Types DEF Order
  <2>2. /\ orders[o].state \in {"scheduled", "collected"}
        /\ Begin(r, [OnOrder(o, NoOne) EXCEPT !.pc = "write", !.doc = doc])
    BY <1>7 DEF CloseStart
  <2> HIDE DEF doc
  <2> QED
    BY <2>1, <2>2, WriteStarts
<1>8. ASSUME NEW o \in Orders, NEW t \in Towers, RelocateStart(r, o, t) PROVE IInv'
  BY <1>8, RelocateStarts
<1> QED
  BY <1>1, <1>2, <1>3, <1>4, <1>5, <1>6, <1>7, <1>8 DEF Arrive

-----------------------------------------------------------------------------
(* The steps that put nothing *)

\* What is known of a request under way.
LEMMA Known ==
  ASSUME IInv, NEW r \in Requests
  PROVE  /\ req[r] \in Job /\ IsJob(req[r]) /\ Booked(req[r], orders)
         /\ KnowsTowers(req[r], towers, met) /\ KnowsUsers(req[r], users, met)
         /\ KnowsOrders(req[r], orders, met)
BY JobFields DEF IInv, Shapes, Knowledge, Knows

LEMMA InJob ==
  ASSUME IInv, NEW r \in Requests
  PROVE  req[r] \in Job
BY Known

\* What it had still to do is done, or it still has to do it.
GoesOn(j, job) ==
  /\ \A x \in Operators \ met, t \in Towers \ met : Mending(j, x, t) => Agree(x, t) \/ Mending(job, x, t)
  /\ \A o \in Orders \ met, t \in Towers \ met :
       Straying(j, o, t) /\ Waits(o, t) => Placed(o, t) \/ Straying(job, o, t)
  /\ \A x \in Operators \ met, o \in Orders \ met : Clearing(j, x, o) /\ HeldUp(x, o) => Clearing(job, x, o)

\* A step that puts nothing, within what the request is about already.
LEMMA Pauses ==
  ASSUME IInv, NEW r \in Requests, Active(r), Private, NEW job, IsJob(job), req' = [req EXCEPT ![r] = job],
         SameScope(req[r], job), GoesOn(req[r], job), Knows(job, towers, users, orders, met)
  PROVE  IInv'
<1>0. Contested(r, job) \subseteq met
  BY NothingContested
<1>1. met' = met
  BY DEF Private, history
<1>2. TypeOK'
  BY DEF IInv, Shapes, TypeOK, Private, history
<1>3. Booked(job, orders)
  BY Known DEF Booked, About, SameScope
<1>4. \A x \in Operators \ met, o \in Orders \ met :
        (HeldUp(x, o) => Clearing(req[r], x, o)) /\ HeldUp(x, o)' => Clearing(job, x, o)
  BY DEF HeldUp, Private, history, GoesOn
<1> QED
  BY <1>0, <1>1, <1>2, <1>3, <1>4, Reads DEF Private, history, GoesOn

\* A request that is over knows nothing.
LEMMA KnowsNothing == \A ts, us, os, m : Knows(Idle, ts, us, os, m)
BY IdleIsJob DEF Knows, KnowsTowers, KnowsUsers, KnowsOrders, Choosing

\* A request ends with nothing left to do.
LEMMA Ends ==
  ASSUME IInv, NEW r \in Requests, Active(r), Private, Return(r),
         \A x \in Operators \ met, t \in Towers \ met : Mending(req[r], x, t) => Agree(x, t),
         \A o \in Orders \ met, t \in Towers \ met : Straying(req[r], o, t) /\ Waits(o, t) => Placed(o, t),
         \A x \in Operators \ met, o \in Orders \ met : ~Clearing(req[r], x, o)
  PROVE  IInv'
<1>1. /\ IsJob(Idle) /\ Idle.edits = {} /\ Idle.reads = {} /\ req' = [req EXCEPT ![r] = Idle]
      /\ Knows(Idle, towers, users, orders, met)
  BY IdleIsJob, IdleFields, KnowsNothing DEF Return
<1>2. SameScope(req[r], Idle) /\ GoesOn(req[r], Idle)
  BY <1>1 DEF SameScope, About, GoesOn
<1> QED
  BY <1>1, <1>2, Pauses

\* A request that finds more to be about goes on.
LEMMA Widens ==
  ASSUME IInv, NEW r \in Requests, NEW job, IsJob(job), Widen(r, job),
         Booked(job, orders), Knows(job, towers, users, orders, met),
         \A x \in Operators \ met, t \in Towers \ met :
           Mending(req[r], x, t) => Agree(x, t) \/ Mending(job, x, t),
         \A o \in Orders \ met, t \in Towers \ met :
           Straying(req[r], o, t) /\ Waits(o, t) => Placed(o, t) \/ Straying(job, o, t),
         \A x \in Operators \ met, o \in Orders \ met :
           Clearing(req[r], x, o) /\ HeldUp(x, o) => Clearing(job, x, o)
  PROVE  IInv'
<1>1. Contested(r, job) \subseteq met' /\ met \subseteq met'
  BY DEF Widen
<1>2. TypeOK'
  BY ContestedIds DEF IInv, Shapes, TypeOK, Widen, Ids
<1>3. Knows(job, towers, users, orders, met')
  BY <1>1, KnowsStays
<1>4. \A x \in Operators \ met', o \in Orders \ met' :
        (HeldUp(x, o) => Clearing(req[r], x, o)) /\ HeldUp(x, o)' => Clearing(job, x, o)
  BY <1>1 DEF HeldUp, Widen
<1> QED
  BY <1>1, <1>2, <1>3, <1>4, Reads DEF Widen

\* operatorForBlock answers with nobody, or with somebody of the list who can take work.
LEMMA ForBlockIsAble ==
  ASSUME NEW list, NEW accounts, NEW x \in ForBlock(list, accounts)
  PROVE  x = NoOne \/ (x \in list /\ accounts[x].status # "blocked")
BY DEF ForBlock, CanTakeWork

\* setBlockOperators and reassignBlock.
LEMMA SetChecks ==
  ASSUME IInv, NEW r \in Requests, SetCheck(r)
  PROVE  IInv'
<1>1. Active(r) /\ req[r].pc = "eligible" /\ Private
  BY DEF SetCheck, Active
<1>2. CASE Return(r)
  BY <1>1, <1>2, Ends DEF Mending, Straying, Clearing
<1>3. CASE Goto(r, "list")
  <2> DEFINE job == [req[r] EXCEPT !.pc = "list"]
  <2>1. /\ job \in Job /\ job.pc = "list" /\ job.tower = req[r].tower /\ job.wanted = req[r].wanted
        /\ job.left = req[r].left /\ job.edits = req[r].edits /\ job.reads = req[r].reads
        /\ req' = [req EXCEPT ![r] = job]
    BY <1>3, InJob, AllSteps, ZenonT(40) DEF Job, Goto
  <2> HIDE DEF job
  <2>2. IsJob(job)
    BY <1>1, <2>1, Known DEF IsJob
  <2>2k. Knows(job, towers, users, orders, met)
    BY <1>1, <2>1, Known DEF Knows, KnowsTowers, KnowsUsers, KnowsOrders, Choosing
  <2>g. SameScope(req[r], job) /\ GoesOn(req[r], job)
    BY <1>1, <2>1, <2>2, <2>2k DEF SameScope, About, GoesOn, Mending, Straying, Clearing
  <2> QED
    BY <1>1, <2>1, <2>2, <2>2k, <2>g, Pauses
<1> QED
  BY <1>2, <1>3 DEF SetCheck

LEMMA TouchReads ==
  ASSUME IInv, NEW r \in Requests, NEW x \in Operators, TouchRead(r, x)
  PROVE  IInv'
<1> DEFINE list == IF x \in req[r].wanted THEN users[x].towers \union {req[r].tower}
                   ELSE users[x].towers \ {req[r].tower}
           u == [users[x] EXCEPT !.towers = list]
           job == [req[r] EXCEPT !.pc = "touched", !.who = x, !.user = u]
<1>1. Active(r) /\ req[r].pc = "touch" /\ Private /\ x \in req[r].todo /\ req[r].tower \in Towers
  BY Known DEF TouchRead, Active, IsJob
<1>2. /\ list \in SUBSET Towers /\ (req[r].tower \in list <=> x \in req[r].wanted)
      /\ \A t \in Towers \ {req[r].tower} : t \in list <=> t \in users[x].towers
  BY <1>1, Types
<1> HIDE DEF list
<1>3. u \in User /\ u.status = users[x].status /\ u.towers = list
  BY <1>2, Types DEF User
<1> HIDE DEF u
<1>4. /\ job \in Job /\ job.pc = "touched" /\ job.tower = req[r].tower /\ job.wanted = req[r].wanted
      /\ job.todo = req[r].todo /\ job.who = x /\ job.user = u
      /\ job.edits = req[r].edits /\ job.reads = req[r].reads
  BY <1>3, InJob, AllSteps, ZenonT(40) DEF Job
<1>5. req' = [req EXCEPT ![r] = job]
  BY DEF TouchRead, u, list
<1> HIDE DEF job
<1>6. IsJob(job)
  BY <1>1, <1>2, <1>3, <1>4, Known DEF IsJob
<1>6k. Knows(job, towers, users, orders, met)
  BY <1>1, <1>2, <1>3, <1>4, Known DEF Knows, KnowsTowers, KnowsUsers, KnowsOrders, Choosing
<1>g. SameScope(req[r], job) /\ GoesOn(req[r], job)
  BY <1>1, <1>4, <1>5, <1>6, <1>6k DEF SameScope, About, GoesOn, Mending, Straying, Clearing
<1> QED
  BY <1>1, <1>4, <1>5, <1>6, <1>6k, <1>g, Pauses

LEMMA Covers ==
  ASSUME IInv, NEW r \in Requests, Cover(r)
  PROVE  IInv'
<1> DEFINE list == towers[req[r].tower]
           job == [req[r] EXCEPT !.pc = "choose", !.wanted = list, !.reads = @ \union list]
<1>1. req[r].pc = "cover" /\ req[r].tower \in Towers /\ list \in SUBSET Operators /\ Widen(r, job)
  BY Known, Types DEF Cover, IsJob
<1>l. list \in SUBSET Ids /\ req[r].reads \union list \in SUBSET Ids
  BY <1>1, Known, JobFields DEF Ids
<1> HIDE DEF list
<1>2. /\ job \in Job /\ job.pc = "choose" /\ job.tower = req[r].tower /\ job.wanted = list
      /\ job.edits = req[r].edits /\ job.reads = req[r].reads \union list
  BY <1>l, <1>1, InJob, AllSteps, ZenonT(40) DEF Job
<1> HIDE DEF job
<1>3. IsJob(job) /\ Booked(job, orders)
  BY <1>1, <1>2, Known, Apart DEF IsJob, Booked, About
<1>4. Knows(job, towers, users, orders, met)
  BY <1>1, <1>2 DEF list, Knows, KnowsTowers, KnowsUsers, KnowsOrders, Choosing
<1> QED
  BY <1>1, <1>2, <1>3, <1>4, Widens DEF Mending, Straying, Clearing

LEMMA Chooses ==
  ASSUME IInv, NEW r \in Requests, Choose(r)
  PROVE  IInv'
<1> PICK x \in ForBlock(req[r].wanted, users) : req' = [req EXCEPT ![r].pc = "find", ![r].to = x]
  BY DEF Choose
<1> DEFINE job == [req[r] EXCEPT !.pc = "find", !.to = x]
<1>1. Active(r) /\ req[r].pc = "choose" /\ Private /\ req[r].wanted \in SUBSET Operators
  BY Known, JobFields DEF Choose, Active
<1>2. x = NoOne \/ (x \in req[r].wanted /\ users[x].status # "blocked")
  BY ForBlockIsAble
<1>3. /\ job \in Job /\ job.pc = "find" /\ job.tower = req[r].tower /\ job.wanted = req[r].wanted
      /\ job.to = x /\ job.edits = req[r].edits /\ job.reads = req[r].reads
      /\ req' = [req EXCEPT ![r] = job]
  BY <1>1, <1>2, InJob, AllSteps, ZenonT(40) DEF Job
<1> HIDE DEF job
<1>4. IsJob(job)
  BY <1>1, <1>2, <1>3, Known DEF IsJob
<1>4k. Knows(job, towers, users, orders, met)
  BY <1>1, <1>2, <1>3, Known, NoneIsNone DEF Knows, KnowsTowers, KnowsUsers, KnowsOrders, Choosing, Able, GivenUnasked
<1>g. SameScope(req[r], job) /\ GoesOn(req[r], job)
  BY <1>1, <1>3, <1>4, <1>4k DEF SameScope, About, GoesOn, Mending, Straying, Clearing
<1> QED
  BY <1>1, <1>3, <1>4, <1>4k, <1>g, Pauses

LEMMA Finds ==
  ASSUME IInv, NEW r \in Requests, Find(r)
  PROVE  IInv'
<1>1. /\ Active(r) /\ req[r].pc = "find" /\ req[r].tower \in Towers
      /\ req[r].wanted \in SUBSET Operators /\ req[r].to \in req[r].wanted \union {NoOne}
      /\ req[r].tower \notin met => towers[req[r].tower] = req[r].wanted
  BY Known, JobFields DEF Find, Active, IsJob, KnowsTowers
<1>2. \A o \in Orders \ met, t \in Towers \ met :
        Straying(req[r], o, t) /\ Waits(o, t) => Placed(o, t) \/ o \in Misplaced(r)
  BY <1>1 DEF Straying, Waits, Placed, Misplaced, NotYetCollected, Keeps
<1>3. CASE Misplaced(r) = {}
  <2>1. Return(r) /\ Private
    BY <1>3 DEF Find
  <2> QED
    BY <1>1, <1>2, <1>3, <2>1, Ends DEF Mending, Clearing
<1>4. CASE Misplaced(r) # {}
  <2> DEFINE job == [req[r] EXCEPT !.pc = "reassign", !.todo = Misplaced(r), !.seenOrders = orders,
                                   !.edits = @ \union Misplaced(r)]
  <2>1. Widen(r, job)
    BY <1>4 DEF Find
  <2>2. /\ Misplaced(r) \in SUBSET Orders /\ Misplaced(r) \in SUBSET Ids
        /\ \A o \in Misplaced(r) : /\ orders[o].tower = req[r].tower /\ orders[o].state = "scheduled"
                                   /\ Real(orders[o])
    BY <1>1, Types DEF Misplaced, NotYetCollected, Real, Ids
  <2>3. /\ job \in Job /\ job.pc = "reassign" /\ job.tower = req[r].tower /\ job.wanted = req[r].wanted
        /\ job.to = req[r].to /\ job.todo = Misplaced(r) /\ job.seenOrders = orders
        /\ job.edits = req[r].edits \union Misplaced(r) /\ job.reads = req[r].reads
    BY <2>2, InJob, AllSteps, Types, ZenonT(40) DEF Job
  <2> HIDE DEF job
  <2>4. IsJob(job) /\ Booked(job, orders)
    BY <1>1, <2>2, <2>3, Known DEF IsJob, Booked, About
  <2>5. Knows(job, towers, users, orders, met)
    BY <1>1, <2>3, Known DEF Knows, KnowsTowers, KnowsUsers, KnowsOrders, Choosing, GivenUnasked
  <2>6. \A o \in Orders \ met, t \in Towers \ met :
          Straying(req[r], o, t) /\ Waits(o, t) => Placed(o, t) \/ Straying(job, o, t)
    BY <1>2, <2>3 DEF Straying
  <2> QED
    BY <1>1, <2>1, <2>4, <2>5, <2>6, Widens DEF Mending, Clearing
<1> QED
  BY <1>3, <1>4

\* An edit of an operator, and the work of who is taken off duty.
LEMMA PatchesTowers ==
  ASSUME IInv, NEW r \in Requests, PatchTowers(r)
  PROVE  IInv'
<1> DEFINE todo == Differing(req[r].who, req[r].user.towers)
<1>1. /\ Active(r) /\ req[r].pc = "towers" /\ req[r].who \in Operators
      /\ req[r].who \notin met => users[req[r].who] = req[r].user
  BY Known DEF PatchTowers, Active, IsJob, KnowsUsers
<1>2. todo \in SUBSET Towers /\ todo \in SUBSET Ids
  BY DEF Differing, Ids
<1>3. \A x \in Operators \ met, t \in Towers \ met :
        Mending(req[r], x, t) => Agree(x, t) \/ (x = req[r].who /\ t \in todo)
  BY <1>1 DEF Mending, Agree, Differing
<1>4. CASE todo = {}
  <2>1. Return(r) /\ Private
    BY <1>4 DEF PatchTowers
  <2> QED
    BY <1>1, <1>3, <1>4, <2>1, Ends DEF Straying, Clearing
<1>5. CASE todo # {}
  <2> DEFINE job == [req[r] EXCEPT !.pc = "member", !.todo = todo, !.seenTowers = towers,
                                   !.edits = @ \union todo]
  <2>1. Widen(r, job)
    BY <1>5 DEF PatchTowers
  <2> HIDE DEF todo
  <2>2. /\ job \in Job /\ job.pc = "member" /\ job.who = req[r].who /\ job.user = req[r].user
        /\ job.todo = todo /\ job.seenTowers = towers
        /\ job.edits = req[r].edits \union todo /\ job.reads = req[r].reads
    BY <1>2, InJob, AllSteps, Types, ZenonT(40) DEF Job
  <2> HIDE DEF job
  <2>3. IsJob(job) /\ Booked(job, orders)
    BY <1>1, <1>2, <2>2, Known, Apart DEF IsJob, Booked, About
  <2>4. Knows(job, towers, users, orders, met)
    BY <1>1, <1>2, <2>2 DEF Knows, KnowsTowers, KnowsUsers, KnowsOrders, Choosing
  <2>5. \A x \in Operators \ met, t \in Towers \ met : Mending(req[r], x, t) => Agree(x, t) \/ Mending(job, x, t)
    BY <1>3, <2>2 DEF Mending
  <2> QED
    BY <1>1, <2>1, <2>3, <2>4, <2>5, Widens DEF Straying, Clearing
<1> QED
  BY <1>4, <1>5

LEMMA OffOpens ==
  ASSUME IInv, NEW r \in Requests, OffOpen(r)
  PROVE  IInv'
<1> DEFINE open == OpenWork(req[r].who)
           job == [req[r] EXCEPT !.pc = "target", !.todo = open, !.edits = @ \union open]
<1>1. req[r].pc = "open" /\ Widen(r, job) /\ req[r].who \in Operators
  BY Known DEF OffOpen, IsJob
<1>2. open \in SUBSET Orders /\ open \in SUBSET Ids /\ \A o \in Orders : o \in open <=> Holds(req[r].who, o, orders)
  BY DEF OpenWork, HeldBy, Ids, Holds
<1>3. \A o \in open : orders[o].state # "absent"
  BY <1>2 DEF Holds
<1> HIDE DEF open
<1>4. /\ job \in Job /\ job.pc = "target" /\ job.who = req[r].who /\ job.to = req[r].to
      /\ job.todo = open /\ job.edits = req[r].edits \union open /\ job.reads = req[r].reads
  BY <1>2, InJob, AllSteps, ZenonT(40) DEF Job
<1> HIDE DEF job
<1>5. IsJob(job) /\ Booked(job, orders)
  BY <1>1, <1>2, <1>3, <1>4, Known DEF IsJob, Booked, About
<1>6. Knows(job, towers, users, orders, met)
  BY <1>2, <1>4 DEF Knows, KnowsTowers, KnowsUsers, KnowsOrders, Choosing
<1>7. \A x \in Operators \ met, o \in Orders \ met : Clearing(req[r], x, o) /\ HeldUp(x, o) => Clearing(job, x, o)
  BY <1>1, <1>2, <1>4 DEF Clearing, HeldUp
<1> QED
  BY <1>1, <1>5, <1>6, <1>7, Widens DEF Mending, Straying

\* operatorForBlock at a booking or a move, and the orders that are read before they are put.
LEMMA Lookups ==
  ASSUME IInv, NEW r \in Requests, Lookup(r)
  PROVE  IInv'
<1> PICK x \in ForBlock(req[r].wanted, users) :
           req' = [req EXCEPT ![r].pc = IF @ = "booking" THEN "place" ELSE "moved", ![r].to = x]
  BY DEF Lookup
<1> DEFINE pc == IF req[r].pc = "booking" THEN "place" ELSE "moved"
           job == [req[r] EXCEPT !.pc = pc, !.to = x]
<1>1. /\ Active(r) /\ Private /\ req[r].wanted \in SUBSET Operators
      /\ (req[r].pc = "booking" /\ pc = "place") \/ (req[r].pc = "moving" /\ pc = "moved")
  BY Known, JobFields DEF Lookup, Active
<1>2. x = NoOne \/ (x \in req[r].wanted /\ users[x].status # "blocked")
  BY ForBlockIsAble
<1>3. req' = [req EXCEPT ![r] = job]
  OBVIOUS
<1> HIDE DEF pc
<1>4. /\ job \in Job /\ job.pc = pc /\ job.tower = req[r].tower /\ job.wanted = req[r].wanted
      /\ job.to = x /\ job.todo = req[r].todo /\ job.edits = req[r].edits /\ job.reads = req[r].reads
  BY <1>1, <1>2, InJob, AllSteps, ZenonT(40) DEF Job
<1> HIDE DEF job
<1>5. IsJob(job)
  BY <1>1, <1>2, <1>4, Known DEF IsJob
<1>5k. Knows(job, towers, users, orders, met)
  BY <1>1, <1>2, <1>4, Known, NoneIsNone DEF Knows, KnowsTowers, KnowsUsers, KnowsOrders, Choosing, Able, GivenUnasked
<1>g. SameScope(req[r], job) /\ GoesOn(req[r], job)
  BY <1>1, <1>3, <1>4, <1>5, <1>5k DEF SameScope, About, GoesOn, Mending, Straying, Clearing
<1> QED
  BY <1>1, <1>3, <1>4, <1>5, <1>5k, <1>g, Pauses

LEMMA HandReads ==
  ASSUME IInv, NEW r \in Requests, NEW o \in Orders, HandRead(r, o)
  PROVE  IInv'
<1> DEFINE doc == [orders[o] EXCEPT !.by = req[r].to]
           job == [req[r] EXCEPT !.pc = "handed", !.doc = doc, !.left = {o}]
<1>1. Active(r) /\ req[r].pc = "hand" /\ Private /\ o \in req[r].todo /\ req[r].to \in Operators \union {NoOne}
  BY Known, JobFields DEF HandRead, Active
<1>2. orders[o].state # "absent" /\ orders[o].tower \in Towers
  BY <1>1, Known, Types DEF Booked, About, IsJob
<1>3. doc \in Order /\ doc.state = orders[o].state /\ doc.tower = orders[o].tower /\ doc.by = req[r].to
  BY <1>1, Types DEF Order
<1>4. req' = [req EXCEPT ![r] = job] /\ {o} \in SUBSET Ids
  BY DEF HandRead, Ids
<1> HIDE DEF doc
<1>5. /\ job \in Job /\ job.pc = "handed" /\ job.who = req[r].who /\ job.to = req[r].to /\ job.doc = doc
      /\ job.todo = req[r].todo /\ job.left = {o} /\ job.edits = req[r].edits /\ job.reads = req[r].reads
  BY <1>3, <1>4, InJob, AllSteps, ZenonT(40) DEF Job
<1> HIDE DEF job
<1>6. IsJob(job)
  BY <1>1, <1>2, <1>3, <1>5, Known DEF IsJob, Real
<1>6k. Knows(job, towers, users, orders, met)
  BY <1>1, <1>2, <1>3, <1>5, Known DEF Knows, KnowsTowers, KnowsUsers, KnowsOrders, Choosing, GivenUnasked
<1>g. SameScope(req[r], job) /\ GoesOn(req[r], job)
  BY <1>1, <1>4, <1>5, <1>6, <1>6k DEF SameScope, About, GoesOn, Mending, Straying, Clearing
<1> QED
  BY <1>1, <1>4, <1>5, <1>6, <1>6k, <1>g, Pauses

LEMMA RelocateFinds ==
  ASSUME IInv, NEW r \in Requests, NEW o \in Orders, RelocateFind(r, o)
  PROVE  IInv'
<1> DEFINE doc == [orders[o] EXCEPT !.tower = req[r].tower, !.by = req[r].to]
           job == [req[r] EXCEPT !.pc = "relocate", !.doc = doc]
<1>1. /\ Active(r) /\ req[r].pc = "moved" /\ Private /\ o \in req[r].todo
      /\ req[r].to \in Operators \union {NoOne} /\ req[r].tower \in Towers /\ req[r].todo = {o}
  BY Known, JobFields DEF RelocateFind, Active, IsJob
<1>2. CASE Return(r)
  BY <1>1, <1>2, Ends DEF Mending, Straying, Clearing
<1>3. CASE orders[o].state \in NotYetCollected
  <2>1. doc \in Order /\ doc.state = "scheduled" /\ doc.tower = req[r].tower /\ doc.by = req[r].to
    BY <1>1, <1>3, Types DEF Order, NotYetCollected
  <2>2. req' = [req EXCEPT ![r] = job] /\ orders[o].state = "scheduled"
    BY <1>3 DEF RelocateFind, NotYetCollected
  <2> HIDE DEF doc
  <2>3. /\ job \in Job /\ job.pc = "relocate" /\ job.tower = req[r].tower /\ job.wanted = req[r].wanted
        /\ job.to = req[r].to /\ job.doc = doc
        /\ job.todo = req[r].todo /\ job.edits = req[r].edits /\ job.reads = req[r].reads
    BY <2>1, InJob, AllSteps, ZenonT(40) DEF Job
  <2> HIDE DEF job
  <2>4. IsJob(job)
    BY <1>1, <2>1, <2>3, Known DEF IsJob, Real
  <2>5. Knows(job, towers, users, orders, met)
    BY <1>1, <2>1, <2>2, <2>3, Known DEF Knows, KnowsTowers, KnowsUsers, KnowsOrders, Choosing, GivenUnasked
  <2>g. SameScope(req[r], job) /\ GoesOn(req[r], job)
    BY <1>1, <2>2, <2>3, <2>4, <2>5 DEF SameScope, About, GoesOn, Mending, Straying, Clearing
  <2> QED
    BY <1>1, <2>2, <2>3, <2>4, <2>5, <2>g, Pauses
<1> QED
  BY <1>2, <1>3 DEF RelocateFind

\* The boot.
LEMMA BootsOperators ==
  ASSUME IInv, NEW r \in Requests, BootOperators(r)
  PROVE  IInv'
<1> DEFINE without == {x \in Operators : users[x].towers = {}}
           pc == IF without = {} THEN "waiting" ELSE "give"
           job == [req[r] EXCEPT !.pc = pc, !.todo = without, !.seenUsers = users]
<1>1. Active(r) /\ req[r].pc = "operators" /\ Private /\ pc \in {"waiting", "give"}
  BY DEF BootOperators, Active
<1>2. /\ without \in SUBSET Operators /\ without \in SUBSET Ids
      /\ \A x \in without : users[x].towers = {}
  BY DEF Ids
<1>3. req' = [req EXCEPT ![r] = job]
  BY DEF BootOperators
<1> HIDE DEF pc, without
<1>4. /\ job \in Job /\ job.pc = pc /\ job.todo = without /\ job.seenUsers = users
      /\ job.seenTowers = req[r].seenTowers /\ job.edits = req[r].edits /\ job.reads = req[r].reads
  BY <1>1, <1>2, InJob, AllSteps, Types, ZenonT(40) DEF Job
<1> HIDE DEF job
<1>5. IsJob(job)
  BY <1>1, <1>2, <1>4, Known DEF IsJob
<1>6. Knows(job, towers, users, orders, met)
  BY <1>1, <1>2, <1>4, Known DEF Knows, KnowsTowers, KnowsUsers, KnowsOrders, Choosing
<1>7. SameScope(req[r], job) /\ GoesOn(req[r], job)
  BY <1>1, <1>4 DEF SameScope, About, GoesOn, Mending, Straying, Clearing
<1> QED
  BY <1>1, <1>3, <1>5, <1>6, <1>7, Pauses

LEMMA BootsNext ==
  ASSUME IInv, NEW r \in Requests, BootNext(r)
  PROVE  IInv'
<1> DEFINE rest == req[r].todo \ {req[r].who}
           pc == IF rest = {} THEN "waiting" ELSE "give"
           job == [req[r] EXCEPT !.pc = pc, !.todo = rest]
<1>1. /\ Active(r) /\ req[r].pc = "join" /\ req[r].left = {} /\ Private /\ pc \in {"waiting", "give"}
      /\ req[r].todo \subseteq Operators
  BY Known DEF BootNext, Active, IsJob
<1>2. rest \in SUBSET Operators /\ rest \in SUBSET Ids /\ rest \subseteq req[r].todo /\ req[r].who \notin rest
  BY <1>1 DEF Ids
<1>3. req' = [req EXCEPT ![r] = job]
  BY DEF BootNext
<1> HIDE DEF pc, rest
<1>4. /\ job \in Job /\ job.pc = pc /\ job.todo = rest /\ job.seenUsers = req[r].seenUsers
      /\ job.seenTowers = req[r].seenTowers /\ job.edits = req[r].edits /\ job.reads = req[r].reads
  BY <1>1, <1>2, InJob, AllSteps, ZenonT(40) DEF Job
<1> HIDE DEF job
<1>5. IsJob(job)
  BY <1>1, <1>2, <1>4, Known DEF IsJob
<1>6. Knows(job, towers, users, orders, met)
  BY <1>1, <1>2, <1>4, Known DEF Knows, KnowsTowers, KnowsUsers, KnowsOrders, Choosing
<1>7. SameScope(req[r], job) /\ GoesOn(req[r], job)
  BY <1>1, <1>4 DEF SameScope, About, GoesOn, Mending, Straying, Clearing
<1> QED
  BY <1>1, <1>3, <1>5, <1>6, <1>7, Pauses

LEMMA BootsOrders ==
  ASSUME IInv, NEW r \in Requests, BootOrders(r)
  PROVE  IInv'
<1> DEFINE todo == {o \in Orders : orders[o].state \in NotYetCollected /\ orders[o].by = NoOne}
           job == [req[r] EXCEPT !.pc = "staff", !.todo = todo, !.seenOrders = orders]
<1>1. Active(r) /\ req[r].pc = "waiting" /\ Private
  BY DEF BootOrders, Active
<1>2. CASE Return(r)
  BY <1>1, <1>2, Ends DEF Mending, Straying, Clearing
<1>3. CASE req' = [req EXCEPT ![r] = job]
  <2>1. /\ todo \in SUBSET Orders /\ todo \in SUBSET Ids
        /\ \A o \in todo : orders[o].state = "scheduled" /\ Real(orders[o])
    BY Types DEF NotYetCollected, Real, Ids
  <2> HIDE DEF todo
  <2>2. /\ job \in Job /\ job.pc = "staff" /\ job.todo = todo /\ job.seenOrders = orders
        /\ job.edits = req[r].edits /\ job.reads = req[r].reads
    BY <2>1, InJob, AllSteps, Types, ZenonT(40) DEF Job
  <2> HIDE DEF job
  <2>3. IsJob(job)
    BY <1>1, <2>1, <2>2, Known DEF IsJob
  <2>4. Knows(job, towers, users, orders, met)
    BY <2>2 DEF Knows, KnowsTowers, KnowsUsers, KnowsOrders, Choosing
  <2>5. SameScope(req[r], job) /\ GoesOn(req[r], job)
    BY <1>1, <2>2 DEF SameScope, About, GoesOn, Mending, Straying, Clearing
  <2> QED
    BY <1>1, <1>3, <2>3, <2>4, <2>5, Pauses
<1> QED
  BY <1>2, <1>3 DEF BootOrders

LEMMA BootsStaff ==
  ASSUME IInv, NEW r \in Requests, BootStaff(r)
  PROVE  IInv'
<1> DEFINE job == [req[r] EXCEPT !.pc = "backfill", !.seenUsers = users, !.seenTowers = towers]
<1>1. Active(r) /\ req[r].pc = "staff" /\ Private /\ req' = [req EXCEPT ![r] = job]
  BY DEF BootStaff, Active
<1>2. /\ job \in Job /\ job.pc = "backfill" /\ job.todo = req[r].todo /\ job.seenUsers = users
      /\ job.seenTowers = towers /\ job.seenOrders = req[r].seenOrders
      /\ job.edits = req[r].edits /\ job.reads = req[r].reads
  BY InJob, AllSteps, Types, ZenonT(40) DEF Job
<1> HIDE DEF job
<1>3. IsJob(job)
  BY <1>1, <1>2, Known DEF IsJob
<1>4. Knows(job, towers, users, orders, met)
  BY <1>1, <1>2, Known DEF Knows, KnowsTowers, KnowsUsers, KnowsOrders, Choosing
<1>5. SameScope(req[r], job) /\ GoesOn(req[r], job)
  BY <1>1, <1>2 DEF SameScope, About, GoesOn, Mending, Straying, Clearing
<1> QED
  BY <1>1, <1>3, <1>4, <1>5, Pauses

\* The replacement is on duty: whose work it is, is handed over.
LEMMA OffTargets ==
  ASSUME IInv, NEW r \in Requests, OffTarget(r)
  PROVE  IInv'
<1>1. /\ Active(r) /\ req[r].pc = "target" /\ Suitable(req[r].to)
      /\ UNCHANGED <<towers, users, orders, byHand, loose, met>>
      /\ unseen' = unseen \ {req[r].who}
  BY DEF OffTarget, Active
<1>2. TypeOK'
  BY <1>1 DEF IInv, Shapes, TypeOK, OffTarget
<1>3. \A x \in Operators \ met, o \in Orders \ met :
        (HeldUp(x, o) => Clearing(req[r], x, o)) /\ HeldUp(x, o)' => x = req[r].who /\ o \in req[r].todo
  BY <1>1, Known DEF HeldUp, Clearing, KnowsOrders
<1>4. CASE req[r].todo = {}
  <2>1. /\ req' = [req EXCEPT ![r] = Idle] /\ SameScope(req[r], Idle) /\ Booked(Idle, orders)
        /\ IsJob(Idle) /\ Knows(Idle, towers, users, orders, met')
    BY <1>4, IdleIsJob, IdleFields, KnowsNothing DEF OffTarget, Return, SameScope, About, Booked
  <2>2. Contested(r, Idle) \subseteq met'
    BY <1>1, <2>1, NothingContested
  <2> QED
    BY <1>1, <1>2, <1>3, <1>4, <2>1, <2>2, Reads DEF Mending, Straying
<1>5. CASE req[r].todo # {}
  <2> DEFINE job == [req[r] EXCEPT !.pc = "hand"]
  <2>1. /\ job \in Job /\ job.pc = "hand" /\ job.who = req[r].who /\ job.to = req[r].to
        /\ job.todo = req[r].todo /\ job.edits = req[r].edits /\ job.reads = req[r].reads
    BY InJob, AllSteps, ZenonT(40) DEF Job
  <2>2. req' = [req EXCEPT ![r] = job]
    BY <1>5 DEF OffTarget, Goto
  <2> HIDE DEF job
  <2>3. IsJob(job) /\ Booked(job, orders) /\ SameScope(req[r], job)
    BY <1>1, <2>1, Known DEF IsJob, Booked, About, SameScope
  <2>4. Knows(job, towers, users, orders, met')
    BY <1>1, <2>1, NoneIsNone DEF Knows, KnowsTowers, KnowsUsers, KnowsOrders, Choosing, Able, GivenUnasked, Suitable
  <2>5. Contested(r, job) \subseteq met'
    BY <1>1, <2>3, NothingContested
  <2>6. \A x \in Operators \ met', o \in Orders \ met' :
          (HeldUp(x, o) => Clearing(req[r], x, o)) /\ HeldUp(x, o)' => Clearing(job, x, o)
    BY <1>1, <1>3, <2>1 DEF Clearing
  <2> QED
    BY <1>1, <1>2, <2>1, <2>2, <2>3, <2>4, <2>5, <2>6, Reads DEF Mending, Straying
<1> QED
  BY <1>4, <1>5

\* The replacement is not: the operator counts as unseen, and his work stays with him.
LEMMA OffIsRefused ==
  ASSUME IInv, NEW r \in Requests, OffRefused(r)
  PROVE  IInv'
<1>1. /\ Active(r) /\ req[r].pc = "target" /\ req[r].who \in Operators
      /\ UNCHANGED <<towers, users, orders, byHand, loose, met>>
      /\ unseen' = unseen \union {req[r].who}
  BY Known DEF OffRefused, Active, IsJob
<1>2. TypeOK'
  BY <1>1 DEF IInv, Shapes, TypeOK, OffRefused
<1>3. /\ req' = [req EXCEPT ![r] = Idle] /\ SameScope(req[r], Idle) /\ Booked(Idle, orders)
      /\ IsJob(Idle) /\ Knows(Idle, towers, users, orders, met')
  BY IdleIsJob, IdleFields, KnowsNothing DEF OffRefused, Return, SameScope, About, Booked
<1>4. Contested(r, Idle) \subseteq met'
  BY <1>1, <1>3, NothingContested
<1>5. \A x \in Operators \ met', o \in Orders \ met' :
        ~((HeldUp(x, o) => Clearing(req[r], x, o)) /\ HeldUp(x, o)')
  BY <1>1 DEF HeldUp, Clearing
<1> QED
  BY <1>1, <1>2, <1>3, <1>4, <1>5, Reads DEF Mending, Straying

\* A request that is lost leaves half done what it was about.
LEMMA Loses ==
  ASSUME IInv, NEW r \in Requests, Lose(r)
  PROVE  IInv'
<1>1. /\ Active(r) /\ met' = met \union About(req[r])
      /\ UNCHANGED <<towers, users, orders, byHand, loose, unseen>>
  BY DEF Lose
<1>2. TypeOK'
  BY <1>1, Known, JobFields, BoundsAreNatural DEF IInv, Shapes, TypeOK, Lose, About, Ids
<1>3. /\ req' = [req EXCEPT ![r] = Idle] /\ SameScope(req[r], Idle) /\ Booked(Idle, orders)
      /\ IsJob(Idle) /\ Knows(Idle, towers, users, orders, met')
  BY IdleIsJob, IdleFields, KnowsNothing DEF Lose, Return, SameScope, About, Booked
<1>4. Contested(r, Idle) \subseteq met'
  BY <1>1, <1>3, NothingContested
<1>5. \A x \in Operators \ met', t \in Towers \ met' : ~Mending(req[r], x, t)
  BY <1>1, Known DEF Mending, IsJob, About, Ids
<1>6. \A o \in Orders \ met', t \in Towers \ met' : ~Straying(req[r], o, t)
  BY <1>1, Known DEF Straying, IsJob, About
<1>7. \A x \in Operators \ met', o \in Orders \ met' : ~Clearing(req[r], x, o)
  BY <1>1, Known DEF Clearing, IsJob, About
<1>8. \A x \in Operators, o \in Orders : HeldUp(x, o)' <=> HeldUp(x, o)
  BY <1>1 DEF HeldUp
<1> QED
  BY <1>1, <1>2, <1>3, <1>4, <1>5, <1>6, <1>7, <1>8, Reads

-----------------------------------------------------------------------------
(* The steps that put an order *)

\* Somebody has still to see to it.
Open(doc) == doc.state \in {"scheduled", "collected"}

\* An order is put: it goes to somebody of its tower, or is put as it was, or by hand; and to
\* nobody who is blocked.
LEMMA PutsOrder ==
  ASSUME IInv, NEW r \in Requests, Active(r), NEW o \in Orders, NEW doc, Real(doc), PutOrder(o, doc),
         UNCHANGED <<towers, users, loose, unseen, met, started, faults>>,
         NEW given, byHand' = given, given \in SUBSET Orders,
         \A p \in Orders \ {o} : p \in given <=> p \in byHand,
         NEW job, IsJob(job), req' = [req EXCEPT ![r] = job], SameScope(req[r], job),
         req[r].pc \in {"reassign", "handed", "place", "relocate", "write", "backfill"},
         o \in req[r].edits \/ (req[r].pc = "place" /\ orders[o].state = "absent"),
         Knows(job, towers, users, orders', met),
         \A p \in Orders \ {o}, t \in Towers : Straying(req[r], p, t) => Straying(job, p, t),
         \A p \in Orders \ {o}, x \in Operators : Clearing(req[r], x, p) => Clearing(job, x, p),
         o \notin met /\ doc.tower \notin met /\ doc.state = "scheduled" /\ o \notin given =>
           doc.by \in towers[doc.tower] \union {NoOne},
         o \notin met /\ doc.by \in Operators /\ Open(doc) =>
           doc.by \in About(req[r]) \/ Holds(doc.by, o, orders),
         o \notin met /\ doc.by \in Operators \ met /\ Open(doc) =>
           \/ users[doc.by].status # "blocked"
           \/ Holds(doc.by, o, orders) /\ ~Clearing(req[r], doc.by, o)
  PROVE  IInv'
<1>1. /\ orders' = [orders EXCEPT ![o] = doc] /\ orders'[o] = doc
      /\ \A p \in Orders \ {o} : orders'[p] = orders[p]
  BY Types DEF PutOrder
<1>2. TypesHold'
  <2>1. orders' \in [Orders -> Order]
    BY <1>1, Types DEF Real
  <2>2. TypeOK'
    BY <2>1 DEF IInv, Shapes, TypeOK
  <2>3. \A p \in Orders : orders'[p].state # "absent" <=> orders'[p].tower \in Towers
    BY <1>1, Types DEF Real
  <2> QED
    BY <2>2, <2>3 DEF TypesHold
<1>3. Contested(r, job) \subseteq met'
  BY NothingContested
<1>4. Booked(job, orders')
  <2>1. \A p \in Orders : orders[p].state # "absent" => orders'[p].state # "absent"
    BY <1>1 DEF Real
  <2> QED
    BY <2>1, Known DEF SameScope, Booked, About
<1>5. Writes(r)
  <2>1. \A p \in Orders \ met', x \in Operators \ About(req[r]) : Holds(x, p, orders') => Holds(x, p, orders)
    <3> SUFFICES ASSUME NEW x \in Operators \ About(req[r]), o \notin met, Holds(x, o, orders')
                 PROVE  Holds(x, o, orders)
      BY <1>1 DEF Holds
    <3>1. doc.by = x /\ Open(doc)
      BY <1>1 DEF Holds, Open
    <3> QED
      BY <3>1
  <2> QED
    BY <1>1, <2>1 DEF Writes, Real
<1>6. SidesStay(r, job)
  BY DEF SidesStay, Agree, Mending
<1>7. FollowsStays(r, job)
  <2> SUFFICES ASSUME NEW p \in Orders \ met, NEW t \in Towers \ met,
                      Waits(p, t) => Placed(p, t) \/ Straying(req[r], p, t), Waits(p, t)'
               PROVE  Placed(p, t)' \/ Straying(job, p, t)
    BY DEF FollowsStays
  <2>1. CASE p = o
    BY <1>1, <2>1 DEF Waits, Placed
  <2>2. CASE p # o
    BY <1>1, <2>2 DEF Waits, Placed
  <2> QED
    BY <2>1, <2>2
<1>8. ClearedStays(r, job)
  <2> SUFFICES ASSUME NEW x \in Operators \ met, NEW p \in Orders \ met,
                      HeldUp(x, p) => Clearing(req[r], x, p), HeldUp(x, p)'
               PROVE  Clearing(job, x, p)
    BY DEF ClearedStays
  <2>1. CASE p = o
    BY <1>1, <2>1 DEF HeldUp, Holds, Open
  <2>2. CASE p # o
    BY <1>1, <2>2 DEF HeldUp, Holds
  <2> QED
    BY <2>1, <2>2
<1> QED
  BY <1>2, <1>3, <1>4, <1>5, <1>6, <1>7, <1>8, Goes

\* One of the things to do is done.
LEMMA Dones ==
  ASSUME IInv, NEW r \in Requests, NEW item \in req[r].todo, Done(r, item),
         req[r].pc \in {"reassign", "member", "backfill"}
  PROVE  \E job : /\ IsJob(job) /\ req' = [req EXCEPT ![r] = job] /\ SameScope(req[r], job)
                  /\ job.todo = req[r].todo \ {item}
                  /\ \/ job.pc = "idle" /\ req[r].todo = {item}
                     \/ /\ job.pc = req[r].pc /\ job.tower = req[r].tower /\ job.who = req[r].who
                        /\ job.to = req[r].to /\ job.wanted = req[r].wanted /\ job.user = req[r].user
                        /\ job.seenTowers = req[r].seenTowers /\ job.seenUsers = req[r].seenUsers
                        /\ job.seenOrders = req[r].seenOrders
<1>1. CASE req[r].todo = {item}
  <2>1. req' = [req EXCEPT ![r] = Idle] /\ Idle.todo = req[r].todo \ {item}
    BY <1>1, IdleFields DEF Done, Return
  <2> QED
    BY <1>1, <2>1, IdleIsJob, IdleFields DEF SameScope, About
<1>2. CASE req[r].todo # {item}
  <2> DEFINE rest == req[r].todo \ {item}
             job == [req[r] EXCEPT !.todo = rest]
  <2>1. req' = [req EXCEPT ![r] = job]
    BY <1>2 DEF Done
  <2>2. rest \in SUBSET Ids /\ rest \subseteq req[r].todo
    BY Known, JobFields
  <2> HIDE DEF rest
  <2>3. /\ job \in Job /\ job.todo = rest /\ job.pc = req[r].pc /\ job.tower = req[r].tower
        /\ job.who = req[r].who /\ job.to = req[r].to /\ job.wanted = req[r].wanted
        /\ job.user = req[r].user /\ job.seenTowers = req[r].seenTowers
        /\ job.seenUsers = req[r].seenUsers /\ job.seenOrders = req[r].seenOrders
        /\ job.edits = req[r].edits /\ job.reads = req[r].reads
    BY <2>2, InJob, ZenonT(40) DEF Job
  <2> HIDE DEF job
  <2>4. IsJob(job)
    BY <2>2, <2>3, Known DEF IsJob
  <2>5. SameScope(req[r], job) /\ job.todo = req[r].todo \ {item}
    BY <2>3 DEF SameScope, rest
  <2> QED
    BY <2>1, <2>3, <2>4, <2>5
<1> QED
  BY <1>1, <1>2

LEMMA Reassigns ==
  ASSUME IInv, NEW r \in Requests, NEW o \in Orders, Reassign(r, o)
  PROVE  IInv'
<1> DEFINE doc == [req[r].seenOrders[o] EXCEPT !.by = req[r].to]
<1>1. /\ Active(r) /\ req[r].pc = "reassign" /\ o \in req[r].todo /\ PutOrder(o, doc)
      /\ UNCHANGED <<towers, users, loose, unseen, met, started, faults, byHand>> /\ byHand \in SUBSET Orders
  BY DEF Reassign, Active, history, IInv, Shapes, TypeOK
<1>2. /\ o \in req[r].edits /\ Real(req[r].seenOrders[o]) /\ req[r].seenOrders[o].state = "scheduled"
      /\ req[r].seenOrders[o].tower = req[r].tower /\ req[r].to \in req[r].wanted \union {NoOne}
      /\ req[r].wanted \subseteq req[r].reads /\ req[r].to \in Operators \union {NoOne}
  BY <1>1, Known, JobFields DEF IsJob
<1>3. /\ Real(doc) /\ doc.state = "scheduled" /\ doc.tower = req[r].tower /\ doc.by = req[r].to
  BY <1>2 DEF Real, Order
<1> HIDE DEF doc
<1>4. /\ req[r].tower \notin met => towers[req[r].tower] = req[r].wanted
      /\ req[r].to \in Operators \ met => users[req[r].to].status # "blocked"
      /\ \A p \in req[r].todo \ met : req[r].seenOrders[p] = orders[p]
  BY <1>1, Known DEF KnowsTowers, KnowsUsers, KnowsOrders, Choosing, Able, GivenUnasked
<1>5. PICK job : /\ IsJob(job) /\ req' = [req EXCEPT ![r] = job] /\ SameScope(req[r], job)
                 /\ job.todo = req[r].todo \ {o}
                 /\ \/ job.pc = "idle" /\ req[r].todo = {o}
                    \/ /\ job.pc = req[r].pc /\ job.tower = req[r].tower /\ job.to = req[r].to
                       /\ job.wanted = req[r].wanted /\ job.seenOrders = req[r].seenOrders
  BY <1>1, Dones DEF Reassign
<1>6. \A p \in Orders \ {o} : orders'[p] = orders[p]
  BY <1>1, Types DEF PutOrder
<1>7. Knows(job, towers, users, orders', met)
  <2>1. req[r].todo \subseteq Orders
    BY <1>1, Known DEF IsJob
  <2> QED
    BY <1>1, <1>4, <1>5, <1>6, <2>1 DEF Knows, KnowsTowers, KnowsUsers, KnowsOrders, Choosing, Able, GivenUnasked
<1>8. \A p \in Orders \ {o}, t \in Towers : Straying(req[r], p, t) => Straying(job, p, t)
  BY <1>1, <1>5 DEF Straying
<1>9. \A p \in Orders \ {o}, x \in Operators : Clearing(req[r], x, p) => Clearing(job, x, p)
  BY <1>1 DEF Clearing
<1>10. doc.by \in Operators => doc.by \in About(req[r])
  BY <1>2, <1>3, NoneIsNone DEF About
<1> QED
  BY <1>1, <1>2, <1>3, <1>4, <1>5, <1>7, <1>8, <1>9, <1>10, PutsOrder

\* What the boot knows when it gives orders out.
LEMMA BootKnows ==
  ASSUME IInv, NEW r \in Requests, req[r].pc = "backfill"
  PROVE  /\ req[r].edits = Ids /\ About(req[r]) = Ids /\ req[r].todo \subseteq Orders
         /\ \A o \in req[r].todo :
              Real(req[r].seenOrders[o]) /\ req[r].seenOrders[o].state = "scheduled"
         /\ \A o \in req[r].todo \ met : req[r].seenOrders[o] = orders[o]
         /\ req[r].seenTowers \in [Towers -> SUBSET Operators]
         /\ \A t \in Towers \ met : req[r].seenTowers[t] = towers[t]
         /\ \A x \in Operators \ met : req[r].seenUsers[x] = users[x]
<1>1. /\ IsJob(req[r]) /\ KnowsTowers(req[r], towers, met) /\ KnowsUsers(req[r], users, met)
      /\ KnowsOrders(req[r], orders, met)
  BY Known
<1>2. /\ req[r].edits = Ids /\ req[r].todo \subseteq Orders
      /\ \A o \in req[r].todo : Real(req[r].seenOrders[o]) /\ req[r].seenOrders[o].state = "scheduled"
  BY <1>1 DEF IsJob, Ids
<1>3. req[r].seenTowers \in [Towers -> SUBSET Operators] /\ req[r].reads \subseteq Ids
  BY <1>1, JobFields
<1>4. \A t \in Towers \ met : req[r].seenTowers[t] = towers[t]
  BY <1>1 DEF KnowsTowers
<1>5. \A x \in Operators \ met : req[r].seenUsers[x] = users[x]
  BY <1>1 DEF KnowsUsers
<1>6. \A o \in req[r].todo \ met : req[r].seenOrders[o] = orders[o]
  BY <1>1 DEF KnowsOrders
<1> QED
  BY <1>2, <1>3, <1>4, <1>5, <1>6 DEF About

LEMMA Backfills ==
  ASSUME IInv, NEW r \in Requests, NEW o \in Orders, Backfill(r, o)
  PROVE  IInv'
<1> PICK x \in ForBlock(req[r].seenTowers[req[r].seenOrders[o].tower], req[r].seenUsers) :
           PutOrder(o, [req[r].seenOrders[o] EXCEPT !.by = x])
  BY DEF Backfill
<1> DEFINE doc == [req[r].seenOrders[o] EXCEPT !.by = x]
           t == req[r].seenOrders[o].tower
<1>1. /\ Active(r) /\ req[r].pc = "backfill" /\ o \in req[r].todo /\ PutOrder(o, doc)
      /\ UNCHANGED <<towers, users, loose, unseen, met, started, faults, byHand>> /\ byHand \in SUBSET Orders
  BY DEF Backfill, Active, history, IInv, Shapes, TypeOK
<1>2. /\ o \in req[r].edits /\ About(req[r]) = Ids
      /\ Real(req[r].seenOrders[o]) /\ req[r].seenOrders[o].state = "scheduled" /\ t \in Towers
      /\ req[r].seenTowers \in [Towers -> SUBSET Operators]
  BY <1>1, BootKnows DEF Ids, Real
<1>3. x = NoOne \/ (x \in req[r].seenTowers[t] /\ req[r].seenUsers[x].status # "blocked")
  BY ForBlockIsAble
<1>4. x \in Operators \union {NoOne}
  BY <1>2, <1>3
<1>5. /\ Real(doc) /\ doc.state = "scheduled" /\ doc.tower = t /\ doc.by = x
  BY <1>2, <1>4 DEF Real, Order
<1>6. /\ t \notin met => towers[t] = req[r].seenTowers[t]
      /\ x \in Operators \ met => users[x] = req[r].seenUsers[x]
  BY <1>1, <1>2, BootKnows
<1> HIDE DEF doc, t
<1>7. PICK job : /\ IsJob(job) /\ req' = [req EXCEPT ![r] = job] /\ SameScope(req[r], job)
                 /\ job.todo = req[r].todo \ {o}
                 /\ \/ job.pc = "idle" /\ req[r].todo = {o}
                    \/ /\ job.pc = req[r].pc /\ job.seenTowers = req[r].seenTowers
                       /\ job.seenUsers = req[r].seenUsers /\ job.seenOrders = req[r].seenOrders
  BY <1>1, Dones DEF Backfill
<1>8. \A p \in Orders \ {o} : orders'[p] = orders[p]
  BY <1>1, Types DEF PutOrder
<1>9. Knows(job, towers, users, orders', met)
  <2>1. CASE job.pc = "idle"
    BY <2>1 DEF Knows, KnowsTowers, KnowsUsers, KnowsOrders, Choosing
  <2>2. CASE job.pc = "backfill"
    <3>1. /\ \A p \in Towers \ met : job.seenTowers[p] = towers[p]
          /\ \A y \in Operators \ met : job.seenUsers[y] = users[y]
          /\ \A p \in job.todo \ met : job.seenOrders[p] = orders'[p]
      BY <1>1, <1>7, <1>8, <2>2, BootKnows
    <3> QED
      BY <2>2, <3>1 DEF Knows, KnowsTowers, KnowsUsers, KnowsOrders, Choosing
  <2> QED
    BY <1>1, <1>7, <2>1, <2>2
<1>10. \A p \in Orders \ {o}, u \in Towers : ~Straying(req[r], p, u)
  BY <1>1 DEF Straying
<1>11. \A p \in Orders \ {o}, y \in Operators : ~Clearing(req[r], y, p)
  BY <1>1 DEF Clearing
<1>12. doc.by \in Operators => doc.by \in About(req[r])
  BY <1>2, <1>5 DEF Ids
<1>13. doc.tower \notin met => doc.by \in towers[doc.tower] \union {NoOne}
  BY <1>3, <1>5, <1>6
<1>14. doc.by \in Operators \ met => users[doc.by].status # "blocked"
  BY <1>3, <1>5, <1>6, NoneIsNone
<1> QED
  BY <1>1, <1>2, <1>5, <1>7, <1>9, <1>10, <1>11, <1>12, <1>13, <1>14, PutsOrder

\* A request that puts the one order it is on, and ends.
LEMMA PutsLast ==
  ASSUME IInv, NEW r \in Requests, Active(r), NEW o \in Orders, NEW doc, Real(doc), PutOrder(o, doc), Return(r),
         UNCHANGED <<towers, users, loose, unseen, met, started, faults>>,
         NEW given, byHand' = given, given \in SUBSET Orders,
         \A p \in Orders \ {o} : p \in given <=> p \in byHand,
         req[r].pc \in {"place", "relocate", "write"} \/ (req[r].pc = "handed" /\ req[r].todo = {o}),
         o \in req[r].edits \/ (req[r].pc = "place" /\ orders[o].state = "absent"),
         o \notin met /\ doc.tower \notin met /\ doc.state = "scheduled" /\ o \notin given =>
           doc.by \in towers[doc.tower] \union {NoOne},
         o \notin met /\ doc.by \in Operators /\ Open(doc) =>
           doc.by \in About(req[r]) \/ Holds(doc.by, o, orders),
         o \notin met /\ doc.by \in Operators \ met /\ Open(doc) =>
           \/ users[doc.by].status # "blocked"
           \/ Holds(doc.by, o, orders) /\ ~Clearing(req[r], doc.by, o)
  PROVE  IInv'
<1>1. /\ IsJob(Idle) /\ req' = [req EXCEPT ![r] = Idle] /\ SameScope(req[r], Idle)
      /\ Knows(Idle, towers, users, orders', met)
  BY IdleIsJob, IdleFields, KnowsNothing DEF Return, SameScope, About
<1>2. \A p \in Orders \ {o}, t \in Towers : ~Straying(req[r], p, t)
  BY DEF Straying
<1>3. \A p \in Orders \ {o}, x \in Operators : ~Clearing(req[r], x, p)
  BY DEF Clearing
<1>4. req[r].pc \in {"reassign", "handed", "place", "relocate", "write", "backfill"}
  OBVIOUS
<1> QED
  BY <1>1, <1>2, <1>3, <1>4, PutsOrder

LEMMA Places ==
  ASSUME IInv, NEW r \in Requests, NEW o \in Orders, Place(r, o)
  PROVE  IInv'
<1> DEFINE doc == [state |-> "scheduled", tower |-> req[r].tower, by |-> req[r].to]
<1>1. /\ Active(r) /\ req[r].pc = "place" /\ orders[o].state = "absent" /\ PutOrder(o, doc) /\ Return(r)
      /\ UNCHANGED <<towers, users, loose, unseen, met, started, faults, byHand>> /\ byHand \in SUBSET Orders
  BY DEF Place, Active, history, IInv, Shapes, TypeOK
<1>2. /\ req[r].tower \in Towers /\ req[r].to \in req[r].wanted \union {NoOne}
      /\ req[r].to \in Operators \union {NoOne} /\ req[r].wanted \subseteq req[r].reads
      /\ req[r].tower \notin met => towers[req[r].tower] = req[r].wanted
      /\ req[r].to \in Operators \ met => users[req[r].to].status # "blocked"
  BY <1>1, Known, JobFields DEF IsJob, KnowsTowers, KnowsUsers, Choosing, Able, GivenUnasked
<1>3. Real(doc) /\ doc.state = "scheduled" /\ doc.tower = req[r].tower /\ doc.by = req[r].to
  BY <1>2 DEF Real, Order
<1> HIDE DEF doc
<1>4. doc.by \in Operators => doc.by \in About(req[r])
  BY <1>2, <1>3, NoneIsNone DEF About
<1> QED
  BY <1>1, <1>2, <1>3, <1>4, PutsLast

LEMMA RelocatesPut ==
  ASSUME IInv, NEW r \in Requests, NEW o \in Orders, RelocatePut(r, o)
  PROVE  IInv'
<1> DEFINE doc == req[r].doc
<1>1. /\ Active(r) /\ req[r].pc = "relocate" /\ o \in req[r].todo /\ PutOrder(o, doc) /\ Return(r)
      /\ UNCHANGED <<towers, users, loose, unseen, met, started, faults>>
      /\ byHand' = byHand \ {o} /\ byHand \ {o} \in SUBSET Orders
  BY DEF RelocatePut, Active, IInv, Shapes, TypeOK
<1>2. /\ req[r].to \in req[r].wanted \union {NoOne} /\ o \in req[r].edits
      /\ req[r].to \in Operators \union {NoOne} /\ req[r].wanted \subseteq req[r].reads
      /\ req[r].tower \notin met => towers[req[r].tower] = req[r].wanted
      /\ req[r].to \in Operators \ met => users[req[r].to].status # "blocked"
      /\ Real(doc) /\ doc.tower = req[r].tower /\ doc.by = req[r].to
  BY <1>1, Known, JobFields DEF IsJob, KnowsTowers, KnowsUsers, Choosing, Able, GivenUnasked
<1> HIDE DEF doc
<1>3. doc.by \in Operators => doc.by \in About(req[r])
  BY <1>2, NoneIsNone DEF About
<1> QED
  BY <1>1, <1>2, <1>3, PutsLast

LEMMA WritesOrder ==
  ASSUME IInv, NEW r \in Requests, NEW o \in Orders, Write(r, o)
  PROVE  IInv'
<1> DEFINE doc == req[r].doc
<1>1. /\ Active(r) /\ req[r].pc = "write" /\ o \in req[r].todo /\ PutOrder(o, doc) /\ Return(r)
      /\ UNCHANGED <<towers, users, loose, unseen, met, started, faults, byHand>> /\ byHand \in SUBSET Orders
  BY DEF Write, Active, history, IInv, Shapes, TypeOK
<1>2. /\ o \in req[r].edits /\ Real(doc) /\ doc.state \in {"collected", "closed"}
      /\ req[r].to \in req[r].reads \union {NoOne}
      /\ req[r].to \in Operators \ met => users[req[r].to].status # "blocked"
      /\ o \notin met => /\ doc.state = "collected" => orders[o].state = "scheduled"
                         /\ doc.by = orders[o].by \/ (doc.state = "collected" /\ doc.by = req[r].to)
  BY <1>1, Known DEF IsJob, KnowsUsers, KnowsOrders, Choosing, Able, GivenUnasked
<1> HIDE DEF doc
<1>3. ~Clearing(req[r], doc.by, o)
  BY <1>1 DEF Clearing
<1>4. o \notin met /\ Open(doc) =>
        doc.by = req[r].to \/ Holds(doc.by, o, orders)
  BY <1>2 DEF Open, Holds
<1>5. o \notin met /\ doc.by \in Operators /\ Open(doc) => doc.by \in About(req[r]) \/ Holds(doc.by, o, orders)
  BY <1>2, <1>4, NoneIsNone DEF About
<1>6. doc.state # "scheduled"
  BY <1>2
<1>7. o \notin met /\ doc.by \in Operators \ met /\ Open(doc) =>
           \/ users[doc.by].status # "blocked"
           \/ Holds(doc.by, o, orders) /\ ~Clearing(req[r], doc.by, o)
  BY <1>2, <1>3, <1>4
<1> QED
  BY <1>1, <1>2, <1>5, <1>6, <1>7, PutsLast

LEMMA HandsPut ==
  ASSUME IInv, NEW r \in Requests, NEW o \in Orders, HandPut(r, o)
  PROVE  IInv'
<1> DEFINE doc == req[r].doc
<1>1. /\ Active(r) /\ req[r].pc = "handed" /\ o \in req[r].left /\ PutOrder(o, doc)
      /\ UNCHANGED <<towers, users, loose, unseen, met, started, faults>>
      /\ byHand' = byHand \union {o} /\ byHand \union {o} \in SUBSET Orders
  BY DEF HandPut, Active, IInv, Shapes, TypeOK
<1>2. /\ o \in req[r].todo /\ req[r].left = {o} /\ o \in req[r].edits /\ Real(doc) /\ doc.by = req[r].to
      /\ req[r].to \in req[r].reads \union {NoOne} /\ req[r].todo \subseteq Orders
      /\ \/ req[r].to \in Operators \ met => users[req[r].to].status # "blocked"
         \/ req[r].todo \subseteq met
  BY <1>1, Known DEF IsJob, KnowsUsers, Choosing, Able, GivenUnasked
<1>3. doc.by \in Operators => doc.by \in About(req[r])
  BY <1>2, NoneIsNone DEF About
<1>4. CASE req[r].todo = {o}
  <2>1. Return(r)
    BY <1>4 DEF HandPut
  <2> HIDE DEF doc
  <2> QED
    BY <1>1, <1>2, <1>3, <1>4, <2>1, PutsLast
<1>5. CASE req[r].todo # {o}
  <2> DEFINE rest == req[r].todo \ {o}
             job == [req[r] EXCEPT !.pc = "hand", !.todo = rest]
  <2>1. req' = [req EXCEPT ![r] = job]
    BY <1>5 DEF HandPut
  <2>2. rest \in SUBSET Ids /\ rest \subseteq req[r].todo
    BY Known, JobFields
  <2> HIDE DEF rest
  <2>3. /\ job \in Job /\ job.pc = "hand" /\ job.who = req[r].who /\ job.to = req[r].to
        /\ job.todo = rest /\ job.edits = req[r].edits /\ job.reads = req[r].reads
    BY <2>2, InJob, AllSteps, ZenonT(40) DEF Job
  <2> HIDE DEF job
  <2>4. IsJob(job)
    BY <1>1, <2>2, <2>3, Known DEF IsJob
  <2>5. Knows(job, towers, users, orders', met)
    BY <1>1, <1>2, <2>2, <2>3 DEF Knows, KnowsTowers, KnowsUsers, KnowsOrders, Choosing, Able, GivenUnasked
  <2>6. SameScope(req[r], job)
    BY <1>1, <2>3 DEF SameScope
  <2>7. \A p \in Orders \ {o}, t \in Towers : Straying(req[r], p, t) => Straying(job, p, t)
    BY <1>1 DEF Straying
  <2>9. /\ \A p \in Orders \ {o} : p \in byHand \union {o} <=> p \in byHand
        /\ req[r].pc \in {"reassign", "handed", "place", "relocate", "write", "backfill"}
        /\ o \notin byHand \union {o} => doc.by \in towers[doc.tower] \union {NoOne}
    BY <1>1
  <2>8. \A p \in Orders \ {o}, x \in Operators : Clearing(req[r], x, p) => Clearing(job, x, p)
    BY <1>1, <2>3 DEF Clearing, rest
  <2> HIDE DEF doc
  <2> QED
    BY <1>1, <1>2, <1>3, <2>1, <2>4, <2>5, <2>6, <2>7, <2>8, <2>9, PutsOrder
<1> QED
  BY <1>4, <1>5

-----------------------------------------------------------------------------
(* The steps that put an account *)

\* An account is put: what it says of towers agrees with them, or is still to be mended.
LEMMA PutsUser ==
  ASSUME IInv, NEW r \in Requests, Active(r), NEW x \in Operators \intersect req[r].edits, NEW u \in User,
         users' = [users EXCEPT ![x] = u],
         UNCHANGED <<towers, orders, byHand, loose, met, started, faults>>, unseen' \in SUBSET Operators,
         NEW job, IsJob(job), req' = [req EXCEPT ![r] = job], SameScope(req[r], job),
         Knows(job, towers, users', orders, met),
         x \notin met => \A t \in Towers \ met :
           Agree(x, t) \/ Mending(req[r], x, t) => (x \in towers[t] <=> t \in u.towers) \/ Mending(job, x, t),
         \A y \in Operators \ {x}, t \in Towers : Mending(req[r], y, t) => Mending(job, y, t),
         \A o \in Orders, t \in Towers : Straying(req[r], o, t) => Straying(job, o, t),
         ClearedStays(r, job)
  PROVE  IInv'
<1>1. users' \in [Operators -> User] /\ users'[x] = u /\ \A y \in Operators \ {x} : users'[y] = users[y]
  BY Types
<1>2. TypesHold'
  <2>1. TypeOK'
    BY <1>1 DEF IInv, Shapes, TypeOK
  <2> QED
    BY <2>1, Types DEF TypesHold
<1>3. Contested(r, job) \subseteq met'
  BY NothingContested
<1>4. Booked(job, orders')
  BY Known DEF SameScope, Booked, About
<1>5. Writes(r)
  BY <1>1 DEF Writes
<1>6. SidesStay(r, job)
  <2> SUFFICES ASSUME NEW y \in Operators \ met, NEW t \in Towers \ met, Agree(y, t) \/ Mending(req[r], y, t)
               PROVE  Agree(y, t)' \/ Mending(job, y, t)
    BY DEF SidesStay
  <2>1. CASE y = x
    BY <1>1, <2>1 DEF Agree
  <2>2. CASE y # x
    BY <1>1, <2>2 DEF Agree
  <2> QED
    BY <2>1, <2>2
<1>7. FollowsStays(r, job)
  BY DEF FollowsStays, Waits, Placed
<1> QED
  BY <1>2, <1>3, <1>4, <1>5, <1>6, <1>7, Goes

\* The status of an account is kept when nobody else was at it: what is held up stays so.
LEMMA StatusKept ==
  ASSUME IInv, NEW r \in Requests, NEW x \in Operators, NEW u \in User, users' = [users EXCEPT ![x] = u],
         UNCHANGED <<orders, unseen, met>>, x \notin met => u.status = users[x].status, NEW job,
         \A y \in Operators, o \in Orders : Clearing(req[r], y, o) => Clearing(job, y, o)
  PROVE  ClearedStays(r, job)
<1>1. users'[x] = u /\ \A y \in Operators \ {x} : users'[y] = users[y]
  BY Types
<1>2. \A y \in Operators \ met, o \in Orders : HeldUp(y, o)' => HeldUp(y, o)
  BY <1>1 DEF HeldUp
<1> QED
  BY <1>2 DEF ClearedStays

LEMMA TouchesPut ==
  ASSUME IInv, NEW r \in Requests, TouchPut(r)
  PROVE  IInv'
<1> DEFINE rest == req[r].todo \ {req[r].who}
           pc == IF rest = {} THEN "cover" ELSE "touch"
           job == [req[r] EXCEPT !.pc = pc, !.todo = rest]
           x == req[r].who
           u == req[r].user
<1>1. /\ Active(r) /\ req[r].pc = "touched" /\ users' = [users EXCEPT ![x] = u] /\ u \in User
      /\ UNCHANGED <<towers, orders, byHand, loose, met, started, faults, unseen>>
      /\ unseen' \in SUBSET Operators /\ req' = [req EXCEPT ![r] = job]
      /\ pc = "touch" \/ (pc = "cover" /\ rest = {})
  BY Known, JobFields DEF TouchPut, Active, history, IInv, Shapes, TypeOK
<1>2. /\ x \in Operators /\ x \in req[r].edits /\ x \in req[r].todo /\ req[r].tower \in Towers
      /\ req[r].tower \notin met => towers[req[r].tower] = req[r].wanted
      /\ req[r].tower \in u.towers <=> x \in req[r].wanted
      /\ x \notin met => /\ u.status = users[x].status
                         /\ \A t \in Towers \ {req[r].tower} : t \in u.towers <=> t \in users[x].towers
  BY <1>1, Known DEF IsJob, KnowsTowers, KnowsUsers
<1>3. rest \in SUBSET Ids /\ rest \subseteq req[r].todo /\ \A y \in Operators : y \in rest <=> y \in req[r].todo /\ y # x
  BY Known, JobFields
<1> HIDE DEF pc, rest
<1>4. /\ job \in Job /\ job.pc = pc /\ job.todo = rest /\ job.tower = req[r].tower
      /\ job.wanted = req[r].wanted /\ job.edits = req[r].edits /\ job.reads = req[r].reads
  BY <1>1, <1>3, InJob, AllSteps, ZenonT(40) DEF Job
<1> HIDE DEF job, x, u
<1>5. IsJob(job)
  BY <1>1, <1>3, <1>4, Known DEF IsJob
<1>6. Knows(job, towers, users', orders, met)
  BY <1>1, <1>2, <1>4 DEF Knows, KnowsTowers, KnowsUsers, KnowsOrders, Choosing
<1>7. SameScope(req[r], job)
  BY <1>1, <1>4 DEF SameScope
<1>8. x \notin met => \A t \in Towers \ met :
        Agree(x, t) \/ Mending(req[r], x, t) => (x \in towers[t] <=> t \in u.towers) \/ Mending(job, x, t)
  <2> SUFFICES ASSUME x \notin met, NEW t \in Towers \ met, Agree(x, t) \/ Mending(req[r], x, t)
               PROVE  x \in towers[t] <=> t \in u.towers
    OBVIOUS
  <2>1. CASE t = req[r].tower
    BY <1>2, <2>1
  <2>2. CASE t # req[r].tower
    BY <1>1, <1>2, <2>2 DEF Agree, Mending
  <2> QED
    BY <2>1, <2>2
<1>9. \A y \in Operators \ {x}, t \in Towers : Mending(req[r], y, t) => Mending(job, y, t)
  BY <1>1, <1>3, <1>4 DEF Mending
<1>10. \A o \in Orders, t \in Towers : Straying(req[r], o, t) => Straying(job, o, t)
  BY <1>1, <1>4 DEF Straying
<1>11. ClearedStays(r, job)
  <2>1. \A y \in Operators, o \in Orders : ~Clearing(req[r], y, o)
    BY <1>1 DEF Clearing
  <2> QED
    BY <1>1, <1>2, <2>1, StatusKept
<1> QED
  BY <1>1, <1>2, <1>5, <1>6, <1>7, <1>8, <1>9, <1>10, <1>11, PutsUser

LEMMA PatchesPut ==
  ASSUME IInv, NEW r \in Requests, PatchPut(r)
  PROVE  IInv'
<1> DEFINE job == [req[r] EXCEPT !.pc = "towers"]
           x == req[r].who
           u == req[r].user
<1>1. /\ Active(r) /\ req[r].pc = "update" /\ users' = [users EXCEPT ![x] = u] /\ u \in User
      /\ UNCHANGED <<towers, orders, byHand, loose, met, started, faults, unseen>>
      /\ unseen' \in SUBSET Operators /\ req' = [req EXCEPT ![r] = job]
  BY Known, JobFields DEF PatchPut, Goto, Active, history, IInv, Shapes, TypeOK
<1>2. /\ x \in Operators /\ x \in req[r].edits
      /\ x \notin met => /\ u.status = users[x].status
                         /\ \A t \in Towers \ (met \union req[r].edits) : t \in u.towers <=> x \in towers[t]
  BY <1>1, Known DEF IsJob, KnowsTowers, KnowsUsers
<1>3. /\ job \in Job /\ job.pc = "towers" /\ job.who = x /\ job.user = u
      /\ job.edits = req[r].edits /\ job.reads = req[r].reads
  BY InJob, AllSteps, ZenonT(40) DEF Job
<1> HIDE DEF job, x, u
<1>4. IsJob(job)
  BY <1>1, <1>2, <1>3 DEF IsJob
<1>5. users'[x] = u
  BY <1>1, <1>2, Types
<1>6. Knows(job, towers, users', orders, met)
  BY <1>3, <1>5 DEF Knows, KnowsTowers, KnowsUsers, KnowsOrders, Choosing
<1>7. SameScope(req[r], job)
  BY <1>1, <1>3 DEF SameScope
<1>8. x \notin met => \A t \in Towers \ met : (x \in towers[t] <=> t \in u.towers) \/ Mending(job, x, t)
  BY <1>2, <1>3 DEF Mending
<1>9. /\ \A y \in Operators, t \in Towers : ~Mending(req[r], y, t)
      /\ \A o \in Orders, t \in Towers : ~Straying(req[r], o, t)
      /\ \A y \in Operators, o \in Orders : ~Clearing(req[r], y, o)
  BY <1>1 DEF Mending, Straying, Clearing
<1>10. ClearedStays(r, job)
  BY <1>1, <1>2, <1>9, StatusKept
<1> QED
  BY <1>1, <1>2, <1>4, <1>6, <1>7, <1>8, <1>9, <1>10, PutsUser

LEMMA OffsPut ==
  ASSUME IInv, NEW r \in Requests, OffPut(r)
  PROVE  IInv'
<1> DEFINE x == req[r].who
           u == req[r].user
<1>1. /\ Active(r) /\ req[r].pc = "status" /\ users' = [users EXCEPT ![x] = u] /\ u \in User
      /\ UNCHANGED <<towers, orders, byHand, loose, met, started, faults, unseen>>
      /\ unseen' \in SUBSET Operators
  BY Known, JobFields DEF OffPut, Active, history, IInv, Shapes, TypeOK
<1>2. /\ x \in Operators /\ x \in req[r].edits
      /\ x \notin met => u.towers = users[x].towers
  BY <1>1, Known DEF IsJob, KnowsUsers
<1>3. users'[x] = u /\ \A y \in Operators \ {x} : users'[y] = users[y]
  BY <1>1, <1>2, Types
<1>4. /\ \A y \in Operators, t \in Towers : ~Mending(req[r], y, t)
      /\ \A o \in Orders, t \in Towers : ~Straying(req[r], o, t)
      /\ \A y \in Operators, o \in Orders : ~Clearing(req[r], y, o)
  BY <1>1 DEF Mending, Straying, Clearing
<1>5. x \notin met => \A t \in Towers : Agree(x, t) => (x \in towers[t] <=> t \in u.towers)
  BY <1>2 DEF Agree
<1>6. \A y \in Operators \ {x}, o \in Orders : HeldUp(y, o)' => HeldUp(y, o)
  BY <1>1, <1>3 DEF HeldUp
<1> HIDE DEF x, u
<1>7. CASE u.status = "active"
  <2>1. /\ IsJob(Idle) /\ req' = [req EXCEPT ![r] = Idle] /\ SameScope(req[r], Idle)
        /\ Knows(Idle, towers, users', orders, met)
    <3>1. Return(r)
      BY <1>7 DEF OffPut, u
    <3> QED
      BY <3>1, IdleIsJob, IdleFields, KnowsNothing DEF Return, SameScope, About
  <2>2. \A y \in Operators, o \in Orders : y = x => ~HeldUp(y, o)'
    BY <1>3, <1>7 DEF HeldUp
  <2>3. ClearedStays(r, Idle)
    BY <1>1, <1>4, <1>6, <2>2 DEF ClearedStays
  <2> QED
    BY <1>1, <1>2, <1>4, <1>5, <2>1, <2>3, PutsUser
<1>8. CASE u.status # "active"
  <2> DEFINE job == [req[r] EXCEPT !.pc = "open"]
  <2>1. /\ job \in Job /\ job.pc = "open" /\ job.who = x /\ job.to = req[r].to
        /\ job.edits = req[r].edits /\ job.reads = req[r].reads
    BY InJob, AllSteps, ZenonT(40) DEF Job, x
  <2>2. req' = [req EXCEPT ![r] = job]
    BY <1>8 DEF OffPut, Goto, u
  <2> HIDE DEF job
  <2>3. IsJob(job)
    BY <1>1, <1>2, <2>1, Known DEF IsJob
  <2>4. Knows(job, towers, users', orders, met)
    BY <2>1 DEF Knows, KnowsTowers, KnowsUsers, KnowsOrders, Choosing
  <2>5. SameScope(req[r], job)
    BY <1>1, <2>1 DEF SameScope
  <2>6. ClearedStays(r, job)
    BY <1>1, <1>4, <1>6, <2>1 DEF ClearedStays, Clearing
  <2> QED
    BY <1>1, <1>2, <1>4, <1>5, <2>2, <2>3, <2>4, <2>5, <2>6, PutsUser
<1> QED
  BY <1>7, <1>8

LEMMA StatusesPut ==
  ASSUME IInv, NEW r \in Requests, StatusPut(r)
  PROVE  IInv'
<1> DEFINE x == req[r].who
           u == req[r].user
<1>1. /\ Active(r) /\ req[r].pc = "set" /\ users' = [users EXCEPT ![x] = u] /\ u \in User
      /\ UNCHANGED <<towers, orders, byHand, loose, met, started, faults>>
      /\ unseen \in SUBSET Operators /\ Return(r)
      /\ unseen' = IF u.status = "active" THEN unseen ELSE unseen \union {x}
  BY Known, JobFields DEF StatusPut, Active, IInv, Shapes, TypeOK
<1>2. /\ x \in Operators /\ x \in req[r].edits
      /\ x \notin met => u.towers = users[x].towers
  BY <1>1, Known DEF IsJob, KnowsUsers
<1>3. users'[x] = u /\ (\A y \in Operators \ {x} : users'[y] = users[y]) /\ unseen' \in SUBSET Operators
  BY <1>1, <1>2, Types
<1>4. /\ \A y \in Operators, t \in Towers : ~Mending(req[r], y, t)
      /\ \A o \in Orders, t \in Towers : ~Straying(req[r], o, t)
      /\ \A y \in Operators, o \in Orders : ~Clearing(req[r], y, o)
  BY <1>1 DEF Mending, Straying, Clearing
<1>5. x \notin met => \A t \in Towers : Agree(x, t) => (x \in towers[t] <=> t \in u.towers)
  BY <1>2 DEF Agree
<1>6. \A y \in Operators, o \in Orders : HeldUp(y, o)' => HeldUp(y, o)
  BY <1>1, <1>3 DEF HeldUp
<1>7. /\ IsJob(Idle) /\ req' = [req EXCEPT ![r] = Idle] /\ SameScope(req[r], Idle)
      /\ Knows(Idle, towers, users', orders, met)
  BY <1>1, IdleIsJob, IdleFields, KnowsNothing DEF Return, SameScope, About
<1>8. ClearedStays(r, Idle)
  BY <1>1, <1>4, <1>6 DEF ClearedStays
<1> HIDE DEF x, u
<1> QED
  BY <1>1, <1>2, <1>3, <1>4, <1>5, <1>7, <1>8, PutsUser

LEMMA BootsUser ==
  ASSUME IInv, NEW r \in Requests, NEW x \in Operators, BootUser(r, x)
  PROVE  IInv'
<1> DEFINE u == [req[r].seenUsers[x] EXCEPT !.towers = Towers]
           left == {t \in Towers : x \notin req[r].seenTowers[t]}
           job == [req[r] EXCEPT !.pc = "join", !.who = x, !.left = left]
<1>1. /\ Active(r) /\ req[r].pc = "give" /\ x \in req[r].todo /\ users' = [users EXCEPT ![x] = u]
      /\ UNCHANGED <<towers, orders, byHand, loose, met, started, faults, unseen>>
      /\ unseen' \in SUBSET Operators /\ req' = [req EXCEPT ![r] = job]
  BY DEF BootUser, Active, history, IInv, Shapes, TypeOK
<1>2. /\ x \in req[r].edits /\ req[r].seenUsers[x] \in User
      /\ x \notin met => req[r].seenUsers[x] = users[x]
      /\ \A t \in Towers \ met : req[r].seenTowers[t] = towers[t]
  BY <1>1, Known, JobFields DEF IsJob, KnowsTowers, KnowsUsers, Ids
<1>3. u \in User /\ u.towers = Towers /\ u.status = req[r].seenUsers[x].status
  BY <1>2 DEF User
<1>4. left \in SUBSET Towers /\ left \in SUBSET Ids /\ \A t \in Towers : t \in left <=> x \notin req[r].seenTowers[t]
  BY DEF Ids
<1> HIDE DEF u, left
<1>5. /\ job \in Job /\ job.pc = "join" /\ job.who = x /\ job.left = left /\ job.todo = req[r].todo
      /\ job.seenTowers = req[r].seenTowers /\ job.seenUsers = req[r].seenUsers
      /\ job.edits = req[r].edits /\ job.reads = req[r].reads
  BY <1>4, InJob, AllSteps, ZenonT(40) DEF Job
<1> HIDE DEF job
<1>6. IsJob(job)
  BY <1>1, <1>4, <1>5, Known DEF IsJob
<1>7. users'[x] = u /\ \A y \in Operators \ {x} : users'[y] = users[y]
  BY <1>1, <1>2, Types
<1>8. Knows(job, towers, users', orders, met)
  <2>1. req[r].todo \subseteq Operators /\ \A y \in req[r].todo \ met : req[r].seenUsers[y] = users[y] /\ users[y].towers = {}
    BY <1>1, Known DEF IsJob, KnowsUsers
  <2> QED
    BY <1>1, <1>2, <1>3, <1>4, <1>5, <1>7, <2>1 DEF Knows, KnowsTowers, KnowsUsers, KnowsOrders, Choosing
<1>9. SameScope(req[r], job)
  BY <1>1, <1>5 DEF SameScope
<1>10. x \notin met => \A t \in Towers \ met : (x \in towers[t] <=> t \in u.towers) \/ Mending(job, x, t)
  BY <1>2, <1>3, <1>4, <1>5 DEF Mending
<1>11. /\ \A y \in Operators, t \in Towers : ~Mending(req[r], y, t)
       /\ \A o \in Orders, t \in Towers : ~Straying(req[r], o, t)
       /\ \A y \in Operators, o \in Orders : ~Clearing(req[r], y, o)
  BY <1>1 DEF Mending, Straying, Clearing
<1>12. ClearedStays(r, job)
  BY <1>1, <1>2, <1>3, <1>11, StatusKept
<1> QED
  BY <1>1, <1>2, <1>3, <1>6, <1>8, <1>9, <1>10, <1>11, <1>12, PutsUser

-----------------------------------------------------------------------------
(* The steps that put a tower *)

\* The list of a tower is put.
LEMMA PutsTower ==
  ASSUME IInv, NEW r \in Requests, Active(r), NEW t \in Towers \intersect req[r].edits,
         NEW list \in SUBSET Operators, towers' = [towers EXCEPT ![t] = list],
         UNCHANGED <<users, orders, unseen, met, started, faults>>,
         byHand' \in SUBSET Orders, loose' \in SUBSET Towers,
         NEW job, IsJob(job), req' = [req EXCEPT ![r] = job], SameScope(req[r], job),
         Knows(job, towers', users, orders, met),
         t \notin met => \A x \in Operators \ req[r].edits : x \in list <=> x \in towers[t],
         t \notin met => \A x \in Operators \ met :
           Agree(x, t) \/ Mending(req[r], x, t) =>
             (x \in list <=> t \in users[x].towers) \/ Mending(job, x, t),
         \A x \in Operators, p \in Towers \ {t} : Mending(req[r], x, p) => Mending(job, x, p),
         FollowsStays(r, job),
         \A x \in Operators, o \in Orders : ~Clearing(req[r], x, o)
  PROVE  IInv'
<1>1. towers' \in [Towers -> SUBSET Operators] /\ towers'[t] = list /\ \A p \in Towers \ {t} : towers'[p] = towers[p]
  BY Types
<1>2. TypesHold'
  <2>1. TypeOK'
    BY <1>1 DEF IInv, Shapes, TypeOK
  <2> QED
    BY <2>1, Types DEF TypesHold
<1>3. Contested(r, job) \subseteq met'
  BY NothingContested
<1>4. Booked(job, orders')
  BY Known DEF SameScope, Booked, About
<1>5. Writes(r)
  BY <1>1 DEF Writes
<1>6. SidesStay(r, job)
  <2> SUFFICES ASSUME NEW x \in Operators \ met, NEW p \in Towers \ met, Agree(x, p) \/ Mending(req[r], x, p)
               PROVE  Agree(x, p)' \/ Mending(job, x, p)
    BY DEF SidesStay
  <2>1. CASE p = t
    BY <1>1, <2>1 DEF Agree
  <2>2. CASE p # t
    BY <1>1, <2>2 DEF Agree
  <2> QED
    BY <2>1, <2>2
<1>7. ClearedStays(r, job)
  BY DEF ClearedStays, HeldUp
<1> QED
  BY <1>2, <1>3, <1>4, <1>5, <1>6, <1>7, Goes

LEMMA SetsPut ==
  ASSUME IInv, NEW r \in Requests, SetPut(r)
  PROVE  IInv'
<1> DEFINE t == req[r].tower
           list == req[r].wanted
           pc == IF Touched(r) = {} THEN "cover" ELSE "touch"
           job == [req[r] EXCEPT !.pc = pc, !.todo = Touched(r)]
<1>1. /\ Active(r) /\ req[r].pc = "list" /\ towers' = [towers EXCEPT ![t] = list]
      /\ UNCHANGED <<users, orders, unseen, met, started, faults>>
      /\ loose' = loose \ {t} /\ byHand' = {o \in byHand : orders[o].tower # t}
      /\ loose' \in SUBSET Towers /\ byHand' \in SUBSET Orders
      /\ req' = [req EXCEPT ![r] = job]
      /\ pc = "touch" \/ (pc = "cover" /\ Touched(r) = {})
  BY DEF SetPut, Active, IInv, Shapes, TypeOK
<1>2. /\ t \in Towers /\ t \in req[r].edits /\ list \in SUBSET Operators /\ list \subseteq req[r].edits
      /\ req[r].left \subseteq req[r].edits /\ req[r].left \subseteq Operators
      /\ t \notin met => towers[t] = req[r].left
  BY <1>1, Known, JobFields DEF IsJob, KnowsTowers
<1>3. /\ Touched(r) \in SUBSET Ids /\ Touched(r) \subseteq Operators \intersect req[r].edits
      /\ \A x \in Operators : x \in Touched(r) <=> x \in list \/ x \in req[r].left
  BY <1>2 DEF Touched, Ids
<1> HIDE DEF pc
<1>4. /\ job \in Job /\ job.pc = pc /\ job.todo = Touched(r) /\ job.tower = t
      /\ job.wanted = list /\ job.edits = req[r].edits /\ job.reads = req[r].reads
  BY <1>1, <1>3, InJob, AllSteps, ZenonT(40) DEF Job
<1> HIDE DEF job, t, list
<1>5. IsJob(job)
  BY <1>1, <1>2, <1>3, <1>4 DEF IsJob
<1>6. towers'[t] = list /\ \A p \in Towers \ {t} : towers'[p] = towers[p]
  BY <1>1, <1>2, Types
<1>7. Knows(job, towers', users, orders, met)
  BY <1>1, <1>4, <1>6 DEF Knows, KnowsTowers, KnowsUsers, KnowsOrders, Choosing
<1>8. SameScope(req[r], job)
  BY <1>1, <1>4 DEF SameScope
<1>9. t \notin met => \A x \in Operators \ req[r].edits : x \in list <=> x \in towers[t]
  BY <1>2
<1>10. \A x \in Operators, p \in Towers : ~Mending(req[r], x, p)
  BY <1>1 DEF Mending
<1>11. t \notin met => \A x \in Operators \ met :
         Agree(x, t) => (x \in list <=> t \in users[x].towers) \/ Mending(job, x, t)
  BY <1>1, <1>2, <1>3, <1>4 DEF Agree, Mending
<1>12. FollowsStays(r, job)
  <2> SUFFICES ASSUME NEW o \in Orders \ met, NEW p \in Towers \ met,
                      Waits(o, p) => Placed(o, p) \/ Straying(req[r], o, p), Waits(o, p)'
               PROVE  Placed(o, p)' \/ Straying(job, o, p)
    BY <1>1 DEF FollowsStays
  <2>1. CASE p = t
    BY <1>1, <1>4, <2>1 DEF Straying
  <2>2. CASE p # t
    <3>1. Waits(o, p) /\ ~Straying(req[r], o, p)
      BY <1>1, <2>2 DEF Waits, Straying
    <3> QED
      BY <1>1, <1>6, <2>2, <3>1 DEF Placed
  <2> QED
    BY <2>1, <2>2
<1>13. \A x \in Operators, o \in Orders : ~Clearing(req[r], x, o)
  BY <1>1 DEF Clearing
<1>14. /\ t \notin met => \A x \in Operators \ met :
            Agree(x, t) \/ Mending(req[r], x, t) => (x \in list <=> t \in users[x].towers) \/ Mending(job, x, t)
       /\ \A x \in Operators, p \in Towers \ {t} : Mending(req[r], x, p) => Mending(job, x, p)
  BY <1>2, <1>10, <1>11
<1>15. t \in Towers \intersect req[r].edits /\ list \in SUBSET Operators
  BY <1>2
<1> QED
  BY <1>1, <1>5, <1>7, <1>8, <1>9, <1>12, <1>13, <1>14, <1>15, PutsTower

LEMMA Members ==
  ASSUME IInv, NEW r \in Requests, NEW t \in Towers, Member(r, t)
  PROVE  IInv'
<1> DEFINE x == req[r].who
           list == IF t \in req[r].user.towers THEN req[r].seenTowers[t] \union {x}
                   ELSE req[r].seenTowers[t] \ {x}
           off == IF t \in req[r].user.towers THEN loose ELSE loose \union {t}
<1>1. /\ Active(r) /\ req[r].pc = "member" /\ t \in req[r].todo /\ towers' = [towers EXCEPT ![t] = list]
      /\ UNCHANGED <<users, orders, unseen, met, started, faults, byHand>> /\ loose' = off
      /\ off \in SUBSET Towers /\ byHand' \in SUBSET Orders
  BY DEF Member, Active, IInv, Shapes, TypeOK
<1>2. /\ t \in req[r].edits /\ x \in Operators /\ x \in req[r].edits
      /\ req[r].seenTowers \in [Towers -> SUBSET Operators] /\ req[r].todo \subseteq Towers
      /\ \A p \in req[r].todo \ met : req[r].seenTowers[p] = towers[p]
      /\ x \notin met => users[x] = req[r].user
  BY <1>1, Known, JobFields DEF IsJob, KnowsTowers, KnowsUsers
<1>3. /\ list \in SUBSET Operators /\ (x \in list <=> t \in req[r].user.towers)
      /\ \A y \in Operators \ {x} : y \in list <=> y \in req[r].seenTowers[t]
      /\ t \in off \/ \A y \in req[r].seenTowers[t] : y \in list
      /\ loose \subseteq off
  BY <1>2
<1> HIDE DEF x, list, off
<1>4. PICK job : /\ IsJob(job) /\ req' = [req EXCEPT ![r] = job] /\ SameScope(req[r], job)
                 /\ job.todo = req[r].todo \ {t}
                 /\ \/ job.pc = "idle" /\ req[r].todo = {t}
                    \/ /\ job.pc = req[r].pc /\ job.who = x /\ job.user = req[r].user
                       /\ job.seenTowers = req[r].seenTowers
  BY <1>1, Dones DEF Member, x
<1>5. towers'[t] = list /\ \A p \in Towers \ {t} : towers'[p] = towers[p]
  BY <1>1, <1>2, Types
<1>6. Knows(job, towers', users, orders, met)
  BY <1>1, <1>2, <1>4, <1>5 DEF Knows, KnowsTowers, KnowsUsers, KnowsOrders, Choosing
<1>7. t \notin met => \A y \in Operators \ req[r].edits : y \in list <=> y \in towers[t]
  BY <1>1, <1>2, <1>3
<1>8. t \notin met => \A y \in Operators \ met :
         Agree(y, t) \/ Mending(req[r], y, t) => (y \in list <=> t \in users[y].towers)
  BY <1>1, <1>2, <1>3 DEF Agree, Mending, x
<1>9. \A y \in Operators, p \in Towers \ {t} : Mending(req[r], y, p) => Mending(job, y, p)
  BY <1>1, <1>4 DEF Mending, x
<1>10. FollowsStays(r, job)
  <2> SUFFICES ASSUME NEW o \in Orders \ met, NEW p \in Towers \ met,
                      Waits(o, p) => Placed(o, p) \/ Straying(req[r], o, p), Waits(o, p)'
               PROVE  Placed(o, p)'
    BY <1>1 DEF FollowsStays
  <2>1. Waits(o, p) /\ ~Straying(req[r], o, p) /\ p \notin off
    BY <1>1, <1>3 DEF Waits, Straying
  <2>2. CASE p = t
    BY <1>1, <1>2, <1>3, <1>5, <2>1, <2>2 DEF Placed
  <2>3. CASE p # t
    BY <1>1, <1>5, <2>1, <2>3 DEF Placed
  <2> QED
    BY <2>2, <2>3
<1>11. \A y \in Operators, o \in Orders : ~Clearing(req[r], y, o)
  BY <1>1 DEF Clearing
<1> QED
  BY <1>1, <1>2, <1>3, <1>4, <1>6, <1>7, <1>8, <1>9, <1>10, <1>11, PutsTower, ZenonT(40)

LEMMA BootsTower ==
  ASSUME IInv, NEW r \in Requests, NEW t \in Towers, BootTower(r, t)
  PROVE  IInv'
<1> DEFINE x == req[r].who
           list == req[r].seenTowers[t] \union {x}
           seen == [req[r].seenTowers EXCEPT ![t] = list]
           left == req[r].left \ {t}
           job == [req[r] EXCEPT !.seenTowers = seen, !.left = left]
<1>1. /\ Active(r) /\ req[r].pc = "join" /\ t \in req[r].left /\ towers' = [towers EXCEPT ![t] = list]
      /\ UNCHANGED <<users, orders, unseen, met, started, faults, byHand, loose>>
      /\ loose' \in SUBSET Towers /\ byHand' \in SUBSET Orders
  BY DEF BootTower, Active, history, IInv, Shapes, TypeOK
<1>2. /\ req[r].edits = Ids /\ x \in Operators /\ req[r].left \subseteq Towers
      /\ req[r].seenTowers \in [Towers -> SUBSET Operators]
      /\ \A p \in Towers \ met : req[r].seenTowers[p] = towers[p]
      /\ \A p \in Towers \ req[r].left : x \in req[r].seenTowers[p]
      /\ x \notin met => users[x].towers = Towers
      /\ \A y \in req[r].todo \ (met \union {x}) : req[r].seenUsers[y] = users[y] /\ users[y].towers = {}
  BY <1>1, Known, JobFields DEF IsJob, KnowsTowers, KnowsUsers
<1>3. req' = [req EXCEPT ![r] = job]
  BY DEF BootTower
<1>4. /\ list \in SUBSET Operators /\ x \in list /\ left \in SUBSET Ids /\ left \subseteq req[r].left
      /\ seen \in [Towers -> SUBSET Operators] /\ seen[t] = list
      /\ \A p \in Towers \ {t} : seen[p] = req[r].seenTowers[p] /\ (p \in left <=> p \in req[r].left)
      /\ \A y \in req[r].seenTowers[t] : y \in list
      /\ \A y \in list : y = x \/ y \in req[r].seenTowers[t]
  <2>1. list \in SUBSET Operators
    BY <1>2
  <2> HIDE DEF list
  <2>2. seen \in [Towers -> SUBSET Operators] /\ seen[t] = list
        /\ \A p \in Towers \ {t} : seen[p] = req[r].seenTowers[p]
    BY <1>2, <2>1
  <2> QED
    BY <1>1, <1>2, <2>1, <2>2 DEF list, Ids
<1> HIDE DEF list, seen, left
<1>5. /\ job \in Job /\ job.pc = "join" /\ job.who = x /\ job.left = left /\ job.todo = req[r].todo
      /\ job.seenTowers = seen /\ job.seenUsers = req[r].seenUsers
      /\ job.edits = req[r].edits /\ job.reads = req[r].reads
  BY <1>1, <1>4, InJob, ZenonT(40) DEF Job
<1> HIDE DEF job, x
<1>6. IsJob(job)
  BY <1>1, <1>2, <1>4, <1>5, Known DEF IsJob, x
<1>7. towers'[t] = list /\ \A p \in Towers \ {t} : towers'[p] = towers[p]
  BY <1>1, <1>2, Types
<1>8. Knows(job, towers', users, orders, met)
  <2>1. \A p \in Towers \ met : seen[p] = towers'[p]
    BY <1>2, <1>4, <1>7
  <2>2. \A p \in Towers \ left : x \in seen[p]
    BY <1>2, <1>4
  <2> QED
    BY <1>2, <1>5, <2>1, <2>2 DEF Knows, KnowsTowers, KnowsUsers, KnowsOrders, Choosing
<1>9. SameScope(req[r], job)
  BY <1>1, <1>5 DEF SameScope
<1>10. \A y \in Operators \ req[r].edits : FALSE
  BY <1>2 DEF Ids
<1>11. t \notin met => \A y \in Operators \ met :
         Agree(y, t) \/ Mending(req[r], y, t) => (y \in list <=> t \in users[y].towers)
  BY <1>1, <1>2, <1>4 DEF Agree, Mending, x
<1>12. \A y \in Operators, p \in Towers \ {t} : Mending(req[r], y, p) => Mending(job, y, p)
  BY <1>1, <1>4, <1>5 DEF Mending, x
<1>13. FollowsStays(r, job)
  <2> SUFFICES ASSUME NEW o \in Orders \ met, NEW p \in Towers \ met,
                      Waits(o, p) => Placed(o, p) \/ Straying(req[r], o, p), Waits(o, p)'
               PROVE  Placed(o, p)'
    BY <1>1 DEF FollowsStays
  <2>1. Waits(o, p) /\ ~Straying(req[r], o, p)
    BY <1>1 DEF Waits, Straying
  <2>2. CASE p = t
    BY <1>1, <1>2, <1>4, <1>7, <2>1, <2>2 DEF Placed
  <2>3. CASE p # t
    BY <1>1, <1>7, <2>1, <2>3 DEF Placed
  <2> QED
    BY <2>2, <2>3
<1>14. \A y \in Operators, o \in Orders : ~Clearing(req[r], y, o)
  BY <1>1 DEF Clearing
<1>15. t \in req[r].edits
  BY <1>2 DEF Ids
<1> QED
  BY <1>1, <1>3, <1>4, <1>6, <1>8, <1>9, <1>10, <1>11, <1>12, <1>13, <1>14, <1>15, PutsTower

-----------------------------------------------------------------------------
(* Every step *)

\* Every step of a request under way keeps the invariant.
LEMMA Continues ==
  ASSUME IInv, NEW r \in Requests, Continue(r)
  PROVE  IInv'
<1>1. CASE SetCheck(r) \/ SetPut(r) \/ TouchPut(r) \/ Cover(r) \/ Choose(r) \/ Find(r)
  BY <1>1, SetChecks, SetsPut, TouchesPut, Covers, Chooses, Finds
<1>2. CASE PatchPut(r) \/ PatchTowers(r) \/ OffPut(r) \/ OffOpen(r) \/ OffTarget(r) \/ OffRefused(r)
  BY <1>2, PatchesPut, PatchesTowers, OffsPut, OffOpens, OffTargets, OffIsRefused
<1>3. CASE StatusPut(r) \/ Lookup(r) \/ BootOperators(r) \/ BootNext(r) \/ BootOrders(r) \/ BootStaff(r)
  BY <1>3, StatusesPut, Lookups, BootsOperators, BootsNext, BootsOrders, BootsStaff
<1>4. CASE \E x \in Operators : TouchRead(r, x) \/ BootUser(r, x)
  BY <1>4, TouchReads, BootsUser
<1>5. CASE \E t \in Towers : Member(r, t) \/ BootTower(r, t)
  BY <1>5, Members, BootsTower
<1>6. CASE \E o \in Orders :
             \/ Reassign(r, o) \/ HandRead(r, o) \/ HandPut(r, o) \/ Place(r, o)
             \/ RelocateFind(r, o) \/ RelocatePut(r, o) \/ Write(r, o) \/ Backfill(r, o)
  BY <1>6, Reassigns, HandReads, HandsPut, Places, RelocateFinds, RelocatesPut, WritesOrder, Backfills
<1> QED
  BY <1>1, <1>2, <1>3, <1>4, <1>5, <1>6 DEF Continue

\* Nothing happens.
LEMMA Rests ==
  ASSUME IInv, UNCHANGED vars
  PROVE  IInv'
<1>1. /\ towers' = towers /\ users' = users /\ orders' = orders /\ req' = req /\ started' = started
      /\ faults' = faults /\ byHand' = byHand /\ loose' = loose /\ unseen' = unseen /\ met' = met
  BY DEF vars
<1>2. Shapes' /\ Contests' /\ Knowledge'
  BY <1>1 DEF IInv, Shapes, TypeOK, Contests, Active, Knowledge
<1>3. Sides' /\ Follows' /\ Cleared'
  BY <1>1 DEF IInv, Sides, Agree, Follows, Waits, Placed, Cleared, HeldUp
<1> QED
  BY <1>2, <1>3 DEF IInv

\* IInv is inductive.
LEMMA EveryStep ==
  ASSUME IInv, [Next]_vars
  PROVE  IInv'
BY Arrives, Continues, Loses, Rests DEF Next

\* It holds at the start: both sides agree, and orders are with somebody of their tower.
LEMMA Starts ==
  ASSUME Init
  PROVE  IInv
<1>1. \A r \in Requests : req[r] = Idle
  BY DEF Init
<1>2. \A o \in Orders :
        /\ orders[o] \in Order /\ (orders[o].state # "absent" <=> orders[o].tower \in Towers)
        /\ \A t \in Towers : orders[o].tower = t => orders[o].by \in towers[t] \union {NoOne}
  <2> SUFFICES ASSUME NEW o \in Orders
               PROVE  /\ orders[o] \in Order /\ (orders[o].state # "absent" <=> orders[o].tower \in Towers)
                      /\ \A t \in Towers : orders[o].tower = t => orders[o].by \in towers[t] \union {NoOne}
    OBVIOUS
  <2>1. orders[o] \in Arranged(towers) /\ towers \in [Towers -> SUBSET Operators]
    BY DEF Init
  <2>2. CASE orders[o] = Absent
    BY <2>2, NoneIsNone DEF Absent, Order
  <2>3. CASE orders[o] \in [state : {"scheduled", "collected"}, tower : {t \in Towers : towers[t] = {}}, by : {NoOne}]
    BY <2>3 DEF Order
  <2>4. CASE \E t \in Towers : orders[o] \in [state : {"scheduled", "collected"}, tower : {t}, by : towers[t]]
    BY <2>1, <2>4 DEF Order
  <2> QED
    BY <2>1, <2>2, <2>3, <2>4 DEF Arranged
<1>3. /\ users \in [Operators -> User] /\ \A x \in Operators : users[x].status = "active"
      /\ \A x \in Operators, t \in Towers : t \in users[x].towers <=> x \in towers[t]
  BY DEF Init, User, Status
<1>4. Shapes
  <2>1. orders \in [Orders -> Order]
    BY <1>2 DEF Init
  <2>2. TypeOK
    BY <1>3, <2>1, BoundsAreNatural DEF Init, TypeOK
  <2>3. \A r \in Requests : IsJob(req[r]) /\ Booked(req[r], orders)
    BY <1>1, IdleIsJob DEF Booked
  <2> QED
    BY <1>1, <1>2, <2>2, <2>3 DEF Init, Shapes
<1>5. Contests /\ Knowledge
  BY <1>1, IdleIsJob, KnowsNothing DEF Contests, Active, Knowledge
<1>6. Sides /\ Follows /\ Cleared
  BY <1>2, <1>3 DEF Sides, Agree, Follows, Waits, Placed, Cleared, HeldUp
<1> QED
  BY <1>4, <1>5, <1>6 DEF IInv

\* assignment-service.ts, auto-assign.ts, staffing-service.ts, assignment-backfill.ts: whoever is
\* under way at the same time, what a request knows of records that are not contested is true,
\* and what is not yet as it should be is on somebody's list.
THEOREM Invariance == Spec => []IInv
<1>1. Init => IInv
  BY Starts
<1>2. IInv /\ [Next]_vars => IInv'
  BY EveryStep
<1> QED
  BY <1>1, <1>2, PTL DEF Spec

\* The tables hold documents of their types, and the counters stay within their bounds.
THEOREM TypeCorrect == Spec => []TypeOK
<1>1. IInv => TypeOK
  BY DEF IInv, Shapes
<1> QED
  BY <1>1, Invariance, PTL

\* setBlockOperators, setBlockMembership and the boot leave no tower that lists an operator whose
\* account does not list it, nor the other way round.
THEOREM SidesAgree == Spec => []BothSidesAgree
<1>1. IInv => BothSidesAgree
  <2> SUFFICES ASSUME IInv, NEW x \in Operators \intersect Settled, NEW t \in Towers \intersect Settled
               PROVE  Agree(x, t)
    BY DEF BothSidesAgree, Agree
  <2>1. x \notin met /\ t \notin met /\ \A r \in Requests : x \notin req[r].edits /\ t \notin req[r].edits
    BY DEF Settled
  <2>2. \A r \in Requests : ~Mending(req[r], x, t)
    BY <2>1, Known DEF Mending, IsJob, Ids
  <2> QED
    BY <2>1, <2>2 DEF IInv, Sides
<1> QED
  BY <1>1, Invariance, PTL

\* reassignBlock, reassignResident, operatorForBlock at booking: an order not yet collected is with
\* somebody of its tower, wherever lists of towers, moves and bookings come one after the other.
THEOREM OrdersFollow == Spec => []FollowsItsTower
<1>1. IInv => FollowsItsTower
  <2> SUFFICES ASSUME IInv, NEW o \in Orders \intersect Settled, orders[o].state = "scheduled",
                      orders[o].tower \in Settled \ loose, o \notin byHand
               PROVE  Placed(o, orders[o].tower)
    BY DEF FollowsItsTower, Placed
  <2> DEFINE t == orders[o].tower
  <2>1. /\ o \notin met /\ t \in Towers \ met /\ \A r \in Requests : t \notin req[r].edits
    BY Types DEF Settled
  <2>2. Waits(o, t)
    BY DEF Waits
  <2> HIDE DEF t
  <2>3. \A r \in Requests : ~Straying(req[r], o, t)
    BY <2>1, Known DEF Straying, IsJob
  <2>4. Placed(o, t)
    BY <2>1, <2>2, <2>3 DEF IInv, Follows
  <2> QED
    BY <2>4 DEF t
<1> QED
  BY <1>1, Invariance, PTL

\* handOver with the change of status, CanTakeWork wherever an operator is chosen: nobody who is
\* blocked is left with an open order, and none comes to him.
THEOREM BlockedAreRelieved == Spec => []BlockedHoldNothing
<1>1. IInv => BlockedHoldNothing
  <2> SUFFICES ASSUME IInv, NEW x \in (Operators \intersect Settled) \ unseen, users[x].status = "blocked",
                      NEW o \in HeldBy(x) \intersect Settled
               PROVE  FALSE
    BY DEF BlockedHoldNothing
  <2>1. /\ x \notin met /\ o \in Orders \ met
        /\ \A r \in Requests : x \notin req[r].edits /\ o \notin req[r].edits
    BY DEF Settled, HeldBy
  <2>2. HeldUp(x, o)
    BY DEF HeldUp, Holds, HeldBy
  <2>3. PICK r \in Requests : Clearing(req[r], x, o)
    BY <2>1, <2>2 DEF IInv, Cleared
  <2> QED
    BY <2>1, <2>3, Known DEF Clearing, IsJob
<1> QED
  BY <1>1, Invariance, PTL

\* Who begins has put nothing yet.
LEMMA ArrivesQuietly ==
  ASSUME NEW r \in Requests, Arrive(r)
  PROVE  orders' = orders
<1>1. CASE \E t \in Towers : BookStart(r, t) \/ \E list \in SUBSET Operators : SetStart(r, t, list)
  BY <1>1 DEF BookStart, SetStart, Begin, BeginWith
<1>2. CASE BootStart(r)
  BY <1>2 DEF BootStart, Begin, BeginWith
<1>3. CASE \E x \in Operators :
             \/ \E list \in SUBSET Towers : PatchStart(r, x, list)
             \/ \E status \in Status : StatusStart(r, x, status)
             \/ \E status \in Status, to \in Operators \union {NoOne} : OffStart(r, x, status, to)
             \/ \E o \in Orders : ClaimStart(r, x, o) \/ AssignStart(r, o, x) \/ CollectStart(r, x, o)
  BY <1>3 DEF PatchStart, StatusStart, OffStart, ClaimStart, AssignStart, CollectStart, Begin, BeginWith
<1>4. CASE \E o \in Orders :
             AssignStart(r, o, NoOne) \/ CloseStart(r, o) \/ \E t \in Towers : RelocateStart(r, o, t)
  BY <1>4 DEF AssignStart, CloseStart, RelocateStart, Begin, BeginWith
<1> QED
  BY <1>1, <1>2, <1>3, <1>4 DEF Arrive

\* A record is left alone by whoever puts an order.
LEMMA KeepsRecord ==
  ASSUME IInv, NEW r \in Requests, NEW o \in Orders, orders[o].state = "collected", o \notin met,
         NEW p \in Orders, NEW doc, PutOrder(p, doc),
         p = o => doc.state \in {"collected", "closed"} /\ doc.tower = orders[o].tower
                    /\ (doc.by = orders[o].by \/ o \in byHand')
  PROVE  /\ orders'[o].state \in {"collected", "closed"} /\ orders'[o].tower = orders[o].tower
         /\ orders'[o].by = orders[o].by \/ o \in byHand'
BY Types DEF PutOrder

\* NOT_YET_COLLECTED: reassignBlock, reassignResident and the boot do not touch an order that is
\* collected, however long ago they looked.
THEOREM RecordsAreKept == Spec => RecordsStay
<1>1. ASSUME IInv, [Next]_vars, NEW o \in Orders, orders[o].state = "collected", o \notin met
      PROVE  /\ orders'[o].state \in {"collected", "closed"} /\ orders'[o].tower = orders[o].tower
             /\ orders'[o].by = orders[o].by \/ o \in byHand'
  <2>1. CASE orders' = orders
    BY <1>1, <2>1
  <2>2. CASE orders' # orders
    <3>1. PICK r \in Requests : Continue(r)
      BY <1>1, <2>2, ArrivesQuietly DEF Next, Lose, vars
    <3>2. \E p \in Orders : Reassign(r, p) \/ HandPut(r, p) \/ Place(r, p) \/ RelocatePut(r, p)
                            \/ Write(r, p) \/ Backfill(r, p)
      BY <2>2, <3>1 DEF Continue, Private, history, Widen, SetCheck, SetPut, TouchPut, Cover, Choose, Find,
           PatchPut, PatchTowers, OffPut, OffOpen, OffTarget, OffRefused, StatusPut, Lookup, BootOperators,
           BootNext, BootOrders, BootStaff, TouchRead, BootUser, Member, BootTower, HandRead, RelocateFind
    <3> PICK p \in Orders : Reassign(r, p) \/ HandPut(r, p) \/ Place(r, p) \/ RelocatePut(r, p)
                            \/ Write(r, p) \/ Backfill(r, p)
      BY <3>2
    <3>3. CASE Reassign(r, p)
      <4>1. PutOrder(p, [req[r].seenOrders[p] EXCEPT !.by = req[r].to]) /\ p # o
        BY <1>1, <3>3, Known DEF Reassign, IsJob, KnowsOrders
      <4> QED
        BY <1>1, <4>1, KeepsRecord
    <3>4. CASE HandPut(r, p)
      <4>1. /\ PutOrder(p, req[r].doc) /\ p \in byHand'
            /\ p = o => req[r].doc.state = "collected" /\ req[r].doc.tower = orders[o].tower
        BY <1>1, <3>4, Known DEF HandPut, IsJob, KnowsOrders
      <4> QED
        BY <1>1, <4>1, KeepsRecord
    <3>5. CASE Place(r, p)
      <4>1. PutOrder(p, [state |-> "scheduled", tower |-> req[r].tower, by |-> req[r].to]) /\ p # o
        BY <1>1, <3>5 DEF Place
      <4> QED
        BY <1>1, <4>1, KeepsRecord
    <3>6. CASE RelocatePut(r, p)
      <4>1. PutOrder(p, req[r].doc) /\ p # o
        BY <1>1, <3>6, Known DEF RelocatePut, KnowsOrders
      <4> QED
        BY <1>1, <4>1, KeepsRecord
    <3>7. CASE Write(r, p)
      <4>1. /\ PutOrder(p, req[r].doc)
            /\ p = o => /\ req[r].doc.state = "closed" /\ req[r].doc.tower = orders[o].tower
                        /\ req[r].doc.by = orders[o].by
        BY <1>1, <3>7, Known DEF Write, IsJob, KnowsOrders
      <4> QED
        BY <1>1, <4>1, KeepsRecord
    <3>8. CASE Backfill(r, p)
      <4>1. p # o
        BY <1>1, <3>8, BootKnows DEF Backfill
      <4>2. PICK x \in ForBlock(req[r].seenTowers[req[r].seenOrders[p].tower], req[r].seenUsers) :
               PutOrder(p, [req[r].seenOrders[p] EXCEPT !.by = x])
        BY <3>8 DEF Backfill
      <4> QED
        BY <1>1, <4>1, <4>2, KeepsRecord
    <3> QED
      BY <3>3, <3>4, <3>5, <3>6, <3>7, <3>8
  <2> QED
    BY <2>1, <2>2
<1>2. IInv /\ [Next]_vars =>
        [\A o \in Orders : orders[o].state = "collected" /\ o \notin met =>
           /\ orders'[o].state \in {"collected", "closed"}
           /\ orders'[o].tower = orders[o].tower
           /\ orders'[o].by = orders[o].by \/ o \in byHand']_vars
  BY <1>1
<1> QED
  BY <1>2, Invariance, PTL DEF Spec, RecordsStay
=============================================================================
