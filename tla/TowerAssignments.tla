-------------------------- MODULE TowerAssignments --------------------------
(***************************************************************************)
(* Who covers which tower of a society, and who holds which order: a tower *)
(* lists its operators, an operator lists his towers, and an order goes to *)
(* somebody of its tower.                                                  *)
(*   washnpress-v2/src/services/assignment-service.ts  setBlockOperators   *)
(*   washnpress-v2/src/services/auto-assign.ts                             *)
(*   washnpress-v2/src/services/staffing-service.ts  setAvailability,      *)
(*        handOver, reassignOrder                                          *)
(*   washnpress-v2/src/services/assignment-backfill.ts  at boot            *)
(*   washnpress-v2/src/app/routes/  edits of an operator, assign and claim *)
(* A request is a process, each store call a step of it, and a put writes  *)
(* back the document the request read.                                     *)
(*                                                                         *)
(* One society; a tower is a block of it.  An order stands for its         *)
(* resident too, and is scheduled, under way (collected) or closed.  The   *)
(* checks a handler makes of several records before its first write are    *)
(* one step.  The order of a tower's list is left out: among the operators *)
(* on duty any may be the one the lookup finds first.                      *)
(***************************************************************************)
EXTENDS Naturals

CONSTANTS
  Operators, NoOne,
  Towers, NoTower,
  Orders,
  Requests,                \* requests under way at the same time
  MaxRequests, MaxFaults

ASSUME NoneIsNone == NoOne \notin Operators /\ NoTower \notin Towers
ASSUME Apart == /\ Operators \intersect Towers = {}
                /\ (Operators \union Towers) \intersect Orders = {}
ASSUME BoundsAreNatural == MaxRequests \in Nat /\ MaxFaults \in Nat

VARIABLES
  towers,   \* the operators each block lists
  users,    \* the operators' accounts: their status and the blocks they list
  orders,   \* the orders table
  req,      \* what each request holds
  started, faults,
  byHand,   \* history: orders given to somebody by hand since their tower was last gone through
  loose,    \* history: towers an operator's edit has taken somebody off since then
  unseen,   \* history: operators taken off duty by a request that did not go through their work
  met       \* history: what two requests were busy with at once, what one left half done, and
            \* orders given to somebody who was off duty

vars == <<towers, users, orders, req, started, faults, byHand, loose, unseen, met>>
history == <<byHand, loose, unseen, met>>

Status == {"active", "on_leave", "blocked"}

User == [status : Status, towers : SUBSET Towers]

Order == [state : {"absent", "scheduled", "collected", "closed"},
          tower : Towers \union {NoTower}, by : Operators \union {NoOne}]

Absent == [state |-> "absent", tower |-> NoTower, by |-> NoOne]

Nobody == [status |-> "active", towers |-> {}]

Idle ==
  [pc |-> "idle", tower |-> NoTower, who |-> NoOne, to |-> NoOne, wanted |-> {},
   user |-> Nobody, doc |-> Absent, todo |-> {}, left |-> {},
   seenTowers |-> [t \in Towers |-> {}], seenUsers |-> [x \in Operators |-> Nobody],
   seenOrders |-> [o \in Orders |-> Absent], edits |-> {}, reads |-> {}]

-----------------------------------------------------------------------------
(* Helpers *)

Active(r) == req[r].pc # "idle"

Conflict(job, other) ==
  job.edits \intersect (other.edits \union other.reads) # {}
    \/ other.edits \intersect job.reads # {}

About(job) == job.edits \union job.reads

\* What becomes contested when r starts on a job, or finds more that it is about.
Contested(r, job) ==
  UNION {About(job) \union About(req[q]) :
           q \in {q \in Requests \ {r} : Active(q) /\ Conflict(job, req[q])}}

\* A request begins; `also` counts as contested from now on as well.
BeginWith(r, job, also) ==
  /\ ~Active(r)
  /\ started < MaxRequests
  /\ started' = started + 1
  /\ req' = [req EXCEPT ![r] = job]
  /\ met' = met \union Contested(r, job) \union also
  /\ UNCHANGED <<towers, users, orders, faults, byHand, loose, unseen>>

Begin(r, job) == BeginWith(r, job, {})

\* r goes on with what it has found to be about as well.
Widen(r, job) ==
  /\ req' = [req EXCEPT ![r] = job]
  /\ met' = met \union Contested(r, job)
  /\ UNCHANGED <<towers, users, orders, started, faults, byHand, loose, unseen>>

Goto(r, pc) == req' = [req EXCEPT ![r].pc = pc]

Return(r) == req' = [req EXCEPT ![r] = Idle]

\* A step of r that changes nothing but what r holds.
Private == UNCHANGED <<towers, users, orders, started, faults, history>>

PutOrder(o, doc) == orders' = [orders EXCEPT ![o] = doc]

\* One of r's things to do is done; the last one ends the request.
Done(r, item) ==
  IF req[r].todo = {item} THEN Return(r)
  ELSE req' = [req EXCEPT ![r].todo = @ \ {item}]

CanTakeWork(user) == user.status # "blocked"

\* operatorForBlock: somebody on duty, or else on leave, among those of the list who can
\* take work, by the accounts that were read.
ForBlock(list, accounts) ==
  LET able == {x \in list : CanTakeWork(accounts[x])}
      onDuty == {x \in able : accounts[x].status = "active"}
  IN IF onDuty # {} THEN onDuty ELSE IF able # {} THEN able ELSE {NoOne}

-----------------------------------------------------------------------------
(* setBlockOperators: the list of a tower, then each operator's own list,   *)
(* then the orders of the tower                                             *)

SetStart(r, t, list) ==
  Begin(r, [Idle EXCEPT !.pc = "eligible", !.tower = t, !.wanted = list, !.left = towers[t],
                        !.edits = {t} \union list \union towers[t]])

SetCheck(r) ==
  /\ req[r].pc = "eligible"
  /\ IF \E x \in req[r].wanted : users[x].status = "blocked" THEN Return(r) ELSE Goto(r, "list")
  /\ Private

\* Slip: those who leave the tower keep it in their own list.
TouchedOnlyAdded(r) == req[r].wanted

Touched(r) == req[r].left \union req[r].wanted

SetPut(r) ==
  /\ req[r].pc = "list"
  /\ towers' = [towers EXCEPT ![req[r].tower] = req[r].wanted]
  /\ req' = [req EXCEPT ![r].pc = IF Touched(r) = {} THEN "cover" ELSE "touch",
                        ![r].todo = Touched(r)]
  /\ loose' = loose \ {req[r].tower}
  /\ byHand' = {o \in byHand : orders[o].tower # req[r].tower}
  /\ UNCHANGED <<users, orders, started, faults, unseen, met>>

TouchRead(r, x) ==
  /\ req[r].pc = "touch"
  /\ x \in req[r].todo
  /\ LET list == IF x \in req[r].wanted THEN users[x].towers \union {req[r].tower}
                 ELSE users[x].towers \ {req[r].tower} IN
     req' = [req EXCEPT ![r].pc = "touched", ![r].who = x,
                        ![r].user = [users[x] EXCEPT !.towers = list]]
  /\ Private

TouchPut(r) ==
  /\ req[r].pc = "touched"
  /\ users' = [users EXCEPT ![req[r].who] = req[r].user]
  /\ LET rest == req[r].todo \ {req[r].who} IN
     req' = [req EXCEPT ![r].pc = IF rest = {} THEN "cover" ELSE "touch", ![r].todo = rest]
  /\ UNCHANGED <<towers, orders, started, faults, history>>

\* reassignBlock reads the block, then the operators, then the orders.
Cover(r) ==
  /\ req[r].pc = "cover"
  /\ LET list == towers[req[r].tower] IN
     Widen(r, [req[r] EXCEPT !.pc = "choose", !.wanted = list, !.reads = @ \union list])

Choose(r) ==
  /\ req[r].pc = "choose"
  /\ \E x \in ForBlock(req[r].wanted, users) : req' = [req EXCEPT ![r].pc = "find", ![r].to = x]
  /\ Private

\* Slip: whoever has an order keeps it.
AnyoneKeeps(x, list) == x # NoOne

\* Who still covers the tower keeps the order.
Keeps(x, list) == x \in list

\* Slip: orders under way are looked at as well.
EveryState == {"scheduled", "collected"}

NotYetCollected == {"scheduled"}

Misplaced(r) ==
  {o \in Orders : /\ orders[o].tower = req[r].tower /\ orders[o].state \in NotYetCollected
                  /\ ~Keeps(orders[o].by, req[r].wanted) /\ orders[o].by # req[r].to}

Find(r) ==
  /\ req[r].pc = "find"
  /\ IF Misplaced(r) = {} THEN Return(r) /\ Private
     ELSE Widen(r, [req[r] EXCEPT !.pc = "reassign", !.todo = Misplaced(r), !.seenOrders = orders,
                                  !.edits = @ \union Misplaced(r)])

Reassign(r, o) ==
  /\ req[r].pc = "reassign"
  /\ o \in req[r].todo
  /\ PutOrder(o, [req[r].seenOrders[o] EXCEPT !.by = req[r].to])
  /\ Done(r, o)
  /\ UNCHANGED <<towers, users, started, faults, history>>

-----------------------------------------------------------------------------
(* An operator's blocks are edited on his own page: his account, then every *)
(* tower whose list differs (syncBlockOperators, setBlockMembership)        *)

Differing(x, list) == {t \in Towers : (t \in list) # (x \in towers[t])}

PatchStart(r, x, list) ==
  Begin(r, [Idle EXCEPT !.pc = "update", !.who = x, !.user = [users[x] EXCEPT !.towers = list],
                        !.edits = {x} \union Differing(x, list)])

PatchPut(r) ==
  /\ req[r].pc = "update"
  /\ users' = [users EXCEPT ![req[r].who] = req[r].user]
  /\ Goto(r, "towers")
  /\ UNCHANGED <<towers, orders, started, faults, history>>

PatchTowers(r) ==
  /\ req[r].pc = "towers"
  /\ LET todo == Differing(req[r].who, req[r].user.towers) IN
     IF todo = {} THEN Return(r) /\ Private
     ELSE Widen(r, [req[r] EXCEPT !.pc = "member", !.todo = todo, !.seenTowers = towers,
                                  !.edits = @ \union todo])

Member(r, t) ==
  /\ req[r].pc = "member"
  /\ t \in req[r].todo
  /\ LET list == req[r].seenTowers[t] IN
     towers' = [towers EXCEPT ![t] = IF t \in req[r].user.towers THEN list \union {req[r].who}
                                     ELSE list \ {req[r].who}]
  /\ Done(r, t)
  /\ loose' = IF t \in req[r].user.towers THEN loose ELSE loose \union {t}
  /\ UNCHANGED <<users, orders, started, faults, byHand, unseen, met>>

-----------------------------------------------------------------------------
(* setAvailability, and handOver with OrderService.assignOperator           *)

HeldBy(x) == {o \in Orders : orders[o].by = x /\ orders[o].state \in {"scheduled", "collected"}}

OffStart(r, x, status, to) ==
  Begin(r, [Idle EXCEPT !.pc = "status", !.who = x, !.to = to,
                        !.user = [users[x] EXCEPT !.status = status],
                        !.edits = {x} \union HeldBy(x), !.reads = {to} \ {NoOne}])

OffPut(r) ==
  /\ req[r].pc = "status"
  /\ users' = [users EXCEPT ![req[r].who] = req[r].user]
  /\ IF req[r].user.status = "active" THEN Return(r) ELSE Goto(r, "open")
  /\ UNCHANGED <<towers, orders, started, faults, history>>

\* Slip: only what is not yet collected is handed over.
OpenScheduled(x) == {o \in HeldBy(x) : orders[o].state = "scheduled"}

OpenWork(x) == HeldBy(x)

OffOpen(r) ==
  /\ req[r].pc = "open"
  /\ LET open == OpenWork(req[r].who) IN
     Widen(r, [req[r] EXCEPT !.pc = "target", !.todo = open, !.edits = @ \union open])

Suitable(to) == to # NoOne => users[to].status = "active"

OffTarget(r) ==
  /\ req[r].pc = "target"
  /\ Suitable(req[r].to)
  /\ IF req[r].todo = {} THEN Return(r) ELSE Goto(r, "hand")
  /\ unseen' = unseen \ {req[r].who}
  /\ UNCHANGED <<towers, users, orders, started, faults, byHand, loose, met>>

\* The replacement is looked at after the account was put, and a refusal leaves it at that.
OffRefused(r) ==
  /\ req[r].pc = "target"
  /\ ~Suitable(req[r].to)
  /\ unseen' = unseen \union {req[r].who}
  /\ Return(r)
  /\ UNCHANGED <<towers, users, orders, started, faults, byHand, loose, met>>

\* Administrators set a status as any other field of the account (users.setStatus).
StatusStart(r, x, status) ==
  Begin(r, [Idle EXCEPT !.pc = "set", !.who = x, !.user = [users[x] EXCEPT !.status = status],
                        !.edits = {x}])

StatusPut(r) ==
  /\ req[r].pc = "set"
  /\ users' = [users EXCEPT ![req[r].who] = req[r].user]
  /\ unseen' = IF req[r].user.status = "active" THEN unseen ELSE unseen \union {req[r].who}
  /\ Return(r)
  /\ UNCHANGED <<towers, orders, started, faults, byHand, loose, met>>

HandRead(r, o) ==
  /\ req[r].pc = "hand"
  /\ o \in req[r].todo
  /\ req' = [req EXCEPT ![r].pc = "handed", ![r].doc = [orders[o] EXCEPT !.by = req[r].to],
                        ![r].left = {o}]
  /\ Private

HandPut(r, o) ==
  /\ req[r].pc = "handed"
  /\ o \in req[r].left
  /\ PutOrder(o, req[r].doc)
  /\ IF req[r].todo = {o} THEN Return(r)
     ELSE req' = [req EXCEPT ![r].pc = "hand", ![r].todo = @ \ {o}]
  /\ byHand' = byHand \union {o}
  /\ UNCHANGED <<towers, users, started, faults, loose, unseen, met>>

\* What a request on order o, by or for operator x, has to do with.
OnOrder(o, x) ==
  [Idle EXCEPT !.todo = {o}, !.to = x, !.edits = {o}, !.reads = {orders[o].tower, x} \ {NoOne}]

\* A session is that of an operator on duty, and sees the towers the account lists.
MaySee(x, o) == users[x].status = "active" /\ orders[o].tower \in users[x].towers

ClaimStart(r, x, o) ==
  /\ MaySee(x, o)
  /\ orders[o].by \in {NoOne, x}
  /\ Begin(r, [OnOrder(o, x) EXCEPT !.pc = "hand"])

OffDuty(x) == x # NoOne /\ users[x].status # "active"

\* reassignOrder asks for an operator on duty; operations' own route, whose screen offers no
\* other, does not ask, and an order it gives to somebody off duty is contested.
AssignStart(r, o, x) ==
  /\ orders[o].state # "absent"
  /\ BeginWith(r, [OnOrder(o, x) EXCEPT !.pc = "hand"], IF OffDuty(x) THEN {o} ELSE {})

-----------------------------------------------------------------------------
(* Orders: booked, collected, closed, and moved with their resident         *)

BookStart(r, t) ==
  /\ \E o \in Orders : orders[o].state = "absent"
  /\ Begin(r, [Idle EXCEPT !.pc = "booking", !.tower = t, !.wanted = towers[t],
                           !.reads = {t} \union towers[t]])

\* A resident with an order says that he lives in tower t.
RelocateStart(r, o, t) ==
  /\ orders[o].state # "absent"
  /\ t # orders[o].tower
  /\ Begin(r, [Idle EXCEPT !.pc = "moving", !.tower = t, !.wanted = towers[t], !.todo = {o},
                           !.edits = {o}, !.reads = {orders[o].tower, t} \union towers[t]])

\* The operators are read after the block.
Lookup(r) ==
  /\ req[r].pc \in {"booking", "moving"}
  /\ \E x \in ForBlock(req[r].wanted, users) :
       req' = [req EXCEPT ![r].pc = IF @ = "booking" THEN "place" ELSE "moved", ![r].to = x]
  /\ Private

Place(r, o) ==
  /\ req[r].pc = "place"
  /\ orders[o].state = "absent"
  /\ PutOrder(o, [state |-> "scheduled", tower |-> req[r].tower, by |-> req[r].to])
  /\ Return(r)
  /\ UNCHANGED <<towers, users, started, faults, history>>

\* reassignResident: the resident's order, if it is not yet collected.
RelocateFind(r, o) ==
  /\ req[r].pc = "moved"
  /\ o \in req[r].todo
  /\ IF orders[o].state \in NotYetCollected
     THEN req' = [req EXCEPT ![r].pc = "relocate",
                             ![r].doc = [orders[o] EXCEPT !.tower = req[r].tower, !.by = req[r].to]]
     ELSE Return(r)
  /\ Private

RelocatePut(r, o) ==
  /\ req[r].pc = "relocate"
  /\ o \in req[r].todo
  /\ PutOrder(o, req[r].doc)
  /\ Return(r)
  /\ byHand' = byHand \ {o}
  /\ UNCHANGED <<towers, users, started, faults, loose, unseen, met>>

\* Collected by x, who takes the order if nobody has it; later, or at once, closed.
CollectStart(r, x, o) ==
  /\ MaySee(x, o)
  /\ orders[o].state = "scheduled"
  /\ Begin(r, [OnOrder(o, x) EXCEPT !.pc = "write",
                 !.doc = [orders[o] EXCEPT !.state = "collected", !.by = IF @ = NoOne THEN x ELSE @]])

CloseStart(r, o) ==
  /\ orders[o].state \in {"scheduled", "collected"}
  /\ Begin(r, [OnOrder(o, NoOne) EXCEPT !.pc = "write", !.doc = [orders[o] EXCEPT !.state = "closed"]])

Write(r, o) ==
  /\ req[r].pc = "write"
  /\ o \in req[r].todo
  /\ PutOrder(o, req[r].doc)
  /\ Return(r)
  /\ UNCHANGED <<towers, users, started, faults, history>>

-----------------------------------------------------------------------------
(* At boot: an operator with no block is put on all of them, and what is     *)
(* scheduled and nobody's goes to somebody of its tower                      *)

BootStart(r) ==
  Begin(r, [Idle EXCEPT !.pc = "operators", !.seenTowers = towers,
                        !.edits = Operators \union Towers \union Orders])

BootOperators(r) ==
  /\ req[r].pc = "operators"
  /\ LET without == {x \in Operators : users[x].towers = {}} IN
     req' = [req EXCEPT ![r].pc = IF without = {} THEN "waiting" ELSE "give",
                        ![r].todo = without, ![r].seenUsers = users]
  /\ Private

BootUser(r, x) ==
  /\ req[r].pc = "give"
  /\ x \in req[r].todo
  /\ users' = [users EXCEPT ![x] = [req[r].seenUsers[x] EXCEPT !.towers = Towers]]
  /\ req' = [req EXCEPT ![r].pc = "join", ![r].who = x,
                        ![r].left = {t \in Towers : x \notin req[r].seenTowers[t]}]
  /\ UNCHANGED <<towers, orders, started, faults, history>>

BootTower(r, t) ==
  /\ req[r].pc = "join"
  /\ t \in req[r].left
  /\ LET list == req[r].seenTowers[t] \union {req[r].who} IN
     /\ towers' = [towers EXCEPT ![t] = list]
     /\ req' = [req EXCEPT ![r].seenTowers[t] = list, ![r].left = @ \ {t}]
  /\ UNCHANGED <<users, orders, started, faults, history>>

BootNext(r) ==
  /\ req[r].pc = "join"
  /\ req[r].left = {}
  /\ LET rest == req[r].todo \ {req[r].who} IN
     req' = [req EXCEPT ![r].pc = IF rest = {} THEN "waiting" ELSE "give", ![r].todo = rest]
  /\ Private

BootOrders(r) ==
  /\ req[r].pc = "waiting"
  /\ LET todo == {o \in Orders : orders[o].state \in NotYetCollected /\ orders[o].by = NoOne} IN
     IF todo = {} THEN Return(r)
     ELSE req' = [req EXCEPT ![r].pc = "staff", ![r].todo = todo, ![r].seenOrders = orders]
  /\ Private

BootStaff(r) ==
  /\ req[r].pc = "staff"
  /\ req' = [req EXCEPT ![r].pc = "backfill", ![r].seenUsers = users, ![r].seenTowers = towers]
  /\ Private

Backfill(r, o) ==
  /\ req[r].pc = "backfill"
  /\ o \in req[r].todo
  /\ \E x \in ForBlock(req[r].seenTowers[req[r].seenOrders[o].tower], req[r].seenUsers) :
       PutOrder(o, [req[r].seenOrders[o] EXCEPT !.by = x])
  /\ Done(r, o)
  /\ UNCHANGED <<towers, users, started, faults, history>>

-----------------------------------------------------------------------------
(* The specification *)

\* The process stops, or a store call that nothing catches rejects.
Lose(r) ==
  /\ Active(r)
  /\ faults < MaxFaults
  /\ faults' = faults + 1
  /\ met' = met \union About(req[r])
  /\ Return(r)
  /\ UNCHANGED <<towers, users, orders, started, byHand, loose, unseen>>

\* An order as it may be in a tower whose list is given.
Arranged(list) ==
  {Absent} \union [state : {"scheduled", "collected"}, tower : {t \in Towers : list[t] = {}}, by : {NoOne}]
           \union UNION {[state : {"scheduled", "collected"}, tower : {t}, by : list[t]] : t \in Towers}

\* Operators were created with their towers, on both sides, and the orders there are have
\* gone to somebody of their tower.
Init ==
  /\ towers \in [Towers -> SUBSET Operators]
  /\ users = [x \in Operators |-> [status |-> "active", towers |-> {t \in Towers : x \in towers[t]}]]
  /\ orders \in [Orders -> Arranged(towers)]
  /\ req = [r \in Requests |-> Idle]
  /\ started = 0
  /\ faults = 0
  /\ byHand = {}
  /\ loose = {}
  /\ unseen = {}
  /\ met = {}

Arrive(r) ==
  \/ \E t \in Towers : BookStart(r, t) \/ \E list \in SUBSET Operators : SetStart(r, t, list)
  \/ BootStart(r)
  \/ \E x \in Operators :
       \/ \E list \in SUBSET Towers : PatchStart(r, x, list)
       \/ \E status \in Status : StatusStart(r, x, status)
       \/ \E status \in Status, to \in Operators \union {NoOne} : OffStart(r, x, status, to)
       \/ \E o \in Orders : ClaimStart(r, x, o) \/ AssignStart(r, o, x) \/ CollectStart(r, x, o)
  \/ \E o \in Orders :
       \/ AssignStart(r, o, NoOne)
       \/ CloseStart(r, o)
       \/ \E t \in Towers : RelocateStart(r, o, t)

Continue(r) ==
  \/ SetCheck(r) \/ SetPut(r) \/ TouchPut(r) \/ Cover(r) \/ Choose(r) \/ Find(r)
  \/ PatchPut(r) \/ PatchTowers(r) \/ OffPut(r) \/ OffOpen(r) \/ OffTarget(r) \/ OffRefused(r)
  \/ StatusPut(r) \/ Lookup(r)
  \/ BootOperators(r) \/ BootNext(r) \/ BootOrders(r) \/ BootStaff(r)
  \/ \E x \in Operators : TouchRead(r, x) \/ BootUser(r, x)
  \/ \E t \in Towers : Member(r, t) \/ BootTower(r, t)
  \/ \E o \in Orders :
       \/ Reassign(r, o) \/ HandRead(r, o) \/ HandPut(r, o) \/ Place(r, o)
       \/ RelocateFind(r, o) \/ RelocatePut(r, o) \/ Write(r, o) \/ Backfill(r, o)

Next == \E r \in Requests : Arrive(r) \/ Continue(r) \/ Lose(r)

Spec == Init /\ [][Next]_vars

-----------------------------------------------------------------------------
(* Properties *)

TypeOK ==
  /\ towers \in [Towers -> SUBSET Operators]
  /\ users \in [Operators -> User]
  /\ orders \in [Orders -> Order]
  /\ started \in 0..MaxRequests
  /\ faults \in 0..MaxFaults
  /\ byHand \subseteq Orders
  /\ loose \subseteq Towers
  /\ unseen \subseteq Operators
  /\ met \subseteq Operators \union Towers \union Orders

\* What no two requests were busy with at once and none is editing now.
Settled == (Operators \union Towers \union Orders)
             \ (met \union UNION {req[r].edits : r \in Requests})

\* The two sides of an assignment say the same: a tower lists an operator if and only if
\* his account, which his sessions read their scope from, lists the tower.
BothSidesAgree ==
  \A x \in Operators \intersect Settled, t \in Towers \intersect Settled :
    x \in towers[t] <=> t \in users[x].towers

\* An order that is not yet collected follows its tower: whoever has it covers the tower,
\* unless it was given to him by hand, or an edit of an operator's own blocks (which does
\* not look at orders) has taken him off the tower.
FollowsItsTower ==
  \A o \in Orders \intersect Settled :
    /\ orders[o].state = "scheduled"
    /\ orders[o].tower \in Settled \ loose
    /\ o \notin byHand
    => orders[o].by \in towers[orders[o].tower] \union {NoOne}

\* No open order is left with an operator who was blocked: what he held was handed over
\* with the change of his status, and nothing has come to him since; unless that change
\* did not get to his work: an administrator's edit does not look at it, and a refused
\* replacement is found out when the status is already put.  An order that operations gave
\* to somebody off duty, which its route does not refuse, is left out with the contested.
BlockedHoldNothing ==
  \A x \in (Operators \intersect Settled) \ unseen :
    users[x].status = "blocked" => HeldBy(x) \intersect Settled = {}

\* Once an order is collected, its tower and its operator are a record: nobody but who
\* hands it over by hand changes them, and it does not become uncollected again.
RecordsStay ==
  [][\A o \in Orders :
       orders[o].state = "collected" /\ o \notin met =>
         /\ orders'[o].state \in {"collected", "closed"}
         /\ orders'[o].tower = orders[o].tower
         /\ orders'[o].by = orders[o].by \/ o \in byHand']_vars

\* Not kept by the code.  Whatever changes the list of a tower, no order that is not yet
\* collected is left with somebody who no longer goes there (auto-assign.ts:7-11).
NobodyLeftBehind ==
  \A o \in Orders \intersect Settled :
    /\ orders[o].state = "scheduled"
    /\ orders[o].tower \in Settled
    /\ o \notin byHand
    => orders[o].by \in towers[orders[o].tower] \union {NoOne}

\* Not kept by the code.  The work of somebody who is taken off duty is moved in the same
\* step, so it is never left behind (staffing-service.ts:67-68, supervisor.ts:738-739).
NothingStranded ==
  \A x \in Operators \intersect Settled :
    users[x].status = "blocked" => HeldBy(x) \intersect Settled = {}

=============================================================================
