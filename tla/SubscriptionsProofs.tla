------------------------ MODULE SubscriptionsProofs ------------------------
(***************************************************************************)
(* For any subscriptions, plans, requests, runs of the renewal job and     *)
(* faults: no cycle is charged twice, and whatever is stored was paid; and *)
(* while nothing went wrong, usage adds up, a refund is the only one and   *)
(* the last of the service, and an end is an end.                          *)
(*                                                                         *)
(* The documents that are put back are stale, so the invariant is about    *)
(* every document there is, stored or held by a worker: its cycle was      *)
(* charged and its plan bought.  That a charge is the first one rests on   *)
(* the keys: a cycle was charged under its key, or no document is left     *)
(* that is from before it (Origin).                                        *)
(***************************************************************************)
EXTENDS Subscriptions, FiniteSetTheorems, TLAPS

Labels == {"idle", "subscribe", "create", "quoted", "prorate", "change", "keep", "pause", "refund",
           "cancel", "delete", "cover", "pick", "get", "deduct", "next", "bill", "roll", "expire"}

Jobs == [pc : Labels, sub : Subs \union {NoSub}, plan : Plans \union {NoPlan},
         order : Orders \union {NoOrder}, docs : [Subs -> SubDoc], todo : SUBSET Subs, immediate : BOOLEAN]

There(doc) == doc.status # "absent"

\* About to store a subscription of a new identity.
New(job) == job.pc \in {"subscribe", "create"}

\* Where a worker holds the document of its subscription.
Holding == {"subscribe", "create", "prorate", "change", "keep", "pause", "refund", "cancel", "cover",
            "deduct", "bill", "roll", "expire"}

Served(s, doc) == doc.plan \in bought[s] /\ billed[s][doc.end] > 0

\* What a worker holds was paid, but for what it is about to pay.
DocsAreRight(job) ==
  \A s \in Subs : There(job.docs[s]) =>
    /\ job.pc # "subscribe" => Served(s, job.docs[s])
    /\ IF New(job) THEN s = job.sub ELSE There(subs[s])
    /\ job.pc \in {"next", "bill", "roll", "expire"} => job.docs[s].end <= now

SubIsRight(job) ==
  /\ New(job) => job.sub \in Subs /\ ~There(subs[job.sub])
  /\ ~New(job) /\ job.sub \in Subs => There(subs[job.sub])
  /\ job.pc \in Holding => job.sub \in Subs /\ There(job.docs[job.sub])
  /\ job.pc \in {"pick", "get"} => job.sub \in Subs
  /\ job.pc \in {"cover", "pick", "get", "deduct"} => job.order \in Orders
  /\ job.pc \in {"delete", "next", "bill", "roll", "expire"} => \A s \in job.todo : There(job.docs[s])
  /\ job.pc \in {"bill", "roll", "expire"} => job.sub \notin job.todo

\* What a worker is about to pay is unpaid, and what it is about to store is paid.
MoneyIsRight(job) ==
  LET doc == job.docs[job.sub]
  IN  /\ job.pc = "subscribe" => bought[job.sub] = {} /\ doc.plan \in Plans
      /\ job.pc \in {"quoted", "prorate"} => job.plan \in Plans
      /\ job.pc = "change" /\ job.immediate => job.plan \in bought[job.sub]
      /\ job.pc = "bill" => Key(job.sub, doc.end) \in keys /\ billed[job.sub][doc.end + 1] = 0
      /\ job.pc = "roll" => billed[job.sub][doc.end + 1] > 0 /\ NextPlan(doc) \in bought[job.sub]

Knows(job) == DocsAreRight(job) /\ SubIsRight(job) /\ MoneyIsRight(job)

\* No two workers are about to make the same subscription, or to charge the same cycle.
Apart(v, w) ==
  /\ New(work[v]) /\ New(work[w]) => work[v].sub # work[w].sub
  /\ work[v].pc = "bill" /\ work[w].pc = "bill" =>
       Key(work[v].sub, Mine(v).end) # Key(work[w].sub, Mine(w).end)

WorkersAreRight == \A w \in Workers : Knows(work[w]) /\ \A v \in Workers \ {w} : Apart(v, w)

StoredIsServed == \A s \in Subs : There(subs[s]) => Served(s, subs[s])

Unbought == \A s \in Subs : bought[s] = {} => \A c \in Cycles : billed[s][c] = 0

\* No document of the subscription is from before the cycle.
Since(s, c) ==
  /\ There(subs[s]) => subs[s].end >= c
  /\ \A w \in Workers : There(work[w].docs[s]) => work[w].docs[s].end >= c

Origin ==
  \A s \in Subs, c \in Cycles : billed[s][c] > 0 => (c > 0 /\ Key(s, c - 1) \in keys) \/ Since(s, c)

IInv ==
  /\ TypeOK /\ work \in [Workers -> Jobs]
  /\ WorkersAreRight /\ StoredIsServed /\ Unbought /\ Origin /\ OneChargePerCycle

-----------------------------------------------------------------------------
(* Jobs *)

LEMMA Nones ==
  /\ Absent \in SubDoc /\ ~There(Absent)
  /\ Nothing \in [Subs -> SubDoc] /\ \A s \in Subs : Nothing[s] = Absent
  /\ Idle \in Jobs /\ Idle.pc = "idle" /\ Idle.sub = NoSub /\ Idle.docs = Nothing
BY BoundsAreNatural DEF Absent, SubDoc, Nothing, Idle, Jobs, Labels, Cycles, There

LEMMA Made ==
  ASSUME NEW pc \in Labels, NEW s \in Subs, NEW doc \in SubDoc
  PROVE  /\ Job(pc, s, doc) \in Jobs /\ Job(pc, s, doc).pc = pc /\ Job(pc, s, doc).sub = s
         /\ Job(pc, s, doc).docs = [Nothing EXCEPT ![s] = doc] /\ Job(pc, s, doc).todo = {}
BY Nones DEF Job, Jobs, Idle

LEMMA IdleKnows == ASSUME NEW w, work'[w] = Idle  PROVE Knows(work[w])'
<1>1. /\ work'[w].pc = "idle" /\ work'[w].sub = NoSub
      /\ \A s \in Subs : ~There(work'[w].docs[s])
  BY Nones
<1> QED
  BY <1>1, NoneIsNone DEF Knows, DocsAreRight, SubIsRight, MoneyIsRight, New, Holding, There

-----------------------------------------------------------------------------
(* The kinds of steps *)

\* Worker w takes a step.
Goes(w) == work' \in [Workers -> Jobs] /\ \A v \in Workers \ {w} : work'[v] = work[v]

\* Documents change hands, no money does.
LEMMA Moves ==
  ASSUME IInv, TypeOK', NEW w \in Workers, Goes(w),
         keys' = keys, billed' = billed, bought' = bought, now' = now,
         \A s \in Subs : There(subs[s]) => There(subs'[s]),
         \A s \in Subs : ~There(subs[s]) /\ There(subs'[s]) => New(work[w]) /\ s = work[w].sub,
         \A s \in Subs : There(subs'[s]) => Served(s, subs'[s]),
         \A s \in Subs : There(subs'[s]) =>
           \/ There(subs[s]) /\ subs'[s].end >= subs[s].end
           \/ There(work[w].docs[s]) /\ subs'[s].end >= work[w].docs[s].end,
         \A s \in Subs : There(work'[w].docs[s]) =>
           \/ There(subs[s]) /\ work'[w].docs[s].end >= subs[s].end
           \/ There(work[w].docs[s]) /\ work'[w].docs[s].end >= work[w].docs[s].end
           \/ bought[s] = {},
         Knows(work[w])', work'[w].pc # "bill",
         New(work'[w]) => \A v \in Workers \ {w} : New(work[v]) => work[v].sub # work'[w].sub
  PROVE  IInv'
<1>1. ASSUME NEW v \in Workers \ {w}  PROVE Knows(work[v])'
  <2>0. Knows(work[v]) /\ work'[v] = work[v] /\ Apart(v, w) /\ Apart(w, v)
    BY DEF IInv, WorkersAreRight, Goes
  <2>1. DocsAreRight(work[v])'
    BY <2>0 DEF Knows, DocsAreRight, Served, New
  <2>2. SubIsRight(work[v])'
    BY <2>0 DEF Knows, SubIsRight, New, Apart
  <2>3. MoneyIsRight(work[v])'
    BY <2>0 DEF Knows, MoneyIsRight
  <2> QED
    BY <2>1, <2>2, <2>3 DEF Knows
<1>2. ASSUME NEW v \in Workers, NEW u \in Workers \ {v}  PROVE Apart(u, v)'
  <2>1. CASE u # w /\ v # w
    BY <2>1 DEF IInv, WorkersAreRight, Goes, Apart, New, Mine
  <2>2. CASE u = w \/ v = w
    BY <2>2 DEF Goes, Apart, New, Mine
  <2> QED
    BY <2>1, <2>2
<1>3. WorkersAreRight'
  BY <1>1, <1>2 DEF WorkersAreRight
<1>4. StoredIsServed' /\ Unbought' /\ OneChargePerCycle'
  BY DEF IInv, StoredIsServed, Served, Unbought, OneChargePerCycle
<1>5. Origin'
  <2> SUFFICES ASSUME NEW s \in Subs, NEW c \in Cycles, billed[s][c] > 0, Since(s, c)
               PROVE  Since(s, c)'
    BY DEF IInv, Origin
  <2>0. /\ subs \in [Subs -> SubDoc] /\ subs' \in [Subs -> SubDoc]
        /\ work \in [Workers -> Jobs] /\ work' \in [Workers -> Jobs]
    BY DEF IInv, TypeOK, Goes
  <2>1. /\ subs[s].end \in Nat /\ subs'[s].end \in Nat /\ c \in Nat
        /\ work[w].docs[s].end \in Nat /\ work'[w].docs[s].end \in Nat
    BY <2>0, BoundsAreNatural DEF SubDoc, Jobs, Cycles
  <2>2. There(subs[s]) => subs[s].end >= c
    BY DEF Since
  <2>3. There(work[w].docs[s]) => work[w].docs[s].end >= c
    BY DEF Since
  <2>4. bought[s] # {}
    <3>1. billed[s][c] # 0
      OBVIOUS
    <3> QED
      BY <3>1 DEF IInv, Unbought
  <2>5. There(subs'[s]) => subs'[s].end >= c
    BY <2>1, <2>2, <2>3
  <2>6. There(work'[w].docs[s]) => work'[w].docs[s].end >= c
    BY <2>1, <2>2, <2>3, <2>4
  <2>7. ASSUME NEW v \in Workers \ {w}, There(work'[v].docs[s])  PROVE work'[v].docs[s].end >= c
    BY <2>7 DEF Goes, Since
  <2> QED
    BY <2>5, <2>6, <2>7 DEF Since
<1> QED
  BY <1>3, <1>4, <1>5 DEF IInv, Goes

\* Worker w puts the document of s it holds, or a later one.
LEMMA Puts ==
  ASSUME IInv, TypeOK', NEW w \in Workers, Goes(w),
         keys' = keys, billed' = billed, bought' = bought, now' = now,
         NEW s \in Subs, NEW doc \in SubDoc, subs' = [subs EXCEPT ![s] = doc],
         There(doc), Served(s, doc), There(work[w].docs[s]), doc.end >= work[w].docs[s].end,
         \A t \in Subs : There(work'[w].docs[t]) => work'[w].docs[t] = work[w].docs[t],
         Knows(work[w])', work'[w].pc # "bill", ~New(work'[w])
  PROVE  IInv'
<1>1. subs \in [Subs -> SubDoc] /\ work \in [Workers -> Jobs] /\ work'[w] \in Jobs /\ Knows(work[w])
  BY DEF IInv, TypeOK, WorkersAreRight, Goes
<1>2. subs'[s] = doc /\ \A t \in Subs \ {s} : subs'[t] = subs[t]
  BY <1>1
<1>3. ~There(subs[s]) => New(work[w]) /\ s = work[w].sub
  BY <1>1 DEF Knows, DocsAreRight
<1>4. ASSUME NEW t \in Subs
      PROVE  subs[t].end >= subs[t].end /\ work[w].docs[t].end >= work[w].docs[t].end
  BY <1>1, BoundsAreNatural DEF Jobs, SubDoc, Cycles
<1>5. \A t \in Subs : There(subs'[t]) => Served(t, subs'[t])
  BY <1>2 DEF IInv, StoredIsServed
<1>6. \A t \in Subs : There(subs'[t]) =>
        \/ There(subs[t]) /\ subs'[t].end >= subs[t].end
        \/ There(work[w].docs[t]) /\ subs'[t].end >= work[w].docs[t].end
  BY <1>2, <1>4
<1>7. \A t \in Subs : There(work'[w].docs[t]) =>
        \/ There(subs[t]) /\ work'[w].docs[t].end >= subs[t].end
        \/ There(work[w].docs[t]) /\ work'[w].docs[t].end >= work[w].docs[t].end
        \/ bought[t] = {}
  BY <1>4
<1>8. /\ \A t \in Subs : There(subs[t]) => There(subs'[t])
      /\ \A t \in Subs : ~There(subs[t]) /\ There(subs'[t]) => New(work[w]) /\ t = work[w].sub
  BY <1>2, <1>3
<1> QED
  BY <1>5, <1>6, <1>7, <1>8, Moves

\* Worker w reads, drops what it read, or goes on with it; nothing stored changes.
LEMMA Reads ==
  ASSUME IInv, TypeOK', NEW w \in Workers, Goes(w),
         subs' = subs, keys' = keys, billed' = billed, bought' = bought, now' = now,
         \A t \in Subs : There(work'[w].docs[t]) =>
            \/ work'[w].docs[t] = subs[t]
            \/ work'[w].docs[t] = work[w].docs[t]
            \/ bought[t] = {},
         Knows(work[w])', work'[w].pc # "bill",
         New(work'[w]) => \A v \in Workers \ {w} : New(work[v]) => work[v].sub # work'[w].sub
  PROVE  IInv'
<1>1. subs \in [Subs -> SubDoc] /\ work \in [Workers -> Jobs]
  BY DEF IInv, TypeOK
<1>2. ASSUME NEW t \in Subs
      PROVE  subs[t].end >= subs[t].end /\ work[w].docs[t].end >= work[w].docs[t].end
  BY <1>1, BoundsAreNatural DEF Jobs, SubDoc, Cycles
<1>3. \A t \in Subs : There(work'[w].docs[t]) =>
        \/ There(subs[t]) /\ work'[w].docs[t].end >= subs[t].end
        \/ There(work[w].docs[t]) /\ work'[w].docs[t].end >= work[w].docs[t].end
        \/ bought[t] = {}
  BY <1>2
<1>4. \A t \in Subs : There(subs'[t]) => Served(t, subs'[t]) /\ There(subs[t]) /\ subs'[t].end >= subs[t].end
  BY <1>2 DEF IInv, StoredIsServed
<1> QED
  BY <1>3, <1>4, Moves

\* Worker w buys plan p of s, and may charge cycle c for it.
LEMMA Pays ==
  ASSUME IInv, TypeOK', NEW w \in Workers, Goes(w),
         subs' = subs, keys' = keys, now' = now,
         NEW s \in Subs, NEW p, s = work[w].sub, bought' = [bought EXCEPT ![s] = @ \union {p}],
         NEW c \in Cycles,
         \/ billed' = billed
         \/ /\ billed' = [billed EXCEPT ![s][c] = @ + 1] /\ billed[s][c] = 0
            /\ (c > 0 /\ Key(s, c - 1) \in keys) \/ Since(s, c)
            /\ \A v \in Workers \ {w} :
                 work[v].pc = "bill" => ~(work[v].sub = s /\ Mine(v).end + 1 = c),
         \A v \in Workers \ {w} : New(work[v]) => work[v].sub # s,
         work'[w].docs = work[w].docs, work'[w].sub = s, New(work'[w]) => New(work[w]),
         Knows(work[w])', work'[w].pc # "bill"
  PROVE  IInv'
<1>0. /\ bought \in [Subs -> SUBSET Plans] /\ billed \in [Subs -> [Cycles -> Nat]]
      /\ subs \in [Subs -> SubDoc] /\ work \in [Workers -> Jobs]
  BY DEF IInv, TypeOK
<1>1. /\ \A t \in Subs : bought[t] \subseteq bought'[t] /\ (t # s => bought'[t] = bought[t])
      /\ bought'[s] # {}
  BY <1>0
<1>2. ASSUME NEW t \in Subs, NEW d \in Cycles
      PROVE  /\ billed'[t][d] = billed[t][d] \/ (t = s /\ d = c /\ billed[t][d] = 0 /\ billed'[t][d] = 1)
             /\ billed[t][d] > 0 => billed'[t][d] > 0
             /\ billed[t][d] \in Nat
  BY <1>0
<1>3. ASSUME NEW v \in Workers \ {w}  PROVE Knows(work[v])'
  <2>0. Knows(work[v]) /\ work'[v] = work[v] /\ work[v] \in Jobs
    BY <1>0 DEF IInv, WorkersAreRight, Goes
  <2>1. DocsAreRight(work[v])'
    <3> SUFFICES ASSUME NEW t \in Subs, There(work[v].docs[t])
                 PROVE  /\ work[v].pc # "subscribe" => work[v].docs[t].plan \in bought'[t] /\ billed'[t][work[v].docs[t].end] > 0
                        /\ IF New(work[v]) THEN t = work[v].sub ELSE There(subs[t])
                        /\ work[v].pc \in {"next", "bill", "roll", "expire"} => work[v].docs[t].end <= now
      BY <2>0 DEF DocsAreRight, Served, New
    <3>1. work[v].docs[t].end \in Cycles
      BY <2>0 DEF Jobs, SubDoc
    <3> QED
      BY <1>1, <1>2, <2>0, <3>1 DEF Knows, DocsAreRight, Served
  <2>2. SubIsRight(work[v])'
    BY <2>0 DEF Knows, SubIsRight, New
  <2>3. MoneyIsRight(work[v])'
    <3>1. work[v].pc = "subscribe" => bought'[work[v].sub] = {} /\ work[v].docs[work[v].sub].plan \in Plans
      BY <1>1, <2>0 DEF Knows, SubIsRight, MoneyIsRight, New
    <3>2. CASE work[v].pc \in {"bill", "roll"}
      <4>1. work[v].sub \in Subs /\ Mine(v) \in SubDoc /\ Mine(v).end <= now
        BY <2>0, <3>2 DEF Knows, SubIsRight, DocsAreRight, Holding, Jobs, Mine
      <4>2. Mine(v).end + 1 \in Cycles
        <5>1. now \in 0..MaxTime /\ Mine(v).end \in 0..(MaxTime + 1)
          BY <4>1 DEF SubDoc, Cycles, IInv, TypeOK
        <5> QED
          BY <4>1, <5>1, BoundsAreNatural DEF Cycles
      <4>3. work[v].pc = "bill" => billed'[work[v].sub][Mine(v).end + 1] = billed[work[v].sub][Mine(v).end + 1]
        BY <1>2, <4>1, <4>2
      <4> QED
        BY <1>1, <1>2, <2>0, <3>2, <4>1, <4>2, <4>3 DEF Knows, MoneyIsRight, Mine
    <3>3. CASE work[v].pc \notin {"bill", "roll"}
      <4>1. work[v].pc = "change" => work[v].sub \in Subs
        BY <2>0 DEF Knows, SubIsRight, Holding
      <4> QED
        BY <1>1, <2>0, <3>1, <3>3, <4>1 DEF Knows, MoneyIsRight
    <3> QED
      BY <3>2, <3>3
  <2> QED
    BY <2>1, <2>2, <2>3 DEF Knows
<1>4. ASSUME NEW v \in Workers, NEW u \in Workers \ {v}  PROVE Apart(u, v)'
  BY DEF IInv, WorkersAreRight, Goes, Apart, New, Mine
<1>5. WorkersAreRight'
  BY <1>3, <1>4 DEF WorkersAreRight
<1>6. StoredIsServed'
  <2> SUFFICES ASSUME NEW t \in Subs, There(subs[t])
               PROVE  subs[t].plan \in bought'[t] /\ billed'[t][subs[t].end] > 0
    BY DEF StoredIsServed, Served
  <2>1. subs[t].end \in Cycles
    BY <1>0 DEF SubDoc
  <2> QED
    BY <1>1, <1>2, <2>1 DEF IInv, StoredIsServed, Served
<1>7. Unbought'
  <2> SUFFICES ASSUME NEW t \in Subs, bought'[t] = {}, NEW d \in Cycles  PROVE billed'[t][d] = 0
    BY DEF Unbought
  <2>1. t # s /\ bought[t] = {}
    BY <1>1
  <2>2. billed[t][d] = 0
    BY <2>1 DEF IInv, Unbought
  <2> QED
    BY <1>2, <2>1, <2>2
<1>8. OneChargePerCycle'
  BY <1>2 DEF IInv, OneChargePerCycle
<1>9. Origin'
  <2> SUFFICES ASSUME NEW t \in Subs, NEW d \in Cycles, billed'[t][d] > 0
               PROVE  (d > 0 /\ Key(t, d - 1) \in keys) \/ Since(t, d)'
    BY DEF Origin
  <2>1. (d > 0 /\ Key(t, d - 1) \in keys) \/ Since(t, d)
    BY <1>2 DEF IInv, Origin
  <2>2. \A v \in Workers : work'[v].docs = work[v].docs
    BY DEF Goes
  <2> QED
    BY <2>1, <2>2 DEF Since
<1> QED
  BY <1>5, <1>6, <1>7, <1>8, <1>9 DEF IInv, Goes

-----------------------------------------------------------------------------
(* How workers go on *)

LEMMA GotoMakes ==
  ASSUME IInv, NEW w \in Workers, NEW pc \in Labels, Goto(w, pc)
  PROVE  /\ Goes(w) /\ work'[w].pc = pc /\ work'[w].sub = work[w].sub /\ work'[w].docs = work[w].docs
         /\ work'[w].plan = work[w].plan /\ work'[w].order = work[w].order
         /\ work'[w].todo = work[w].todo /\ work'[w].immediate = work[w].immediate
BY DEF IInv, Goto, Goes, Jobs

LEMMA ReturnMakes == ASSUME IInv, NEW w \in Workers, Return(w)  PROVE Goes(w) /\ work'[w] = Idle
BY Nones DEF IInv, Return, Goes

LEMMA BeginMakes ==
  ASSUME IInv, NEW w \in Workers, NEW job \in Jobs, work' = [work EXCEPT ![w] = job]
  PROVE  Goes(w) /\ work'[w] = job
BY DEF IInv, Goes

LEMMA StillTyped ==
  ASSUME IInv, UNCHANGED <<subs, keys, collected, billed, bought, refunded, now>>, calm' \in BOOLEAN
  PROVE  TypeOK'
BY DEF IInv, TypeOK

\* What is known of a job and of the tables.
LEMMA Known ==
  ASSUME IInv, NEW w \in Workers
  PROVE  /\ work[w] \in Jobs /\ Knows(work[w]) /\ subs \in [Subs -> SubDoc]
         /\ \A s \in Subs : There(work[w].docs[s]) /\ work[w].pc # "subscribe" => Served(s, work[w].docs[s])
         /\ calm \in BOOLEAN /\ now \in Nat
BY BoundsAreNatural DEF IInv, TypeOK, WorkersAreRight, Knows, DocsAreRight

LEMMA Returns ==
  ASSUME IInv, TypeOK', NEW w \in Workers, Return(w), UNCHANGED <<subs, keys, billed, bought, now>>
  PROVE  IInv'
<1>1. Goes(w) /\ work'[w] = Idle
  BY ReturnMakes
<1>2. work'[w].pc = "idle" /\ \A s \in Subs : ~There(work'[w].docs[s])
  BY <1>1, Nones
<1> QED
  BY <1>1, <1>2, IdleKnows, Reads DEF New

\* A put that ends a request.
LEMMA Stores ==
  ASSUME IInv, NEW r \in Workers, NEW pc \in Holding \ {"subscribe"}, NEW doc \in SubDoc, Store(r, pc, doc),
         There(doc), Served(work[r].sub, doc), doc.end = Mine(r).end
  PROVE  IInv'
<1>1. Goes(r) /\ work'[r] = Idle
  BY ReturnMakes DEF Store
<1>2. /\ work'[r].pc = "idle" /\ \A s \in Subs : ~There(work'[r].docs[s])
  BY <1>1, Nones
<1>3. work[r].sub \in Subs /\ There(Mine(r)) /\ Mine(r) \in SubDoc
  BY Known DEF Store, Knows, SubIsRight, Mine, Jobs
<1>4. doc.end >= Mine(r).end
  BY <1>3 DEF SubDoc, Cycles
<1>5. TypeOK'
  BY <1>3 DEF IInv, TypeOK, Store, Put
<1> QED
  BY <1>1, <1>2, <1>3, <1>4, <1>5, IdleKnows, Puts DEF Store, Put, Mine, New

-----------------------------------------------------------------------------
(* Requests begin *)

\* A request that begins with the document of s.
LEMMA StartsKeep ==
  ASSUME IInv, NEW r \in Workers, NEW s \in Subs, There(subs[s]), NEW job \in Jobs,
         job.pc \in {"keep", "pause", "refund", "cover"}, job.sub = s,
         job.docs = [Nothing EXCEPT ![s] = subs[s]], job.pc = "cover" => job.order \in Orders,
         Begin(r, {s}, job)
  PROVE  IInv'
<1>1. Goes(r) /\ work'[r] = job
  BY BeginMakes DEF Begin
<1>2. TypeOK'
  BY StillTyped, Known DEF Begin, Disturb
<1>3. job.docs[s] = subs[s] /\ \A t \in Subs \ {s} : ~There(job.docs[t])
  BY Nones
<1>4. Served(s, subs[s])
  BY DEF IInv, StoredIsServed
<1>5. Knows(work[r])'
  BY <1>1, <1>3, <1>4 DEF Begin, Knows, DocsAreRight, SubIsRight, MoneyIsRight, Served, New, Holding
<1> QED
  BY <1>1, <1>2, <1>3, <1>5, Reads DEF Begin, New

LEMMA SubscribeStartKeeps ==
  ASSUME IInv, NEW r \in Workers, NEW s \in Subs, NEW p \in Plans, SubscribeStart(r, s, p)
  PROVE  IInv'
<1> DEFINE job == Job("subscribe", s, Fresh(p))
<1>0. now + 1 \in Cycles
  <2>1. now \in 0..MaxTime
    BY DEF IInv, TypeOK
  <2> QED
    BY <2>1, BoundsAreNatural DEF Cycles
<1>1. Fresh(p) \in SubDoc /\ There(Fresh(p)) /\ Fresh(p).plan = p
  BY <1>0, Nones DEF Fresh, SubDoc, There
<1>2. /\ job \in Jobs /\ job.pc = "subscribe" /\ job.sub = s /\ job.docs = [Nothing EXCEPT ![s] = Fresh(p)]
  BY <1>1, Made DEF Labels
<1>3. Begin(r, {s}, job) /\ bought[s] = {} /\ ~There(subs[s]) /\ \A v \in Workers : work[v].sub # s
  BY DEF SubscribeStart, There
<1> HIDE DEF job
<1>4. Goes(r) /\ work'[r] = job
  BY <1>2, <1>3, BeginMakes DEF Begin
<1>5. TypeOK'
  BY <1>3, StillTyped, Known DEF Begin, Disturb
<1>6. job.docs[s] = Fresh(p) /\ \A t \in Subs \ {s} : ~There(job.docs[t])
  BY <1>2, Nones
<1>7. Knows(work[r])'
  BY <1>1, <1>2, <1>3, <1>4, <1>6 DEF Begin, Knows, DocsAreRight, SubIsRight, MoneyIsRight, New, Holding
<1> QED
  BY <1>2, <1>3, <1>4, <1>5, <1>6, <1>7, Reads DEF Begin

LEMMA ChangeStartKeeps ==
  ASSUME IInv, NEW r \in Workers, NEW s \in Subs, NEW p \in Plans, ChangeStart(r, s, p)
  PROVE  IInv'
<1> DEFINE made == Job("quoted", s, Absent)
           job == [made EXCEPT !.plan = p, !.immediate = Upgrade(subs[s], p)]
<1>1. /\ made \in Jobs /\ made.pc = "quoted" /\ made.sub = s /\ made.docs = [Nothing EXCEPT ![s] = Absent]
      /\ made.todo = {}
  <2>1. "quoted" \in Labels /\ Absent \in SubDoc
    BY Nones DEF Labels
  <2>2. \A pc \in Labels, t \in Subs, doc \in SubDoc :
          /\ Job(pc, t, doc) \in Jobs /\ Job(pc, t, doc).pc = pc /\ Job(pc, t, doc).sub = t
          /\ Job(pc, t, doc).docs = [Nothing EXCEPT ![t] = doc] /\ Job(pc, t, doc).todo = {}
    BY Made
  <2> QED
    BY <2>1, <2>2
<1>2. Begin(r, {s}, job) /\ There(subs[s])
  BY DEF ChangeStart, Current, There
<1>3. Upgrade(subs[s], p) \in BOOLEAN
  BY DEF Upgrade
<1> HIDE DEF made
<1>4. /\ job \in Jobs /\ job.pc = "quoted" /\ job.sub = s /\ job.plan = p
      /\ \A t \in Subs : ~There(job.docs[t])
  BY <1>1, <1>3, Nones DEF Jobs
<1> HIDE DEF job
<1>5. Goes(r) /\ work'[r] = job
  BY <1>2, <1>4, BeginMakes DEF Begin
<1>6. TypeOK'
  BY <1>2, StillTyped, Known DEF Begin, Disturb
<1>7. Knows(work[r])'
  BY <1>2, <1>4, <1>5 DEF Begin, Knows, DocsAreRight, SubIsRight, MoneyIsRight, New, Holding
<1> QED
  BY <1>2, <1>4, <1>5, <1>6, <1>7, Reads DEF Begin, New

LEMMA ReadMakes ==
  ASSUME IInv, NEW found \in SUBSET Subs, \A s \in found : There(subs[s])
  PROVE  /\ Read(found) \in [Subs -> SubDoc]
         /\ \A s \in Subs : There(Read(found)[s]) => s \in found
         /\ \A s \in found : Read(found)[s] = subs[s] /\ There(Read(found)[s]) /\ Served(s, Read(found)[s])
BY Nones DEF IInv, TypeOK, StoredIsServed, Read

LEMMA DeleteStartKeeps ==
  ASSUME IInv, NEW r \in Workers, DeleteStart(r)
  PROVE  IInv'
<1> DEFINE found == {s \in Subs : subs[s].status = "active"}
           job == [Idle EXCEPT !.pc = "delete", !.todo = found, !.docs = Read(found)]
<1>1. \A s \in found : There(subs[s])
  BY DEF There
<1>2. Begin(r, found, job)
  BY DEF DeleteStart
<1> HIDE DEF found
<1>3. found \in SUBSET Subs
  BY DEF found
<1>4. job \in Jobs /\ job.pc = "delete" /\ job.docs = Read(found) /\ job.todo = found /\ job.sub = NoSub
  BY <1>1, <1>3, ReadMakes, Nones DEF Jobs, Labels
<1> HIDE DEF job
<1>5. Goes(r) /\ work'[r] = job
  BY <1>2, <1>4, BeginMakes DEF Begin
<1>6. TypeOK'
  BY <1>2, StillTyped, Known DEF Begin, Disturb
<1>7. Knows(work[r])'
  BY <1>1, <1>2, <1>3, <1>4, <1>5, ReadMakes, NoneIsNone
     DEF Begin, Knows, DocsAreRight, SubIsRight, MoneyIsRight, New, Holding, Served
<1> QED
  BY <1>1, <1>2, <1>3, <1>4, <1>5, <1>6, <1>7, ReadMakes, Reads DEF Begin, New

LEMMA ArriveKeeps ==
  ASSUME IInv, NEW r \in Workers, Arrive(r)
  PROVE  IInv'
<1>1. ASSUME NEW s \in Subs, KeepStart(r, s) \/ PauseStart(r, s) \/ CancelStart(r, s)  PROVE IInv'
  <2>1. subs[s] \in SubDoc /\ There(subs[s])
    BY <1>1, Known DEF KeepStart, PauseStart, CancelStart, Current, There
  <2>2. PICK pc \in {"keep", "pause", "refund"} : Begin(r, {s}, Job(pc, s, subs[s]))
    BY <1>1 DEF KeepStart, PauseStart, CancelStart
  <2> DEFINE job == Job(pc, s, subs[s])
  <2>3. pc \in Labels
    BY DEF Labels
  <2>4. job \in Jobs /\ job.pc = pc /\ job.sub = s /\ job.docs = [Nothing EXCEPT ![s] = subs[s]]
    BY <2>1, <2>3, Made
  <2>5. Begin(r, {s}, job)
    BY <2>2
  <2> HIDE DEF job
  <2> QED
    BY <2>1, <2>2, <2>4, <2>5, StartsKeep
<1>2. ASSUME NEW s \in Subs, NEW o \in Orders, CollectStart(r, s, o)  PROVE IInv'
  <2> DEFINE made == Job("cover", s, subs[s])
             job == [made EXCEPT !.order = o]
  <2>1. subs[s] \in SubDoc /\ There(subs[s]) /\ Begin(r, {s}, job)
    BY <1>2, Known DEF CollectStart, There
  <2>2. made \in Jobs /\ made.pc = "cover" /\ made.sub = s /\ made.docs = [Nothing EXCEPT ![s] = subs[s]]
    BY <2>1, Made DEF Labels
  <2> HIDE DEF made
  <2>3. /\ job \in Jobs /\ job.pc = "cover" /\ job.sub = s /\ job.docs = [Nothing EXCEPT ![s] = subs[s]]
        /\ job.order = o
    BY <2>2 DEF Jobs
  <2> HIDE DEF job
  <2> QED
    BY <2>1, <2>3, StartsKeep
<1> QED
  BY <1>1, <1>2, SubscribeStartKeeps, ChangeStartKeeps, DeleteStartKeeps DEF Arrive

-----------------------------------------------------------------------------
(* Requests go on *)

\* The document a worker is about to put back.
LEMMA MineIsServed ==
  ASSUME IInv, NEW r \in Workers, work[r].pc \in Holding
  PROVE  /\ work[r].sub \in Subs /\ Mine(r) \in SubDoc /\ There(Mine(r)) /\ Mine(r).plan \in Plans
         /\ work[r].pc # "subscribe" => Served(work[r].sub, Mine(r))
         /\ ~New(work[r]) => There(subs[work[r].sub])
<1>1. work[r].sub \in Subs /\ Mine(r) \in SubDoc /\ There(Mine(r))
  BY Known DEF Knows, SubIsRight, Mine, Jobs
<1>2. work[r].pc # "subscribe" => Served(work[r].sub, Mine(r))
  BY <1>1, Known DEF Mine
<1>3. bought[work[r].sub] \subseteq Plans
  BY <1>1 DEF IInv, TypeOK
<1>4. work[r].pc = "subscribe" => Mine(r).plan \in Plans
  BY Known DEF Knows, MoneyIsRight, Mine
<1> QED
  BY <1>1, <1>2, <1>3, <1>4, Known DEF Served, Knows, SubIsRight

LEMMA SubscribeChargeKeeps ==
  ASSUME IInv, NEW r \in Workers, NEW covered \in BOOLEAN, SubscribeCharge(r, covered)
  PROVE  IInv'
<1> DEFINE s == work[r].sub
           c == Mine(r).end
           p == Mine(r).plan
<1>1. /\ work[r].pc = "subscribe" /\ New(work[r]) /\ s \in Subs /\ Mine(r) \in SubDoc /\ There(Mine(r))
      /\ p \in Plans /\ c \in Cycles
  BY MineIsServed DEF SubscribeCharge, Holding, New, SubDoc
<1>2. bought[s] = {} /\ ~There(subs[s]) /\ \A d \in Cycles : billed[s][d] = 0
  BY <1>1, Known DEF Knows, MoneyIsRight, SubIsRight, IInv, Unbought
<1>3. CASE ~covered
  <2>1. Return(r) /\ UNCHANGED <<subs, keys, collected, billed, bought, refunded, now, calm>>
    BY <1>3 DEF SubscribeCharge
  <2> QED
    BY <2>1, StillTyped, Known, Returns
<1>4. CASE covered
  <2>1. /\ billed' = [billed EXCEPT ![s][c] = @ + 1] /\ bought' = [bought EXCEPT ![s] = @ \union {p}]
        /\ Goto(r, "create")
        /\ UNCHANGED <<subs, keys, collected, refunded, now, calm>>
    BY <1>4 DEF SubscribeCharge, Bill, Buy
  <2>2. /\ Goes(r) /\ work'[r].pc = "create" /\ work'[r].sub = s /\ work'[r].docs = work[r].docs
    BY <2>1, GotoMakes DEF Labels
  <2>3. TypeOK'
    BY <1>1, <2>1 DEF IInv, TypeOK
  <2>4. ASSUME NEW v \in Workers \ {r}
        PROVE  ~There(work[v].docs[s]) /\ work[v].sub # s
    <3>1. Knows(work[v]) /\ Apart(v, r)
      BY DEF IInv, WorkersAreRight
    <3> QED
      BY <1>1, <1>2, <3>1 DEF Knows, DocsAreRight, SubIsRight, Apart
  <2>5. Since(s, c)
    <3>1. c >= c
      BY <1>1 DEF Cycles
    <3> QED
      BY <1>2, <2>4, <3>1 DEF Since, Mine
  <2>6. Knows(work[r])'
    <3>1. p \in bought'[s] /\ billed'[s][c] > 0
      BY <1>1, <1>2, <2>1 DEF IInv, TypeOK
    <3>2. \A t \in Subs : There(work[r].docs[t]) => t = s
      BY <1>1, Known DEF Knows, DocsAreRight
    <3>3. DocsAreRight(work[r])'
      BY <2>1, <2>2, <3>1, <3>2 DEF DocsAreRight, Served, New, Mine
    <3>4. SubIsRight(work[r])'
      BY <1>1, <1>2, <2>1, <2>2 DEF SubIsRight, New, Holding, Mine
    <3>5. MoneyIsRight(work[r])'
      BY <2>2 DEF MoneyIsRight
    <3> QED
      BY <3>3, <3>4, <3>5 DEF Knows
  <2>7. billed[s][c] = 0
    BY <1>1, <1>2
  <2> HIDE DEF c, p
  <2>8. c \in Cycles
    BY <1>1 DEF c
  <2>9. /\ \A v \in Workers \ {r} : New(work[v]) => work[v].sub # s
        /\ \A v \in Workers \ {r} :
             work[v].pc = "bill" => ~(work[v].sub = s /\ Mine(v).end + 1 = c)
        /\ subs' = subs /\ keys' = keys /\ now' = now
    BY <2>1, <2>4
  <2>10. \/ billed' = billed
         \/ /\ billed' = [billed EXCEPT ![s][c] = @ + 1] /\ billed[s][c] = 0
            /\ (c > 0 /\ Key(s, c - 1) \in keys) \/ Since(s, c)
            /\ \A v \in Workers \ {r} :
                 work[v].pc = "bill" => ~(work[v].sub = s /\ Mine(v).end + 1 = c)
    BY <2>1, <2>5, <2>7, <2>9
  <2>11. s \in Subs /\ New(work[r]) /\ bought' = [bought EXCEPT ![s] = @ \union {p}] /\ work'[r].pc # "bill"
    BY <1>1, <2>1, <2>2
  <2> QED
    BY <2>2, <2>3, <2>6, <2>8, <2>9, <2>10, <2>11, Pays
<1> QED
  BY <1>3, <1>4

\* The puts that end a request.
LEMMA StorePutsKeep ==
  ASSUME IInv, NEW r \in Workers,
         SubscribePut(r) \/ ChangePut(r) \/ KeepPut(r) \/ PausePut(r) \/ CancelPut(r) \/ DeductPut(r)
  PROVE  IInv'
<1> DEFINE m == Mine(r)
           s == work[r].sub
<1>1. work[r].pc \in {"create", "change", "keep", "pause", "cancel", "deduct"}
  BY DEF SubscribePut, ChangePut, KeepPut, PausePut, CancelPut, DeductPut, Store
<1>2. /\ s \in Subs /\ m \in SubDoc /\ There(m) /\ m.plan \in Plans
      /\ m.plan \in bought[s] /\ billed[s][m.end] > 0
  BY <1>1, MineIsServed DEF Holding, Served
<1>3. ASSUME NEW pc \in {"create", "change", "keep", "pause", "cancel", "deduct"}, NEW doc \in SubDoc,
             Store(r, pc, doc), There(doc), doc.plan \in bought[s], doc.end = m.end
      PROVE  IInv'
  <2>1. pc \in Holding \ {"subscribe"}
    BY DEF Holding
  <2>2. Served(s, doc)
    BY <1>2, <1>3 DEF Served
  <2> QED
    BY <1>3, <2>1, <2>2, Stores
<1>4. CASE SubscribePut(r)
  BY <1>2, <1>3, <1>4 DEF SubscribePut
<1>5. CASE ChangePut(r)
  <2>1. /\ work[r].immediate \in BOOLEAN /\ work[r].plan \in Plans \union {NoPlan}
        /\ work[r].immediate => work[r].plan \in bought[s] /\ work[r].plan \in Plans
    BY <1>2, <1>5, Known DEF Jobs, ChangePut, Store, Knows, MoneyIsRight, IInv, TypeOK
  <2> HIDE DEF m
  <2>2. CASE work[r].immediate
    <3> DEFINE doc == [m EXCEPT !.plan = work[r].plan, !.pending = NoPlan]
    <3>1. doc \in SubDoc /\ There(doc) /\ doc.plan = work[r].plan /\ doc.end = m.end
      BY <1>2, <2>1, <2>2 DEF SubDoc, There
    <3>2. Store(r, "change", doc)
      BY <1>5, <2>2 DEF ChangePut, m
    <3> HIDE DEF doc
    <3> QED
      BY <1>3, <2>1, <2>2, <3>1, <3>2
  <2>3. CASE ~work[r].immediate
    <3> DEFINE doc == [m EXCEPT !.pending = work[r].plan]
    <3>1. doc \in SubDoc /\ There(doc) /\ doc.plan = m.plan /\ doc.end = m.end
      BY <1>2, <2>1 DEF SubDoc, There
    <3>2. Store(r, "change", doc)
      BY <1>5, <2>3 DEF ChangePut, m
    <3> HIDE DEF doc
    <3> QED
      BY <1>2, <1>3, <3>1, <3>2
  <2> QED
    BY <2>2, <2>3
<1>6. CASE KeepPut(r)
  <2> DEFINE doc == [m EXCEPT !.pending = NoPlan]
  <2>1. doc \in SubDoc /\ There(doc) /\ doc.plan = m.plan /\ doc.end = m.end
    BY <1>2 DEF SubDoc, There
  <2>2. Store(r, "keep", doc)
    BY <1>6 DEF KeepPut
  <2> HIDE DEF doc
  <2> QED
    BY <1>2, <1>3, <2>1, <2>2
<1>7. CASE PausePut(r)
  <2> DEFINE doc == [m EXCEPT !.status = "paused"]
  <2>1. doc \in SubDoc /\ There(doc) /\ doc.plan = m.plan /\ doc.end = m.end
    BY <1>2 DEF SubDoc, There
  <2>2. Store(r, "pause", doc)
    BY <1>7 DEF PausePut
  <2> HIDE DEF doc
  <2> QED
    BY <1>2, <1>3, <2>1, <2>2
<1>8. CASE CancelPut(r)
  <2> DEFINE doc == [m EXCEPT !.status = "cancelled"]
  <2>1. doc \in SubDoc /\ There(doc) /\ doc.plan = m.plan /\ doc.end = m.end
    BY <1>2 DEF SubDoc, There
  <2>2. Store(r, "cancel", doc)
    BY <1>8 DEF CancelPut
  <2> HIDE DEF doc
  <2> QED
    BY <1>2, <1>3, <2>1, <2>2
<1>9. CASE DeductPut(r)
  <2> DEFINE doc == Spent(m, work[r].order)
  <2>0. work[r].order \in Orders /\ Cap[m.plan] \in Nat
    BY <1>2, <1>9, Known, PlansAreRanked DEF DeductPut, Store, Knows, SubIsRight
  <2>2. Store(r, "deduct", doc)
    BY <1>9 DEF DeductPut
  <2> HIDE DEF m
  <2>1. doc \in SubDoc /\ There(doc) /\ doc.plan = m.plan /\ doc.end = m.end
    <3>1. CASE m.used < Cap[m.plan]
      <4> DEFINE u == m.used + 1
                 h == m.history \union {work[r].order}
      <4>1. doc = [m EXCEPT !.used = u, !.history = h]
        BY <3>1 DEF Spent
      <4>2. m.used \in Nat /\ m.history \in SUBSET Orders
        BY <1>2 DEF SubDoc
      <4>3. u \in Nat /\ h \in SUBSET Orders
        BY <2>0, <4>2
      <4> HIDE DEF u, h, doc
      <4> QED
        BY <1>2, <4>1, <4>3 DEF SubDoc, There
    <3>2. CASE ~(m.used < Cap[m.plan])
      <4>1. doc = [m EXCEPT !.used = Cap[m.plan], !.history = @ \ {work[r].order}]
        BY <3>2 DEF Spent
      <4> QED
        BY <1>2, <2>0, <4>1 DEF SubDoc, There
    <3> QED
      BY <3>1, <3>2
  <2> HIDE DEF doc
  <2> QED
    BY <1>2, <1>3, <2>1, <2>2
<1> QED
  BY <1>4, <1>5, <1>6, <1>7, <1>8, <1>9

\* A worker that goes on with documents it had, or that were stored.
LEMMA DocsStayRight ==
  ASSUME IInv, NEW w \in Workers, billed' = billed, bought' = bought, now' = now,
         \A t \in Subs : There(subs[t]) => There(subs'[t]),
         ~New(work[w]), ~New(work'[w]),
         work'[w].pc \in {"next", "bill", "roll", "expire"} => work[w].pc \in {"next", "bill", "roll", "expire"},
         \A t \in Subs : There(work'[w].docs[t]) =>
           \/ work'[w].docs[t] = work[w].docs[t]
           \/ work'[w].docs[t] = subs[t] /\ work'[w].pc \notin {"next", "bill", "roll", "expire"}
  PROVE  DocsAreRight(work[w])'
<1> SUFFICES ASSUME NEW t \in Subs, There(work'[w].docs[t])
             PROVE  /\ Served(t, work'[w].docs[t]) /\ There(subs'[t])
                    /\ work'[w].pc \in {"next", "bill", "roll", "expire"} => work'[w].docs[t].end <= now
  BY DEF DocsAreRight, Served
<1>1. CASE work'[w].docs[t] = work[w].docs[t]
  BY <1>1, Known DEF Knows, DocsAreRight, New
<1>2. CASE work'[w].docs[t] = subs[t] /\ work'[w].pc \notin {"next", "bill", "roll", "expire"}
  BY <1>2 DEF IInv, StoredIsServed
<1> QED
  BY <1>1, <1>2

LEMMA DeletePutKeeps ==
  ASSUME IInv, NEW r \in Workers, NEW s \in Subs, DeletePut(r, s)
  PROVE  IInv'
<1> DEFINE m == work[r].docs[s]
           doc == [m EXCEPT !.status = "cancelled", !.pending = NoPlan]
<1>1. /\ work[r].pc = "delete" /\ s \in work[r].todo /\ subs' = [subs EXCEPT ![s] = doc]
      /\ UNCHANGED <<keys, collected, billed, bought, refunded, now, calm>>
  BY DEF DeletePut, Put
<1>2. m \in SubDoc /\ There(m) /\ Served(s, m) /\ There(subs[s]) /\ ~New(work[r])
  BY <1>1, Known DEF Knows, SubIsRight, DocsAreRight, Jobs, New
<1> HIDE DEF m
<1>3. doc \in SubDoc /\ There(doc) /\ doc.plan = m.plan /\ doc.end = m.end
  BY <1>2 DEF SubDoc, There
<1>4. Served(s, doc)
  BY <1>2, <1>3 DEF Served
<1>5. doc.end >= work[r].docs[s].end
  BY <1>2, <1>3, BoundsAreNatural DEF SubDoc, Cycles, m
<1> HIDE DEF doc
<1>6. TypeOK'
  BY <1>1, <1>3 DEF IInv, TypeOK
<1>7. \A t \in Subs : There(subs[t]) => There(subs'[t])
  BY <1>1, <1>3, Known
<1>8. CASE Return(r)
  <2>1. Goes(r) /\ work'[r] = Idle
    BY <1>8, ReturnMakes
  <2>2. work'[r].pc = "idle" /\ \A t \in Subs : ~There(work'[r].docs[t])
    BY <2>1, Nones
  <2>3. Knows(work[r])'
    BY <2>1, IdleKnows
  <2> QED
    BY <1>1, <1>2, <1>3, <1>4, <1>5, <1>6, <2>1, <2>2, <2>3, Puts DEF New, m
<1>9. CASE work' = [work EXCEPT ![r].todo = @ \ {s}, ![r].docs[s] = Absent]
  <2>1. /\ Goes(r) /\ work'[r].pc = "delete" /\ work'[r].sub = work[r].sub
        /\ work'[r].todo = work[r].todo \ {s} /\ work'[r].docs[s] = Absent
        /\ \A t \in Subs \ {s} : work'[r].docs[t] = work[r].docs[t]
    BY <1>1, <1>9, Known, Nones DEF Goes, IInv, Jobs
  <2>2. \A t \in Subs : There(work'[r].docs[t]) => work'[r].docs[t] = work[r].docs[t]
    BY <2>1, Nones
  <2>3. DocsAreRight(work[r])'
    BY <1>1, <1>2, <1>7, <2>1, <2>2, DocsStayRight DEF New
  <2>4. SubIsRight(work[r])'
    BY <1>1, <1>7, <2>1, Known DEF Knows, SubIsRight, New, Holding, Jobs
  <2>5. Knows(work[r])'
    BY <2>1, <2>3, <2>4 DEF Knows, MoneyIsRight
  <2> QED
    BY <1>1, <1>2, <1>3, <1>4, <1>5, <1>6, <2>1, <2>2, <2>5, Puts DEF New, m
<1> QED
  BY <1>8, <1>9 DEF DeletePut

LEMMA CollectCoverKeeps ==
  ASSUME IInv, NEW r \in Workers, NEW perService \in BOOLEAN, CollectCover(r, perService)
  PROVE  IInv'
<1>1. /\ work[r].pc = "cover" /\ ~New(work[r])
      /\ work' = [work EXCEPT ![r].pc = "pick", ![r].docs = Nothing]
      /\ UNCHANGED <<keys, collected, billed, bought, refunded, now, calm>>
  BY DEF CollectCover, New
<1>2. /\ work[r].sub \in Subs /\ Mine(r) \in SubDoc /\ There(Mine(r)) /\ Served(work[r].sub, Mine(r))
      /\ There(subs[work[r].sub])
  BY <1>1, MineIsServed DEF Holding
<1>3. Goes(r) /\ work'[r].pc = "pick" /\ work'[r].sub = work[r].sub /\ work'[r].order = work[r].order
  <2> DEFINE job == [work[r] EXCEPT !.pc = "pick", !.docs = Nothing]
  <2>1. job \in Jobs /\ job.pc = "pick" /\ job.sub = work[r].sub /\ job.order = work[r].order
    BY Known, Nones DEF Jobs, Labels
  <2>2. work' = [work EXCEPT ![r] = job]
    BY <1>1, Known DEF IInv
  <2> HIDE DEF job
  <2> QED
    BY <2>1, <2>2, BeginMakes
<1>4. \A t \in Subs : ~There(work'[r].docs[t])
  BY <1>1, Known, Nones DEF Jobs, IInv
<1>5. CASE subs' = subs
  <2>1. TypeOK'
    BY <1>1, <1>5, StillTyped, Known
  <2>2. Knows(work[r])'
    BY <1>1, <1>2, <1>3, <1>4, <1>5, Known DEF Knows, DocsAreRight, SubIsRight, MoneyIsRight, New, Holding
  <2> QED
    BY <1>1, <1>3, <1>4, <1>5, <2>1, <2>2, Reads DEF New
<1>6. CASE subs' = [subs EXCEPT ![work[r].sub] = Mine(r)]
  <2>1. TypeOK'
    BY <1>1, <1>2, <1>6 DEF IInv, TypeOK
  <2>2. \A t \in Subs : There(subs[t]) => There(subs'[t])
    BY <1>2, <1>6, Known
  <2>3. Knows(work[r])'
    BY <1>1, <1>2, <1>3, <1>4, <2>2, Known DEF Knows, DocsAreRight, SubIsRight, MoneyIsRight, New, Holding
  <2>4. Mine(r).end >= work[r].docs[work[r].sub].end
    BY <1>2, BoundsAreNatural DEF Mine, SubDoc, Cycles
  <2>5. There(work[r].docs[work[r].sub])
    BY <1>2 DEF Mine
  <2> QED
    BY <1>1, <1>2, <1>3, <1>4, <1>6, <2>1, <2>3, <2>4, <2>5, Puts DEF New
<1> QED
  BY <1>5, <1>6 DEF CollectCover, Put

\* The order is put, and the subscription read once more.
LEMMA CollectOrderKeeps ==
  ASSUME IInv, NEW r \in Workers, CollectOrder(r)
  PROVE  IInv'
<1>1. /\ work[r].pc = "pick" /\ Goto(r, "get") /\ collected' = collected \union {work[r].order}
      /\ UNCHANGED <<subs, keys, billed, bought, refunded, now, calm>>
  BY DEF CollectOrder
<1>2. work[r].order \in Orders /\ work[r].sub \in Subs /\ ~New(work[r])
  BY <1>1, Known DEF Knows, SubIsRight, New
<1>3. Goes(r) /\ work'[r].pc = "get" /\ work'[r].sub = work[r].sub /\ work'[r].docs = work[r].docs
      /\ work'[r].order = work[r].order
  BY <1>1, GotoMakes DEF Labels
<1>4. TypeOK'
  BY <1>1, <1>2 DEF IInv, TypeOK
<1>5. Knows(work[r])'
  <2>1. DocsAreRight(work[r])'
    BY <1>1, <1>2, <1>3, DocsStayRight DEF New
  <2>2. SubIsRight(work[r])'
    BY <1>1, <1>2, <1>3, Known DEF Knows, SubIsRight, New, Holding
  <2> QED
    BY <1>3, <2>1, <2>2 DEF Knows, MoneyIsRight
<1> QED
  BY <1>1, <1>3, <1>4, <1>5, Reads DEF New

LEMMA DeductReadKeeps ==
  ASSUME IInv, NEW r \in Workers, DeductRead(r)
  PROVE  IInv'
<1> DEFINE s == work[r].sub
<1>1. /\ work[r].pc = "get" /\ work' = [work EXCEPT ![r].pc = "deduct", ![r].docs[s] = subs[s]]
      /\ UNCHANGED <<subs, keys, collected, billed, bought, refunded, now, calm>>
  BY DEF DeductRead
<1>2. work[r].order \in Orders /\ s \in Subs /\ ~New(work[r]) /\ There(subs[s]) /\ subs[s] \in SubDoc
  BY <1>1, Known DEF Knows, SubIsRight, New
<1>3. /\ Goes(r) /\ work'[r].pc = "deduct" /\ work'[r].sub = s /\ work'[r].order = work[r].order
      /\ work'[r].docs[s] = subs[s] /\ \A t \in Subs \ {s} : work'[r].docs[t] = work[r].docs[t]
  <2> DEFINE job == [work[r] EXCEPT !.pc = "deduct", !.docs[s] = subs[s]]
  <2>1. /\ job \in Jobs /\ job.pc = "deduct" /\ job.sub = s /\ job.order = work[r].order
        /\ job.docs[s] = subs[s] /\ \A t \in Subs \ {s} : job.docs[t] = work[r].docs[t]
    BY <1>2, Known DEF Jobs, Labels
  <2>2. work' = [work EXCEPT ![r] = job]
    BY <1>1, Known DEF IInv
  <2> HIDE DEF job
  <2> QED
    BY <2>1, <2>2, BeginMakes
<1>4. TypeOK'
  BY <1>1, StillTyped, Known
<1> HIDE DEF s
<1>5. Knows(work[r])'
  <2>1. DocsAreRight(work[r])'
    BY <1>1, <1>2, <1>3, DocsStayRight DEF New
  <2>2. SubIsRight(work[r])'
    BY <1>1, <1>2, <1>3 DEF SubIsRight, New, Holding
  <2> QED
    BY <1>3, <2>1, <2>2 DEF Knows, MoneyIsRight
<1> QED
  BY <1>1, <1>3, <1>4, <1>5, Reads DEF New

LEMMA CancelRefundKeeps ==
  ASSUME IInv, NEW r \in Workers, NEW due \in BOOLEAN, CancelRefund(r, due)
  PROVE  IInv'
<1>1. /\ work[r].pc = "refund" /\ Goto(r, "cancel") /\ UNCHANGED <<subs, keys, collected, billed, bought, now, calm>>
      /\ refunded' = IF due THEN [refunded EXCEPT ![work[r].sub] = @ + 1] ELSE refunded
  BY DEF CancelRefund
<1>2. work[r].sub \in Subs /\ There(Mine(r)) /\ There(subs[work[r].sub]) /\ ~New(work[r])
  BY <1>1, MineIsServed DEF Holding, New
<1>3. Goes(r) /\ work'[r].pc = "cancel" /\ work'[r].sub = work[r].sub /\ work'[r].docs = work[r].docs
  BY <1>1, GotoMakes DEF Labels
<1>4. TypeOK'
  BY <1>1, <1>2 DEF IInv, TypeOK
<1>5. Knows(work[r])'
  <2>1. DocsAreRight(work[r])'
    BY <1>1, <1>2, <1>3, DocsStayRight DEF New
  <2>2. SubIsRight(work[r])'
    BY <1>1, <1>2, <1>3 DEF SubIsRight, New, Holding, Mine
  <2> QED
    BY <1>3, <2>1, <2>2 DEF Knows, MoneyIsRight
<1> QED
  BY <1>1, <1>3, <1>4, <1>5, Reads DEF New

\* The subscription a change was quoted for is read once more.
LEMMA ChangeReadKeeps ==
  ASSUME IInv, NEW r \in Workers, NEW s \in Subs, ChangeRead(r, s)
  PROVE  IInv'
<1> DEFINE job == [work[r] EXCEPT !.pc = AfterQuote(work[r].immediate), !.sub = s,
                                  !.docs = [Nothing EXCEPT ![s] = subs[s]]]
<1>1. /\ work[r].pc = "quoted" /\ There(subs[s]) /\ subs[s] \in SubDoc
      /\ UNCHANGED <<subs, keys, collected, billed, bought, refunded, now, calm>>
  BY Known DEF ChangeRead, Current, There
<1>2. work[r].plan \in Plans /\ work[r] \in Jobs
  BY <1>1, Known DEF Knows, MoneyIsRight
<1>3. AfterQuote(work[r].immediate) \in Labels
  BY DEF AfterQuote, Labels
<1>4. /\ job \in Jobs /\ job.pc = AfterQuote(work[r].immediate) /\ job.sub = s /\ job.docs[s] = subs[s]
      /\ job.plan = work[r].plan /\ job.immediate = work[r].immediate
      /\ \A t \in Subs \ {s} : ~There(job.docs[t])
  BY <1>1, <1>2, <1>3, Nones DEF Jobs
<1>5. work' = [work EXCEPT ![r] = job]
  BY Known DEF ChangeRead, IInv
<1> HIDE DEF job
<1>6. Goes(r) /\ work'[r] = job
  BY <1>4, <1>5, BeginMakes
<1>7. job.pc \in {"prorate", "change"} /\ (job.pc = "change" => ~job.immediate)
  BY <1>4 DEF AfterQuote
<1>8. TypeOK'
  BY <1>1, StillTyped, Known
<1>9. Knows(work[r])'
  <2>1. DocsAreRight(work[r])'
    BY <1>1, <1>4, <1>6, <1>7 DEF IInv, StoredIsServed, DocsAreRight, Served, New
  <2>2. SubIsRight(work[r])'
    BY <1>1, <1>4, <1>6, <1>7 DEF SubIsRight, New, Holding
  <2>3. MoneyIsRight(work[r])'
    BY <1>2, <1>4, <1>6, <1>7 DEF MoneyIsRight
  <2> QED
    BY <2>1, <2>2, <2>3 DEF Knows
<1> QED
  BY <1>1, <1>4, <1>6, <1>7, <1>8, <1>9, Reads DEF New

\* No worker makes a subscription that is stored.
LEMMA NoneMakes ==
  ASSUME IInv, NEW s \in Subs, There(subs[s])
  PROVE  \A v \in Workers : New(work[v]) => work[v].sub # s
BY Known DEF Knows, SubIsRight

LEMMA ChangeChargeKeeps ==
  ASSUME IInv, NEW r \in Workers, NEW covered \in BOOLEAN, ChangeCharge(r, covered)
  PROVE  IInv'
<1> DEFINE s == work[r].sub
           p == work[r].plan
<1>1. /\ work[r].pc = "prorate" /\ s \in Subs /\ There(Mine(r)) /\ There(subs[s]) /\ p \in Plans
      /\ Served(s, Mine(r))
  BY MineIsServed, Known DEF ChangeCharge, Holding, New, Knows, MoneyIsRight
<1>2. CASE ~covered
  <2>1. Return(r) /\ UNCHANGED <<subs, keys, collected, billed, bought, refunded, now, calm>>
    BY <1>2 DEF ChangeCharge
  <2> QED
    BY <2>1, StillTyped, Known, Returns
<1>3. CASE covered
  <2>1. /\ bought' = [bought EXCEPT ![s] = @ \union {p}] /\ Goto(r, "change")
        /\ UNCHANGED <<subs, keys, collected, billed, refunded, now>> /\ calm' \in BOOLEAN
    BY <1>3 DEF ChangeCharge, Buy
  <2>2. /\ Goes(r) /\ work'[r].pc = "change" /\ work'[r].sub = s /\ work'[r].docs = work[r].docs
        /\ work'[r].plan = p
    BY <2>1, GotoMakes DEF Labels
  <2>3. TypeOK'
    BY <1>1, <2>1 DEF IInv, TypeOK
  <2>4. Knows(work[r])'
    <3>1. p \in bought'[s] /\ \A t \in Subs : bought[t] \subseteq bought'[t]
      BY <1>1, <2>1 DEF IInv, TypeOK
    <3>2. DocsAreRight(work[r])'
      BY <1>1, <2>1, <2>2, <3>1, Known DEF Knows, DocsAreRight, Served, New
    <3>3. SubIsRight(work[r])'
      BY <1>1, <2>1, <2>2 DEF SubIsRight, New, Holding, Mine
    <3>4. MoneyIsRight(work[r])'
      BY <2>2, <3>1 DEF MoneyIsRight
    <3> QED
      BY <3>2, <3>3, <3>4 DEF Knows
  <2>5. 0 \in Cycles
    BY BoundsAreNatural DEF Cycles
  <2>6. /\ \A v \in Workers \ {r} : New(work[v]) => work[v].sub # s
        /\ subs' = subs /\ keys' = keys /\ now' = now /\ billed' = billed
    BY <1>1, <2>1, NoneMakes
  <2> HIDE DEF p
  <2> QED
    BY <1>1, <2>1, <2>2, <2>3, <2>4, <2>5, <2>6, Pays DEF New
<1> QED
  BY <1>2, <1>3

LEMMA ContinueKeeps ==
  ASSUME IInv, NEW r \in Workers, Continue(r)
  PROVE  IInv'
<1>1. CASE ChangeNone(r)
  BY <1>1, StillTyped, Known, Returns DEF ChangeNone
<1>2. ASSUME NEW choice \in BOOLEAN,
             \/ SubscribeCharge(r, choice) \/ ChangeCharge(r, choice)
             \/ CancelRefund(r, choice) \/ CollectCover(r, choice)
      PROVE  IInv'
  BY <1>2, SubscribeChargeKeeps, ChangeChargeKeeps, CancelRefundKeeps, CollectCoverKeeps
<1> QED
  BY <1>1, <1>2, StorePutsKeep, ChangeReadKeeps, DeletePutKeeps, CollectOrderKeeps, DeductReadKeeps DEF Continue

-----------------------------------------------------------------------------
(* Runs of the renewal job *)

LEMMA PassStartKeeps ==
  ASSUME IInv, NEW p \in Workers, PassStart(p)
  PROVE  IInv'
<1> DEFINE due == {s \in Subs : Due(subs[s])}
           job == [Idle EXCEPT !.pc = "next", !.todo = due, !.docs = Read(due)]
<1>1. \A s \in due : There(subs[s]) /\ subs[s].end <= now
  BY DEF Due, There
<1>2. /\ work' = [work EXCEPT ![p] = job] /\ Disturb(p, due)
      /\ UNCHANGED <<subs, keys, collected, billed, bought, refunded, now>>
  BY DEF PassStart
<1> HIDE DEF due
<1>3. due \in SUBSET Subs
  BY DEF due
<1>4. job \in Jobs /\ job.pc = "next" /\ job.docs = Read(due) /\ job.todo = due /\ job.sub = NoSub
  BY <1>1, <1>3, ReadMakes, Nones DEF Jobs, Labels
<1> HIDE DEF job
<1>5. Goes(p) /\ work'[p] = job
  BY <1>2, <1>4, BeginMakes
<1>6. TypeOK'
  BY <1>2, StillTyped, Known DEF Disturb
<1>7. Knows(work[p])'
  BY <1>1, <1>2, <1>3, <1>4, <1>5, ReadMakes, NoneIsNone
     DEF Knows, DocsAreRight, SubIsRight, MoneyIsRight, New, Holding, Served
<1> QED
  BY <1>1, <1>2, <1>3, <1>4, <1>5, <1>6, <1>7, ReadMakes, Reads DEF New

\* A cycle whose key was not taken has not been charged, as long as a document is left
\* that is from before it.
LEMMA Uncharged ==
  ASSUME IInv, NEW w \in Workers, NEW s \in Subs, There(work[w].docs[s]), work[w].docs[s].end <= now,
         Key(s, work[w].docs[s].end) \notin keys
  PROVE  billed[s][work[w].docs[s].end + 1] = 0
<1> DEFINE e == work[w].docs[s].end
<1>1. e \in Nat /\ e + 1 \in Cycles
  <2>1. e \in 0..(MaxTime + 1) /\ now \in 0..MaxTime
    BY Known DEF Jobs, SubDoc, Cycles, IInv, TypeOK
  <2> QED
    BY <2>1, BoundsAreNatural DEF Cycles
<1>2. billed[s][e + 1] \in Nat
  BY <1>1 DEF IInv, TypeOK
<1>3. ASSUME billed[s][e + 1] > 0  PROVE FALSE
  <2>1. ~Since(s, e + 1)
    BY <1>1 DEF Since
  <2>2. Key(s, (e + 1) - 1) \in keys
    BY <1>1, <1>3, <2>1 DEF IInv, Origin
  <2>3. (e + 1) - 1 = e
    BY <1>1
  <2> QED
    BY <2>2, <2>3
<1> QED
  BY <1>2, <1>3

\* A document whose cycle was seen to has its key taken, and is about to be charged.
LEMMA ClaimKeeps ==
  ASSUME IInv, NEW p \in Workers, NEW s \in Subs, work[p].pc = "next", s \in work[p].todo,
         Claim(s, work[p].docs[s].end),
         work' = [work EXCEPT ![p].pc = "bill", ![p].sub = s, ![p].todo = @ \ {s}],
         UNCHANGED <<subs, collected, billed, bought, refunded, now, calm>>
  PROVE  IInv'
<1> DEFINE e == work[p].docs[s].end
           job == [work[p] EXCEPT !.pc = "bill", !.sub = s, !.todo = @ \ {s}]
<1>1. /\ There(work[p].docs[s]) /\ e <= now /\ There(subs[s]) /\ work[p] \in Jobs /\ e \in Cycles
      /\ \A t \in work[p].todo : There(work[p].docs[t])
  BY Known DEF Knows, SubIsRight, DocsAreRight, New, Jobs, SubDoc
<1>2. /\ job \in Jobs /\ job.pc = "bill" /\ job.sub = s /\ job.docs = work[p].docs /\ job.todo = work[p].todo \ {s}
  BY <1>1 DEF Jobs, Labels
<1>3. work' = [work EXCEPT ![p] = job]
  BY Known DEF IInv
<1> HIDE DEF job
<1>4. Goes(p) /\ work'[p] = job
  BY <1>2, <1>3, BeginMakes
<1>5. Key(s, e) \notin keys /\ keys' = keys \union {Key(s, e)}
  BY DEF Claim
<1>6. billed[s][e + 1] = 0
  BY <1>1, <1>5, Uncharged
<1>7. TypeOK'
  BY <1>1, <1>5 DEF IInv, TypeOK, Key
<1>8. Knows(work[p])'
  <2>1. DocsAreRight(work[p])'
    BY <1>2, <1>4, Known DEF Knows, DocsAreRight, Served, New
  <2>2. SubIsRight(work[p])'
    BY <1>1, <1>2, <1>4 DEF SubIsRight, New, Holding
  <2>3. MoneyIsRight(work[p])'
    <3>1. Key(s, e) \in keys' /\ billed'[s][e + 1] = 0
      BY <1>5, <1>6
    <3>2. work'[p].pc = "bill" /\ work'[p].sub = s /\ work'[p].docs[s].end = e
      BY <1>2, <1>4
    <3> HIDE DEF e
    <3> QED
      BY <3>1, <3>2 DEF MoneyIsRight
  <2> QED
    BY <2>1, <2>2, <2>3 DEF Knows
<1>9. ASSUME NEW v \in Workers \ {p}  PROVE Knows(work[v])'
  <2>0. Knows(work[v]) /\ work'[v] = work[v]
    BY <1>4, Known DEF Goes
  <2>1. DocsAreRight(work[v])'
    BY <2>0 DEF Knows, DocsAreRight, Served, New
  <2>2. SubIsRight(work[v])'
    BY <2>0 DEF Knows, SubIsRight, New
  <2>3. MoneyIsRight(work[v])'
    <3>1. keys \subseteq keys' /\ billed' = billed /\ bought' = bought
      BY <1>5
    <3> QED
      BY <2>0, <3>1 DEF Knows, MoneyIsRight
  <2> QED
    BY <2>1, <2>2, <2>3 DEF Knows
<1>10. ASSUME NEW v \in Workers \ {p}, work[v].pc = "bill"
       PROVE  Key(work[v].sub, Mine(v).end) # Key(s, e)
  BY <1>5, <1>10, Known DEF Knows, MoneyIsRight, Mine
<1>11. ASSUME NEW v \in Workers, NEW u \in Workers \ {v}  PROVE Apart(u, v)'
  <2>1. CASE u # p /\ v # p
    BY <1>4, <2>1 DEF IInv, WorkersAreRight, Goes, Apart, New, Mine
  <2>2. CASE u = p
    <3>1. v # p /\ work'[v] = work[v] /\ work'[u] = job
      BY <1>4, <2>2 DEF Goes
    <3> QED
      BY <1>2, <1>10, <3>1 DEF Apart, New, Mine
  <2>3. CASE v = p
    <3>1. u # p /\ work'[u] = work[u] /\ work'[v] = job
      BY <1>4, <2>3 DEF Goes
    <3> QED
      BY <1>2, <1>10, <3>1 DEF Apart, New, Mine
  <2> QED
    BY <2>1, <2>2, <2>3
<1>12. WorkersAreRight'
  BY <1>8, <1>9, <1>11 DEF WorkersAreRight
<1>13. StoredIsServed' /\ Unbought' /\ OneChargePerCycle'
  BY DEF IInv, StoredIsServed, Served, Unbought, OneChargePerCycle
<1>14. Origin'
  <2>1. \A v \in Workers : work'[v].docs = work[v].docs
    BY <1>2, <1>4 DEF Goes
  <2> QED
    BY <1>5, <2>1 DEF IInv, Origin, Since
<1> QED
  BY <1>4, <1>7, <1>12, <1>13, <1>14 DEF IInv, Goes

LEMMA PassClaimKeeps ==
  ASSUME IInv, NEW p \in Workers, NEW s \in Subs, PassClaim(p, s)
  PROVE  IInv'
<1>1. /\ work[p].pc = "next" /\ s \in work[p].todo
      /\ UNCHANGED <<subs, collected, billed, bought, refunded, now, calm>>
  BY DEF PassClaim
<1>2. CASE work' = [work EXCEPT ![p].todo = @ \ {s}, ![p].docs[s] = Absent] /\ UNCHANGED keys
  <2> DEFINE job == [work[p] EXCEPT !.todo = @ \ {s}, !.docs[s] = Absent]
  <2>1. /\ job \in Jobs /\ job.pc = "next" /\ job.sub = work[p].sub /\ job.todo = work[p].todo \ {s}
        /\ ~There(job.docs[s]) /\ \A t \in Subs \ {s} : job.docs[t] = work[p].docs[t]
    BY <1>1, Nones, Known DEF Jobs, Labels
  <2>2. work' = [work EXCEPT ![p] = job]
    BY <1>2, Known DEF IInv
  <2> HIDE DEF job
  <2>3. Goes(p) /\ work'[p] = job
    BY <2>1, <2>2, BeginMakes
  <2>4. TypeOK'
    BY <1>1, <1>2, StillTyped, Known
  <2>5. DocsAreRight(work[p])'
    BY <1>1, <2>1, <2>3, DocsStayRight DEF New
  <2>6. SubIsRight(work[p])'
    BY <1>1, <2>1, <2>3, Known DEF Knows, SubIsRight, New, Holding, Jobs
  <2>7. Knows(work[p])'
    BY <2>1, <2>3, <2>5, <2>6 DEF Knows, MoneyIsRight
  <2> QED
    BY <1>1, <1>2, <2>1, <2>3, <2>4, <2>7, Reads DEF New
<1>3. CASE /\ Claim(s, work[p].docs[s].end)
           /\ work' = [work EXCEPT ![p].pc = "bill", ![p].sub = s, ![p].todo = @ \ {s}]
  BY <1>1, <1>3, ClaimKeeps
<1> QED
  BY <1>2, <1>3 DEF PassClaim

LEMMA PassBillKeeps ==
  ASSUME IInv, NEW p \in Workers, NEW covered \in BOOLEAN, PassBill(p, covered)
  PROVE  IInv'
<1> DEFINE s == work[p].sub
           c == Mine(p).end + 1
           q == NextPlan(Mine(p))
<1>1. /\ work[p].pc = "bill" /\ s \in Subs /\ Mine(p) \in SubDoc /\ There(Mine(p)) /\ There(subs[s])
      /\ Served(s, Mine(p)) /\ Mine(p).plan \in Plans /\ Mine(p).end <= now
      /\ Key(s, Mine(p).end) \in keys /\ billed[s][c] = 0
  BY MineIsServed, Known DEF PassBill, Holding, New, Knows, MoneyIsRight, DocsAreRight, Mine
<1>2. Mine(p).end \in Nat /\ c \in Cycles /\ c > 0 /\ c - 1 = Mine(p).end
  <2>1. Mine(p).end \in 0..(MaxTime + 1) /\ now \in 0..MaxTime
    BY <1>1 DEF SubDoc, Cycles, IInv, TypeOK
  <2> QED
    BY <1>1, <2>1, BoundsAreNatural DEF Cycles
<1>3. q \in Plans
  BY <1>1 DEF NextPlan, SubDoc
<1>4. UNCHANGED <<subs, keys, collected, refunded, now, calm>>
  BY DEF PassBill
<1>5. CASE ~covered
  <2>1. Goto(p, "expire") /\ UNCHANGED <<billed, bought>>
    BY <1>5 DEF PassBill, AfterBill
  <2>2. /\ Goes(p) /\ work'[p].pc = "expire" /\ work'[p].sub = s /\ work'[p].docs = work[p].docs
        /\ work'[p].todo = work[p].todo
    BY <2>1, GotoMakes DEF Labels
  <2>3. TypeOK'
    BY <1>4, <2>1, StillTyped, Known
  <2>4. DocsAreRight(work[p])'
    BY <1>1, <1>4, <2>1, <2>2, DocsStayRight DEF New
  <2>5. SubIsRight(work[p])'
    BY <1>1, <1>4, <2>2, Known DEF Knows, SubIsRight, New, Holding, Mine
  <2>6. Knows(work[p])'
    BY <2>2, <2>4, <2>5 DEF Knows, MoneyIsRight
  <2> QED
    BY <1>4, <2>1, <2>2, <2>3, <2>6, Reads DEF New
<1>6. CASE covered
  <2>1. /\ bought' = [bought EXCEPT ![s] = @ \union {q}] /\ billed' = [billed EXCEPT ![s][c] = @ + 1]
        /\ Goto(p, "roll")
    BY <1>6 DEF PassBill, AfterBill, Bill, Buy
  <2>2. /\ Goes(p) /\ work'[p].pc = "roll" /\ work'[p].sub = s /\ work'[p].docs = work[p].docs
        /\ work'[p].todo = work[p].todo
    BY <2>1, GotoMakes DEF Labels
  <2>3. TypeOK'
    BY <1>1, <1>2, <1>3, <1>4, <2>1 DEF IInv, TypeOK
  <2>4. /\ q \in bought'[s] /\ \A t \in Subs : bought[t] \subseteq bought'[t]
        /\ billed'[s][c] > 0 /\ \A t \in Subs, d \in Cycles : billed[t][d] > 0 => billed'[t][d] > 0
    BY <1>1, <1>2, <2>1 DEF IInv, TypeOK
  <2>5. DocsAreRight(work[p])'
    <3> SUFFICES ASSUME NEW t \in Subs, There(work[p].docs[t])
                 PROVE  /\ work[p].docs[t].plan \in bought'[t] /\ billed'[t][work[p].docs[t].end] > 0
                        /\ There(subs[t]) /\ work[p].docs[t].end <= now
      BY <1>4, <2>2 DEF DocsAreRight, Served, New
    <3>1. work[p].docs[t].end \in Cycles
      BY Known DEF Jobs, SubDoc
    <3>2. Served(t, work[p].docs[t]) /\ There(subs[t]) /\ work[p].docs[t].end <= now
      BY <1>1, Known DEF Knows, DocsAreRight, New
    <3> QED
      BY <2>4, <3>1, <3>2 DEF Served
  <2>6. SubIsRight(work[p])'
    BY <1>1, <1>4, <2>2, Known DEF Knows, SubIsRight, New, Holding, Mine
  <2>7. MoneyIsRight(work[p])'
    BY <2>2, <2>4 DEF MoneyIsRight, Mine
  <2>8. Knows(work[p])'
    BY <2>5, <2>6, <2>7 DEF Knows
  <2>9. ASSUME NEW v \in Workers \ {p}, work[v].pc = "bill", work[v].sub = s, Mine(v).end + 1 = c
        PROVE  FALSE
    <3>1. Mine(v).end \in Nat
      BY <2>9, MineIsServed, BoundsAreNatural DEF Holding, SubDoc, Cycles
    <3>2. Mine(v).end = Mine(p).end
      BY <1>2, <2>9, <3>1
    <3>3. Apart(v, p)
      BY DEF IInv, WorkersAreRight
    <3> QED
      BY <1>1, <2>9, <3>2, <3>3 DEF Apart
  <2>10. \A v \in Workers \ {p} : New(work[v]) => work[v].sub # s
    BY <1>1, NoneMakes
  <2> HIDE DEF c, q
  <2>11. \/ billed' = billed
         \/ /\ billed' = [billed EXCEPT ![s][c] = @ + 1] /\ billed[s][c] = 0
            /\ (c > 0 /\ Key(s, c - 1) \in keys) \/ Since(s, c)
            /\ \A v \in Workers \ {p} :
                 work[v].pc = "bill" => ~(work[v].sub = s /\ Mine(v).end + 1 = c)
    BY <1>1, <1>2, <2>1, <2>9
  <2>12. subs' = subs /\ keys' = keys /\ now' = now /\ s \in Subs /\ c \in Cycles
    BY <1>1, <1>2, <1>4
  <2>13. work'[p].sub = s /\ work'[p].pc # "bill" /\ ~New(work'[p])
    BY <2>2 DEF New
  <2> QED
    BY <2>1, <2>2, <2>3, <2>8, <2>10, <2>11, <2>12, <2>13, Pays
<1> QED
  BY <1>5, <1>6

\* A put that settles a subscription: rolled into its next cycle, or expired.
LEMMA SettleKeeps ==
  ASSUME IInv, NEW p \in Workers, NEW pc \in {"roll", "expire"}, NEW doc \in SubDoc, PassPut(p, pc, doc),
         There(doc), Served(work[p].sub, doc), doc.end >= Mine(p).end
  PROVE  IInv'
<1> DEFINE s == work[p].sub
           job == [work[p] EXCEPT !.pc = "next", !.sub = NoSub, !.docs[s] = Absent]
<1>1. /\ work[p].pc = pc /\ subs' = [subs EXCEPT ![s] = doc] /\ Done(p, s)
      /\ UNCHANGED <<keys, collected, billed, bought, refunded, now, calm>>
  BY DEF PassPut, Put
<1>2. s \in Subs /\ There(Mine(p)) /\ There(subs[s]) /\ ~New(work[p])
  BY <1>1, MineIsServed DEF Holding, New
<1>3. s \notin work[p].todo /\ \A t \in work[p].todo : There(work[p].docs[t])
  BY <1>1, Known DEF Knows, SubIsRight
<1>4. /\ job \in Jobs /\ job.pc = "next" /\ job.sub = NoSub /\ job.todo = work[p].todo
      /\ ~There(job.docs[s]) /\ \A t \in Subs \ {s} : job.docs[t] = work[p].docs[t]
  BY <1>2, Nones, Known DEF Jobs, Labels
<1>5. work' = [work EXCEPT ![p] = job]
  BY <1>1, Known DEF Done, IInv
<1> HIDE DEF job
<1>6. Goes(p) /\ work'[p] = job
  BY <1>4, <1>5, BeginMakes
<1>7. TypeOK'
  BY <1>1, <1>2 DEF IInv, TypeOK
<1>8. \A t \in Subs : There(subs[t]) => There(subs'[t])
  BY <1>1, <1>2, Known
<1>9. \A t \in Subs : There(work'[p].docs[t]) => work'[p].docs[t] = work[p].docs[t]
  BY <1>4, <1>6
<1>10. Knows(work[p])'
  <2>1. DocsAreRight(work[p])'
    BY <1>1, <1>2, <1>4, <1>6, <1>8, <1>9, DocsStayRight DEF New
  <2>2. SubIsRight(work[p])'
    <3>1. work[p].todo \subseteq Subs
      BY Known DEF Jobs
    <3> QED
      BY <1>3, <1>4, <1>6, <3>1, NoneIsNone DEF SubIsRight, New, Holding
  <2> QED
    BY <1>4, <1>6, <2>1, <2>2 DEF Knows, MoneyIsRight
<1>11. There(work[p].docs[s]) /\ doc.end >= work[p].docs[s].end
  BY <1>2 DEF Mine
<1> QED
  BY <1>1, <1>2, <1>4, <1>6, <1>7, <1>9, <1>10, <1>11, Puts DEF New

LEMMA PassStepKeeps ==
  ASSUME IInv, NEW p \in Workers, PassStep(p)
  PROVE  IInv'
<1>1. CASE PassEnd(p)
  BY <1>1, StillTyped, Known, Returns DEF PassEnd
<1>2. CASE PassRoll(p)
  <2> DEFINE m == Mine(p)
             s == work[p].sub
             q == NextPlan(m)
             e == m.end + 1
             doc == [m EXCEPT !.end = e, !.plan = q, !.pending = NoPlan, !.used = 0, !.history = {}]
  <2>1. /\ PassPut(p, "roll", doc) /\ work[p].pc = "roll"
    BY <1>2 DEF PassRoll, PassPut
  <2>2. /\ s \in Subs /\ m \in SubDoc /\ There(m) /\ m.end <= now
        /\ billed[s][e] > 0 /\ q \in bought[s]
    BY <2>1, MineIsServed, Known DEF Holding, Knows, MoneyIsRight, DocsAreRight, Mine
  <2> HIDE DEF m
  <2>3. m.end \in 0..(MaxTime + 1) /\ now \in 0..MaxTime
    BY <2>2 DEF SubDoc, Cycles, IInv, TypeOK
  <2>4. e \in Cycles /\ e >= m.end
    BY <2>2, <2>3, BoundsAreNatural DEF Cycles
  <2>5. q \in Plans
    BY <2>2 DEF IInv, TypeOK
  <2> HIDE DEF q, e
  <2>6. doc \in SubDoc /\ There(doc) /\ doc.plan = q /\ doc.end = e
    BY <2>2, <2>4, <2>5 DEF SubDoc, There
  <2> HIDE DEF doc
  <2>7. Served(s, doc) /\ doc.end >= Mine(p).end
    BY <2>2, <2>4, <2>6 DEF Served, m
  <2> QED
    BY <2>1, <2>6, <2>7, SettleKeeps
<1>3. CASE PassExpire(p)
  <2> DEFINE m == Mine(p)
             doc == [m EXCEPT !.status = "expired"]
  <2>1. PassPut(p, "expire", doc) /\ work[p].pc = "expire"
    BY <1>3 DEF PassExpire, PassPut
  <2>2. m \in SubDoc /\ There(m) /\ Served(work[p].sub, m)
    BY <2>1, MineIsServed DEF Holding
  <2> HIDE DEF m
  <2>3. doc \in SubDoc /\ There(doc) /\ doc.plan = m.plan /\ doc.end = m.end
    BY <2>2 DEF SubDoc, There
  <2> HIDE DEF doc
  <2>4. Served(work[p].sub, doc) /\ doc.end >= Mine(p).end
    BY <2>2, <2>3, BoundsAreNatural DEF Served, SubDoc, Cycles, m
  <2> QED
    BY <2>1, <2>3, <2>4, SettleKeeps
<1> QED
  BY <1>1, <1>2, <1>3, PassClaimKeeps, PassBillKeeps DEF PassStep

-----------------------------------------------------------------------------
(* The rest of the world *)

LEMMA TickKeeps ==
  ASSUME IInv, Tick
  PROVE  IInv'
<1>1. now' \in 0..MaxTime /\ now' = now + 1 /\ now \in Nat
  BY BoundsAreNatural DEF Tick, IInv, TypeOK
<1>2. UNCHANGED <<subs, keys, collected, billed, bought, refunded, work, calm>>
  BY DEF Tick
<1>3. TypeOK' /\ StoredIsServed' /\ Unbought' /\ OneChargePerCycle' /\ Origin'
  BY <1>1, <1>2 DEF IInv, TypeOK, StoredIsServed, Served, Unbought, OneChargePerCycle, Origin, Since
<1>4. ASSUME NEW w \in Workers  PROVE Knows(work[w])'
  <2>1. DocsAreRight(work[w])'
    <3> SUFFICES ASSUME NEW s \in Subs, There(work[w].docs[s])
                 PROVE  /\ work[w].pc # "subscribe" => Served(s, work[w].docs[s])
                        /\ IF New(work[w]) THEN s = work[w].sub ELSE There(subs[s])
                        /\ work[w].pc \in {"next", "bill", "roll", "expire"} => work[w].docs[s].end <= now'
      BY <1>2 DEF DocsAreRight, Served, New
    <3>1. work[w].docs[s].end \in Nat
      BY Known, BoundsAreNatural DEF Jobs, SubDoc, Cycles
    <3> QED
      BY <1>1, <3>1, Known DEF Knows, DocsAreRight
  <2>2. SubIsRight(work[w])' /\ MoneyIsRight(work[w])'
    BY <1>2, Known DEF Knows, SubIsRight, MoneyIsRight, New
  <2> QED
    BY <2>1, <2>2 DEF Knows
<1>5. \A w \in Workers, v \in Workers : Apart(v, w) => Apart(v, w)'
  BY <1>2 DEF Apart, New, Mine
<1> QED
  BY <1>2, <1>3, <1>4, <1>5 DEF IInv, WorkersAreRight

LEMMA LoseKeeps ==
  ASSUME IInv, NEW w \in Workers, Lose(w)
  PROVE  IInv'
BY StillTyped, Returns DEF Lose

LEMMA InitHolds == ASSUME Init  PROVE IInv
<1>1. PICK plan \in [Members -> Plans] :
        /\ subs = [s \in Subs |-> IF s \in Members
                                 THEN [Absent EXCEPT !.status = "active", !.plan = plan[s], !.end = 1]
                                 ELSE Absent]
        /\ bought = [s \in Subs |-> IF s \in Members THEN {plan[s]} ELSE {}]
  BY DEF Init
<1>2. /\ keys = {} /\ collected = {} /\ refunded = [s \in Subs |-> 0]
      /\ work = [w \in Workers |-> Idle] /\ now = 0 /\ calm = TRUE
      /\ billed = [s \in Subs |-> [c \in Cycles |-> IF s \in Members /\ c = 1 THEN 1 ELSE 0]]
  BY DEF Init
<1>3. 1 \in Cycles /\ 0 \in 0..MaxTime
  BY BoundsAreNatural DEF Cycles
<1>4. \A s \in Members : /\ s \in Subs /\ subs[s] \in SubDoc /\ subs[s].end = 1 /\ subs[s].plan = plan[s]
                         /\ plan[s] \in Plans
  BY <1>1, <1>3, MembersAreSubs, Nones DEF SubDoc, Absent
<1>5. \A s \in Subs \ Members : subs[s] = Absent /\ ~There(subs[s])
  BY <1>1, Nones
<1>6. TypeOK
  <2>1. subs \in [Subs -> SubDoc]
    BY <1>1, <1>4, <1>5, Nones
  <2> QED
    BY <1>1, <1>2, <1>3, <1>4, <2>1 DEF TypeOK
<1>7. work \in [Workers -> Jobs]
  BY <1>2, Nones
<1>8. ASSUME NEW w \in Workers
      PROVE  work[w].pc = "idle" /\ work[w].sub = NoSub /\ \A s \in Subs : ~There(work[w].docs[s])
  BY <1>2, Nones
<1>9. WorkersAreRight
  <2>1. \A w \in Workers : Knows(work[w])
    BY <1>8, NoneIsNone DEF Knows, DocsAreRight, SubIsRight, MoneyIsRight, New, Holding
  <2>2. \A w \in Workers, v \in Workers : Apart(v, w)
    BY <1>8 DEF Apart, New
  <2> QED
    BY <2>1, <2>2 DEF WorkersAreRight
<1>10. StoredIsServed
  <2>1. ASSUME NEW s \in Members  PROVE Served(s, subs[s])
    <3>1. s \in Subs /\ subs[s].plan = plan[s] /\ subs[s].end = 1
      BY <1>4
    <3>2. bought[s] = {plan[s]} /\ billed[s][1] = 1
      BY <1>1, <1>2, <1>3, <3>1
    <3> QED
      BY <3>1, <3>2 DEF Served
  <2> QED
    BY <1>5, <2>1 DEF StoredIsServed
<1>11. Unbought /\ OneChargePerCycle
  <2>1. \A s \in Subs : bought[s] = {} => s \notin Members
    BY <1>1
  <2>2. \A s \in Subs, c \in Cycles : billed[s][c] = IF s \in Members /\ c = 1 THEN 1 ELSE 0
    BY <1>2
  <2> QED
    BY <2>1, <2>2 DEF Unbought, OneChargePerCycle
<1>12. Origin
  <2> SUFFICES ASSUME NEW s \in Subs, NEW c \in Cycles, billed[s][c] > 0  PROVE Since(s, c)
    BY DEF Origin
  <2>1. s \in Members /\ c = 1
    BY <1>2
  <2>2. subs[s].end >= c
    BY <1>4, <2>1
  <2> QED
    BY <1>8, <2>2 DEF Since
<1> QED
  BY <1>6, <1>7, <1>9, <1>10, <1>11, <1>12 DEF IInv

LEMMA StepKeeps == IInv /\ [Next]_vars => IInv'
<1> SUFFICES ASSUME IInv, [Next]_vars  PROVE IInv'
  OBVIOUS
<1>1. CASE Next
  <2>1. Requests \subseteq Workers /\ Passes \subseteq Workers
    BY DEF Workers
  <2>2. CASE Tick
    BY <2>2, TickKeeps
  <2>3. ASSUME NEW r \in Requests, Arrive(r) \/ Continue(r)  PROVE IInv'
    BY <2>1, <2>3, ArriveKeeps, ContinueKeeps
  <2>4. ASSUME NEW p \in Passes, PassStart(p) \/ PassStep(p)  PROVE IInv'
    BY <2>1, <2>4, PassStartKeeps, PassStepKeeps
  <2>5. ASSUME NEW w \in Workers, Lose(w)  PROVE IInv'
    BY <2>5, LoseKeeps
  <2> QED
    BY <1>1, <2>2, <2>3, <2>4, <2>5 DEF Next
<1>2. CASE UNCHANGED vars
  <2>1. UNCHANGED <<subs, keys, collected, billed, bought, refunded, work, now, calm>>
    BY <1>2 DEF vars
  <2>2. TypeOK' /\ StoredIsServed' /\ Unbought' /\ OneChargePerCycle' /\ Origin'
    BY <2>1 DEF IInv, TypeOK, StoredIsServed, Served, Unbought, OneChargePerCycle, Origin, Since
  <2>3. \A w \in Workers : Knows(work[w])'
    BY <2>1, Known DEF Knows, DocsAreRight, SubIsRight, MoneyIsRight, New, Served
  <2>4. \A w \in Workers, v \in Workers : Apart(v, w) => Apart(v, w)'
    BY <2>1 DEF Apart, New, Mine
  <2> QED
    BY <2>1, <2>2, <2>3, <2>4 DEF IInv, WorkersAreRight
<1> QED
  BY <1>1, <1>2

-----------------------------------------------------------------------------
(* Theorems *)

\* Every document, stored or held, is of a cycle that was charged and a plan that was
\* bought, but for what is still to be paid.
THEOREM Invariance == Spec => []IInv
<1>1. Init => IInv
  BY InitHolds
<1> QED
  BY <1>1, StepKeeps, PTL DEF Spec

\* The tables and the calm flag have their types.
THEOREM TypeCorrectness == Spec => []TypeOK
BY Invariance, PTL DEF IInv

\* However many runs of the job overlap, whatever requests meet them, and wherever they
\* stop: no cycle of a subscription is charged twice.
THEOREM OneCharge == Spec => []OneChargePerCycle
BY Invariance, PTL DEF IInv

\* Whichever stale document is put back last, the cycle it is in was charged once and its
\* plan was bought.
THEOREM PaidService == Spec => []ServedIsPaid
<1>1. IInv => ServedIsPaid
  <2> SUFFICES ASSUME IInv, NEW s \in Subs, There(subs[s])
               PROVE  billed[s][subs[s].end] = 1 /\ subs[s].plan \in bought[s]
    BY DEF ServedIsPaid, There
  <2>1. subs[s].end \in Cycles
    BY DEF IInv, TypeOK, SubDoc
  <2>2. billed[s][subs[s].end] \in Nat /\ billed[s][subs[s].end] <= 1
    BY <2>1 DEF IInv, TypeOK, OneChargePerCycle
  <2> QED
    BY <2>2 DEF IInv, StoredIsServed, Served
<1> QED
  BY <1>1, Invariance, PTL

-----------------------------------------------------------------------------
(* While nothing went wrong.  A document is in one worker's hands at a time,  *)
(* and as it is stored: this is what the refund, the usage and the end of a   *)
(* subscription rest on.                                                      *)

\* Holds, of a job.
HeldBy(job) == {s \in Subs : job.docs[s] # Absent} \union ({job.sub} \ {NoSub})

\* Where a worker has an order to collect.
Collecting == {"cover", "pick", "get", "deduct"}

\* What a worker holds is what is stored, and active unless it was read for a deduction;
\* the order it collects is in no usage yet.
Sees(job) ==
  /\ \A s \in Subs : job.docs[s] # Absent =>
       /\ There(job.docs[s])
       /\ job.pc # "deduct" => job.docs[s].status = "active"
       /\ IF New(job) THEN job.docs[s].used = 0 /\ job.docs[s].history = {} ELSE job.docs[s] = subs[s]
  /\ job.pc = "idle" => HeldBy(job) = {}
  /\ job.pc = "next" => job.sub = NoSub
  /\ job.pc = "change" /\ job.immediate => job.docs[job.sub].used <= Cap[job.plan]
  /\ job.pc \in Collecting => \A s \in Subs : job.order \notin subs[s].history
  /\ job.pc \in {"get", "deduct"} => job.order \in collected

\* Two workers do not meet.
Alone(v, w) ==
  /\ HeldBy(work[v]) \intersect HeldBy(work[w]) = {}
  /\ v \in Requests /\ w \in Requests => ~Active(v) \/ ~Active(w)

\* A refunded subscription is cancelled, or about to be.
Settles(s) ==
  /\ refunded[s] <= 1
  /\ refunded[s] = 1 => \/ subs[s].status = "cancelled"
                        \/ \E w \in Workers : work[w].pc = "cancel" /\ work[w].sub = s

\* The usage is what its entries say.
AddsUp(s) ==
  /\ subs[s].history \subseteq collected
  /\ There(subs[s]) => /\ IsFiniteSet(subs[s].history) /\ subs[s].used = Cardinality(subs[s].history)
                       /\ subs[s].used <= Cap[subs[s].plan]

\* The runs of the job do their own work only.
PassesPass == \A p \in Passes : work[p].pc \in {"idle", "next", "bill", "roll", "expire"}

Quiet ==
  /\ PassesPass
  /\ calm => /\ \A w \in Workers : Sees(work[w]) /\ \A v \in Workers \ {w} : Alone(v, w)
             /\ \A s \in Subs : Settles(s) /\ AddsUp(s)

\* No subscription that has ended changes its status.
Ended(s) == subs[s].status \in {"cancelled", "expired"}

EndsLast == \A s \in Subs : Ended(s) => subs'[s].status = subs[s].status

\* Holds is HeldBy of the worker's job.
LEMMA HoldsIs == \A w : Holds(w) = HeldBy(work[w])
BY DEF Holds, HeldBy

\* Who is at a request's place is a request.
LEMMA Passing ==
  ASSUME PassesPass, NEW v \in Workers, work[v].pc \notin {"idle", "next", "bill", "roll", "expire"}
  PROVE  v \in Requests /\ v \notin Passes
BY DEF PassesPass, Workers

\* Worker w takes a step that changes nothing but what it holds.
LEMMA Onward ==
  ASSUME IInv, Quiet, calm, NEW w \in Workers, Goes(w),
         \A s \in Subs \ HeldBy(work[w]) : subs'[s] = subs[s],
         \A v \in Workers \ {w} :
           /\ HeldBy(work[v]) \intersect HeldBy(work'[w]) = {}
           /\ v \in Requests /\ w \in Requests => ~Active(v) \/ work'[w].pc = "idle",
         Sees(work[w])', PassesPass',
         collected \subseteq collected',
         \A s \in Subs : Settles(s)' /\ AddsUp(s)',
         \/ \A s \in Subs : subs'[s].history \subseteq subs[s].history
         \/ work[w].pc = "deduct"
  PROVE  Quiet'
<1>1. ASSUME NEW v \in Workers \ {w} PROVE Sees(work[v])'
  <2>0. Sees(work[v]) /\ work'[v] = work[v] /\ Alone(v, w)
    BY DEF Quiet, Goes
  <2>1. \A s \in Subs : work[v].docs[s] # Absent => subs'[s] = subs[s]
    BY <2>0 DEF Alone, HeldBy
  <2>2. work[v].pc \in Collecting => \A s \in Subs : subs'[s].history \subseteq subs[s].history
    <3> SUFFICES ASSUME work[v].pc \in Collecting, work[w].pc = "deduct" PROVE FALSE
      OBVIOUS
    <3>1. v \in Requests /\ w \in Requests
      BY Passing DEF Quiet, Collecting
    <3> QED
      BY <2>0, <3>1 DEF Alone, Active, Collecting
  <2> QED
    BY <2>0, <2>1, <2>2 DEF Sees, New, There, HeldBy
<1>2. ASSUME NEW v \in Workers, NEW u \in Workers \ {v} PROVE Alone(u, v)'
  <2>1. CASE u # w /\ v # w
    BY <2>1 DEF Quiet, Alone, HeldBy, Active, Goes
  <2>2. CASE u = w \/ v = w
    BY <2>2 DEF Alone, HeldBy, Active, Goes
  <2> QED
    BY <2>1, <2>2
<1> QED
  BY <1>1, <1>2 DEF Quiet

\* A worker that returns holds nothing.
LEMMA IdleSees ==
  ASSUME NEW w, work'[w] = Idle  PROVE Sees(work[w])' /\ HeldBy(work'[w]) = {}
<1>1. /\ work'[w].pc = "idle" /\ work'[w].sub = NoSub
      /\ \A s \in Subs : work'[w].docs[s] = Absent
  BY Nones
<1> QED
  BY <1>1 DEF Sees, HeldBy, Collecting

\* A refund is not forgotten.
LEMMA StillSettles ==
  ASSUME NEW w \in Workers, Goes(w), refunded' = refunded, NEW s \in Subs, Settles(s),
         subs[s].status = "cancelled" => subs'[s].status = "cancelled",
         work[w].pc = "cancel" => work[w].sub # s \/ subs'[s].status = "cancelled"
  PROVE  Settles(s)'
BY DEF Settles, Goes

\* A worker starts.
LEMMA Arrives ==
  ASSUME IInv, Quiet, calm, NEW w \in Workers, NEW held, ~Active(w), Disturb(w, held), Goes(w),
         UNCHANGED <<subs, collected, refunded>>, HeldBy(work'[w]) \subseteq held,
         Sees(work[w])', PassesPass'
  PROVE  Quiet'
<1> SUFFICES ASSUME calm' PROVE Quiet'
  BY DEF Quiet
<1>1. ASSUME NEW v \in Workers \ {w}
      PROVE  /\ HeldBy(work[v]) \intersect HeldBy(work'[w]) = {}
             /\ v \in Requests /\ w \in Requests => ~Active(v)
  <2>1. CASE Active(v)
    BY <2>1, HoldsIs DEF Disturb, Crowded
  <2>2. CASE ~Active(v)
    BY <2>2 DEF Quiet, Sees, Active
  <2> QED
    BY <2>1, <2>2
<1>2. \A s \in Subs : Settles(s)' /\ AddsUp(s)'
  <2>1. work[w].pc # "cancel"
    BY DEF Active
  <2>2. \A s \in Subs : Settles(s) /\ AddsUp(s)
    BY DEF Quiet
  <2> QED
    BY <2>1, <2>2, StillSettles DEF AddsUp
<1> QED
  BY <1>1, <1>2, Onward

\* A worker goes on with what it holds, or with less.
LEMMA GoesOn ==
  ASSUME IInv, Quiet, calm, NEW w \in Workers, Active(w), Goes(w), UNCHANGED <<subs, refunded>>,
         collected \subseteq collected', HeldBy(work'[w]) \subseteq HeldBy(work[w]),
         work[w].pc # "cancel", Sees(work[w])', PassesPass'
  PROVE  Quiet'
<1>1. ASSUME NEW v \in Workers \ {w}
      PROVE  /\ HeldBy(work[v]) \intersect HeldBy(work'[w]) = {}
             /\ v \in Requests /\ w \in Requests => ~Active(v)
  BY DEF Quiet, Alone
<1>2. \A s \in Subs : Settles(s)' /\ AddsUp(s)'
  <2>1. \A s \in Subs : Settles(s) /\ AddsUp(s)
    BY DEF Quiet
  <2> QED
    BY <2>1, StillSettles DEF AddsUp
<1> QED
  BY <1>1, <1>2, Onward

\* The usage of a document is what its entries say.
Explained(doc) ==
  /\ IsFiniteSet(doc.history) /\ doc.used = Cardinality(doc.history)
  /\ doc.used <= Cap[doc.plan]
  /\ doc.history \subseteq collected

\* A worker puts a document it holds.
LEMMA Writes ==
  ASSUME IInv, Quiet, calm, NEW w \in Workers, Active(w), Goes(w), UNCHANGED <<refunded, collected>>,
         NEW s \in Subs, work[w].docs[s] # Absent, NEW doc, subs' = [subs EXCEPT ![s] = doc],
         HeldBy(work'[w]) \subseteq HeldBy(work[w]), Sees(work[w])', PassesPass',
         doc.status = work[w].docs[s].status \/ work[w].docs[s].status = "active",
         work[w].pc = "cancel" => s = work[w].sub /\ doc.status = "cancelled",
         doc.history \subseteq work[w].docs[s].history \/ work[w].pc = "deduct",
         Explained(doc)
  PROVE  Quiet' /\ EndsLast
<1>1. ASSUME NEW v \in Workers \ {w}
      PROVE  /\ HeldBy(work[v]) \intersect HeldBy(work'[w]) = {}
             /\ v \in Requests /\ w \in Requests => ~Active(v)
             /\ s \notin HeldBy(work[v])
  BY DEF Quiet, Alone, HeldBy
<1>2. /\ subs'[s] = doc /\ \A t \in Subs \ {s} : subs'[t] = subs[t]
      /\ s \in HeldBy(work[w])
  BY DEF IInv, TypeOK, HeldBy
<1>3. /\ There(work[w].docs[s])
      /\ IF New(work[w]) THEN s = work[w].sub /\ work[w].docs[s].history = {} /\ ~There(subs[s])
         ELSE work[w].docs[s] = subs[s]
  BY Known DEF Quiet, Sees, Knows, DocsAreRight, SubIsRight
<1>4. EndsLast
  BY <1>2, <1>3 DEF EndsLast, Ended, There
<1>5. \A t \in Subs : subs'[t].history \subseteq subs[t].history \/ work[w].pc = "deduct"
  BY <1>2, <1>3
<1>6. \A t \in Subs : Settles(t)' /\ AddsUp(t)'
  <2> SUFFICES ASSUME NEW t \in Subs PROVE Settles(t)' /\ AddsUp(t)'
    OBVIOUS
  <2>1. Settles(t) /\ AddsUp(t)
    BY DEF Quiet
  <2>2. Settles(t)'
    <3>1. subs[t].status = "cancelled" => subs'[t].status = "cancelled"
      BY <1>4 DEF EndsLast, Ended
    <3>2. work[w].pc = "cancel" => work[w].sub # t \/ subs'[t].status = "cancelled"
      BY <1>2
    <3> QED
      BY <2>1, <3>1, <3>2, StillSettles
  <2>3. AddsUp(t)'
    BY <1>2, <2>1 DEF AddsUp, Explained
  <2> QED
    BY <2>2, <2>3
<1> QED
  BY <1>1, <1>2, <1>4, <1>5, <1>6, Onward


-----------------------------------------------------------------------------
(* Requests arrive *)

\* An active subscription is read.
LEMMA StartsQuiet ==
  ASSUME IInv, Quiet, calm, NEW r \in Workers, NEW s \in Subs, subs[s].status = "active", NEW job \in Jobs,
         job.pc \in {"keep", "pause", "refund", "cover"}, job.sub = s,
         job.docs = [Nothing EXCEPT ![s] = subs[s]], job.pc = "cover" => job.order \notin collected,
         Begin(r, {s}, job), PassesPass'
  PROVE  Quiet'
<1>1. Goes(r) /\ work'[r] = job
  BY BeginMakes DEF Begin
<1>2. ~Active(r) /\ Disturb(r, {s}) /\ UNCHANGED <<subs, collected, refunded>>
  BY DEF Begin
<1>3. \A t \in Subs \ {s} : job.docs[t] = Absent
  BY Nones
<1>4. job.docs[s] = subs[s]
  BY Nones
<1>5. HeldBy(work'[r]) \subseteq {s}
  BY <1>1, <1>3 DEF HeldBy
<1>6. job.pc = "cover" => \A t \in Subs : job.order \notin subs[t].history
  BY DEF Quiet, AddsUp
<1>7. Sees(work[r])'
  BY <1>1, <1>2, <1>3, <1>4, <1>6 DEF Sees, New, There, Collecting
<1> QED
  BY <1>1, <1>2, <1>5, <1>7, Arrives


\* A new identity is held by the request that makes it.
LEMMA SubscribeStartQuiet ==
  ASSUME IInv, Quiet, calm, NEW r \in Workers, NEW s \in Subs, NEW p \in Plans, SubscribeStart(r, s, p), PassesPass'
  PROVE  Quiet'
<1> DEFINE job == Job("subscribe", s, Fresh(p))
<1>0. now + 1 \in Cycles
  <2>1. now \in 0..MaxTime
    BY DEF IInv, TypeOK
  <2> QED
    BY <2>1, BoundsAreNatural DEF Cycles
<1>1. /\ Fresh(p) \in SubDoc /\ Fresh(p).status = "active"
      /\ Fresh(p).used = 0 /\ Fresh(p).history = {}
  BY <1>0, Nones DEF Fresh, SubDoc, Absent
<1>2. /\ job \in Jobs /\ job.pc = "subscribe" /\ job.sub = s /\ job.docs = [Nothing EXCEPT ![s] = Fresh(p)]
  BY <1>1, Made DEF Labels
<1>3. Begin(r, {s}, job)
  BY DEF SubscribeStart
<1> HIDE DEF job
<1>4. Goes(r) /\ work'[r] = job
  BY <1>2, <1>3, BeginMakes DEF Begin
<1>5. job.docs[s] = Fresh(p) /\ \A t \in Subs \ {s} : job.docs[t] = Absent
  BY <1>2, Nones
<1>6. ~Active(r) /\ Disturb(r, {s}) /\ UNCHANGED <<subs, collected, refunded>>
  BY <1>3 DEF Begin
<1>7. HeldBy(work'[r]) \subseteq {s}
  BY <1>2, <1>4, <1>5 DEF HeldBy
<1>8. Sees(work[r])'
  BY <1>1, <1>2, <1>4, <1>5 DEF Sees, New, There, Collecting
<1> QED
  BY <1>4, <1>6, <1>7, <1>8, Arrives

\* A quote holds the subscription, not its document.
LEMMA ChangeStartQuiet ==
  ASSUME IInv, Quiet, calm, NEW r \in Workers, NEW s \in Subs, NEW p \in Plans, ChangeStart(r, s, p), PassesPass'
  PROVE  Quiet'
<1> DEFINE made == Job("quoted", s, Absent)
           job == [made EXCEPT !.plan = p, !.immediate = Upgrade(subs[s], p)]
<1>1. made \in Jobs /\ made.pc = "quoted" /\ made.sub = s /\ made.docs = [Nothing EXCEPT ![s] = Absent]
  <2>1. "quoted" \in Labels /\ Absent \in SubDoc
    BY Nones DEF Labels
  <2>2. \A pc \in Labels, t \in Subs, doc \in SubDoc :
          /\ Job(pc, t, doc) \in Jobs /\ Job(pc, t, doc).pc = pc /\ Job(pc, t, doc).sub = t
          /\ Job(pc, t, doc).docs = [Nothing EXCEPT ![t] = doc]
    BY Made
  <2> QED
    BY <2>1, <2>2
<1>2. Begin(r, {s}, job)
  BY DEF ChangeStart
<1>3. Upgrade(subs[s], p) \in BOOLEAN
  BY DEF Upgrade
<1> HIDE DEF made
<1>4. /\ job \in Jobs /\ job.pc = "quoted" /\ job.sub = s
      /\ \A t \in Subs : job.docs[t] = Absent
  BY <1>1, <1>3, Nones DEF Jobs
<1> HIDE DEF job
<1>5. Goes(r) /\ work'[r] = job
  BY <1>2, <1>4, BeginMakes DEF Begin
<1>6. ~Active(r) /\ Disturb(r, {s}) /\ UNCHANGED <<subs, collected, refunded>>
  BY <1>2 DEF Begin
<1>7. HeldBy(work'[r]) \subseteq {s}
  BY <1>4, <1>5 DEF HeldBy
<1>8. Sees(work[r])'
  BY <1>4, <1>5 DEF Sees, Collecting
<1> QED
  BY <1>5, <1>6, <1>7, <1>8, Arrives

\* What a query for active subscriptions answers with.
LEMMA ReadShows ==
  ASSUME IInv, NEW found \in SUBSET Subs, \A s \in found : subs[s].status = "active"
  PROVE  \A s \in Subs : Read(found)[s] # Absent =>
           s \in found /\ Read(found)[s] = subs[s] /\ There(Read(found)[s]) /\ Read(found)[s].status = "active"
BY DEF Read, There

\* A deletion holds every active subscription.
LEMMA DeleteStartQuiet ==
  ASSUME IInv, Quiet, calm, NEW r \in Workers, DeleteStart(r), PassesPass'
  PROVE  Quiet'
<1> DEFINE found == {s \in Subs : subs[s].status = "active"}
           job == [Idle EXCEPT !.pc = "delete", !.todo = found, !.docs = Read(found)]
<1>1. found \in SUBSET Subs /\ \A s \in found : subs[s].status = "active" /\ There(subs[s])
  BY DEF There
<1>2. Begin(r, found, job)
  BY DEF DeleteStart
<1> HIDE DEF found
<1>4. job \in Jobs /\ job.pc = "delete" /\ job.docs = Read(found) /\ job.sub = NoSub
  BY <1>1, ReadMakes, Nones DEF Jobs, Labels
<1> HIDE DEF job
<1>5. Goes(r) /\ work'[r] = job
  BY <1>2, <1>4, BeginMakes DEF Begin
<1>6. ~Active(r) /\ Disturb(r, found) /\ UNCHANGED <<subs, collected, refunded>>
  BY <1>2 DEF Begin
<1>7. HeldBy(work'[r]) \subseteq found
  BY <1>1, <1>4, <1>5, ReadShows DEF HeldBy
<1>8. Sees(work[r])'
  BY <1>1, <1>4, <1>5, <1>6, ReadShows DEF Sees, Collecting, New, There
<1> QED
  BY <1>5, <1>6, <1>7, <1>8, Arrives

\* A run holds every due subscription.
LEMMA PassStartQuiet ==
  ASSUME IInv, Quiet, calm, NEW p \in Workers, PassStart(p), PassesPass'
  PROVE  Quiet'
<1> DEFINE due == {s \in Subs : Due(subs[s])}
           job == [Idle EXCEPT !.pc = "next", !.todo = due, !.docs = Read(due)]
<1>1. due \in SUBSET Subs /\ \A s \in due : subs[s].status = "active" /\ There(subs[s])
  BY DEF Due, There
<1>2. /\ work' = [work EXCEPT ![p] = job] /\ Disturb(p, due) /\ ~Active(p)
      /\ UNCHANGED <<subs, collected, refunded>>
  BY DEF PassStart
<1> HIDE DEF due
<1>4. job \in Jobs /\ job.pc = "next" /\ job.docs = Read(due) /\ job.sub = NoSub
  BY <1>1, ReadMakes, Nones DEF Jobs, Labels
<1> HIDE DEF job
<1>5. Goes(p) /\ work'[p] = job
  BY <1>2, <1>4, BeginMakes
<1>7. HeldBy(work'[p]) \subseteq due
  BY <1>1, <1>4, <1>5, ReadShows DEF HeldBy
<1>8. Sees(work[p])'
  BY <1>1, <1>2, <1>4, <1>5, ReadShows DEF Sees, Collecting, New, There
<1> QED
  BY <1>2, <1>5, <1>7, <1>8, Arrives

\* Whatever a request starts with.
LEMMA ArriveQuiet ==
  ASSUME IInv, Quiet, calm, NEW r \in Workers, Arrive(r), PassesPass'
  PROVE  Quiet'
<1>1. ASSUME NEW s \in Subs, KeepStart(r, s) \/ PauseStart(r, s) \/ CancelStart(r, s)  PROVE Quiet'
  <2>1. subs[s] \in SubDoc /\ subs[s].status = "active"
    BY <1>1, Known DEF KeepStart, PauseStart, CancelStart, Current
  <2>2. PICK pc \in {"keep", "pause", "refund"} : Begin(r, {s}, Job(pc, s, subs[s]))
    BY <1>1 DEF KeepStart, PauseStart, CancelStart
  <2> DEFINE job == Job(pc, s, subs[s])
  <2>3. pc \in Labels
    BY DEF Labels
  <2>4. job \in Jobs /\ job.pc = pc /\ job.sub = s /\ job.docs = [Nothing EXCEPT ![s] = subs[s]]
    BY <2>1, <2>3, Made
  <2>5. Begin(r, {s}, job)
    BY <2>2
  <2> HIDE DEF job
  <2> QED
    BY <2>1, <2>2, <2>4, <2>5, StartsQuiet
<1>2. ASSUME NEW s \in Subs, NEW o \in Orders, CollectStart(r, s, o)  PROVE Quiet'
  <2> DEFINE made == Job("cover", s, subs[s])
             job == [made EXCEPT !.order = o]
  <2>1. subs[s] \in SubDoc /\ subs[s].status = "active" /\ Begin(r, {s}, job) /\ o \notin collected
    BY <1>2, Known DEF CollectStart
  <2>2. made \in Jobs /\ made.pc = "cover" /\ made.sub = s /\ made.docs = [Nothing EXCEPT ![s] = subs[s]]
    BY <2>1, Made DEF Labels
  <2> HIDE DEF made
  <2>3. /\ job \in Jobs /\ job.pc = "cover" /\ job.sub = s /\ job.docs = [Nothing EXCEPT ![s] = subs[s]]
        /\ job.order = o
    BY <2>2 DEF Jobs
  <2> HIDE DEF job
  <2> QED
    BY <2>1, <2>3, StartsQuiet
<1> QED
  BY <1>1, <1>2, SubscribeStartQuiet, ChangeStartQuiet, DeleteStartQuiet DEF Arrive


-----------------------------------------------------------------------------
(* Requests go on *)

\* A worker goes on with the same documents.
LEMMA GotoQuiet ==
  ASSUME IInv, Quiet, calm, PassesPass', NEW w \in Workers, NEW pc \in Labels \ {"idle", "next"}, Goto(w, pc),
         UNCHANGED <<subs, refunded>>, collected \subseteq collected',
         work[w].pc \notin {"idle", "deduct", "cancel"}, New(work'[w]) <=> New(work[w]),
         pc = "change" /\ work[w].immediate => Mine(w).used <= Cap[work[w].plan],
         pc \in Collecting => work[w].pc \in Collecting,
         pc \in {"get", "deduct"} => work[w].order \in collected'
  PROVE  Quiet'
<1>1. /\ Goes(w) /\ work'[w].pc = pc /\ work'[w].sub = work[w].sub /\ work'[w].docs = work[w].docs
      /\ work'[w].plan = work[w].plan /\ work'[w].order = work[w].order /\ work'[w].immediate = work[w].immediate
  BY GotoMakes
<1>2. HeldBy(work'[w]) \subseteq HeldBy(work[w])
  BY <1>1 DEF HeldBy
<1>3. Sees(work[w])
  BY DEF Quiet
<1>4. Sees(work[w])'
  BY <1>1, <1>3 DEF Sees, New, There, Mine
<1> QED
  BY <1>1, <1>2, <1>4, GoesOn DEF Active

\* A request ends before it put anything.
LEMMA ReturnQuiet ==
  ASSUME IInv, Quiet, calm, PassesPass', NEW w \in Workers, Return(w), UNCHANGED <<subs, refunded, collected>>,
         Active(w), work[w].pc # "cancel"
  PROVE  Quiet'
<1>1. Goes(w) /\ work'[w] = Idle
  BY ReturnMakes
<1> QED
  BY <1>1, IdleSees, GoesOn

\* The wallet is charged, or the request ends.
LEMMA SubscribeChargeQuiet ==
  ASSUME IInv, Quiet, calm, PassesPass', NEW r \in Workers, NEW covered \in BOOLEAN, SubscribeCharge(r, covered)
  PROVE  Quiet'
<1>1. CASE covered
  <2>1. Goto(r, "create") /\ work[r].pc = "subscribe" /\ UNCHANGED <<subs, refunded, collected>>
    BY <1>1 DEF SubscribeCharge
  <2>2. work'[r].pc = "create"
    BY <2>1, GotoMakes DEF Labels
  <2> QED
    BY <2>1, <2>2, GotoQuiet DEF New, Labels, Collecting
<1>2. CASE ~covered
  BY <1>2, ReturnQuiet DEF SubscribeCharge, Active
<1> QED
  BY <1>1, <1>2

\* An upgrade to less than is used is not quiet; every other charge is.
LEMMA ChangeChargeQuiet ==
  ASSUME IInv, Quiet, calm, PassesPass', NEW r \in Workers, NEW covered \in BOOLEAN, ChangeCharge(r, covered)
  PROVE  Quiet'
<1> SUFFICES ASSUME calm' PROVE Quiet'
  BY DEF Quiet
<1>1. CASE covered
  <2>1. /\ Goto(r, "change") /\ work[r].pc = "prorate" /\ UNCHANGED <<subs, refunded, collected>>
        /\ Mine(r).used <= Cap[work[r].plan]
    BY <1>1 DEF ChangeCharge
  <2>2. work'[r].pc = "change"
    BY <2>1, GotoMakes DEF Labels
  <2> QED
    BY <2>1, <2>2, GotoQuiet DEF New, Labels, Collecting
<1>2. CASE ~covered
  BY <1>2, ReturnQuiet DEF ChangeCharge, Active
<1> QED
  BY <1>1, <1>2

\* The subscription a change is made to is read anew, and nobody else holds it: what the
\* passes hold is due, and this is not.
LEMMA ChangeReadQuiet ==
  ASSUME IInv, Quiet, calm, PassesPass', NEW r \in Workers, NEW s \in Subs, ChangeRead(r, s)
  PROVE  Quiet'
<1> DEFINE job == [work[r] EXCEPT !.pc = AfterQuote(work[r].immediate), !.sub = s,
                                  !.docs = [Nothing EXCEPT ![s] = subs[s]]]
<1>1. /\ work[r].pc = "quoted" /\ Current(s) /\ subs[s] \in SubDoc
      /\ UNCHANGED <<subs, collected, refunded>>
  BY Known DEF ChangeRead
<1>2. work[r] \in Jobs /\ work[r].immediate \in BOOLEAN
  BY Known DEF Jobs
<1>3. AfterQuote(work[r].immediate) \in Labels
  BY DEF AfterQuote, Labels
<1>4. /\ job \in Jobs /\ job.pc = AfterQuote(work[r].immediate) /\ job.sub = s /\ job.docs[s] = subs[s]
      /\ job.immediate = work[r].immediate
      /\ \A t \in Subs \ {s} : job.docs[t] = Absent
  BY <1>1, <1>2, <1>3, Nones DEF Jobs
<1>5. work' = [work EXCEPT ![r] = job]
  BY Known DEF ChangeRead, IInv
<1> HIDE DEF job
<1>6. Goes(r) /\ work'[r] = job
  BY <1>4, <1>5, BeginMakes
<1>7. job.pc \in {"prorate", "change"} /\ (job.pc = "change" => ~job.immediate)
  BY <1>2, <1>4 DEF AfterQuote
<1>8. HeldBy(work'[r]) \subseteq {s}
  BY <1>4, <1>6 DEF HeldBy
<1>9. ASSUME NEW v \in Workers \ {r} PROVE s \notin HeldBy(work[v]) /\ (v \in Requests => ~Active(v))
  <2>1. r \in Requests
    BY <1>1, Passing DEF Quiet
  <2>2. Alone(v, r) /\ Sees(work[v]) /\ Active(r)
    BY <1>1 DEF Quiet, Active
  <2>3. v \in Requests => ~Active(v)
    BY <2>1, <2>2 DEF Alone
  <2>4. CASE ~Active(v)
    BY <2>3, <2>2, <2>4 DEF Sees, Active
  <2>5. CASE Active(v)
    <3>1. work[v].pc \in {"next", "bill", "roll", "expire"}
      BY <2>3, <2>5 DEF Quiet, PassesPass, Workers, Active
    <3>2. work[v].docs[s] = Absent
      <4>1. SUFFICES ASSUME work[v].docs[s] # Absent PROVE FALSE
        OBVIOUS
      <4>2. work[v].docs[s] = subs[s] /\ There(work[v].docs[s])
        BY <2>2, <3>1, <4>1 DEF Sees, New
      <4>3. subs[s].end <= now
        BY <3>1, <4>2, Known DEF Knows, DocsAreRight
      <4>4. subs[s].end \in Nat /\ now \in Nat /\ subs[s].end > now
        BY <1>1, Known, BoundsAreNatural DEF Current, SubDoc, Cycles
      <4> QED
        BY <4>3, <4>4
    <3>3. work[v].sub # s
      <4>1. CASE work[v].pc = "next"
        BY <2>2, <4>1, NoneIsNone DEF Sees
      <4>2. CASE work[v].pc \in {"bill", "roll", "expire"}
        BY <3>2, <4>2, MineIsServed, Nones DEF Holding, Mine
      <4> QED
        BY <3>1, <4>1, <4>2
    <3> QED
      BY <2>3, <3>2, <3>3 DEF HeldBy
  <2> QED
    BY <2>4, <2>5
<1>10. Sees(work[r])'
  BY <1>1, <1>4, <1>6, <1>7 DEF Sees, New, There, Current, Collecting
<1>11. \A t \in Subs : Settles(t)' /\ AddsUp(t)'
  <2>1. \A t \in Subs : Settles(t) /\ AddsUp(t)
    BY DEF Quiet
  <2> QED
    BY <1>1, <1>6, <2>1, StillSettles DEF AddsUp
<1> QED
  BY <1>1, <1>6, <1>8, <1>9, <1>10, <1>11, Onward


\* What is held is explained as well.
LEMMA HeldIsExplained ==
  ASSUME IInv, Quiet, calm, NEW w \in Workers, NEW s \in Subs, work[w].docs[s] # Absent, ~New(work[w])
  PROVE  work[w].docs[s] = subs[s] /\ There(subs[s]) /\ Explained(subs[s])
BY DEF Quiet, Sees, AddsUp, Explained

\* What is put for the allowances per service is what was stored.
LEMMA CollectCoverQuiet ==
  ASSUME IInv, Quiet, calm, PassesPass', NEW r \in Workers, NEW perService \in BOOLEAN, CollectCover(r, perService)
  PROVE  Quiet' /\ EndsLast
<1> DEFINE s == work[r].sub
           job == [work[r] EXCEPT !.pc = "pick", !.docs = Nothing]
<1>1. /\ work[r].pc = "cover" /\ work' = [work EXCEPT ![r] = job] /\ UNCHANGED <<collected, refunded>>
      /\ IF perService THEN subs' = [subs EXCEPT ![s] = Mine(r)] ELSE subs' = subs
  BY DEF CollectCover, Put, IInv
<1>2. s \in Subs /\ work[r].docs[s] # Absent /\ ~New(work[r])
  BY <1>1, MineIsServed, Nones DEF Holding, New, Mine
<1>3. Mine(r) = subs[s] /\ Explained(subs[s])
  BY <1>2, HeldIsExplained DEF Mine
<1>4. /\ job \in Jobs /\ job.pc = "pick" /\ job.sub = s /\ job.order = work[r].order
      /\ \A t \in Subs : job.docs[t] = Absent
  BY Known, Nones DEF Jobs, Labels
<1> HIDE DEF job
<1>5. Goes(r) /\ work'[r] = job
  BY <1>1, <1>4, BeginMakes
<1>6. HeldBy(work'[r]) \subseteq HeldBy(work[r])
  BY <1>4, <1>5 DEF HeldBy
<1>7. subs' = subs
  BY <1>1, <1>3 DEF IInv, TypeOK
<1>8. Sees(work[r])'
  BY <1>1, <1>4, <1>5, <1>7 DEF Quiet, Sees, Collecting
<1> QED
  BY <1>1, <1>5, <1>6, <1>7, <1>8, GoesOn DEF EndsLast, Active

\* The order is collected before its garments are deducted.
LEMMA CollectOrderQuiet ==
  ASSUME IInv, Quiet, calm, PassesPass', NEW r \in Workers, CollectOrder(r)
  PROVE  Quiet'
<1>1. /\ work[r].pc = "pick" /\ Goto(r, "get") /\ UNCHANGED <<subs, refunded>>
      /\ collected' = collected \union {work[r].order}
  BY DEF CollectOrder
<1>2. work'[r].pc = "get"
  BY <1>1, GotoMakes DEF Labels
<1> QED
  BY <1>1, <1>2, GotoQuiet DEF New, Labels, Collecting

\* The document is read anew for the deduction.
LEMMA DeductReadQuiet ==
  ASSUME IInv, Quiet, calm, PassesPass', NEW r \in Workers, DeductRead(r)
  PROVE  Quiet'
<1> DEFINE s == work[r].sub
           job == [work[r] EXCEPT !.pc = "deduct", !.docs[s] = subs[s]]
<1>1. /\ work[r].pc = "get" /\ work' = [work EXCEPT ![r] = job] /\ UNCHANGED <<subs, collected, refunded>>
  BY DEF DeductRead, IInv
<1>2. s \in Subs /\ There(subs[s]) /\ subs[s] \in SubDoc /\ s # NoSub
  BY <1>1, Known, NoneIsNone DEF Knows, SubIsRight, New
<1>3. /\ job \in Jobs /\ job.pc = "deduct" /\ job.sub = s /\ job.order = work[r].order
      /\ job.docs[s] = subs[s] /\ \A t \in Subs \ {s} : job.docs[t] = work[r].docs[t]
  BY <1>2, Known DEF Jobs, Labels
<1> HIDE DEF job
<1>4. Goes(r) /\ work'[r] = job
  BY <1>1, <1>3, BeginMakes
<1>5. HeldBy(work'[r]) \subseteq HeldBy(work[r])
  BY <1>2, <1>3, <1>4 DEF HeldBy
<1>6. Sees(work[r])
  BY DEF Quiet
<1>7. Sees(work[r])'
  BY <1>1, <1>2, <1>3, <1>4, <1>6 DEF Sees, New, There, Collecting
<1> QED
  BY <1>1, <1>4, <1>5, <1>7, GoesOn DEF Active

\* The only refund of a subscription: it is being served, so none was given before.
LEMMA CancelRefundQuiet ==
  ASSUME IInv, Quiet, calm, PassesPass', NEW r \in Workers, NEW due \in BOOLEAN, CancelRefund(r, due)
  PROVE  Quiet'
<1> DEFINE s == work[r].sub
<1>1. /\ work[r].pc = "refund" /\ Goto(r, "cancel") /\ UNCHANGED <<subs, collected>>
      /\ refunded' = IF due THEN [refunded EXCEPT ![s] = @ + 1] ELSE refunded
  BY DEF CancelRefund
<1>2. s \in Subs /\ work[r].docs[s] # Absent /\ ~New(work[r]) /\ s # NoSub
  BY <1>1, MineIsServed, Nones, NoneIsNone DEF Holding, New, Mine
<1>3. /\ Goes(r) /\ work'[r].pc = "cancel" /\ work'[r].sub = s /\ work'[r].docs = work[r].docs
      /\ work'[r].order = work[r].order
  BY <1>1, GotoMakes DEF Labels
<1>4. HeldBy(work'[r]) = HeldBy(work[r]) /\ s \in HeldBy(work[r])
  BY <1>2, <1>3 DEF HeldBy
<1>5. ASSUME NEW v \in Workers \ {r}
      PROVE  /\ HeldBy(work[v]) \intersect HeldBy(work'[r]) = {} /\ work[v].sub # s
             /\ v \in Requests /\ r \in Requests => ~Active(v)
  <2>1. Alone(v, r) /\ Active(r)
    BY <1>1 DEF Quiet, Active
  <2> QED
    BY <1>2, <1>4, <2>1 DEF Alone, HeldBy
<1>6. refunded[s] = 0
  <2>1. Settles(s) /\ Sees(work[r])
    BY <1>2 DEF Quiet
  <2>2. subs[s].status = "active"
    BY <1>1, <1>2, <2>1 DEF Sees
  <2>3. refunded[s] # 1
    BY <1>1, <1>5, <2>1, <2>2 DEF Settles
  <2>4. refunded[s] \in Nat
    BY <1>2 DEF IInv, TypeOK
  <2> QED
    BY <2>1, <2>3, <2>4 DEF Settles
<1>7. ASSUME NEW t \in Subs PROVE Settles(t)' /\ AddsUp(t)'
  <2>1. Settles(t) /\ AddsUp(t)
    BY DEF Quiet
  <2>2. AddsUp(t)'
    BY <1>1, <2>1 DEF AddsUp
  <2>3. CASE t = s
    <3>1. refunded'[s] <= 1
      BY <1>1, <1>2, <1>6 DEF IInv, TypeOK
    <3> QED
      BY <1>3, <2>2, <2>3, <3>1 DEF Settles
  <2>4. CASE t # s
    <3>1. refunded'[t] = refunded[t]
      BY <1>1, <2>4 DEF IInv, TypeOK
    <3> QED
      BY <1>1, <1>3, <2>1, <2>2, <3>1 DEF Settles, Goes
  <2> QED
    BY <2>3, <2>4
<1>8. Sees(work[r])'
  <2>1. Sees(work[r])
    BY DEF Quiet
  <2> QED
    BY <1>1, <1>3, <2>1 DEF Sees, New, There, Collecting
<1> QED
  BY <1>1, <1>3, <1>5, <1>7, <1>8, Onward


\* A put that ends a request.
LEMMA StoresQuiet ==
  ASSUME IInv, Quiet, calm, PassesPass', NEW r \in Workers, NEW pc \in Holding \ {"subscribe"}, NEW doc,
         Store(r, pc, doc), Explained(doc),
         doc.status = Mine(r).status \/ Mine(r).status = "active",
         pc = "cancel" => doc.status = "cancelled",
         doc.history \subseteq Mine(r).history \/ pc = "deduct"
  PROVE  Quiet' /\ EndsLast
<1> DEFINE s == work[r].sub
<1>1. /\ work[r].pc = pc /\ subs' = [subs EXCEPT ![s] = doc] /\ Return(r)
      /\ UNCHANGED <<collected, refunded>>
  BY DEF Store, Put
<1>2. s \in Subs /\ work[r].docs[s] # Absent /\ Active(r)
  BY <1>1, MineIsServed, Nones DEF Holding, Mine, Active
<1>3. Goes(r) /\ work'[r] = Idle
  BY <1>1, ReturnMakes
<1>4. Sees(work[r])' /\ HeldBy(work'[r]) \subseteq HeldBy(work[r])
  BY <1>3, IdleSees
<1> QED
  BY <1>1, <1>2, <1>3, <1>4, Writes DEF Mine

\* A collection adds one entry for the one garment it spends.
LEMMA SpentIsExplained ==
  ASSUME NEW m \in SubDoc, Explained(m), NEW o \in collected, o \notin m.history, m.plan \in Plans
  PROVE  Explained(Spent(m, o)) /\ Spent(m, o).status = m.status
<1>1. /\ m.used \in Nat /\ IsFiniteSet(m.history) /\ m.used = Cardinality(m.history) /\ m.used <= Cap[m.plan]
      /\ Cap[m.plan] \in Nat /\ m.history \subseteq collected
  BY PlansAreRanked DEF SubDoc, Explained
<1>2. CASE m.used < Cap[m.plan]
  <2> DEFINE u == m.used + 1
             h == m.history \union {o}
             doc == [m EXCEPT !.used = u, !.history = h]
  <2>1. Spent(m, o) = doc
    BY <1>2 DEF Spent
  <2>2. IsFiniteSet(h) /\ Cardinality(h) = u
    BY <1>1, FS_AddElement
  <2>3. u <= Cap[m.plan] /\ h \subseteq collected
    BY <1>1, <1>2
  <2> HIDE DEF u, h
  <2>4. doc.used = u /\ doc.history = h /\ doc.plan = m.plan /\ doc.status = m.status
    BY DEF SubDoc
  <2> HIDE DEF doc
  <2> QED
    BY <2>1, <2>2, <2>3, <2>4 DEF Explained
<1>3. CASE ~(m.used < Cap[m.plan])
  <2> DEFINE doc == [m EXCEPT !.used = Cap[m.plan], !.history = @ \ {o}]
  <2>1. Spent(m, o) = doc
    BY <1>3 DEF Spent
  <2>2. m.used = Cap[m.plan] /\ m.history \ {o} = m.history
    BY <1>1, <1>3
  <2>3. doc.used = m.used /\ doc.history = m.history /\ doc.plan = m.plan /\ doc.status = m.status
    BY <2>2 DEF SubDoc
  <2> HIDE DEF doc
  <2> QED
    BY <1>1, <2>1, <2>3 DEF Explained
<1> QED
  BY <1>2, <1>3

\* Every put that ends a request.
LEMMA StorePutsQuiet ==
  ASSUME IInv, Quiet, calm, PassesPass', NEW r \in Workers,
         SubscribePut(r) \/ ChangePut(r) \/ KeepPut(r) \/ PausePut(r) \/ CancelPut(r) \/ DeductPut(r)
  PROVE  Quiet' /\ EndsLast
<1> DEFINE m == Mine(r)
           s == work[r].sub
<1>1. work[r].pc \in {"create", "change", "keep", "pause", "cancel", "deduct"}
  BY DEF SubscribePut, ChangePut, KeepPut, PausePut, CancelPut, DeductPut, Store
<1>2. /\ s \in Subs /\ m \in SubDoc /\ m # Absent /\ m.plan \in Plans /\ Cap[m.plan] \in Nat
  BY <1>1, MineIsServed, Nones, PlansAreRanked DEF Holding
<1>3. /\ Sees(work[r])
      /\ work[r].pc # "deduct" => m.status = "active"
      /\ IF work[r].pc = "create" THEN m.used = 0 /\ m.history = {} ELSE m = subs[s] /\ Explained(m)
  BY <1>1, <1>2, HeldIsExplained DEF Quiet, Sees, Mine, New
<1>4. Explained(m)
  <2>1. CASE work[r].pc = "create"
    BY <1>2, <1>3, <2>1, FS_EmptySet DEF Explained
  <2> QED
    BY <1>3, <2>1
<1>5. ASSUME NEW pc \in {"create", "change", "keep", "pause", "cancel", "deduct"}, NEW doc,
             Store(r, pc, doc), Explained(doc),
             doc.status = m.status \/ m.status = "active",
             pc = "cancel" => doc.status = "cancelled",
             doc.history \subseteq m.history \/ pc = "deduct"
      PROVE  Quiet' /\ EndsLast
  <2>1. pc \in Holding \ {"subscribe"}
    BY DEF Holding
  <2> QED
    BY <1>5, <2>1, StoresQuiet
<1>6. CASE SubscribePut(r)
  BY <1>4, <1>5, <1>6 DEF SubscribePut
<1>7. CASE ChangePut(r)
  <2>1. work[r].pc = "change" /\ (work[r].immediate => m.used <= Cap[work[r].plan])
    BY <1>3, <1>7 DEF ChangePut, Store, Sees, Mine
  <2>2. m.status = "active"
    BY <1>3, <2>1
  <2>3. PICK doc \in {[m EXCEPT !.plan = work[r].plan, !.pending = NoPlan], [m EXCEPT !.pending = work[r].plan]} :
           Store(r, "change", doc) /\ (doc = [m EXCEPT !.pending = work[r].plan] \/ work[r].immediate)
    BY <1>7 DEF ChangePut
  <2> HIDE DEF m
  <2>4. /\ doc.used = m.used /\ doc.history = m.history
        /\ doc.plan = m.plan \/ (doc.plan = work[r].plan /\ m.used <= Cap[work[r].plan])
    BY <1>2, <2>1, <2>3 DEF SubDoc
  <2>5. Explained(doc)
    BY <1>4, <2>4 DEF Explained
  <2> QED
    BY <1>5, <2>2, <2>3, <2>4, <2>5
<1>8. CASE KeepPut(r)
  <2> DEFINE doc == [m EXCEPT !.pending = NoPlan]
  <2>1. Store(r, "keep", doc)
    BY <1>8 DEF KeepPut
  <2> HIDE DEF m
  <2>2. doc.used = m.used /\ doc.history = m.history /\ doc.plan = m.plan /\ doc.status = m.status
    BY <1>2 DEF SubDoc
  <2> HIDE DEF doc
  <2> QED
    BY <1>4, <1>5, <2>1, <2>2 DEF Explained
<1>9. CASE PausePut(r)
  <2> DEFINE doc == [m EXCEPT !.status = "paused"]
  <2>1. Store(r, "pause", doc) /\ m.status = "active"
    BY <1>3, <1>9 DEF PausePut, Store
  <2> HIDE DEF m
  <2>2. doc.used = m.used /\ doc.history = m.history /\ doc.plan = m.plan
    BY <1>2 DEF SubDoc
  <2> HIDE DEF doc
  <2> QED
    BY <1>4, <1>5, <2>1, <2>2 DEF Explained
<1>10. CASE CancelPut(r)
  <2> DEFINE doc == [m EXCEPT !.status = "cancelled"]
  <2>1. Store(r, "cancel", doc) /\ m.status = "active"
    BY <1>3, <1>10 DEF CancelPut, Store
  <2> HIDE DEF m
  <2>2. doc.used = m.used /\ doc.history = m.history /\ doc.plan = m.plan /\ doc.status = "cancelled"
    BY <1>2 DEF SubDoc
  <2> HIDE DEF doc
  <2> QED
    BY <1>4, <1>5, <2>1, <2>2 DEF Explained
<1>11. CASE DeductPut(r)
  <2>1. Store(r, "deduct", Spent(m, work[r].order)) /\ work[r].pc = "deduct"
    BY <1>11 DEF DeductPut, Store
  <2>2. work[r].order \in collected /\ work[r].order \notin m.history
    BY <1>2, <1>3, <2>1 DEF Sees, Collecting
  <2> HIDE DEF m
  <2>3. Explained(Spent(m, work[r].order)) /\ Spent(m, work[r].order).status = m.status
    BY <1>2, <1>4, <2>2, SpentIsExplained
  <2> QED
    BY <1>5, <2>1, <2>3
<1> QED
  BY <1>6, <1>7, <1>8, <1>9, <1>10, <1>11


\* One of the subscriptions of a deleted account.
LEMMA DeletePutQuiet ==
  ASSUME IInv, Quiet, calm, PassesPass', NEW r \in Workers, NEW s \in Subs, DeletePut(r, s)
  PROVE  Quiet' /\ EndsLast
<1> DEFINE m == work[r].docs[s]
           doc == [m EXCEPT !.status = "cancelled", !.pending = NoPlan]
           job == [work[r] EXCEPT !.todo = @ \ {s}, !.docs[s] = Absent]
<1>1. /\ work[r].pc = "delete" /\ s \in work[r].todo /\ subs' = [subs EXCEPT ![s] = doc]
      /\ UNCHANGED <<collected, refunded>>
      /\ IF work[r].todo = {s} THEN work' = [work EXCEPT ![r] = Idle] ELSE work' = [work EXCEPT ![r] = job]
  BY DEF DeletePut, Put, Return, IInv
<1>2. m # Absent /\ ~New(work[r]) /\ m \in SubDoc
  BY <1>1, Known, Nones DEF Knows, SubIsRight, New, Jobs
<1>3. m = subs[s] /\ Explained(m) /\ m.status = "active" /\ Sees(work[r])
  BY <1>1, <1>2, HeldIsExplained DEF Quiet, Sees
<1>4. /\ job \in Jobs /\ job.pc = "delete" /\ job.sub = work[r].sub
      /\ job.docs[s] = Absent /\ \A t \in Subs \ {s} : job.docs[t] = work[r].docs[t]
  BY <1>1, Known, Nones DEF Jobs
<1>5. doc.used = m.used /\ doc.history = m.history /\ doc.plan = m.plan /\ doc.status = "cancelled"
  BY <1>2 DEF SubDoc
<1>6. Explained(doc)
  BY <1>3, <1>5 DEF Explained
<1> HIDE DEF job
<1>7. Goes(r) /\ (work'[r] = job \/ work'[r] = Idle)
  BY <1>1, <1>4, Nones, BeginMakes
<1>8. HeldBy(work'[r]) \subseteq HeldBy(work[r]) /\ Sees(work[r])'
  <2>1. CASE work'[r] = Idle
    BY <2>1, IdleSees
  <2>2. CASE work'[r] = job
    <3>1. \A t \in Subs \ {s} : subs'[t] = subs[t]
      BY <1>1
    <3> QED
      BY <1>1, <1>3, <1>4, <2>2, <3>1 DEF HeldBy, Sees, New, There, Collecting
  <2> QED
    BY <1>7, <2>1, <2>2
<1> HIDE DEF doc
<1> QED
  BY <1>1, <1>2, <1>3, <1>5, <1>6, <1>7, <1>8, Writes DEF Active

\* Whatever a request goes on with.
LEMMA ContinueQuiet ==
  ASSUME IInv, Quiet, calm, PassesPass', NEW r \in Workers, Continue(r)
  PROVE  Quiet' /\ EndsLast
<1>1. CASE ChangeNone(r)
  BY <1>1, ReturnQuiet DEF ChangeNone, Active, EndsLast
<1>2. CASE \E s \in Subs : ChangeRead(r, s) \/ DeletePut(r, s)
  BY <1>2, ChangeReadQuiet, DeletePutQuiet DEF ChangeRead, EndsLast
<1>3. CASE \E choice \in BOOLEAN :
             \/ SubscribeCharge(r, choice) \/ ChangeCharge(r, choice)
             \/ CancelRefund(r, choice) \/ CollectCover(r, choice)
  <2>1. PICK choice \in BOOLEAN :
             \/ SubscribeCharge(r, choice) \/ ChangeCharge(r, choice)
             \/ CancelRefund(r, choice) \/ CollectCover(r, choice)
    BY <1>3
  <2>2. CASE CollectCover(r, choice)
    BY <2>2, CollectCoverQuiet
  <2>3. CASE SubscribeCharge(r, choice)
    BY <2>3, SubscribeChargeQuiet DEF SubscribeCharge, EndsLast
  <2>4. CASE ChangeCharge(r, choice)
    BY <2>4, ChangeChargeQuiet DEF ChangeCharge, EndsLast
  <2>5. CASE CancelRefund(r, choice)
    BY <2>5, CancelRefundQuiet DEF CancelRefund, EndsLast
  <2> QED
    BY <2>1, <2>2, <2>3, <2>4, <2>5
<1>4. CASE CollectOrder(r)
  BY <1>4, CollectOrderQuiet DEF CollectOrder, EndsLast
<1>5. CASE DeductRead(r)
  BY <1>5, DeductReadQuiet DEF DeductRead, EndsLast
<1> QED
  BY <1>1, <1>2, <1>3, <1>4, <1>5, StorePutsQuiet DEF Continue

-----------------------------------------------------------------------------
(* The renewal job *)

\* A claim changes hands of nothing.
LEMMA PassClaimQuiet ==
  ASSUME IInv, Quiet, calm, PassesPass', NEW p \in Workers, NEW s \in Subs, PassClaim(p, s)
  PROVE  Quiet'
<1>1. /\ work[p].pc = "next" /\ s \in work[p].todo /\ UNCHANGED <<subs, collected, refunded>>
  BY DEF PassClaim
<1>2. There(work[p].docs[s]) /\ Sees(work[p]) /\ work[p].sub = NoSub /\ work[p].docs[s] # Absent
  BY <1>1, Known, Nones DEF Knows, SubIsRight, Quiet, Sees
<1>3. CASE work' = [work EXCEPT ![p].todo = @ \ {s}, ![p].docs[s] = Absent]
  <2> DEFINE job == [work[p] EXCEPT !.todo = @ \ {s}, !.docs[s] = Absent]
  <2>1. /\ job \in Jobs /\ job.pc = "next" /\ job.sub = NoSub
        /\ job.docs[s] = Absent /\ \A t \in Subs \ {s} : job.docs[t] = work[p].docs[t]
    BY <1>1, <1>2, Known, Nones DEF Jobs
  <2>2. work' = [work EXCEPT ![p] = job]
    BY <1>3, Known DEF IInv
  <2> HIDE DEF job
  <2>3. Goes(p) /\ work'[p] = job
    BY <2>1, <2>2, BeginMakes
  <2>4. HeldBy(work'[p]) \subseteq HeldBy(work[p]) /\ Sees(work[p])'
    BY <1>1, <1>2, <2>1, <2>3 DEF HeldBy, Sees, New, There, Collecting
  <2> QED
    BY <1>1, <2>3, <2>4, GoesOn DEF Active
<1>4. CASE work' = [work EXCEPT ![p].pc = "bill", ![p].sub = s, ![p].todo = @ \ {s}]
  <2> DEFINE job == [work[p] EXCEPT !.pc = "bill", !.sub = s, !.todo = @ \ {s}]
  <2>1. job \in Jobs /\ job.pc = "bill" /\ job.sub = s /\ job.docs = work[p].docs
    BY <1>1, <1>2, Known, Nones DEF Jobs, Labels
  <2>2. work' = [work EXCEPT ![p] = job]
    BY <1>4, Known DEF IInv
  <2> HIDE DEF job
  <2>3. Goes(p) /\ work'[p] = job
    BY <2>1, <2>2, BeginMakes
  <2>4. HeldBy(work'[p]) \subseteq HeldBy(work[p]) /\ Sees(work[p])'
    BY <1>1, <1>2, <2>1, <2>3 DEF HeldBy, Sees, New, There, Collecting
  <2> QED
    BY <1>1, <2>3, <2>4, GoesOn DEF Active
<1> QED
  BY <1>3, <1>4 DEF PassClaim

\* Nor does a charge.
LEMMA PassBillQuiet ==
  ASSUME IInv, Quiet, calm, PassesPass', NEW p \in Workers, NEW covered \in BOOLEAN, PassBill(p, covered)
  PROVE  Quiet'
<1>1. work[p].pc = "bill" /\ UNCHANGED <<subs, collected, refunded>>
  BY DEF PassBill
<1>2. PICK pc \in {"roll", "expire"} : Goto(p, pc)
  BY DEF PassBill, AfterBill
<1>3. pc \in Labels \ {"idle", "next"}
  BY DEF Labels
<1>4. work'[p].pc = pc
  BY <1>2, <1>3, GotoMakes
<1> QED
  BY <1>1, <1>2, <1>3, <1>4, GotoQuiet DEF New, Collecting

\* A put that settles a subscription.
LEMMA SettleQuiet ==
  ASSUME IInv, Quiet, calm, PassesPass', NEW p \in Workers, NEW pc \in {"roll", "expire"}, NEW doc, PassPut(p, pc, doc),
         Explained(doc), doc.history \subseteq Mine(p).history
  PROVE  Quiet' /\ EndsLast
<1> DEFINE s == work[p].sub
           job == [work[p] EXCEPT !.pc = "next", !.sub = NoSub, !.docs[s] = Absent]
<1>1. /\ work[p].pc = pc /\ subs' = [subs EXCEPT ![s] = doc] /\ work' = [work EXCEPT ![p] = job]
      /\ UNCHANGED <<collected, refunded>>
  BY DEF PassPut, Put, Done, IInv
<1>2. s \in Subs /\ work[p].docs[s] # Absent /\ ~New(work[p])
  BY <1>1, MineIsServed, Nones DEF Holding, New, Mine
<1>3. Sees(work[p]) /\ work[p].docs[s].status = "active"
  BY <1>1, <1>2 DEF Quiet, Sees
<1>4. /\ job \in Jobs /\ job.pc = "next" /\ job.sub = NoSub
      /\ job.docs[s] = Absent /\ \A t \in Subs \ {s} : job.docs[t] = work[p].docs[t]
  BY <1>2, Nones, Known DEF Jobs, Labels
<1> HIDE DEF job
<1>5. Goes(p) /\ work'[p] = job
  BY <1>1, <1>4, BeginMakes
<1>6. \A t \in Subs \ {s} : subs'[t] = subs[t]
  BY <1>1
<1>7. HeldBy(work'[p]) \subseteq HeldBy(work[p]) /\ Sees(work[p])'
  BY <1>1, <1>2, <1>3, <1>4, <1>5, <1>6 DEF HeldBy, Sees, New, There, Collecting
<1> QED
  BY <1>1, <1>2, <1>3, <1>5, <1>7, Writes DEF Active, Mine

\* Whatever a run does.
LEMMA PassStepQuiet ==
  ASSUME IInv, Quiet, calm, PassesPass', NEW p \in Workers, PassStep(p)
  PROVE  Quiet' /\ EndsLast
<1>1. CASE PassEnd(p)
  BY <1>1, ReturnQuiet DEF PassEnd, Active, EndsLast
<1>2. CASE PassRoll(p)
  <2> DEFINE m == Mine(p)
             q == NextPlan(m)
             doc == [m EXCEPT !.end = @ + 1, !.plan = q, !.pending = NoPlan, !.used = 0, !.history = {}]
  <2>1. PassPut(p, "roll", doc) /\ work[p].pc = "roll"
    BY <1>2 DEF PassRoll, PassPut
  <2>2. m \in SubDoc /\ work[p].sub \in Subs /\ q \in bought[work[p].sub]
    BY <2>1, MineIsServed, Known DEF Holding, Knows, MoneyIsRight, Mine
  <2>3. Cap[q] \in Nat
    BY <2>2, PlansAreRanked DEF IInv, TypeOK
  <2> HIDE DEF m, q
  <2>4. doc.used = 0 /\ doc.history = {} /\ doc.plan = q
    BY <2>2 DEF SubDoc
  <2> HIDE DEF doc
  <2>5. Explained(doc)
    BY <2>3, <2>4, FS_EmptySet DEF Explained
  <2> QED
    BY <2>1, <2>4, <2>5, SettleQuiet
<1>3. CASE PassExpire(p)
  <2> DEFINE m == Mine(p)
             doc == [m EXCEPT !.status = "expired"]
  <2>1. PassPut(p, "expire", doc) /\ work[p].pc = "expire"
    BY <1>3 DEF PassExpire, PassPut
  <2>2. m \in SubDoc /\ Explained(m)
    BY <2>1, MineIsServed, Nones, HeldIsExplained DEF Holding, New, Mine
  <2> HIDE DEF m
  <2>3. doc.used = m.used /\ doc.history = m.history /\ doc.plan = m.plan
    BY <2>2 DEF SubDoc
  <2> HIDE DEF doc
  <2>4. Explained(doc) /\ doc.history \subseteq Mine(p).history
    BY <2>2, <2>3 DEF Explained, m
  <2> QED
    BY <2>1, <2>4, SettleQuiet
<1>4. CASE \E s \in Subs : PassClaim(p, s)
  BY <1>4, PassClaimQuiet DEF PassClaim, EndsLast
<1>5. CASE \E covered \in BOOLEAN : PassBill(p, covered)
  BY <1>5, PassBillQuiet DEF PassBill, EndsLast
<1> QED
  BY <1>1, <1>2, <1>3, <1>4, <1>5 DEF PassStep


-----------------------------------------------------------------------------
(* All together *)

\* A request's step leaves the other workers alone.
LEMMA RequestsOwn ==
  ASSUME IInv, NEW r \in Workers, Arrive(r) \/ Continue(r)
  PROVE  \A v \in Workers \ {r} : work'[v] = work[v]
<1>0. work \in [Workers -> Jobs]
  BY DEF IInv
<1>1. CASE Arrive(r)
  <2>1. PICK job : work' = [work EXCEPT ![r] = job]
    BY <1>1 DEF Arrive, SubscribeStart, ChangeStart, KeepStart, PauseStart, CancelStart, CollectStart, DeleteStart, Begin
  <2> QED
    BY <1>0, <2>1
<1>2. CASE Continue(r)
  <2>1. CASE SubscribePut(r) \/ ChangePut(r) \/ KeepPut(r) \/ PausePut(r) \/ CancelPut(r) \/ DeductPut(r)
    <3>1. Return(r)
      BY <2>1 DEF SubscribePut, ChangePut, KeepPut, PausePut, CancelPut, DeductPut, Store
    <3> QED
      BY <1>0, <3>1 DEF Return
  <2>2. CASE \E choice \in BOOLEAN :
               \/ SubscribeCharge(r, choice) \/ ChangeCharge(r, choice)
               \/ CancelRefund(r, choice) \/ CollectCover(r, choice)
    BY <1>0, <2>2 DEF SubscribeCharge, ChangeCharge, CancelRefund, CollectCover, Goto, Return
  <2>3. CASE \E s \in Subs : ChangeRead(r, s) \/ DeletePut(r, s)
    BY <1>0, <2>3 DEF ChangeRead, DeletePut, Return
  <2>4. CASE ChangeNone(r) \/ CollectOrder(r) \/ DeductRead(r)
    BY <1>0, <2>4 DEF ChangeNone, CollectOrder, DeductRead, Goto, Return
  <2> QED
    BY <1>2, <2>1, <2>2, <2>3, <2>4 DEF Continue
<1> QED
  BY <1>1, <1>2

\* So does a run of the job, which stays at its own places.
LEMMA PassesOwn ==
  ASSUME IInv, NEW p \in Workers, PassStart(p) \/ PassStep(p)
  PROVE  /\ \A v \in Workers \ {p} : work'[v] = work[v]
         /\ work'[p].pc \in {"idle", "next", "bill", "roll", "expire"}
<1>0. work \in [Workers -> Jobs] /\ work[p] \in Jobs
  BY DEF IInv
<1>1. CASE PassStart(p)
  BY <1>0, <1>1 DEF PassStart, Idle
<1>2. CASE PassStep(p)
  <2>1. CASE PassEnd(p)
    BY <1>0, <2>1, Nones DEF PassEnd, Return
  <2>2. CASE PassRoll(p) \/ PassExpire(p)
    <3>1. Done(p, work[p].sub)
      BY <2>2 DEF PassRoll, PassExpire, PassPut
    <3> QED
      BY <1>0, <3>1 DEF Done, Jobs
  <2>3. CASE \E s \in Subs : PassClaim(p, s)
    BY <1>0, <2>3 DEF PassClaim, Jobs
  <2>4. CASE \E covered \in BOOLEAN : PassBill(p, covered)
    BY <1>0, <2>4 DEF PassBill, Goto, Jobs, AfterBill
  <2> QED
    BY <1>2, <2>1, <2>2, <2>3, <2>4 DEF PassStep
<1> QED
  BY <1>1, <1>2

\* The runs stay at their own places.
LEMMA PassesStay == IInv /\ PassesPass /\ [Next]_vars => PassesPass'
<1> SUFFICES ASSUME IInv, PassesPass, [Next]_vars PROVE PassesPass'
  OBVIOUS
<1>0. Requests \subseteq Workers /\ Passes \subseteq Workers /\ Requests \intersect Passes = {}
  BY PassesAreNoRequests DEF Workers
<1>1. CASE UNCHANGED work
  BY <1>1 DEF PassesPass
<1>2. ASSUME NEW r \in Requests, Arrive(r) \/ Continue(r) PROVE PassesPass'
  BY <1>0, <1>2, RequestsOwn DEF PassesPass
<1>3. ASSUME NEW p \in Passes, PassStart(p) \/ PassStep(p) PROVE PassesPass'
  BY <1>0, <1>3, PassesOwn DEF PassesPass
<1>4. ASSUME NEW w \in Workers, Lose(w) PROVE PassesPass'
  <2>1. Goes(w) /\ work'[w] = Idle
    BY <1>4, ReturnMakes DEF Lose
  <2> QED
    BY <1>0, <2>1, Nones DEF PassesPass, Goes
<1> QED
  BY <1>1, <1>2, <1>3, <1>4 DEF Next, Tick, vars

\* Once something went wrong it stays said.
LEMMA CalmEnds == [Next]_vars => (calm' => calm)
<1> SUFFICES ASSUME [Next]_vars PROVE calm' => calm
  OBVIOUS
<1>1. ASSUME NEW r \in Requests, Arrive(r) PROVE calm' => calm
  <2>1. PICK held : Disturb(r, held)
    BY <1>1 DEF Arrive, SubscribeStart, ChangeStart, KeepStart, PauseStart, CancelStart, CollectStart, DeleteStart, Begin
  <2> QED
    BY <2>1 DEF Disturb
<1>2. ASSUME NEW r \in Requests, Continue(r) PROVE calm' => calm
  <2>1. ASSUME NEW choice \in BOOLEAN, ChangeCharge(r, choice) PROVE calm' => calm
    BY <2>1 DEF ChangeCharge
  <2>2. ASSUME NEW choice \in BOOLEAN, SubscribeCharge(r, choice) \/ CancelRefund(r, choice) \/ CollectCover(r, choice)
        PROVE  calm' => calm
    BY <2>2 DEF SubscribeCharge, CancelRefund, CollectCover
  <2>3. CASE SubscribePut(r) \/ ChangePut(r) \/ KeepPut(r) \/ PausePut(r) \/ CancelPut(r) \/ DeductPut(r)
    BY <2>3 DEF SubscribePut, ChangePut, KeepPut, PausePut, CancelPut, DeductPut, Store
  <2>4. ASSUME NEW s \in Subs, ChangeRead(r, s) \/ DeletePut(r, s) PROVE calm' => calm
    BY <2>4 DEF ChangeRead, DeletePut
  <2>5. CASE ChangeNone(r) \/ CollectOrder(r) \/ DeductRead(r)
    BY <2>5 DEF ChangeNone, CollectOrder, DeductRead
  <2> QED
    BY <1>2, <2>1, <2>2, <2>3, <2>4, <2>5 DEF Continue
<1>3. ASSUME NEW p \in Passes, PassStart(p) PROVE calm' => calm
  BY <1>3 DEF PassStart, Disturb
<1>4. ASSUME NEW p \in Passes, PassStep(p) PROVE calm' => calm
  BY <1>4 DEF PassStep, PassEnd, PassRoll, PassExpire, PassPut, PassClaim, PassBill
<1>5. CASE Tick \/ UNCHANGED vars
  BY <1>5 DEF Tick, vars
<1>6. ASSUME NEW w \in Workers, Lose(w) PROVE calm' => calm
  BY <1>6 DEF Lose
<1> QED
  BY <1>1, <1>2, <1>3, <1>4, <1>5, <1>6 DEF Next

\* Every step keeps the invariant, and while nothing went wrong no end is undone.
LEMMA QuietStays ==
  ASSUME IInv, Quiet, [Next]_vars
  PROVE  Quiet' /\ (calm => EndsLast)
<1>0. PassesPass'
  BY PassesStay DEF Quiet
<1>1. CASE ~calm
  <2>1. ~calm'
    BY <1>1, CalmEnds
  <2> QED
    BY <1>0, <1>1, <2>1 DEF Quiet
<1>2. CASE calm
  <2>0. Requests \subseteq Workers /\ Passes \subseteq Workers
    BY DEF Workers
  <2>1. CASE Tick \/ UNCHANGED vars
    <3>1. UNCHANGED <<subs, work, collected, refunded, calm>>
      BY <2>1 DEF Tick, vars
    <3> QED
      BY <1>0, <3>1 DEF Quiet, EndsLast, Sees, Alone, HeldBy, Active, Settles, AddsUp, New
  <2>2. ASSUME NEW r \in Requests, Arrive(r) PROVE Quiet' /\ EndsLast
    <3>1. subs' = subs
      BY <2>2 DEF Arrive, SubscribeStart, ChangeStart, KeepStart, PauseStart, CancelStart, CollectStart, DeleteStart, Begin
    <3> QED
      BY <1>0, <1>2, <2>0, <2>2, <3>1, ArriveQuiet DEF EndsLast
  <2>3. ASSUME NEW r \in Requests, Continue(r) PROVE Quiet' /\ EndsLast
    BY <1>0, <1>2, <2>0, <2>3, ContinueQuiet
  <2>4. ASSUME NEW p \in Passes, PassStart(p) PROVE Quiet' /\ EndsLast
    BY <1>0, <1>2, <2>0, <2>4, PassStartQuiet DEF PassStart, EndsLast
  <2>5. ASSUME NEW p \in Passes, PassStep(p) PROVE Quiet' /\ EndsLast
    BY <1>0, <1>2, <2>0, <2>5, PassStepQuiet
  <2>6. ASSUME NEW w \in Workers, Lose(w) PROVE Quiet' /\ EndsLast
    BY <1>0, <2>6 DEF Lose, Quiet, EndsLast
  <2> QED
    BY <2>1, <2>2, <2>3, <2>4, <2>5, <2>6 DEF Next
<1> QED
  BY <1>1, <1>2

\* The first state.
LEMMA InitQuiet == Init => Quiet
<1> SUFFICES ASSUME Init PROVE Quiet
  OBVIOUS
<1>1. PICK plan \in [Members -> Plans] :
        subs = [s \in Subs |-> IF s \in Members
                               THEN [Absent EXCEPT !.status = "active", !.plan = plan[s], !.end = 1]
                               ELSE Absent]
  BY DEF Init
<1>2. work = [w \in Workers |-> Idle] /\ refunded = [s \in Subs |-> 0]
  BY DEF Init
<1>3. ASSUME NEW w \in Workers
      PROVE  work[w].pc = "idle" /\ work[w].sub = NoSub /\ \A s \in Subs : work[w].docs[s] = Absent
  BY <1>2, Nones
<1>4. \A w \in Workers : Sees(work[w]) /\ HeldBy(work[w]) = {}
  BY <1>3 DEF Sees, HeldBy, Collecting
<1>5. \A v \in Workers, w \in Workers : Alone(v, w)
  BY <1>3, <1>4 DEF Alone, Active
<1>6. ASSUME NEW s \in Subs PROVE Settles(s) /\ AddsUp(s)
  <2>1. Settles(s)
    BY <1>2 DEF Settles
  <2>2. subs[s].used = 0 /\ subs[s].history = {}
    BY <1>1 DEF Absent
  <2>3. There(subs[s]) => s \in Members /\ subs[s].plan = plan[s]
    BY <1>1, Nones DEF Absent
  <2>4. There(subs[s]) => Cap[subs[s].plan] \in Nat
    BY <2>3, PlansAreRanked
  <2> QED
    BY <2>1, <2>2, <2>4, FS_EmptySet DEF AddsUp
<1>7. PassesPass
  BY <1>3 DEF PassesPass, Workers
<1> QED
  BY <1>4, <1>5, <1>6, <1>7 DEF Quiet

\* While nothing went wrong, no document is in two hands and none is stale.
THEOREM QuietAlways == Spec => [](IInv /\ Quiet)
<1>1. Init => Quiet
  BY InitQuiet
<1>2. IInv /\ Quiet /\ [Next]_vars => Quiet'
  BY QuietStays
<1> QED
  BY <1>1, <1>2, Invariance, PTL DEF Spec

\* However many collections, changes, renewals and cancellations there were one after the
\* other (deductGarments, changePlan, renew): the usage of a cycle is the sum of its
\* entries, all of collected orders, and within what the plan allows for.
THEOREM UsageAddsUp == Spec => []UsageIsExplained
<1>1. Quiet => UsageIsExplained
  BY DEF Quiet, AddsUp, UsageIsExplained, There
<1> QED
  BY <1>1, QuietAlways, PTL

\* A subscription is refunded once at most, and not served after it (cancel).
THEOREM OneRefund == Spec => []RefundEndsIt
<1>1. Quiet => RefundEndsIt
  <2> SUFFICES ASSUME Quiet, calm, NEW s \in Subs
               PROVE  /\ refunded[s] <= 1
                      /\ refunded[s] = 1 /\ (\A w \in Workers : s \notin Holds(w)) => subs[s].status = "cancelled"
    BY DEF RefundEndsIt
  <2>1. Settles(s)
    BY DEF Quiet
  <2>2. \A w \in Workers : work[w].sub = s => s \in Holds(w)
    BY NoneIsNone DEF Holds
  <2> QED
    BY <2>1, <2>2 DEF Settles
<1> QED
  BY <1>1, QuietAlways, PTL

\* A cancelled or expired subscription is not brought back by a document read before its
\* end (pause, changePlan, deductGarments, renew put back what they read).
THEOREM EndsAreFinal == Spec => EndedStays
<1>1. IInv /\ Quiet /\ [Next]_vars =>
        [\A s \in Subs : calm /\ subs[s].status \in {"cancelled", "expired"} => subs'[s].status = subs[s].status]_vars
  BY QuietStays DEF EndsLast, Ended
<1> QED
  BY <1>1, QuietAlways, PTL DEF Spec, EndedStays

=============================================================================
