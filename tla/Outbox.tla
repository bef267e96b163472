------------------------------- MODULE Outbox -------------------------------
(***************************************************************************)
(* The notification outbox and the passes that drain it:                   *)
(*   washnpress-v2/src/services/notification-service.ts  enqueue,          *)
(*                                  processOutboxOnce, deliver, attempt    *)
(*   washnpress-v2/src/adapters/postgres/store.ts        PgOutbox          *)
(* A timer starts a pass every few seconds whether or not the last one has *)
(* finished, in every server process.  A pass claims a batch under a lease *)
(* and then delivers and marks its events one after the other.             *)
(*                                                                         *)
(* Events are numbered in the order they were added, which is the order    *)
(* `ORDER BY createdAt` claims them in.  Left out: the attempts counter    *)
(* (nothing reads it), the channels one by one: an event reaches somebody, *)
(* is refused everywhere, or had nobody to go to.                          *)
(***************************************************************************)
EXTENDS Naturals, FiniteSets

CONSTANTS
  EventCount,  \* events ever added
  Passes,      \* passes under way at the same time
  Batch,       \* OUTBOX_BATCH
  Lease,       \* OUTBOX_LEASE_SECONDS, in ticks
  Prompt,      \* the gateways answer soon enough to finish a batch in a lease
  MaxCrashes

ASSUME CountIsNat == EventCount \in Nat
ASSUME BatchIsPositive == Batch \in Nat \ {0}
ASSUME LeaseIsPositive == Lease \in Nat \ {0}
ASSUME PromptIsBoolean == Prompt \in BOOLEAN
ASSUME CrashesAreFinite == MaxCrashes \in Nat

VARIABLES
  status,   \* of each event; "none" before it is added
  leased,   \* ticks until the event may be claimed again; 0 if never claimed
  sends,    \* how many times delivery of each event was tried
  pc,       \* what each pass does next
  batch,    \* the events of its claim it has not marked
  current,  \* the one of them it delivers
  outcome,  \* how that went
  crashes

vars == <<status, leased, sends, pc, batch, current, outcome, crashes>>

Events == 1..EventCount
Outcomes == {"reached", "refused", "nowhere"}

TypeOK ==
  /\ status \in [Events -> {"none", "pending", "sent", "failed"}]
  /\ leased \in [Events -> 0..Lease + 1]
  /\ sends \in [Events -> Nat]
  /\ pc \in [Passes -> {"idle", "next", "mark"}]
  /\ batch \in [Passes -> SUBSET Events]
  /\ current \in [Passes -> {0} \union Events]
  /\ outcome \in [Passes -> Outcomes]
  /\ crashes \in 0..MaxCrashes

-----------------------------------------------------------------------------
(* enqueue *)

Enqueue(e) ==
  /\ status[e] = "none"
  /\ \A d \in 1..(e - 1) : status[d] # "none"
  /\ status' = [status EXCEPT ![e] = "pending"]
  /\ UNCHANGED <<leased, sends, pc, batch, current, outcome, crashes>>

-----------------------------------------------------------------------------
(* claimPending: one UPDATE *)

\* Slip: listPending in place of claimPending, which forgets the lease.
Listed == {e \in Events : status[e] = "pending"}

\* Slip: an event is handed out for good, as if its pass could not die.
ListedOnce == {e \in Events : status[e] = "pending" /\ leased[e] = 0 /\ sends[e] = 0}

Claimable == {e \in Events : status[e] = "pending" /\ leased[e] = 0}

\* ORDER BY createdAt LIMIT Batch
Oldest == {e \in Claimable : Cardinality({d \in Claimable : d < e}) < Batch}

Claim(p) ==
  /\ pc[p] = "idle"
  /\ Claimable # {}
  /\ leased' = [e \in Events |-> IF e \in Oldest THEN Lease + 1 ELSE leased[e]]
  /\ batch' = [batch EXCEPT ![p] = Oldest]
  /\ pc' = [pc EXCEPT ![p] = "next"]
  /\ UNCHANGED <<status, sends, current, outcome, crashes>>

-----------------------------------------------------------------------------
(* The loop of processOutboxOnce *)

Deliver(p, e, result) ==
  /\ pc[p] = "next"
  /\ e \in batch[p]
  /\ sends' = [sends EXCEPT ![e] = @ + 1]
  /\ current' = [current EXCEPT ![p] = e]
  /\ outcome' = [outcome EXCEPT ![p] = result]
  /\ pc' = [pc EXCEPT ![p] = "mark"]
  /\ UNCHANGED <<status, leased, batch, crashes>>

\* attempts.length === 0 || delivered ? "sent" : "failed"
StatusAfter(result) == IF result = "refused" THEN "failed" ELSE "sent"

Mark(p) ==
  /\ pc[p] = "mark"
  /\ status' = [status EXCEPT ![current[p]] = StatusAfter(outcome[p])]
  /\ batch' = [batch EXCEPT ![p] = @ \ {current[p]}]
  /\ current' = [current EXCEPT ![p] = 0]
  /\ pc' = [pc EXCEPT ![p] = "next"]
  /\ UNCHANGED <<leased, sends, outcome, crashes>>

EndPass(p) ==
  /\ pc[p] = "next"
  /\ batch[p] = {}
  /\ pc' = [pc EXCEPT ![p] = "idle"]
  /\ UNCHANGED <<status, leased, sends, batch, current, outcome, crashes>>

\* The process running the pass dies, or a store call in it rejects.
Crash(p) ==
  /\ pc[p] # "idle"
  /\ crashes < MaxCrashes
  /\ crashes' = crashes + 1
  /\ pc' = [pc EXCEPT ![p] = "idle"]
  /\ batch' = [batch EXCEPT ![p] = {}]
  /\ current' = [current EXCEPT ![p] = 0]
  /\ UNCHANGED <<status, leased, sends, outcome>>

-----------------------------------------------------------------------------
(* Time *)

\* With Prompt a pass has marked its whole batch before its lease is over.
Overdue == \E p \in Passes : \E e \in batch[p] : leased[e] <= 1

Tick ==
  /\ Prompt => ~Overdue
  /\ \E e \in Events : leased[e] > 0
  /\ leased' = [e \in Events |-> IF leased[e] = 0 THEN 0 ELSE leased[e] - 1]
  /\ UNCHANGED <<status, sends, pc, batch, current, outcome, crashes>>

-----------------------------------------------------------------------------
(* The specification *)

Init ==
  /\ status = [e \in Events |-> "none"]
  /\ leased = [e \in Events |-> 0]
  /\ sends = [e \in Events |-> 0]
  /\ pc = [p \in Passes |-> "idle"]
  /\ batch = [p \in Passes |-> {}]
  /\ current = [p \in Passes |-> 0]
  /\ outcome = [p \in Passes |-> "reached"]
  /\ crashes = 0

Work(p) ==
  \/ \E e \in Events, result \in Outcomes : Deliver(p, e, result)
  \/ Mark(p)
  \/ EndPass(p)

Next ==
  \/ \E e \in Events : Enqueue(e)
  \/ \E p \in Passes : Claim(p) \/ Work(p) \/ Crash(p)
  \/ Tick

\* The timer keeps firing, a delivery under way ends, and time passes.
Fairness ==
  /\ WF_vars(Tick)
  /\ \A p \in Passes : WF_vars(Claim(p)) /\ WF_vars(Work(p))

Spec == Init /\ [][Next]_vars /\ Fairness

-----------------------------------------------------------------------------
(* Properties *)

\* claimPending hands an event "to this caller, and to nobody else until leaseSeconds
\* have passed": two passes never work on the same event.
HeldByOne == \A p, q \in Passes : p # q => batch[p] \intersect batch[q] = {}

\* "A crash can repeat a notification": nothing else can.
RepeatsNeedACrash == \A e \in Events : sends[e] <= 1 + crashes

\* An event that was handled is not taken up again (a failed one neither), and one
\* pass does not overwrite what another found out about it.
MarkedOnce ==
  [][\A e \in Events : status[e] \in {"sent", "failed"} => status'[e] = status[e]]_vars

\* "... but can never lose one", of a crash: every event is tried in the end and what came
\* of it is recorded, also when a pass that held it died.  This is no promise of delivery:
\* an event every channel refused is recorded as failed, and stays so.
EachIsTried ==
  \A e \in Events : (status[e] = "pending") ~> (sends[e] > 0 /\ status[e] \in {"sent", "failed"})

\* The outbox "makes delivery retryable", and "only an event that reached nothing at all is
\* a failure worth retrying".  Nothing retries it, so no run checks this: a failed event
\* is lost to those it was for.
FailedIsRetried == \A e \in Events : (status[e] = "failed") ~> (status[e] = "pending")

-----------------------------------------------------------------------------
(* The inductive invariant *)

\* What a pass holds is pending and still leased to it.
HoldersAreRight ==
  \A p \in Passes :
    /\ \A e \in batch[p] : status[e] = "pending" /\ leased[e] > 0
    /\ pc[p] = "idle" => batch[p] = {}
    /\ pc[p] = "mark" => current[p] \in batch[p]

\* An event between its delivery and its mark may have been tried once more than
\* there were crashes; any other that is not handled was tried by dead passes only.
Tried(e) == \E p \in Passes : pc[p] = "mark" /\ current[p] = e

TriesAreCounted ==
  \A e \in Events :
    /\ sends[e] <= 1 + crashes
    /\ status[e] \in {"none", "pending"} /\ ~Tried(e) => sends[e] <= crashes

\* With a lease that outlasts a batch, every step preserves all of it.
IInv == TypeOK /\ HoldersAreRight /\ HeldByOne /\ TriesAreCounted

=============================================================================
