----------------------------- MODULE OneAtATime -----------------------------
(***************************************************************************)
(* The queue in memory that creations of slots, sends of a code and, in a  *)
(* copy of it, bookings of a window go through.                            *)
(*   washnpress-v2/src/services/one-at-a-time.ts  run                      *)
(*   washnpress-v2/src/services/service-request-service.ts                 *)
(*        oneBookingAtATime                                                *)
(* There is no list of who waits.  A map holds, by key, the promise of the *)
(* last call; a new call chains its work behind that promise and puts its  *)
(* own there, and takes it out when it is still the last.  A call is its   *)
(* promises: `queued`, which runs the work, and `tail`, which settles with *)
(* it and never rejects.  One process; its map is gone when it is.         *)
(***************************************************************************)
CONSTANTS Calls, NoCall, Keys, NoKey

ASSUME NoneIsNone == NoCall \notin Calls /\ NoKey \notin Keys

VARIABLES
  running,   \* by key: the call whose tail is in the map, if there is one
  key,       \* by call: the key it was made with
  previous,  \* by call: the call it is chained to
  stage,     \* by call: how far it is
  threw,     \* the calls whose work rejected
  ahead      \* history, by call: those with its key that were not over when it came

vars == <<running, key, previous, stage, threw, ahead>>

Stages == {"unmade", "queued", "working", "over", "answered"}

\* A promise settles when the work is over; whoever awaits it goes on later.
Settled(c) == stage[c] \in {"over", "answered"}

Present(k) == {c \in Calls : key[c] = k /\ stage[c] \in {"queued", "working"}}

Init ==
  /\ running = [k \in Keys |-> NoCall]
  /\ key = [c \in Calls |-> NoKey]
  /\ previous = [c \in Calls |-> NoCall]
  /\ stage = [c \in Calls |-> "unmade"]
  /\ threw = {}
  /\ ahead = [c \in Calls |-> {}]

\* From the call of run to its await nothing else runs.
Run(c, k) ==
  /\ stage[c] = "unmade"
  /\ stage' = [stage EXCEPT ![c] = "queued"]
  /\ key' = [key EXCEPT ![c] = k]
  /\ previous' = [previous EXCEPT ![c] = running[k]]
  /\ running' = [running EXCEPT ![k] = c]
  /\ ahead' = [ahead EXCEPT ![c] = Present(k)]
  /\ UNCHANGED threw

\* Slip: chained with then alone, a call is not started behind one that rejected.
MayStartBehindSuccess(c) ==
  previous[c] # NoCall => Settled(previous[c]) /\ previous[c] \notin threw

MayStart(c) == previous[c] # NoCall => Settled(previous[c])

Start(c) ==
  /\ stage[c] = "queued"
  /\ MayStart(c)
  /\ stage' = [stage EXCEPT ![c] = "working"]
  /\ UNCHANGED <<running, key, previous, threw, ahead>>

\* The work answers or rejects.
Finish(c) ==
  /\ stage[c] = "working"
  /\ stage' = [stage EXCEPT ![c] = "over"]
  /\ threw' \in {threw, threw \union {c}}
  /\ UNCHANGED <<running, key, previous, ahead>>

LastOneOut(c) == running[key[c]] = c

\* The finally of run.
Leave(c) ==
  /\ stage[c] = "over"
  /\ stage' = [stage EXCEPT ![c] = "answered"]
  /\ running' = IF LastOneOut(c) THEN [running EXCEPT ![key[c]] = NoCall] ELSE running
  /\ UNCHANGED <<key, previous, threw, ahead>>

Work(c) == Start(c) \/ Finish(c) \/ Leave(c)

Next == \E c \in Calls : Work(c) \/ \E k \in Keys : Run(c, k)

\* Promises that can run do, and the store calls of the work settle.
Spec == Init /\ [][Next]_vars /\ \A c \in Calls : WF_vars(Work(c))

-----------------------------------------------------------------------------
(* Properties *)

TypeOK ==
  /\ running \in [Keys -> Calls \union {NoCall}]
  /\ key \in [Calls -> Keys \union {NoKey}]
  /\ previous \in [Calls -> Calls \union {NoCall}]
  /\ stage \in [Calls -> Stages]
  /\ threw \subseteq Calls
  /\ ahead \in [Calls -> SUBSET Calls]

\* No two calls with one key are at work at the same time, though each looks at one
\* promise only and the map forgets a key as soon as its last call is out.
OneInside ==
  \A c, d \in Calls :
    stage[c] = "working" /\ stage[d] = "working" /\ key[c] = key[d] => c = d

\* The map holds no key but of a call that has not answered: it does not grow by an entry
\* per thing ever done (one-at-a-time.ts:32-33).
NothingKept ==
  \A k \in Keys :
    running[k] # NoCall => key[running[k]] = k /\ stage[running[k]] \in {"queued", "working", "over"}

Turns == INSTANCE TakingTurns WITH
  waiting <- [k \in Keys |-> {c \in Calls : key[c] = k /\ stage[c] = "queued"}],
  inside <- [k \in Keys |-> {c \in Calls : key[c] = k /\ stage[c] = "working"}]

\* The chain of promises takes the calls with one key in the order they came, and a call
\* that rejects does not keep back those behind it: what TakingTurns promises.
InTurn == Turns!Spec

=============================================================================
