---------------------------- MODULE TakingTurns ----------------------------
(***************************************************************************)
(* What OneAtATime (washnpress-v2/src/services/one-at-a-time.ts) promises  *)
(* the calls that are made with one key: each is worked in its turn, after *)
(* all that came before it have ended, well or badly, and none waits for   *)
(* ever.  Calls with different keys do not meet.                           *)
(***************************************************************************)
CONSTANTS Calls, Keys

VARIABLES
  waiting, inside,   \* by key: the calls whose turn has not come, and those being worked
  ahead              \* by call: those it came behind

vars == <<waiting, inside, ahead>>

Present(k) == waiting[k] \union inside[k]

Init ==
  /\ waiting = [k \in Keys |-> {}]
  /\ inside = [k \in Keys |-> {}]
  /\ ahead = [c \in Calls |-> {}]

Come(c, k) ==
  /\ \A j \in Keys : c \notin Present(j)
  /\ waiting' = [waiting EXCEPT ![k] = @ \union {c}]
  /\ ahead' = [ahead EXCEPT ![c] = Present(k)]
  /\ UNCHANGED inside

Enter(c, k) ==
  /\ c \in waiting[k]
  /\ ahead[c] \intersect Present(k) = {}
  /\ waiting' = [waiting EXCEPT ![k] = @ \ {c}]
  /\ inside' = [inside EXCEPT ![k] = @ \union {c}]
  /\ UNCHANGED ahead

End(c, k) ==
  /\ c \in inside[k]
  /\ inside' = [inside EXCEPT ![k] = @ \ {c}]
  /\ UNCHANGED <<waiting, ahead>>

Next == \E c \in Calls, k \in Keys : Come(c, k) \/ Enter(c, k) \/ End(c, k)

Safety == Init /\ [][Next]_vars

Spec == Safety /\ \A c \in Calls, k \in Keys : WF_vars(Enter(c, k)) /\ WF_vars(End(c, k))

=============================================================================
