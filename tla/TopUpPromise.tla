--------------------------- MODULE TopUpPromise ---------------------------
(***************************************************************************)
(* What the wallet promises a resident who tops it up: the money that was  *)
(* paid reaches the wallet, once, and money that was not paid never does.  *)
(* How many webhooks are delivered, how many reconciliation passes overlap *)
(* and when the server restarts is not visible here.                       *)
(***************************************************************************)
EXTENDS Naturals

CONSTANT TopUps

VARIABLES
  paid,    \* the top-ups whose money the gateway holds
  ledger   \* how many credits of the wallet refer to each top-up

vars == <<paid, ledger>>

Init == paid = {} /\ ledger = [t \in TopUps |-> 0]

Pay(t) == paid' = paid \union {t} /\ UNCHANGED ledger

Credit(t) ==
  /\ t \in paid
  /\ ledger[t] = 0
  /\ ledger' = [ledger EXCEPT ![t] = 1]
  /\ UNCHANGED paid

Next == \E t \in TopUps : Pay(t) \/ Credit(t)

Safety == Init /\ [][Next]_vars

Spec == Safety /\ \A t \in TopUps : WF_vars(Credit(t))

===========================================================================
