---------------------- MODULE MCPaymentReconciliation ----------------------
(* Small instances of PaymentReconciliation.                               *)
EXTENDS PaymentReconciliation

CONSTANTS t1, t2, h1, h2, j1, j2

============================================================================
