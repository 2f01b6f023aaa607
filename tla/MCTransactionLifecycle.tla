----------------------- MODULE MCTransactionLifecycle -----------------------
(* Model-checking instance of TransactionLifecycle; without symmetry of the  *)
(* threads, since a liveness property is checked.                           *)
EXTENDS TransactionLifecycle
=============================================================================
