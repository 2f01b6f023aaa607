------------------------ MODULE MCTransactionCommit ------------------------
(* Model-checking instance of TransactionCommit.  Threads are               *)
(* interchangeable, nodes are not: they are ordered.                        *)
EXTENDS TransactionCommit, TLC

ThreadSymmetry == Permutations(Thread)
=============================================================================
