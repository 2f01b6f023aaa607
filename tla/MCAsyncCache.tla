----------------------------- MODULE MCAsyncCache -----------------------------
(* Model-checking instance of AsyncCache, with two transactions, each with  *)
(* nodes on some of the entries, and up to two readers of the first entry.  *)
EXTENDS AsyncCache

CONSTANTS x1, x2, r1, r2

On1(x, copy) == [txn |-> x, entry |-> 1, copy |-> copy]
On2(x, copy) == [txn |-> x, entry |-> 2, copy |-> copy]

\* The nodes of the transactions and the readers: two transactions that share
\* two entries; two reads and a writeback; revoked nodes; writebacks of two
\* transactions and a read.
Scenario(nodes, readers) ==
  /\ \A n \in Node : called[n] # {} <=> n \in nodes
  /\ \A r \in Reader : /\ reader[r].entry = 1
                       /\ reader[r].on = "none" <=> r \in readers

Scenarios ==
  \/ Scenario({On1(x1, 1), On2(x1, 1), On1(x2, 1), On2(x2, 1)}, {})
  \/ Scenario({On1(x1, 1)}, {r1, r2})
  \/ Scenario({On1(x1, 1), On1(x1, 2)}, {r1})
  \/ Scenario({On1(x1, 1), On1(x2, 1)}, {r1})
  \/ Scenario({On1(x1, 1), On1(x1, 2), On1(x2, 1)}, {})

MCInit == Init /\ Scenarios

MCSpec == MCInit /\ [][Next]_vars /\ Fairness

=============================================================================
