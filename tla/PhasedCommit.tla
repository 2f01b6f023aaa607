----------------------------- MODULE PhasedCommit -----------------------------
(***************************************************************************)
(* What a transaction promises about its nodes, without threads, counters  *)
(* or callbacks: phases commit one after the other, the nodes of a phase   *)
(* begin together, an error stops the later phases, which are aborted, and *)
(* the outcome is announced once every node has reached its end.           *)
(* TransactionCommit implements this specification.                        *)
(***************************************************************************)
EXTENDS Integers

CONSTANTS Node, MaxPhase

VARIABLES
  status,    \* per node: where it is in its life
  phase,     \* per node: the phase it belongs to next
  failed,    \* phases in which an error was reported
  resolved   \* the outcome has been announced

vars == <<status, phase, failed, resolved>>

Status == {"unused", "pending", "committing", "committed", "aborting", "aborted"}

In(s) == {n \in Node : status[n] = s}

\* The pending nodes of the earliest phase.
NextPhase == {n \in In("pending") : \A m \in In("pending") : phase[n] <= phase[m]}

Ended(s) == \A n \in Node : s[n] \in {"unused", "committed", "aborted"}

\* The announcement may only follow the end of every node, and announces a
\* success only if no node was aborted.
Announce ==
  \/ UNCHANGED resolved
  \/ /\ resolved' = TRUE
     /\ Ended(status')
     /\ In("aborted")' # {} => failed' # {}

Init ==
  /\ status \in [Node -> {"unused", "pending"}]
  /\ phase \in [Node -> 0 .. MaxPhase]
  /\ failed \in {{}, {-1}}
  /\ resolved = FALSE

BeginPhase ==
  /\ In("committing") = {} /\ NextPhase # {}
  /\ \A p \in failed, n \in NextPhase : p >= 0 => phase[n] <= p
  /\ status' = [n \in Node |-> IF n \in NextPhase THEN "committing" ELSE status[n]]
  /\ UNCHANGED <<phase, failed, resolved>>

CommitNode(n) ==
  /\ status[n] = "committing"
  /\ status' = [status EXCEPT ![n] = "committed"]
  /\ Announce
  /\ UNCHANGED <<phase, failed>>

\* A node that takes part in several phases joins a later one.
Rejoin(n) ==
  /\ status[n] = "committing"
  /\ status' = [status EXCEPT ![n] = "pending"]
  /\ \E p \in 1 .. MaxPhase :
       p > phase[n] /\ phase' = [phase EXCEPT ![n] = p]
  /\ UNCHANGED <<failed, resolved>>

\* An error of a node of the phase that is being prepared or committed.
Fail(n) ==
  /\ status[n] = "committing" \/ (In("committing") = {} /\ n \in NextPhase)
  /\ failed' = failed \cup {phase[n]}
  /\ UNCHANGED <<status, phase, resolved>>

\* Only after an error, and never while a phase is committing.
AbortNode(n) ==
  /\ In("committing") = {} /\ failed # {}
  /\ status[n] = "pending"
  /\ status' = [status EXCEPT ![n] = "aborting"]
  /\ UNCHANGED <<phase, failed, resolved>>

AbortedNode(n) ==
  /\ status[n] = "aborting"
  /\ status' = [status EXCEPT ![n] = "aborted"]
  /\ Announce
  /\ UNCHANGED <<phase, failed>>

Resolve ==
  /\ ~resolved
  /\ UNCHANGED <<status, phase, failed>>
  /\ resolved' = TRUE
  /\ Announce

Next == \/ BeginPhase \/ Resolve
        \/ \E n \in Node : \/ CommitNode(n) \/ Rejoin(n) \/ Fail(n)
                           \/ AbortNode(n) \/ AbortedNode(n)

Spec == Init /\ [][Next]_vars
=============================================================================
