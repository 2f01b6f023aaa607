-------------------------- MODULE TransactionCommit --------------------------
(***************************************************************************)
(* How one transaction commits or aborts its nodes: ExecuteCommit,         *)
(* ExecuteAbort and everything they lead to in tensorstore/transaction.cc. *)
(*                                                                         *)
(* The behaviour starts where module TransactionLifecycle stops: one       *)
(* thread has moved commit_state_ to kCommitStarted or kAborted and enters *)
(* ExecuteCommit or ExecuteAbort.  From then on no lock is held; the       *)
(* "serialized state machine transition" methods pass from thread to       *)
(* thread, through counters, to whichever node callback arrives last.      *)
(* Nodes call back from any thread; a callback made synchronously, inside  *)
(* PrepareForCommit, Commit or Abort, never does more than its atomic      *)
(* instructions, so it is the same step taken by another idle thread.      *)
(***************************************************************************)
EXTENDS Integers, FiniteSets

CONSTANTS
  Thread,     \* threads that run the transaction or call back from a node
  Node,       \* nodes, named by associated_data_: the order of the tree
  Terminal,   \* nodes that do I/O; the others are told by them (CommitDone)
  MaxPhase    \* bound on the phases

ASSUME CommitAssumption ==
  /\ Node \subseteq Nat /\ IsFiniteSet(Node)
  /\ Terminal \subseteq Node
  /\ MaxPhase \in Nat
  /\ IsFiniteSet(Thread)

VARIABLES
  tree,           \* nodes_
  phase,          \* Node::phase_
  flags,          \* Node::node_commit_state_
  pending,        \* nodes_pending_commit_; a size_t that may wrap below zero
  waiting,        \* waiting_for_prepare_done_
  pending_abort,  \* nodes_pending_abort_; may wrap below zero too
  failed,         \* phases in which SetError was called (-1: before commit)
  promise,        \* promise_ is non-null: the future is not ready
  weak,           \* weak_reference_count_
  pc,             \* per thread: the method it is in, or "idle"
  cursor,         \* per thread: {} or {the node ContinuePrepareForCommit is at}
  todo,           \* per thread: nodes_to_commit not committed yet
  count,          \* per thread: nodes_to_commit.size(), or count of ExecuteAbort
  held            \* per thread: weak references released when its calls return

local == <<pc, cursor, todo, count, held>>
vars == <<tree, phase, flags, pending, waiting, pending_abort, failed, promise,
          weak, local>>

Flag == {"kRegister", "kPrepareForCommit", "kPrepareDone", "kReadyForCommit",
         "kCommit", "kCommitDone", "kAbort", "kAbortDone"}

Method == {"idle", "ExecuteCommitPhase", "ContinuePrepareForCommit",
           "AwaitPrepareDone", "CommitNodes", "ExecuteAbort", "AbortNodes"}

Registered == {n \in Node : "kRegister" \in flags[n]}

\* raw_result().ok() of the promise.
ResultOk == failed = {}

-----------------------------------------------------------------------------
(* The red-black tree nodes_: ordered by phase, then by associated_data_.  *)

Before(m, n) == phase[m] < phase[n] \/ (phase[m] = phase[n] /\ m < n)

Leftmost(n) == n \in tree /\ \A m \in tree : m = n \/ Before(n, m)

\* Tree::Traverse(n, kRight), empty at the end of the phase of n.
NextInPhase(n) ==
  {m \in tree : /\ phase[m] = phase[n] /\ n < m
                /\ \A k \in tree : phase[k] = phase[n] /\ n < k => m <= k}

FirstPhase == {n \in tree : \A m \in tree : phase[n] <= phase[m]}

Mark(n, flag) == flags' = [flags EXCEPT ![n] = @ \cup {flag}]

-----------------------------------------------------------------------------
(* Moving the program counter of a thread.                                 *)

Enter(t, method) == pc' = [pc EXCEPT ![t] = method]

\* All calls of t return; the weak references of its frames are released, of
\* which `released` belongs to a node that the current step destroys.
Leave(t, released) ==
  /\ pc' = [pc EXCEPT ![t] = "idle"]
  /\ weak' = weak - held[t] - released
  /\ held' = [held EXCEPT ![t] = 0]
  /\ cursor' = [cursor EXCEPT ![t] = {}]
  /\ todo' = [todo EXCEPT ![t] = {}]
  /\ count' = [count EXCEPT ![t] = 0]

-----------------------------------------------------------------------------
(* Committing a phase.                                                     *)

\* A slip: the counter is not reset, so the wrapped value of the last phase or
\* one too many keeps the phase from ever being ready.
ExecuteCommitPhaseOneTooMany(t) ==
  /\ pc[t] = "ExecuteCommitPhase"
  /\ \/ /\ tree = {}
        /\ promise' = FALSE
        /\ Leave(t, 0)
        /\ UNCHANGED pending
     \/ \E n \in tree :
          /\ Leftmost(n)
          /\ pending' = 2
          /\ Enter(t, "ContinuePrepareForCommit")
          /\ cursor' = [cursor EXCEPT ![t] = {n}]
          /\ UNCHANGED <<promise, weak, todo, count, held>>
  /\ UNCHANGED <<tree, phase, flags, waiting, pending_abort, failed>>

ExecuteCommitPhase(t) ==
  /\ pc[t] = "ExecuteCommitPhase"
  /\ \/ /\ tree = {}
        /\ promise' = FALSE
        /\ Leave(t, 0)
        /\ UNCHANGED pending
     \/ \E n \in tree :
          /\ Leftmost(n)
          /\ pending' = 1
          /\ Enter(t, "ContinuePrepareForCommit")
          /\ cursor' = [cursor EXCEPT ![t] = {n}]
          /\ UNCHANGED <<promise, weak, todo, count, held>>
  /\ UNCHANGED <<tree, phase, flags, waiting, pending_abort, failed>>

\* ContinuePrepareForCommit at a node: up to and including PrepareForCommit().
PrepareForCommit(t) ==
  /\ pc[t] = "ContinuePrepareForCommit"
  /\ \E n \in cursor[t] :
       /\ waiting' = TRUE
       /\ pending' = pending + 1
       /\ Mark(n, "kPrepareForCommit")
  /\ Enter(t, "AwaitPrepareDone")
  /\ UNCHANGED <<tree, phase, pending_abort, failed, promise, weak, cursor, todo,
                 count, held>>

\* A slip: the value exchanged out of waiting_for_prepare_done_ is ignored.
AwaitPrepareDoneAlways(t) ==
  /\ pc[t] = "AwaitPrepareDone"
  /\ waiting' = FALSE
  /\ Enter(t, "ContinuePrepareForCommit")
  /\ cursor' = [cursor EXCEPT ![t] = UNION {NextInPhase(n) : n \in @}]
  /\ UNCHANGED <<tree, phase, flags, pending, pending_abort, failed, promise, weak,
                 todo, count, held>>

\* PrepareForCommit() returned: waiting_for_prepare_done_.exchange(false).
AwaitPrepareDone(t) ==
  /\ pc[t] = "AwaitPrepareDone"
  /\ waiting' = FALSE
  /\ \/ /\ waiting
        /\ Leave(t, 0)
     \/ /\ ~waiting
        /\ Enter(t, "ContinuePrepareForCommit")
        /\ cursor' = [cursor EXCEPT ![t] = UNION {NextInPhase(n) : n \in @}]
        /\ UNCHANGED <<weak, todo, count, held>>
  /\ UNCHANGED <<tree, phase, flags, pending, pending_abort, failed, promise>>

\* A slip: no weak reference is held around the loop over the nodes.
DecrementNodesPendingUnheld(t) ==
  /\ pending' = pending - 1
  /\ \/ /\ pending # 1
        /\ Leave(t, 0)
        /\ UNCHANGED tree
     \/ /\ pending = 1
        /\ Enter(t, "CommitNodes")
        /\ tree' = tree \ FirstPhase
        /\ todo' = [todo EXCEPT ![t] = FirstPhase]
        /\ count' = [count EXCEPT ![t] = Cardinality(FirstPhase)]
        /\ UNCHANGED <<weak, held>>
        /\ cursor' = [cursor EXCEPT ![t] = {}]
  /\ UNCHANGED <<phase, pending_abort, failed, promise>>

\* A slip: the weak reference taken around the loop is never released.
DecrementNodesPendingLeaking(t) ==
  /\ pending' = pending - 1
  /\ \/ /\ pending # 1
        /\ Leave(t, 0)
        /\ UNCHANGED tree
     \/ /\ pending = 1
        /\ Enter(t, "CommitNodes")
        /\ tree' = tree \ FirstPhase
        /\ todo' = [todo EXCEPT ![t] = FirstPhase]
        /\ count' = [count EXCEPT ![t] = Cardinality(FirstPhase)]
        /\ weak' = weak + 1
        /\ UNCHANGED held
        /\ cursor' = [cursor EXCEPT ![t] = {}]
  /\ UNCHANGED <<phase, pending_abort, failed, promise>>

\* DecrementNodesPendingReadyForCommit: the last one takes the nodes of the
\* phase out of the tree, holding a weak reference of its own.
DecrementNodesPendingReadyForCommit(t) ==
  /\ pending' = pending - 1
  /\ \/ /\ pending # 1
        /\ Leave(t, 0)
        /\ UNCHANGED tree
     \/ /\ pending = 1
        /\ Enter(t, "CommitNodes")
        /\ tree' = tree \ FirstPhase
        /\ todo' = [todo EXCEPT ![t] = FirstPhase]
        /\ count' = [count EXCEPT ![t] = Cardinality(FirstPhase)]
        /\ weak' = weak + 1
        /\ held' = [held EXCEPT ![t] = @ + 1]
        /\ cursor' = [cursor EXCEPT ![t] = {}]
  /\ UNCHANGED <<phase, pending_abort, failed, promise>>

\* ContinuePrepareForCommit at the end of the phase.
EndOfPhase(t) ==
  /\ pc[t] = "ContinuePrepareForCommit"
  /\ cursor[t] = {}
  /\ DecrementNodesPendingReadyForCommit(t)
  /\ UNCHANGED <<flags, waiting>>

\* One turn of the loop over nodes_to_commit.  A node that has already been
\* told CommitDone only lives on the reference that Commit() drops.
CommitNode(t) ==
  /\ pc[t] = "CommitNodes"
  /\ \E n \in todo[t] :
       /\ \A m \in todo[t] : n <= m
       /\ Mark(n, "kCommit")
       /\ todo' = [todo EXCEPT ![t] = @ \ {n}]
       /\ weak' = weak - IF "kCommitDone" \in flags[n] THEN 1 ELSE 0
  /\ UNCHANGED <<tree, phase, pending, waiting, pending_abort, failed, promise,
                 pc, cursor, count, held>>

\* A slip: the result is not looked at before the next phase.
PhaseCommittedIgnoringErrors(t, extra) ==
  \/ /\ tree' = {}
     /\ promise' = FALSE
     /\ Leave(t, extra)
  \/ /\ tree' # {}
     /\ Enter(t, "ExecuteCommitPhase")
     /\ held' = [held EXCEPT ![t] = @ + extra]
     /\ UNCHANGED <<promise, weak, cursor, todo, count>>

\* The part of DecrementNodesPendingCommit after the counter reached zero; the
\* frame of t also holds `extra` references until it returns.
PhaseCommitted(t, extra) ==
  \/ /\ tree' = {}
     /\ promise' = FALSE
     /\ Leave(t, extra)
  \/ /\ tree' # {}
     /\ Enter(t, IF ResultOk THEN "ExecuteCommitPhase" ELSE "ExecuteAbort")
     /\ held' = [held EXCEPT ![t] = @ + extra]
     /\ UNCHANGED <<promise, weak, cursor, todo, count>>

\* After the loop: DecrementNodesPendingCommit(-nodes_to_commit.size()).
CommitNodesEnd(t) ==
  /\ pc[t] = "CommitNodes"
  /\ todo[t] = {}
  /\ pending' = pending + count[t]
  /\ \/ /\ pending' # 0
        /\ Leave(t, 0)
        /\ UNCHANGED <<tree, promise>>
     \/ /\ pending' = 0
        /\ UNCHANGED tree
        /\ PhaseCommitted(t, 0)
  /\ UNCHANGED <<phase, flags, waiting, pending_abort, failed>>

-----------------------------------------------------------------------------
(* Aborting.                                                               *)

ExecuteAbort(t) ==
  /\ pc[t] = "ExecuteAbort"
  /\ \/ /\ tree = {}
        /\ promise' = FALSE
        /\ Leave(t, 0)
        /\ UNCHANGED pending_abort
     \/ /\ tree # {}
        /\ pending_abort' = 0
        /\ Enter(t, "AbortNodes")
        /\ count' = [count EXCEPT ![t] = 0]
        /\ UNCHANGED <<promise, weak, cursor, todo, held>>
  /\ UNCHANGED <<tree, phase, flags, pending, waiting, failed>>

AbortNode(t) ==
  /\ pc[t] = "AbortNodes"
  /\ \E n \in tree :
       /\ Leftmost(n)
       /\ tree' = tree \ {n}
       /\ Mark(n, "kAbort")
  /\ count' = [count EXCEPT ![t] = @ + 1]
  /\ UNCHANGED <<phase, pending, waiting, pending_abort, failed, promise, weak,
                 pc, cursor, todo, held>>

\* A slip: the promise is released without waiting for AbortDone.
AbortNodesEndAlways(t) ==
  /\ pc[t] = "AbortNodes"
  /\ tree = {}
  /\ pending_abort' = pending_abort + count[t]
  /\ promise' = FALSE
  /\ Leave(t, 0)
  /\ UNCHANGED <<tree, phase, flags, pending, waiting, failed>>

\* DecrementNodesPendingAbort(-count).
AbortNodesEnd(t) ==
  /\ pc[t] = "AbortNodes"
  /\ tree = {}
  /\ pending_abort' = pending_abort + count[t]
  /\ promise' = (promise /\ pending_abort' # 0)
  /\ Leave(t, 0)
  /\ UNCHANGED <<tree, phase, flags, pending, waiting, failed>>

-----------------------------------------------------------------------------
(* Callbacks of the nodes.                                                 *)

PrepareDone(t, n) ==
  /\ pc[t] = "idle"
  /\ "kPrepareForCommit" \in flags[n] /\ "kPrepareDone" \notin flags[n]
  /\ Mark(n, "kPrepareDone")
  /\ waiting' = FALSE
  /\ \/ /\ waiting
        /\ UNCHANGED <<pc, cursor>>
     \/ /\ ~waiting
        /\ Enter(t, "ContinuePrepareForCommit")
        /\ cursor' = [cursor EXCEPT ![t] = NextInPhase(n)]
  /\ UNCHANGED <<tree, phase, pending, pending_abort, failed, promise, weak,
                 todo, count, held>>

ReadyForCommit(t, n) ==
  /\ pc[t] = "idle"
  /\ "kPrepareForCommit" \in flags[n] /\ "kReadyForCommit" \notin flags[n]
  /\ Mark(n, "kReadyForCommit")
  /\ DecrementNodesPendingReadyForCommit(t)
  /\ UNCHANGED waiting

\* A terminal node reports its own commit; the other nodes are told by a
\* terminal node that Commit() was called on, possibly before their own turn.
MayReportCommit(n) ==
  /\ "kReadyForCommit" \in flags[n] /\ "kCommitDone" \notin flags[n]
  /\ n \notin tree
  /\ IF n \in Terminal
       THEN "kCommit" \in flags[n]
       ELSE \E m \in Registered : phase[m] = phase[n] /\ "kCommit" \in flags[m]

\* CommitDone(0): the node is destroyed unless Commit() still has to be called.
CommitDone(t, n) ==
  /\ pc[t] = "idle"
  /\ MayReportCommit(n)
  /\ Mark(n, "kCommitDone")
  /\ pending' = pending - 1
  /\ LET released == IF "kCommit" \in flags[n] THEN 1 ELSE 0
     IN  \/ /\ pending' # 0
            /\ Leave(t, released)
            /\ UNCHANGED <<tree, promise>>
         \/ /\ pending' = 0
            /\ UNCHANGED tree
            /\ PhaseCommitted(t, released)
  /\ UNCHANGED <<phase, waiting, pending_abort, failed>>

\* CommitDone(next_phase) of a multi-phase node: back into the tree.
CommitDoneNextPhase(t, n, next_phase) ==
  /\ pc[t] = "idle"
  /\ n \in Terminal /\ MayReportCommit(n)
  /\ next_phase > phase[n]
  /\ flags' = [flags EXCEPT ![n] = {"kRegister"}]
  /\ phase' = [phase EXCEPT ![n] = next_phase]
  /\ tree' = tree \cup {n}
  /\ pending' = pending - 1
  /\ \/ /\ pending' # 0
        /\ Leave(t, 0)
        /\ UNCHANGED promise
     \/ /\ pending' = 0
        /\ PhaseCommitted(t, 0)
  /\ UNCHANGED <<waiting, pending_abort, failed>>

AbortDone(t, n) ==
  /\ pc[t] = "idle"
  /\ "kAbort" \in flags[n] /\ "kAbortDone" \notin flags[n]
  /\ Mark(n, "kAbortDone")
  /\ pending_abort' = pending_abort - 1
  /\ promise' = (promise /\ pending_abort' # 0)
  /\ weak' = weak - 1
  /\ UNCHANGED <<tree, phase, pending, waiting, failed, local>>

\* Called by a node while it is being committed, before CommitDone.
SetError(t, n) ==
  /\ pc[t] = "idle"
  /\ "kPrepareForCommit" \in flags[n] /\ "kCommitDone" \notin flags[n]
  /\ promise
  /\ failed' = failed \cup {phase[n]}
  /\ UNCHANGED <<tree, phase, flags, pending, waiting, pending_abort, promise,
                 weak, local>>

-----------------------------------------------------------------------------
\* Any set of nodes, at any phases; the thread that made the state transition
\* enters with the weak reference of the pointer it is releasing or using.  An
\* abort has its error set; a commit may start with one (TransactionLifecycle).
Init ==
  /\ tree \in SUBSET Node
  /\ phase \in [Node -> 0 .. MaxPhase]
  /\ \A n \in Node \ tree : phase[n] = 0
  /\ flags = [n \in Node |-> IF n \in tree THEN {"kRegister"} ELSE {}]
  /\ pending = 0 /\ pending_abort = 0 /\ waiting = FALSE
  /\ promise = TRUE
  /\ weak = Cardinality(tree) + 1
  /\ \E t \in Thread, start \in {"ExecuteCommitPhase", "ExecuteAbort"} :
       /\ pc = [u \in Thread |-> IF u = t THEN start ELSE "idle"]
       /\ held = [u \in Thread |-> IF u = t THEN 1 ELSE 0]
       /\ failed \in {{}, {-1}}
       /\ start = "ExecuteAbort" => failed = {-1}
  /\ cursor = [t \in Thread |-> {}]
  /\ todo = [t \in Thread |-> {}]
  /\ count = [t \in Thread |-> 0]

Run(t) ==
  \/ ExecuteCommitPhase(t) \/ PrepareForCommit(t) \/ AwaitPrepareDone(t)
  \/ EndOfPhase(t) \/ CommitNode(t) \/ CommitNodesEnd(t)
  \/ ExecuteAbort(t) \/ AbortNode(t) \/ AbortNodesEnd(t)

Callback(t, n) ==
  \/ PrepareDone(t, n) \/ ReadyForCommit(t, n)
  \/ CommitDone(t, n)
  \/ \E next_phase \in 1 .. MaxPhase : CommitDoneNextPhase(t, n, next_phase)
  \/ AbortDone(t, n) \/ SetError(t, n)

\* Nothing is left to do: the object is destroyed.
Terminated == weak = 0 /\ UNCHANGED vars

Next == \/ \E t \in Thread : Run(t) \/ \E n \in Node : Callback(t, n)
        \/ Terminated

Spec == Init /\ [][Next]_vars

\* A running thread keeps running, and each node eventually makes the calls it
\* "must" make (transaction_impl.h).
FairSpec ==
  /\ Spec
  /\ \A t \in Thread : WF_vars(Run(t))
  /\ \A n \in Node :
       /\ WF_vars(\E t \in Thread : PrepareDone(t, n))
       /\ WF_vars(\E t \in Thread : ReadyForCommit(t, n))
       /\ WF_vars(\E t \in Thread : CommitDone(t, n))
       /\ WF_vars(\E t \in Thread : AbortDone(t, n))

-----------------------------------------------------------------------------
(* Properties.                                                             *)

TypeOK ==
  /\ tree \subseteq Node
  /\ phase \in [Node -> 0 .. MaxPhase]
  /\ flags \in [Node -> SUBSET Flag]
  /\ pending \in Int /\ pending_abort \in Int
  /\ waiting \in BOOLEAN /\ promise \in BOOLEAN
  /\ failed \subseteq -1 .. MaxPhase
  /\ weak \in Nat
  /\ pc \in [Thread -> Method]
  /\ cursor \in [Thread -> SUBSET Node]
  /\ todo \in [Thread -> SUBSET Node]
  /\ count \in [Thread -> Nat]
  /\ held \in [Thread -> Nat]

\* PrepareForCommit is called in tree order, the next node only after the
\* previous one has its locks: the rule that keeps two transactions from
\* waiting for each other's cache entries.  Commit() is called on a node only
\* when every node of its phase has been prepared and is ready.
PreparedInOrder ==
  \A n, m \in Registered : phase[m] = phase[n] =>
    /\ "kPrepareForCommit" \in flags[n] /\ m < n => "kPrepareDone" \in flags[m]
    /\ "kCommit" \in flags[n] => {"kPrepareDone", "kReadyForCommit"} \subseteq flags[m]

Finished(n) == "kCommitDone" \in flags[n] \/ "kAbortDone" \in flags[n]

\* promise_ is released, so the future becomes ready, only when every node has
\* committed or aborted, and with success only when every node has committed.
ResolvedWhenFinished ==
  ~promise => /\ \A n \in Registered : Finished(n)
              /\ ResultOk => \A n \in Registered : "kCommitDone" \in flags[n]

\* The TransactionState is deleted only when no thread is inside it and no node
\* will call it again; the exception is a thread that entered ExecuteAbort
\* from CommitDone(next_phase), without holding a weak reference.
NoUseAfterFree ==
  weak = 0 =>
    /\ \A t \in Thread :
         pc[t] = "idle" \/ (pc[t] = "AbortNodes" /\ held[t] = 0)
    /\ \A n \in Registered : Finished(n)

\* The abstract specification: a node is pending while it is in the tree and
\* committing once it has been taken out of it to be committed.
NodeStatus(n) ==
  CASE "kRegister" \notin flags[n] -> "unused"
    [] "kAbortDone" \in flags[n] -> "aborted"
    [] "kAbort" \in flags[n] /\ "kAbortDone" \notin flags[n] -> "aborting"
    [] "kCommitDone" \in flags[n] -> "committed"
    [] n \in tree -> "pending"
    [] OTHER -> "committing"

Abstract == INSTANCE PhasedCommit
  WITH status <- [n \in Node |-> NodeStatus(n)], resolved <- ~promise

\* The counters and callbacks implement the promise of PhasedCommit.
ImplementsPhasedCommit == Abstract!Spec

\* Every started commit or abort releases promise_, so the future becomes ready.
EventuallyResolved == <>(~promise)

\* Every weak reference taken on the way is given back: the object is deleted.
EventuallyFreed == <>(weak = 0)
=============================================================================
