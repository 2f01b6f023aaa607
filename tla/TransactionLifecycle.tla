------------------------ MODULE TransactionLifecycle ------------------------
(***************************************************************************)
(* The life of one TransactionState (tensorstore/transaction.cc and        *)
(* transaction_impl.h) together with the promise/future pair it owns       *)
(* (util/future.cc): the three reference counts, the five commit states,   *)
(* the "force" and "not needed" callbacks registered on the promise, and   *)
(* the moment at which exactly one thread begins the commit or the abort.  *)
(* What happens after that moment (phases, PrepareForCommit, Commit) is    *)
(* module TransactionCommit; here it is reduced to the registered nodes    *)
(* reporting one by one that they are done.                                *)
(*                                                                         *)
(* A call runs in a thread as a stack of pending pieces of work, the next  *)
(* one first.  One piece is one critical section (of mutex_ or of the      *)
(* mutex of the future) or one atomic instruction, so threads interleave   *)
(* exactly where the code lets them.                                       *)
(***************************************************************************)
EXTENDS Integers, Sequences, FiniteSets

CONSTANTS
  Thread,        \* threads that call into the transaction
  MaxHandles,    \* bounds on the references clients hold at a time
  MaxOpen,
  MaxBlocks,
  MaxFutures,
  MaxNodes

ASSUME LifecycleAssumption ==
  /\ MaxHandles \in Nat /\ MaxOpen \in Nat /\ MaxBlocks \in Nat
  /\ MaxFutures \in Nat /\ MaxNodes \in Nat
  /\ IsFiniteSet(Thread) /\ Thread \cap {"listed", "gone"} = {}

VARIABLES
  implicit_transaction,    \* implicit_transaction_; no step changes it
  commit_state,            \* commit_state_
  open_reference_count,    \* open_reference_count_
  commit_reference_count,  \* commit_reference_count_
  weak_reference_count,    \* weak_reference_count_; 0 means destroyed
  handles,                 \* Transaction (CommitPtr) objects of clients
  open_ptrs,               \* OpenPtr and OpenNodePtr objects of clients
  blocks,                  \* commit blocks of clients
  user_futures,            \* Future objects of clients
  nodes,                   \* registered nodes that are not done
  own_future,              \* future_ is non-null
  own_promise,             \* promise_ is non-null
  promise_refs,            \* promise_reference_count_ of the future state
  future_refs,             \* future_reference_count_ of the future state
  future_state,            \* state_ bits of the future state
  result,                  \* the Result stored in the future state
  force_cb,                \* "listed", the thread running it, or "gone"
  not_needed_cb,
  executed,                \* which of ExecuteCommit / ExecuteAbort has run
  stack                    \* per thread: pending pieces of work

refs == <<handles, open_ptrs, blocks, user_futures, nodes>>
counts == <<open_reference_count, commit_reference_count, weak_reference_count>>
future == <<own_future, own_promise, promise_refs, future_refs, future_state,
            result>>
callbacks == <<force_cb, not_needed_cb>>
vars == <<implicit_transaction, commit_state, refs, counts, future, callbacks, executed, stack>>

CommitState == {"kOpen", "kOpenAndCommitRequested", "kCommitStarted",
                "kAbortRequested", "kAborted"}

FutureBit == {"kPreparingToForce", "kForced", "kResultLocked",
              "kResultWritten", "kReady"}

\* The reference through which a client makes a call that is not atomic; it
\* stays at the bottom of the stack so that the client keeps it meanwhile.
Via == {"via_handle", "via_open", "via_future", "via_node"}

Task == Via \cup
  {"RequestCommit", "RequestAbort", "ExecuteCommit", "ExecuteAbort",
   "NoMoreOpenReferences", "NoMoreCommitReferences",
   "DecrementCommit", "DecrementForce", "DecrementWeak",
   "UnregisterForce", "UnregisterNotNeeded",
   "SetDeferredResult", "WriteResult", "WriteResultAndReady",
   "ReleasePromise", "ReleaseFuture",
   "RunForceCallbacks", "ForceCallbackDone", "Forced",
   "DestroyPromiseCallbacks", "DestroyNext", "NotNeededDone"}

kCommitReferenceIncrement == 2
kFutureReferenceIncrement == 1

Busy(ref) == {t \in Thread : stack[t] # <<>> /\ stack[t][Len(stack[t])] = ref}

HasFuture == future_refs > 0

-----------------------------------------------------------------------------
(* How a thread moves: Call starts a call, Return replaces the piece of    *)
(* work just done by the pieces it leads to.                               *)

Idle(t) == stack[t] = <<>>

Call(t, work) == stack' = [stack EXCEPT ![t] = work]

At(t, task) == stack[t] # <<>> /\ Head(stack[t]) = task

Return(t, work) ==
  LET rest == work \o Tail(stack[t])
  IN  stack' = [stack EXCEPT ![t] = IF Len(rest) = 1 /\ Head(rest) \in Via
                                      THEN <<>> ELSE rest]

If(condition, work) == IF condition THEN work ELSE <<>>

-----------------------------------------------------------------------------
(* References.                                                             *)

\* CommitPtrTraits::increment and OpenPtrTraits::increment.
AcquireCommitReference ==
  /\ commit_reference_count' = commit_reference_count + kCommitReferenceIncrement
  /\ weak_reference_count' = weak_reference_count + 1

AcquireOpenReference ==
  /\ AcquireCommitReference
  /\ open_reference_count' = open_reference_count + 1
  /\ open_ptrs' = open_ptrs + 1

\* CommitPtrTraits<2>::decrement, the part before NoMoreCommitReferences.
DecrementCommit(t) ==
  /\ At(t, "DecrementCommit")
  /\ commit_reference_count' = commit_reference_count - kCommitReferenceIncrement
  /\ Return(t, If(commit_reference_count' < kCommitReferenceIncrement,
                  <<"NoMoreCommitReferences">>) \o <<"DecrementWeak">>)
  /\ UNCHANGED <<commit_state, refs, open_reference_count,
                 weak_reference_count, future, callbacks, executed>>

\* A slip: the force callback gives back the increment of a CommitPtr.
DecrementForceTwice(t) ==
  /\ At(t, "DecrementForce")
  /\ commit_reference_count' = commit_reference_count - kCommitReferenceIncrement
  /\ Return(t, If(commit_reference_count' < kFutureReferenceIncrement,
                  <<"NoMoreCommitReferences">>) \o <<"DecrementWeak">>)
  /\ UNCHANGED <<commit_state, refs, open_reference_count,
                 weak_reference_count, future, callbacks, executed>>

\* CommitPtrTraits<1>::decrement: `self` of the force callback.
DecrementForce(t) ==
  /\ At(t, "DecrementForce")
  /\ commit_reference_count' = commit_reference_count - kFutureReferenceIncrement
  /\ Return(t, If(commit_reference_count' < kFutureReferenceIncrement,
                  <<"NoMoreCommitReferences">>) \o <<"DecrementWeak">>)
  /\ UNCHANGED <<commit_state, refs, open_reference_count,
                 weak_reference_count, future, callbacks, executed>>

\* WeakPtrTraits::decrement; at zero the object is deleted and its members
\* promise_ and future_ are released.
DecrementWeak(t) ==
  /\ At(t, "DecrementWeak")
  /\ weak_reference_count' = weak_reference_count - 1
  /\ LET destroyed == weak_reference_count' = 0
     IN  /\ own_promise' = (own_promise /\ ~destroyed)
         /\ own_future' = (own_future /\ ~destroyed)
         /\ Return(t, If(destroyed /\ own_future, <<"ReleaseFuture">>)
                        \o If(destroyed /\ own_promise, <<"ReleasePromise">>))
  /\ UNCHANGED <<commit_state, refs, open_reference_count,
                 commit_reference_count, promise_refs, future_refs,
                 future_state, result, callbacks, executed>>

\* A slip: the commit state is not checked.
AcquireOpenPtrUnchecked(t) ==
  /\ Idle(t)
  /\ handles > 0 /\ open_ptrs < MaxOpen
  /\ AcquireOpenReference
  /\ UNCHANGED <<commit_state, handles, blocks, user_futures, nodes, future,
                 callbacks, executed, stack>>

AcquireOpenPtr(t) ==
  /\ Idle(t)
  /\ handles > 0 /\ open_ptrs < MaxOpen
  /\ commit_state \notin {"kAborted", "kCommitStarted"}
  /\ AcquireOpenReference
  /\ UNCHANGED <<commit_state, handles, blocks, user_futures, nodes, future,
                 callbacks, executed, stack>>

\* Copying an OpenPtr: no lock, but the copied one keeps the count above 0.
CopyOpenPtr(t) ==
  /\ Idle(t)
  /\ open_ptrs > 0 /\ open_ptrs < MaxOpen
  /\ AcquireOpenReference
  /\ UNCHANGED <<commit_state, handles, blocks, user_futures, nodes, future,
                 callbacks, executed, stack>>

\* The caller only holds a weak reference, here the one of a node.
AcquireImplicitOpenPtr(t) ==
  /\ Idle(t)
  /\ implicit_transaction
  /\ nodes > 0 /\ open_ptrs < MaxOpen
  /\ commit_state \in {"kOpen", "kOpenAndCommitRequested"}
  /\ own_future \/ HasFuture \/ "kResultLocked" \in future_state
  /\ own_future' = TRUE
  /\ future_refs' = future_refs + IF own_future THEN 0 ELSE 1
  /\ AcquireOpenReference
  /\ UNCHANGED <<commit_state, handles, blocks, user_futures, nodes,
                 own_promise, promise_refs, future_state, result, callbacks,
                 executed, stack>>

\* A slip: the commit reference is released before NoMoreOpenReferences runs.
ReleaseOpenPtrCommitFirst(t) ==
  /\ Idle(t)
  /\ open_ptrs > Cardinality(Busy("via_open"))
  /\ open_ptrs' = open_ptrs - 1
  /\ open_reference_count' = open_reference_count - 1
  /\ Call(t, <<"DecrementCommit">>
               \o If(open_reference_count' = 0, <<"NoMoreOpenReferences">>))
  /\ UNCHANGED <<commit_state, handles, blocks, user_futures, nodes,
                 commit_reference_count, weak_reference_count, future,
                 callbacks, executed>>

ReleaseOpenPtr(t) ==
  /\ Idle(t)
  /\ open_ptrs > Cardinality(Busy("via_open"))
  /\ open_ptrs' = open_ptrs - 1
  /\ open_reference_count' = open_reference_count - 1
  /\ Call(t, If(open_reference_count' = 0, <<"NoMoreOpenReferences">>)
               \o <<"DecrementCommit">>)
  /\ UNCHANGED <<commit_state, handles, blocks, user_futures, nodes,
                 commit_reference_count, weak_reference_count, future,
                 callbacks, executed>>

\* Called while an open reference is held (AcquireReadRequestReference).
AcquireCommitBlock(t) ==
  /\ Idle(t)
  /\ open_ptrs + blocks > 0 /\ blocks < MaxBlocks
  /\ blocks' = blocks + 1
  /\ open_reference_count' = open_reference_count + 1
  /\ weak_reference_count' = weak_reference_count + 1
  /\ UNCHANGED <<commit_state, handles, open_ptrs, user_futures, nodes,
                 commit_reference_count, future, callbacks, executed, stack>>

\* A slip: a commit block is released that is not held.
ReleaseCommitBlockUnheld(t) ==
  /\ Idle(t)
  /\ blocks > -1
  /\ blocks' = blocks - 1
  /\ open_reference_count' = open_reference_count - 1
  /\ Call(t, If(open_reference_count' = 0, <<"NoMoreOpenReferences">>)
               \o <<"DecrementWeak">>)
  /\ UNCHANGED <<commit_state, handles, open_ptrs, user_futures, nodes,
                 commit_reference_count, weak_reference_count, future,
                 callbacks, executed>>

\* A slip: the last commit block does not resume the deferred commit.
ReleaseCommitBlockSilently(t) ==
  /\ Idle(t)
  /\ blocks > 0
  /\ blocks' = blocks - 1
  /\ open_reference_count' = open_reference_count - 1
  /\ Call(t, <<"DecrementWeak">>)
  /\ UNCHANGED <<commit_state, handles, open_ptrs, user_futures, nodes,
                 commit_reference_count, weak_reference_count, future,
                 callbacks, executed>>

ReleaseCommitBlock(t) ==
  /\ Idle(t)
  /\ blocks > 0
  /\ blocks' = blocks - 1
  /\ open_reference_count' = open_reference_count - 1
  /\ Call(t, If(open_reference_count' = 0, <<"NoMoreOpenReferences">>)
               \o <<"DecrementWeak">>)
  /\ UNCHANGED <<commit_state, handles, open_ptrs, user_futures, nodes,
                 commit_reference_count, weak_reference_count, future,
                 callbacks, executed>>

\* Copying a Transaction, or TransactionState::ToTransaction of an OpenPtr.
CopyTransaction(t) ==
  /\ Idle(t)
  /\ handles + open_ptrs > 0 /\ handles < MaxHandles
  /\ handles' = handles + 1
  /\ AcquireCommitReference
  /\ UNCHANGED <<commit_state, open_ptrs, blocks, user_futures, nodes,
                 open_reference_count, future, callbacks, executed, stack>>

DropTransaction(t) ==
  /\ Idle(t)
  /\ handles > Cardinality(Busy("via_handle"))
  /\ handles' = handles - 1
  /\ Call(t, <<"DecrementCommit">>)
  /\ UNCHANGED <<commit_state, open_ptrs, blocks, user_futures, nodes, counts,
                 future, callbacks, executed>>

-----------------------------------------------------------------------------
(* State transitions under mutex_.                                         *)

ExecuteCommitWork == <<"UnregisterForce", "UnregisterNotNeeded", "ExecuteCommit">>
ExecuteAbortWork == <<"UnregisterForce", "UnregisterNotNeeded", "ExecuteAbort">>

RequestCommit(t) ==
  /\ At(t, "RequestCommit")
  /\ \/ /\ commit_state # "kOpen"
        /\ UNCHANGED commit_state
        /\ Return(t, <<>>)
     \/ /\ commit_state = "kOpen"
        /\ open_reference_count # 0
        /\ commit_state' = "kOpenAndCommitRequested"
        /\ Return(t, <<>>)
     \/ /\ commit_state = "kOpen"
        /\ open_reference_count = 0
        /\ commit_state' = "kCommitStarted"
        /\ Return(t, ExecuteCommitWork)
  /\ UNCHANGED <<refs, counts, future, callbacks, executed>>

\* A slip: RequestAbort uses promise_ without a reference of its own.
RequestAbortBorrowing(t, after) ==
  \/ /\ commit_state \notin {"kOpen", "kOpenAndCommitRequested"}
     /\ UNCHANGED <<commit_state, promise_refs>>
     /\ Return(t, after)
  \/ /\ commit_state \in {"kOpen", "kOpenAndCommitRequested"}
     /\ commit_state' = IF open_reference_count # 0 THEN "kAbortRequested"
                                                    ELSE "kAborted"
     /\ UNCHANGED promise_refs
     /\ Return(t, <<"SetDeferredResult">>
                    \o If(open_reference_count = 0, ExecuteAbortWork) \o after)

\* RequestAbort(error, lock): takes its own reference to promise_ under the
\* lock, so that the promise cannot become ready before the error is set.
RequestAbortLocked(t, after) ==
  \/ /\ commit_state \notin {"kOpen", "kOpenAndCommitRequested"}
     /\ UNCHANGED <<commit_state, promise_refs>>
     /\ Return(t, after)
  \/ /\ commit_state \in {"kOpen", "kOpenAndCommitRequested"}
     /\ open_reference_count # 0
     /\ commit_state' = "kAbortRequested"
     /\ promise_refs' = promise_refs + 1
     /\ Return(t, <<"SetDeferredResult", "ReleasePromise">> \o after)
  \/ /\ commit_state \in {"kOpen", "kOpenAndCommitRequested"}
     /\ open_reference_count = 0
     /\ commit_state' = "kAborted"
     /\ promise_refs' = promise_refs + 1
     /\ Return(t, <<"SetDeferredResult">> \o ExecuteAbortWork
                    \o <<"ReleasePromise">> \o after)

RequestAbort(t) ==
  /\ At(t, "RequestAbort")
  /\ RequestAbortLocked(t, <<>>)
  /\ UNCHANGED <<refs, counts, own_future, own_promise, future_refs,
                 future_state, result, callbacks, executed>>

\* A slip: a deferred request is always carried out as a commit.
NoMoreOpenReferencesCommits(t) ==
  /\ At(t, "NoMoreOpenReferences")
  /\ \/ /\ \/ open_reference_count # 0
           \/ commit_state \notin {"kOpenAndCommitRequested", "kAbortRequested"}
        /\ UNCHANGED commit_state
        /\ Return(t, <<>>)
     \/ /\ open_reference_count = 0
        /\ commit_state \in {"kOpenAndCommitRequested", "kAbortRequested"}
        /\ commit_state' = "kCommitStarted"
        /\ Return(t, ExecuteCommitWork)
  /\ UNCHANGED <<refs, counts, future, callbacks, executed>>

NoMoreOpenReferences(t) ==
  /\ At(t, "NoMoreOpenReferences")
  /\ \/ /\ \/ open_reference_count # 0
           \/ commit_state \notin {"kOpenAndCommitRequested", "kAbortRequested"}
        /\ UNCHANGED commit_state
        /\ Return(t, <<>>)
     \/ /\ open_reference_count = 0
        /\ commit_state = "kOpenAndCommitRequested"
        /\ commit_state' = "kCommitStarted"
        /\ Return(t, ExecuteCommitWork)
     \/ /\ open_reference_count = 0
        /\ commit_state = "kAbortRequested"
        /\ commit_state' = "kAborted"
        /\ Return(t, ExecuteAbortWork)
  /\ UNCHANGED <<refs, counts, future, callbacks, executed>>

\* A slip: future_ is kept, so the reference cycle is not broken.
NoMoreCommitReferencesKeepsFuture(t) ==
  /\ At(t, "NoMoreCommitReferences")
  /\ IF commit_reference_count = 0 /\ commit_state = "kOpen"
       THEN RequestAbortLocked(t, <<>>)
       ELSE /\ Return(t, <<>>)
            /\ UNCHANGED <<commit_state, promise_refs>>
  /\ UNCHANGED <<refs, counts, own_future, own_promise, future_refs,
                 future_state, result, callbacks, executed>>

\* The local `future` takes future_ and is destroyed last.
NoMoreCommitReferences(t) ==
  /\ At(t, "NoMoreCommitReferences")
  /\ LET release == If(own_future, <<"ReleaseFuture">>)
     IN  \/ /\ commit_reference_count >= kCommitReferenceIncrement
            /\ Return(t, <<>>)
            /\ UNCHANGED <<commit_state, own_future, promise_refs>>
         \/ /\ commit_reference_count < kCommitReferenceIncrement
            /\ own_future' = FALSE
            /\ IF commit_reference_count = 0 /\ commit_state = "kOpen"
                 THEN RequestAbortLocked(t, release)
                 ELSE /\ Return(t, release)
                      /\ UNCHANGED <<commit_state, promise_refs>>
  /\ UNCHANGED <<refs, counts, own_promise, future_refs, future_state, result,
                 callbacks, executed>>

\* ExecuteCommit and ExecuteAbort after both callbacks are unregistered: with
\* no node the promise is released at once, otherwise the nodes are called.
Execute(t, what) ==
  /\ executed' = what
  /\ own_promise' = (own_promise /\ nodes # 0)
  /\ Return(t, If(own_promise /\ nodes = 0, <<"ReleasePromise">>))
  /\ UNCHANGED <<commit_state, refs, counts, own_future, promise_refs,
                 future_refs, future_state, result, callbacks>>

ExecuteCommit(t) == At(t, "ExecuteCommit") /\ Execute(t, "commit")
ExecuteAbort(t) == At(t, "ExecuteAbort") /\ Execute(t, "abort")

-----------------------------------------------------------------------------
(* The promise/future pair (util/future.cc).                               *)

\* CallbackBase::Unregister(block = true).  The force callback owns a promise
\* reference and a commit reference, the not-needed callback a weak reference.
UnregisterForce(t) ==
  /\ At(t, "UnregisterForce")
  /\ force_cb \in {"listed", "gone", t}
  /\ force_cb' = IF force_cb = "listed" THEN "gone" ELSE force_cb
  /\ Return(t, If(force_cb = "listed", <<"ReleasePromise", "DecrementForce">>))
  /\ UNCHANGED <<commit_state, refs, counts, future, not_needed_cb, executed>>

UnregisterNotNeeded(t) ==
  /\ At(t, "UnregisterNotNeeded")
  /\ not_needed_cb \in {"listed", "gone", t}
  /\ not_needed_cb' = IF not_needed_cb = "listed" THEN "gone" ELSE not_needed_cb
  /\ Return(t, If(not_needed_cb = "listed", <<"DecrementWeak">>))
  /\ UNCHANGED <<commit_state, refs, counts, future, force_cb, executed>>

\* LockResult: the one who sets kResultLocked also destroys the promise
\* callbacks, unless a Force is under way, which then does it.
Forcing == "kPreparingToForce" \in future_state /\ "kForced" \notin future_state

DestroyUnlessForcing == If(~Forcing, <<"DestroyPromiseCallbacks">>)

SetDeferredResult(t) ==
  /\ At(t, "SetDeferredResult")
  /\ future_state' = future_state \cup {"kResultLocked"}
  /\ Return(t, If("kResultLocked" \notin future_state,
                  DestroyUnlessForcing \o <<"WriteResult">>))
  /\ UNCHANGED <<commit_state, refs, counts, own_future, own_promise,
                 promise_refs, future_refs, result, callbacks, executed>>

WriteResult(t) ==
  /\ At(t, "WriteResult")
  /\ result' = "error"
  /\ future_state' = future_state \cup {"kResultWritten"}
  /\ Return(t, <<>>)
  /\ UNCHANGED <<commit_state, refs, counts, own_future, own_promise,
                 promise_refs, future_refs, callbacks, executed>>

\* ReleasePromiseReference and NoMorePromiseReferences.
ReleasePromise(t) ==
  /\ At(t, "ReleasePromise")
  /\ promise_refs' = promise_refs - 1
  /\ LET last == promise_refs = 1
         lock == last /\ "kResultLocked" \notin future_state
     IN  /\ future_state' = future_state
              \cup (IF lock THEN {"kResultLocked"}
                    ELSE IF last THEN {"kReady"} ELSE {})
         /\ Return(t, If(lock, DestroyUnlessForcing \o <<"WriteResultAndReady">>))
  /\ UNCHANGED <<commit_state, refs, counts, own_future, own_promise,
                 future_refs, result, callbacks, executed>>

WriteResultAndReady(t) ==
  /\ At(t, "WriteResultAndReady")
  /\ future_state' = future_state \cup {"kResultWritten", "kReady"}
  /\ Return(t, <<>>)
  /\ UNCHANGED <<commit_state, refs, counts, own_future, own_promise,
                 promise_refs, future_refs, result, callbacks, executed>>

\* ReleaseFutureReference and NoMoreFutureReferences.
ReleaseFuture(t) ==
  /\ At(t, "ReleaseFuture")
  /\ future_refs' = future_refs - 1
  /\ Return(t, If(future_refs' = 0, <<"DestroyPromiseCallbacks">>))
  /\ UNCHANGED <<commit_state, refs, counts, own_future, own_promise,
                 promise_refs, future_state, result, callbacks, executed>>

\* RunNotNeeded: the callback calls RequestAbort, then drops its WeakPtr.
RunNotNeeded == <<"RequestAbort", "DecrementWeak", "NotNeededDone">>

\* RunAndReleaseCallbacks over promise_callbacks_: the force callback is first
\* in the list, and is unregistered after it is marked as finished.
DestroyPromiseCallbacks(t) ==
  /\ At(t, "DestroyPromiseCallbacks")
  /\ \/ /\ force_cb = "listed"
        /\ force_cb' = t
        /\ Return(t, <<"DestroyNext">>)
        /\ UNCHANGED not_needed_cb
     \/ /\ force_cb # "listed"
        /\ not_needed_cb = "listed"
        /\ not_needed_cb' = t
        /\ Return(t, RunNotNeeded)
        /\ UNCHANGED force_cb
     \/ /\ force_cb # "listed"
        /\ not_needed_cb # "listed"
        /\ Return(t, <<>>)
        /\ UNCHANGED callbacks
  /\ UNCHANGED <<commit_state, refs, counts, future, executed>>

DestroyNext(t) ==
  /\ At(t, "DestroyNext")
  /\ force_cb' = "gone"
  /\ not_needed_cb' = IF not_needed_cb = "listed" THEN t ELSE not_needed_cb
  /\ Return(t, <<"ReleasePromise", "DecrementForce">>
                 \o If(not_needed_cb = "listed", RunNotNeeded))
  /\ UNCHANGED <<commit_state, refs, counts, future, executed>>

NotNeededDone(t) ==
  /\ At(t, "NotNeededDone")
  /\ not_needed_cb' = "gone"
  /\ Return(t, <<>>)
  /\ UNCHANGED <<commit_state, refs, counts, future, force_cb, executed>>

\* RunForceCallbacks: OnForced calls RequestCommit, then destroys its promise
\* and its commit reference.
RunForceCallbacks(t) ==
  /\ At(t, "RunForceCallbacks")
  /\ force_cb' = IF force_cb = "listed" THEN t ELSE force_cb
  /\ Return(t, If(force_cb = "listed",
                  <<"RequestCommit", "ReleasePromise", "DecrementForce",
                    "ForceCallbackDone">>))
  /\ UNCHANGED <<commit_state, refs, counts, future, not_needed_cb, executed>>

ForceCallbackDone(t) ==
  /\ At(t, "ForceCallbackDone")
  /\ force_cb' = "gone"
  /\ Return(t, <<>>)
  /\ UNCHANGED <<commit_state, refs, counts, future, not_needed_cb, executed>>

\* The end of Force: if the result was locked or the last Future went away in
\* the meantime, the promise callbacks are destroyed here.
Forced(t) ==
  /\ At(t, "Forced")
  /\ future_state' = future_state \cup {"kForced"}
  /\ Return(t, If("kResultLocked" \in future_state \/ ~HasFuture,
                  <<"DestroyPromiseCallbacks">>))
  /\ UNCHANGED <<commit_state, refs, counts, own_future, own_promise,
                 promise_refs, future_refs, result, callbacks, executed>>

-----------------------------------------------------------------------------
(* Calls of the clients.                                                   *)

CommitAsync(t) ==
  /\ Idle(t) /\ handles > 0
  /\ Call(t, <<"RequestCommit", "via_handle">>)
  /\ UNCHANGED <<commit_state, refs, counts, future, callbacks, executed>>

Abort(t) ==
  /\ Idle(t) /\ handles > 0
  /\ Call(t, <<"RequestAbort", "via_handle">>)
  /\ UNCHANGED <<commit_state, refs, counts, future, callbacks, executed>>

\* MarkAsTerminal of a second terminal node, or a failing write.
AbortWithError(t) ==
  /\ Idle(t) /\ open_ptrs > 0
  /\ Call(t, <<"RequestAbort", "via_open">>)
  /\ UNCHANGED <<commit_state, refs, counts, future, callbacks, executed>>

\* Node::SetError while an open node is held.
SetError(t) ==
  /\ Idle(t) /\ open_ptrs > 0 /\ own_promise
  /\ Call(t, <<"SetDeferredResult", "via_open">>)
  /\ UNCHANGED <<commit_state, refs, counts, future, callbacks, executed>>

\* Node::Register; the node holds a weak reference from SetTransaction on.
Register(t) ==
  /\ Idle(t) /\ open_ptrs > 0 /\ nodes < MaxNodes
  /\ commit_state \in {"kOpen", "kOpenAndCommitRequested"}
  /\ nodes' = nodes + 1
  /\ weak_reference_count' = weak_reference_count + 1
  /\ UNCHANGED <<commit_state, handles, open_ptrs, blocks, user_futures,
                 open_reference_count, commit_reference_count, future,
                 callbacks, executed, stack>>

\* Transaction::future() and the value returned by CommitAsync.
GetFuture(t) ==
  /\ Idle(t) /\ handles > 0 /\ user_futures < MaxFutures
  /\ own_future
  /\ user_futures' = user_futures + 1
  /\ future_refs' = future_refs + 1
  /\ UNCHANGED <<commit_state, handles, open_ptrs, blocks, nodes, counts,
                 own_future, own_promise, promise_refs, future_state, result,
                 callbacks, executed, stack>>

DropFuture(t) ==
  /\ Idle(t) /\ user_futures > Cardinality(Busy("via_future"))
  /\ user_futures' = user_futures - 1
  /\ Call(t, <<"ReleaseFuture">>)
  /\ UNCHANGED <<commit_state, handles, open_ptrs, blocks, nodes, counts,
                 future, callbacks, executed>>

\* FutureStateBase::Force: only the first caller, and only from kInitial.
ForceFuture(t) ==
  /\ Idle(t) /\ user_futures > 0
  /\ future_state = {}
  /\ future_state' = {"kPreparingToForce"}
  /\ Call(t, <<"RunForceCallbacks", "Forced", "via_future">>)
  /\ UNCHANGED <<commit_state, refs, counts, own_future, own_promise,
                 promise_refs, future_refs, result, callbacks, executed>>

-----------------------------------------------------------------------------
(* The nodes once commit or abort runs (detailed in TransactionCommit).    *)

NodeDone(t) ==
  /\ Idle(t) /\ executed # "none"
  /\ nodes > Cardinality(Busy("via_node"))
  /\ nodes' = nodes - 1
  /\ own_promise' = (own_promise /\ nodes' # 0)
  /\ Call(t, If(own_promise /\ nodes' = 0, <<"ReleasePromise">>)
               \o <<"DecrementWeak">>)
  /\ UNCHANGED <<implicit_transaction, commit_state, handles, open_ptrs, blocks, user_futures, counts,
                 own_future, promise_refs, future_refs, future_state, result,
                 callbacks, executed>>

NodeSetError(t) ==
  /\ Idle(t) /\ executed = "commit"
  /\ nodes > Cardinality(Busy("via_node")) /\ own_promise
  /\ Call(t, <<"SetDeferredResult", "via_node">>)
  /\ UNCHANGED <<implicit_transaction, commit_state, refs, counts, future, callbacks, executed>>

-----------------------------------------------------------------------------
Init ==
  /\ implicit_transaction \in BOOLEAN
  /\ commit_state = "kOpen"
  /\ open_reference_count = IF implicit_transaction THEN 1 ELSE 0
  /\ commit_reference_count = kFutureReferenceIncrement + kCommitReferenceIncrement
  /\ weak_reference_count = 3
  /\ handles = IF implicit_transaction THEN 0 ELSE 1
  /\ open_ptrs = IF implicit_transaction THEN 1 ELSE 0
  /\ blocks = 0 /\ user_futures = 0 /\ nodes = 0
  /\ own_future = TRUE /\ own_promise = TRUE
  /\ promise_refs = 2 /\ future_refs = 1
  /\ future_state = {} /\ result = "ok"
  /\ force_cb = "listed" /\ not_needed_cb = "listed"
  /\ executed = "none"
  /\ stack = [t \in Thread |-> <<>>]

Acquire(t) ==
  /\ UNCHANGED implicit_transaction
  /\ \/ AcquireOpenPtr(t) \/ CopyOpenPtr(t) \/ AcquireImplicitOpenPtr(t)
     \/ AcquireCommitBlock(t) \/ CopyTransaction(t) \/ GetFuture(t)
     \/ Register(t)

Release(t) ==
  /\ UNCHANGED implicit_transaction
  /\ \/ ReleaseOpenPtr(t) \/ ReleaseCommitBlock(t)
     \/ DropTransaction(t) \/ DropFuture(t)

Request(t) ==
  /\ UNCHANGED implicit_transaction
  /\ \/ CommitAsync(t) \/ Abort(t) \/ AbortWithError(t)
     \/ SetError(t) \/ ForceFuture(t)

\* What a thread does on its own once it has been called.
Step(t) ==
  /\ UNCHANGED implicit_transaction
  /\ \/ DecrementCommit(t) \/ DecrementForce(t) \/ DecrementWeak(t)
     \/ RequestCommit(t) \/ RequestAbort(t)
     \/ NoMoreOpenReferences(t) \/ NoMoreCommitReferences(t)
     \/ ExecuteCommit(t) \/ ExecuteAbort(t)
     \/ UnregisterForce(t) \/ UnregisterNotNeeded(t)
     \/ SetDeferredResult(t) \/ WriteResult(t) \/ WriteResultAndReady(t)
     \/ ReleasePromise(t) \/ ReleaseFuture(t)
     \/ DestroyPromiseCallbacks(t) \/ DestroyNext(t) \/ NotNeededDone(t)
     \/ RunForceCallbacks(t) \/ ForceCallbackDone(t) \/ Forced(t)

\* Nothing is left: every reference is gone and the object is destroyed.
Released ==
  /\ handles = 0 /\ open_ptrs = 0 /\ blocks = 0 /\ user_futures = 0
  /\ nodes = 0
  /\ \A t \in Thread : Idle(t)

Terminated == Released /\ weak_reference_count = 0 /\ UNCHANGED vars

Next == \/ \E t \in Thread :
             \/ Acquire(t) \/ Release(t) \/ Request(t) \/ Step(t)
             \/ NodeDone(t) \/ NodeSetError(t)
        \/ Terminated

Spec == Init /\ [][Next]_vars

\* Threads that are running keep running, and nodes that are asked to commit or
\* abort eventually report that they are done, in whichever thread is free
\* again and again.  Clients promise nothing.
FairSpec ==
  /\ Spec
  /\ \A t \in Thread : WF_vars(Step(t))
  /\ SF_vars(\E t \in Thread : NodeDone(t))

-----------------------------------------------------------------------------
(* Properties.                                                             *)

TypeOK ==
  /\ commit_state \in CommitState
  /\ commit_reference_count \in Int /\ weak_reference_count \in Int
  /\ promise_refs \in Int /\ future_refs \in Int
  /\ open_reference_count \in Nat
  /\ handles \in Nat /\ open_ptrs \in Nat /\ blocks \in Nat
  /\ user_futures \in Nat /\ nodes \in Nat
  /\ own_future \in BOOLEAN /\ own_promise \in BOOLEAN
  /\ future_state \subseteq FutureBit
  /\ result \in {"ok", "error"}
  /\ force_cb \in {"listed", "gone"} \cup Thread
  /\ not_needed_cb \in {"listed", "gone"} \cup Thread
  /\ executed \in {"none", "commit", "abort"}
  /\ stack \in [Thread -> Seq(Task)]

Ready == {"kReady", "kResultWritten"} \subseteq future_state

\* Once commit has started or the transaction is aborted, no OpenPtr and no
\* commit block exists and none will: the word of open_reference_count_ can be
\* reused for nodes_pending_commit_, and the ABSL_UNREACHABLE cases of
\* Register and GetOrCreateMultiPhaseNode are unreachable.
ClosedForWrites ==
  commit_state \in {"kCommitStarted", "kAborted"} =>
    /\ open_ptrs = 0 /\ blocks = 0
    /\ open_reference_count = 0

\* How often a piece of work is pending in all threads together.
Pending(task) ==
  Cardinality(UNION {{<<t, i>> : i \in {j \in DOMAIN stack[t] : stack[t][j] = task}}
                       : t \in Thread})

\* The counts are what the comments of transaction_impl.h say they are, at
\* every step of every release that is under way.
ReferencesCounted ==
  /\ open_reference_count = open_ptrs + blocks
  /\ commit_reference_count =
       kCommitReferenceIncrement * (handles + open_ptrs + Pending("DecrementCommit"))
         + kFutureReferenceIncrement *
             ((IF force_cb = "listed" THEN 1 ELSE 0)
                + Pending("DestroyNext") + Pending("DecrementForce"))
  /\ weak_reference_count =
       handles + open_ptrs + blocks + nodes
         + Pending("DecrementCommit") + Pending("DecrementForce")
         + Pending("DecrementWeak") + Pending("DestroyNext")
         + (IF force_cb = "listed" THEN 1 ELSE 0)
         + (IF not_needed_cb = "listed" THEN 1 ELSE 0)

\* Work that touches the TransactionState object itself; the rest of the work
\* only touches the future state, which has its own reference count.
TouchesTransaction ==
  {"RequestCommit", "RequestAbort", "ExecuteCommit", "ExecuteAbort",
   "NoMoreOpenReferences", "NoMoreCommitReferences",
   "DecrementCommit", "DecrementForce", "DecrementWeak",
   "UnregisterForce", "UnregisterNotNeeded"}

\* The object is deleted only when nobody will touch it again.
NoUseAfterFree ==
  weak_reference_count = 0 =>
    /\ handles + open_ptrs + blocks + nodes = 0
    /\ \A t \in Thread : \A i \in 1 .. Len(stack[t]) :
         stack[t][i] \notin TouchesTransaction

\* The future becomes ready only after commit or abort has run and every node
\* is done, and an aborted transaction is never reported as a success.
ReadyMeansDone ==
  Ready => /\ executed # "none"
           /\ nodes = 0
           /\ executed = "abort" => result = "error"

\* When the clients have dropped everything, the cycles promise -> callback ->
\* transaction -> promise and transaction -> future -> promise are broken: the
\* transaction is destroyed and its promise is resolved.
NoLeak == Released => weak_reference_count = 0 /\ promise_refs = 0 /\ Ready

\* A decision is final: neither a started commit nor an abort is revoked, and
\* a requested abort never turns into a commit.
DecisionsAreFinal ==
  [][/\ commit_state \in {"kCommitStarted", "kAborted"} => UNCHANGED commit_state
     /\ commit_state = "kAbortRequested" => commit_state' # "kCommitStarted"]_vars

\* If commit or abort was requested and no open reference remains, the future
\* becomes ready (unless a client opens the transaction again).
RequestLeadsToReady ==
  (commit_state # "kOpen" /\ open_ptrs + blocks = 0)
    ~> (Ready \/ open_ptrs + blocks > 0)

=============================================================================
