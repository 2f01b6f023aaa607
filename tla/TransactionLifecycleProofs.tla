---------------------- MODULE TransactionLifecycleProofs ----------------------
(***************************************************************************)
(* What TLC checks of TransactionLifecycle for a few threads, proved for   *)
(* every finite set of threads and every bound on the clients' references. *)
(***************************************************************************)
EXTENDS TransactionLifecycle, FiniteSetTheorems, SequenceTheorems, TLAPS

-----------------------------------------------------------------------------
(* Stacks of work.                                                         *)

\* Work that is skipped when a condition fails is still work.
LEMMA IfType ==
  ASSUME NEW c, NEW w \in Seq(Task)
  PROVE  If(c, w) \in Seq(Task)
BY EmptySeq DEF If

\* Pieces of work, one after the other, are work.
LEMMA ConcatType ==
  ASSUME NEW v \in Seq(Task), NEW w \in Seq(Task)
  PROVE  v \o w \in Seq(Task)
BY ConcatProperties

\* A single piece, and the sequences of pieces the actions push.
LEMMA PieceType ==
  ASSUME NEW a \in Task
  PROVE  <<a>> \in Seq(Task)
OBVIOUS

LEMMA TwoPieces ==
  ASSUME NEW a \in Task, NEW b \in Task
  PROVE  <<a, b>> \in Seq(Task)
OBVIOUS

LEMMA ThreePieces ==
  ASSUME NEW a \in Task, NEW b \in Task, NEW c \in Task
  PROVE  <<a, b, c>> \in Seq(Task)
OBVIOUS

LEMMA FourPieces ==
  ASSUME NEW a \in Task, NEW b \in Task, NEW c \in Task, NEW d \in Task
  PROVE  <<a, b, c, d>> \in Seq(Task)
OBVIOUS

StackOK == stack \in [Thread -> Seq(Task)]

\* Returning from a piece of work keeps the stacks well formed.
LEMMA ReturnType ==
  ASSUME StackOK, NEW t \in Thread, stack[t] # <<>>,
         NEW w \in Seq(Task), Return(t, w)
  PROVE  StackOK'
<1>1. Tail(stack[t]) \in Seq(Task) BY DEF StackOK
<1>2. w \o Tail(stack[t]) \in Seq(Task) BY <1>1, ConcatType
<1>3. <<>> \in Seq(Task) BY EmptySeq
<1>. QED BY <1>2, <1>3 DEF Return, StackOK

\* So does starting a call.
LEMMA CallType ==
  ASSUME StackOK, NEW t \in Thread, NEW w \in Seq(Task), Call(t, w)
  PROVE  StackOK'
BY DEF Call, StackOK

\* The references that a thread is using are finitely many.
LEMMA BusyCount ==
  ASSUME NEW ref
  PROVE  Cardinality(Busy(ref)) \in Nat
<1>1. IsFiniteSet(Thread) BY LifecycleAssumption
<1>2. Busy(ref) \subseteq Thread BY DEF Busy
<1>. QED BY <1>1, <1>2, FS_Subset, FS_CardinalityType

-----------------------------------------------------------------------------
(* Closed for writes.                                                      *)

\* The commit block and open pointer count is the number of those objects.
OpenCountOK == open_reference_count = open_ptrs + blocks

\* ClosedForWrites by itself is not inductive: RequestCommit only looks at the
\* count, so the count has to be the number of pointers it stands for.
IInv == TypeOK /\ OpenCountOK /\ ClosedForWrites

\* The work that RequestAbort leaves behind is well formed.
LEMMA AbortWorkType ==
  ASSUME StackOK, NEW t \in Thread, stack[t] # <<>>,
         NEW after \in Seq(Task), RequestAbortLocked(t, after)
  PROVE  StackOK'
<1>1. <<"SetDeferredResult", "ReleasePromise">> \o after \in Seq(Task)
  BY TwoPieces, ConcatType DEF Task
<1>2. /\ <<"SetDeferredResult">> \in Seq(Task)
      /\ ExecuteAbortWork \in Seq(Task)
      /\ <<"ReleasePromise">> \in Seq(Task)
  BY PieceType, ThreePieces DEF Task, ExecuteAbortWork
<1>3. <<"SetDeferredResult">> \o ExecuteAbortWork \o <<"ReleasePromise">> \o after
        \in Seq(Task)
  BY <1>2, ConcatType
<1>. QED BY <1>1, <1>3, ReturnType DEF RequestAbortLocked

\* Initially nothing is open except, for an implicit transaction, the OpenPtr
\* that MakeImplicit returns.
LEMMA InitIInv == Init => IInv
BY LifecycleAssumption, EmptySeq
DEF Init, IInv, TypeOK, OpenCountOK, ClosedForWrites, CommitState, Task,
    kCommitReferenceIncrement, kFutureReferenceIncrement

\* Every step of every thread keeps the invariant.
LEMMA NextIInv == IInv /\ [Next]_vars => IInv'
<1>. SUFFICES ASSUME IInv, [Next]_vars
              PROVE  IInv'
  OBVIOUS
<1>1. CASE UNCHANGED vars
  BY <1>1 DEF vars, refs, counts, future, callbacks, IInv, TypeOK, OpenCountOK,
     ClosedForWrites
<1>2. CASE Next
  <2>0. StackOK BY DEF IInv, TypeOK, StackOK
  <2>1. ASSUME NEW t \in Thread, AcquireOpenPtr(t)
        PROVE  IInv'
    BY <2>1 DEF AcquireOpenPtr, AcquireOpenReference, AcquireCommitReference, IInv, TypeOK, OpenCountOK,
       ClosedForWrites, kCommitReferenceIncrement, refs, counts, future,
       callbacks, CommitState
  <2>2. ASSUME NEW t \in Thread, CopyOpenPtr(t)
        PROVE  IInv'
    BY <2>2 DEF CopyOpenPtr, AcquireOpenReference, AcquireCommitReference, IInv, TypeOK, OpenCountOK,
       ClosedForWrites, kCommitReferenceIncrement, refs, counts, future,
       callbacks, CommitState
  <2>3. ASSUME NEW t \in Thread, AcquireImplicitOpenPtr(t)
        PROVE  IInv'
    BY <2>3 DEF AcquireImplicitOpenPtr, AcquireOpenReference, AcquireCommitReference, IInv, TypeOK, OpenCountOK,
       ClosedForWrites, kCommitReferenceIncrement, refs, counts, future,
       callbacks, CommitState
  <2>4. ASSUME NEW t \in Thread, AcquireCommitBlock(t)
        PROVE  IInv'
    BY <2>4 DEF AcquireCommitBlock, IInv, TypeOK, OpenCountOK,
       ClosedForWrites, kCommitReferenceIncrement, refs, counts, future,
       callbacks, CommitState
  <2>5. ASSUME NEW t \in Thread, CopyTransaction(t)
        PROVE  IInv'
    BY <2>5 DEF CopyTransaction, AcquireCommitReference, IInv, TypeOK, OpenCountOK,
       ClosedForWrites, kCommitReferenceIncrement, refs, counts, future,
       callbacks, CommitState
  <2>6. ASSUME NEW t \in Thread, Register(t)
        PROVE  IInv'
    BY <2>6 DEF Register, IInv, TypeOK, OpenCountOK,
       ClosedForWrites, kCommitReferenceIncrement, refs, counts, future,
       callbacks, CommitState
  <2>7. ASSUME NEW t \in Thread, GetFuture(t)
        PROVE  IInv'
    BY <2>7 DEF GetFuture, IInv, TypeOK, OpenCountOK,
       ClosedForWrites, kCommitReferenceIncrement, refs, counts, future,
       callbacks, CommitState
  <2>8. ASSUME NEW t \in Thread, ReleaseOpenPtr(t)
        PROVE  IInv'
    <3>1. StackOK'
      BY <2>8, <2>0, CallType, IfType, ConcatType, PieceType
      DEF ReleaseOpenPtr, Task, Via
    <3>. QED
      BY <2>8, <3>1, BusyCount
      DEF ReleaseOpenPtr, IInv, TypeOK, StackOK, OpenCountOK, ClosedForWrites,
          kCommitReferenceIncrement, kFutureReferenceIncrement, refs, counts,
          future, callbacks, CommitState
  <2>9. ASSUME NEW t \in Thread, ReleaseCommitBlock(t)
        PROVE  IInv'
    <3>1. StackOK'
      BY <2>9, <2>0, CallType, IfType, ConcatType, PieceType
      DEF ReleaseCommitBlock, Task, Via
    <3>. QED
      BY <2>9, <3>1
      DEF ReleaseCommitBlock, IInv, TypeOK, StackOK, OpenCountOK, ClosedForWrites,
          kCommitReferenceIncrement, kFutureReferenceIncrement, refs, counts,
          future, callbacks, CommitState
  <2>10. ASSUME NEW t \in Thread, DropTransaction(t)
        PROVE  IInv'
    <3>1. StackOK'
      BY <2>10, <2>0, CallType, PieceType
      DEF DropTransaction, Task, Via
    <3>. QED
      BY <2>10, <3>1, BusyCount
      DEF DropTransaction, IInv, TypeOK, StackOK, OpenCountOK, ClosedForWrites,
          kCommitReferenceIncrement, kFutureReferenceIncrement, refs, counts,
          future, callbacks, CommitState
  <2>11. ASSUME NEW t \in Thread, DropFuture(t)
        PROVE  IInv'
    <3>1. StackOK'
      BY <2>11, <2>0, CallType, PieceType
      DEF DropFuture, Task, Via
    <3>. QED
      BY <2>11, <3>1, BusyCount
      DEF DropFuture, IInv, TypeOK, StackOK, OpenCountOK, ClosedForWrites,
          kCommitReferenceIncrement, kFutureReferenceIncrement, refs, counts,
          future, callbacks, CommitState
  <2>12. ASSUME NEW t \in Thread, CommitAsync(t)
        PROVE  IInv'
    <3>1. StackOK'
      BY <2>12, <2>0, CallType, TwoPieces
      DEF CommitAsync, Task, Via
    <3>. QED
      BY <2>12, <3>1
      DEF CommitAsync, IInv, TypeOK, StackOK, OpenCountOK, ClosedForWrites,
          kCommitReferenceIncrement, kFutureReferenceIncrement, refs, counts,
          future, callbacks, CommitState
  <2>13. ASSUME NEW t \in Thread, Abort(t)
        PROVE  IInv'
    <3>1. StackOK'
      BY <2>13, <2>0, CallType, TwoPieces
      DEF Abort, Task, Via
    <3>. QED
      BY <2>13, <3>1
      DEF Abort, IInv, TypeOK, StackOK, OpenCountOK, ClosedForWrites,
          kCommitReferenceIncrement, kFutureReferenceIncrement, refs, counts,
          future, callbacks, CommitState
  <2>14. ASSUME NEW t \in Thread, AbortWithError(t)
        PROVE  IInv'
    <3>1. StackOK'
      BY <2>14, <2>0, CallType, TwoPieces
      DEF AbortWithError, Task, Via
    <3>. QED
      BY <2>14, <3>1
      DEF AbortWithError, IInv, TypeOK, StackOK, OpenCountOK, ClosedForWrites,
          kCommitReferenceIncrement, kFutureReferenceIncrement, refs, counts,
          future, callbacks, CommitState
  <2>15. ASSUME NEW t \in Thread, SetError(t)
        PROVE  IInv'
    <3>1. StackOK'
      BY <2>15, <2>0, CallType, TwoPieces
      DEF SetError, Task, Via
    <3>. QED
      BY <2>15, <3>1
      DEF SetError, IInv, TypeOK, StackOK, OpenCountOK, ClosedForWrites,
          kCommitReferenceIncrement, kFutureReferenceIncrement, refs, counts,
          future, callbacks, CommitState
  <2>16. ASSUME NEW t \in Thread, ForceFuture(t)
        PROVE  IInv'
    <3>1. StackOK'
      BY <2>16, <2>0, CallType, ThreePieces
      DEF ForceFuture, Task, Via
    <3>. QED
      BY <2>16, <3>1
      DEF ForceFuture, FutureBit, IInv, TypeOK, StackOK, OpenCountOK, ClosedForWrites,
          kCommitReferenceIncrement, kFutureReferenceIncrement, refs, counts,
          future, callbacks, CommitState
  <2>17. ASSUME NEW t \in Thread, NodeDone(t)
        PROVE  IInv'
    <3>1. StackOK'
      BY <2>17, <2>0, CallType, IfType, ConcatType, PieceType
      DEF NodeDone, Task, Via
    <3>. QED
      BY <2>17, <3>1, BusyCount
      DEF NodeDone, IInv, TypeOK, StackOK, OpenCountOK, ClosedForWrites,
          kCommitReferenceIncrement, kFutureReferenceIncrement, refs, counts,
          future, callbacks, CommitState
  <2>18. ASSUME NEW t \in Thread, NodeSetError(t)
        PROVE  IInv'
    <3>1. StackOK'
      BY <2>18, <2>0, CallType, TwoPieces
      DEF NodeSetError, Task, Via
    <3>. QED
      BY <2>18, <3>1
      DEF NodeSetError, IInv, TypeOK, StackOK, OpenCountOK, ClosedForWrites,
          kCommitReferenceIncrement, kFutureReferenceIncrement, refs, counts,
          future, callbacks, CommitState
  <2>19. ASSUME NEW t \in Thread, DecrementCommit(t)
        PROVE  IInv'
    <3>1. StackOK'
      BY <2>19, <2>0, ReturnType, IfType, ConcatType, PieceType
      DEF DecrementCommit, At, Task, Via
    <3>. QED
      BY <2>19, <3>1
      DEF DecrementCommit, IInv, TypeOK, StackOK, OpenCountOK, ClosedForWrites,
          kCommitReferenceIncrement, kFutureReferenceIncrement, refs, counts,
          future, callbacks, CommitState
  <2>20. ASSUME NEW t \in Thread, DecrementForce(t)
        PROVE  IInv'
    <3>1. StackOK'
      BY <2>20, <2>0, ReturnType, IfType, ConcatType, PieceType
      DEF DecrementForce, At, Task, Via
    <3>. QED
      BY <2>20, <3>1
      DEF DecrementForce, IInv, TypeOK, StackOK, OpenCountOK, ClosedForWrites,
          kCommitReferenceIncrement, kFutureReferenceIncrement, refs, counts,
          future, callbacks, CommitState
  <2>21. ASSUME NEW t \in Thread, DecrementWeak(t)
        PROVE  IInv'
    <3>1. StackOK'
      BY <2>21, <2>0, ReturnType, IfType, ConcatType, PieceType
      DEF DecrementWeak, At, Task, Via
    <3>. QED
      BY <2>21, <3>1
      DEF DecrementWeak, IInv, TypeOK, StackOK, OpenCountOK, ClosedForWrites,
          kCommitReferenceIncrement, kFutureReferenceIncrement, refs, counts,
          future, callbacks, CommitState
  <2>22. ASSUME NEW t \in Thread, RequestCommit(t)
        PROVE  IInv'
    <3>1. StackOK'
      BY <2>22, <2>0, ReturnType, ThreePieces, EmptySeq
      DEF RequestCommit, ExecuteCommitWork, At, Task, Via
    <3>. QED
      BY <2>22, <3>1
      DEF RequestCommit, IInv, TypeOK, StackOK, OpenCountOK, ClosedForWrites,
          kCommitReferenceIncrement, kFutureReferenceIncrement, refs, counts,
          future, callbacks, CommitState
  <2>23. ASSUME NEW t \in Thread, NoMoreOpenReferences(t)
        PROVE  IInv'
    <3>1. StackOK'
      BY <2>23, <2>0, ReturnType, ThreePieces, EmptySeq
      DEF NoMoreOpenReferences, ExecuteCommitWork, ExecuteAbortWork, At, Task, Via
    <3>. QED
      BY <2>23, <3>1
      DEF NoMoreOpenReferences, IInv, TypeOK, StackOK, OpenCountOK, ClosedForWrites,
          kCommitReferenceIncrement, kFutureReferenceIncrement, refs, counts,
          future, callbacks, CommitState
  <2>24. ASSUME NEW t \in Thread, UnregisterForce(t)
        PROVE  IInv'
    <3>1. StackOK'
      BY <2>24, <2>0, ReturnType, IfType, TwoPieces
      DEF UnregisterForce, At, Task, Via
    <3>. QED
      BY <2>24, <3>1
      DEF UnregisterForce, IInv, TypeOK, StackOK, OpenCountOK, ClosedForWrites,
          kCommitReferenceIncrement, kFutureReferenceIncrement, refs, counts,
          future, callbacks, CommitState
  <2>25. ASSUME NEW t \in Thread, UnregisterNotNeeded(t)
        PROVE  IInv'
    <3>1. StackOK'
      BY <2>25, <2>0, ReturnType, IfType, PieceType
      DEF UnregisterNotNeeded, At, Task, Via
    <3>. QED
      BY <2>25, <3>1
      DEF UnregisterNotNeeded, IInv, TypeOK, StackOK, OpenCountOK, ClosedForWrites,
          kCommitReferenceIncrement, kFutureReferenceIncrement, refs, counts,
          future, callbacks, CommitState
  <2>26. ASSUME NEW t \in Thread, SetDeferredResult(t)
        PROVE  IInv'
    <3>1. StackOK'
      BY <2>26, <2>0, ReturnType, IfType, ConcatType, PieceType
      DEF SetDeferredResult, DestroyUnlessForcing, At, Task, Via
    <3>. QED
      BY <2>26, <3>1
      DEF SetDeferredResult, FutureBit, IInv, TypeOK, StackOK, OpenCountOK, ClosedForWrites,
          kCommitReferenceIncrement, kFutureReferenceIncrement, refs, counts,
          future, callbacks, CommitState
  <2>27. ASSUME NEW t \in Thread, WriteResult(t)
        PROVE  IInv'
    <3>1. StackOK'
      BY <2>27, <2>0, ReturnType, EmptySeq
      DEF WriteResult, At, Task, Via
    <3>. QED
      BY <2>27, <3>1
      DEF WriteResult, FutureBit, IInv, TypeOK, StackOK, OpenCountOK, ClosedForWrites,
          kCommitReferenceIncrement, kFutureReferenceIncrement, refs, counts,
          future, callbacks, CommitState
  <2>28. ASSUME NEW t \in Thread, WriteResultAndReady(t)
        PROVE  IInv'
    <3>1. StackOK'
      BY <2>28, <2>0, ReturnType, EmptySeq
      DEF WriteResultAndReady, At, Task, Via
    <3>. QED
      BY <2>28, <3>1
      DEF WriteResultAndReady, FutureBit, IInv, TypeOK, StackOK, OpenCountOK, ClosedForWrites,
          kCommitReferenceIncrement, kFutureReferenceIncrement, refs, counts,
          future, callbacks, CommitState
  <2>29. ASSUME NEW t \in Thread, ReleasePromise(t)
        PROVE  IInv'
    <3>1. StackOK'
      BY <2>29, <2>0, ReturnType, IfType, ConcatType, PieceType
      DEF ReleasePromise, DestroyUnlessForcing, At, Task, Via
    <3>. QED
      BY <2>29, <3>1
      DEF ReleasePromise, FutureBit, IInv, TypeOK, StackOK, OpenCountOK, ClosedForWrites,
          kCommitReferenceIncrement, kFutureReferenceIncrement, refs, counts,
          future, callbacks, CommitState
  <2>30. ASSUME NEW t \in Thread, ReleaseFuture(t)
        PROVE  IInv'
    <3>1. StackOK'
      BY <2>30, <2>0, ReturnType, IfType, PieceType
      DEF ReleaseFuture, At, Task, Via
    <3>. QED
      BY <2>30, <3>1
      DEF ReleaseFuture, IInv, TypeOK, StackOK, OpenCountOK, ClosedForWrites,
          kCommitReferenceIncrement, kFutureReferenceIncrement, refs, counts,
          future, callbacks, CommitState
  <2>31. ASSUME NEW t \in Thread, DestroyPromiseCallbacks(t)
        PROVE  IInv'
    <3>1. StackOK'
      BY <2>31, <2>0, ReturnType, PieceType, ThreePieces, EmptySeq
      DEF DestroyPromiseCallbacks, RunNotNeeded, At, Task, Via
    <3>. QED
      BY <2>31, <3>1
      DEF DestroyPromiseCallbacks, IInv, TypeOK, StackOK, OpenCountOK, ClosedForWrites,
          kCommitReferenceIncrement, kFutureReferenceIncrement, refs, counts,
          future, callbacks, CommitState
  <2>32. ASSUME NEW t \in Thread, DestroyNext(t)
        PROVE  IInv'
    <3>1. StackOK'
      BY <2>32, <2>0, ReturnType, IfType, ConcatType, TwoPieces, ThreePieces
      DEF DestroyNext, RunNotNeeded, At, Task, Via
    <3>. QED
      BY <2>32, <3>1
      DEF DestroyNext, IInv, TypeOK, StackOK, OpenCountOK, ClosedForWrites,
          kCommitReferenceIncrement, kFutureReferenceIncrement, refs, counts,
          future, callbacks, CommitState
  <2>33. ASSUME NEW t \in Thread, NotNeededDone(t)
        PROVE  IInv'
    <3>1. StackOK'
      BY <2>33, <2>0, ReturnType, EmptySeq
      DEF NotNeededDone, At, Task, Via
    <3>. QED
      BY <2>33, <3>1
      DEF NotNeededDone, IInv, TypeOK, StackOK, OpenCountOK, ClosedForWrites,
          kCommitReferenceIncrement, kFutureReferenceIncrement, refs, counts,
          future, callbacks, CommitState
  <2>34. ASSUME NEW t \in Thread, RunForceCallbacks(t)
        PROVE  IInv'
    <3>1. StackOK'
      BY <2>34, <2>0, ReturnType, IfType, FourPieces
      DEF RunForceCallbacks, At, Task, Via
    <3>. QED
      BY <2>34, <3>1
      DEF RunForceCallbacks, IInv, TypeOK, StackOK, OpenCountOK, ClosedForWrites,
          kCommitReferenceIncrement, kFutureReferenceIncrement, refs, counts,
          future, callbacks, CommitState
  <2>35. ASSUME NEW t \in Thread, ForceCallbackDone(t)
        PROVE  IInv'
    <3>1. StackOK'
      BY <2>35, <2>0, ReturnType, EmptySeq
      DEF ForceCallbackDone, At, Task, Via
    <3>. QED
      BY <2>35, <3>1
      DEF ForceCallbackDone, IInv, TypeOK, StackOK, OpenCountOK, ClosedForWrites,
          kCommitReferenceIncrement, kFutureReferenceIncrement, refs, counts,
          future, callbacks, CommitState
  <2>36. ASSUME NEW t \in Thread, Forced(t)
        PROVE  IInv'
    <3>1. StackOK'
      BY <2>36, <2>0, ReturnType, IfType, PieceType
      DEF Forced, At, Task, Via
    <3>. QED
      BY <2>36, <3>1
      DEF Forced, FutureBit, IInv, TypeOK, StackOK, OpenCountOK, ClosedForWrites,
          kCommitReferenceIncrement, kFutureReferenceIncrement, refs, counts,
          future, callbacks, CommitState
  <2>37. ASSUME NEW t \in Thread, ExecuteCommit(t)
        PROVE  IInv'
    <3>1. StackOK'
      BY <2>37, <2>0, ReturnType, IfType, PieceType
      DEF ExecuteCommit, Execute, At, Task, Via
    <3>. QED
      BY <2>37, <3>1
      DEF ExecuteCommit, Execute, IInv, TypeOK, StackOK, OpenCountOK, ClosedForWrites,
          kCommitReferenceIncrement, kFutureReferenceIncrement, refs, counts,
          future, callbacks, CommitState
  <2>38. ASSUME NEW t \in Thread, ExecuteAbort(t)
        PROVE  IInv'
    <3>1. StackOK'
      BY <2>38, <2>0, ReturnType, IfType, PieceType
      DEF ExecuteAbort, Execute, At, Task, Via
    <3>. QED
      BY <2>38, <3>1
      DEF ExecuteAbort, Execute, IInv, TypeOK, StackOK, OpenCountOK, ClosedForWrites,
          kCommitReferenceIncrement, kFutureReferenceIncrement, refs, counts,
          future, callbacks, CommitState
  <2>39. ASSUME NEW t \in Thread, RequestAbort(t)
        PROVE  IInv'
    <3>1. StackOK' BY <2>39, <2>0, AbortWorkType, EmptySeq DEF RequestAbort, At
    <3>. QED
      BY <2>39, <3>1 DEF RequestAbort, RequestAbortLocked, IInv, TypeOK, StackOK,
         OpenCountOK, ClosedForWrites, refs, counts, future, callbacks, CommitState
  <2>40. ASSUME NEW t \in Thread, NoMoreCommitReferences(t)
        PROVE  IInv'
    <3>1. If(own_future, <<"ReleaseFuture">>) \in Seq(Task) BY IfType, PieceType DEF Task
    <3>2. stack[t] # <<>> BY <2>40 DEF NoMoreCommitReferences, At
    <3>3. StackOK'
      BY <2>40, <2>0, <3>1, <3>2, AbortWorkType, ReturnType, EmptySeq
      DEF NoMoreCommitReferences
    <3>4. CASE commit_reference_count >= kCommitReferenceIncrement
      BY <2>40, <3>3, <3>4 DEF NoMoreCommitReferences, IInv, TypeOK, StackOK,
         OpenCountOK, ClosedForWrites, refs, counts, callbacks,
         kCommitReferenceIncrement
    <3>5. CASE ~(commit_reference_count >= kCommitReferenceIncrement)
      <4>1. /\ own_future' = FALSE
            /\ \/ RequestAbortLocked(t, If(own_future, <<"ReleaseFuture">>))
               \/ UNCHANGED <<commit_state, promise_refs>>
            /\ UNCHANGED <<refs, counts, own_promise, future_refs, future_state,
                           result, callbacks, executed>>
        BY <2>40, <3>5 DEF NoMoreCommitReferences
      <4>2. /\ promise_refs' \in Int /\ commit_state' \in CommitState
            /\ \/ commit_state' = commit_state
               \/ open_reference_count = 0
               \/ commit_state' = "kAbortRequested"
        BY <4>1 DEF RequestAbortLocked, IInv, TypeOK, CommitState
      <4>3. /\ own_future' \in BOOLEAN
            /\ UNCHANGED <<refs, counts, own_promise, future_refs, future_state,
                           result, callbacks, executed>>
        BY <4>1
      <4>. QED
        BY <3>3, <4>2, <4>3 DEF IInv, TypeOK, StackOK, OpenCountOK,
           ClosedForWrites, refs, counts, callbacks
    <3>. QED BY <3>4, <3>5
  <2>41. CASE Terminated BY <1>1, <2>41 DEF Terminated
  <2>. QED
    BY <1>2, <2>1, <2>2, <2>3, <2>4, <2>5, <2>6, <2>7,
       <2>8, <2>9, <2>10, <2>11, <2>12, <2>13, <2>14, <2>15, <2>16, <2>17, <2>18,
       <2>19, <2>20, <2>21, <2>22, <2>23, <2>24, <2>25, <2>26, <2>27, <2>28,
       <2>29, <2>30, <2>31, <2>32, <2>33, <2>34, <2>35, <2>36, <2>37, <2>38,
       <2>39, <2>40, <2>41
    DEF Next, Acquire, Release, Request, Step
<1>. QED BY <1>1, <1>2

\* The inductive invariant holds in every reachable state.
LEMMA Inductive == Spec => []IInv
BY InitIInv, NextIInv, PTL DEF Spec

\* The state of a transaction and of its future has its type, for any number of
\* threads and references: in particular open_reference_count_ never wraps
\* below zero.
THEOREM TypeCorrect == Spec => []TypeOK
<1>1. IInv => TypeOK BY DEF IInv
<1>. QED BY <1>1, Inductive, PTL

\* Once commit_state_ is kCommitStarted or kAborted, no OpenPtr and no commit
\* block exists, however the acquisitions, the releases and the requests of the
\* threads interleave.
THEOREM NothingOpenAfterDecision == Spec => []ClosedForWrites
<1>1. IInv => ClosedForWrites BY DEF IInv
<1>. QED BY <1>1, Inductive, PTL

-----------------------------------------------------------------------------
(* Decisions.                                                              *)

\* What a step may do to commit_state_.
Final ==
  /\ commit_state \in {"kCommitStarted", "kAborted"} => UNCHANGED commit_state
  /\ commit_state = "kAbortRequested" => commit_state' # "kCommitStarted"

LockedStep(t) == \/ RequestCommit(t) \/ RequestAbort(t)
                 \/ NoMoreOpenReferences(t) \/ NoMoreCommitReferences(t)

ClientStep(t) == \/ Acquire(t) \/ Release(t) \/ Request(t)
                 \/ NodeDone(t) \/ NodeSetError(t)

\* The only steps that write commit_state_ are the four critical sections of
\* mutex_, and each of them tests it first.
LEMMA OnlyLockedSteps ==
  ASSUME NEW t \in Thread, ClientStep(t) \/ (Step(t) /\ ~LockedStep(t))
  PROVE  UNCHANGED commit_state
<1>1. CASE ClientStep(t)
  BY <1>1 DEF ClientStep, Acquire, AcquireOpenPtr, CopyOpenPtr, AcquireImplicitOpenPtr,
     AcquireCommitBlock, CopyTransaction, GetFuture, Register, Release,
     ReleaseOpenPtr, ReleaseCommitBlock, DropTransaction, DropFuture, Request,
     CommitAsync, Abort, AbortWithError, SetError, ForceFuture, NodeDone,
     NodeSetError
<1>2. CASE Step(t) /\ ~LockedStep(t)
  BY <1>2 DEF LockedStep, Step, DecrementCommit, DecrementForce, DecrementWeak, ExecuteCommit,
     ExecuteAbort, Execute, UnregisterForce, UnregisterNotNeeded,
     SetDeferredResult, WriteResult, WriteResultAndReady, ReleasePromise,
     ReleaseFuture, DestroyPromiseCallbacks, DestroyNext, NotNeededDone,
     RunForceCallbacks, ForceCallbackDone, Forced
<1>. QED BY <1>1, <1>2

\* A started commit or a completed abort is never revoked, and a requested
\* abort never becomes a commit.
THEOREM DecisionsFinal == Spec => DecisionsAreFinal
<1>1. [Next]_vars => [Final]_vars
  <2>. SUFFICES ASSUME Next
                PROVE  Final
    BY DEF Final
  <2>1. CASE Terminated BY <2>1 DEF Terminated, vars, Final
  <2>2. ASSUME NEW t \in Thread, RequestCommit(t)
        PROVE  Final
    BY <2>2 DEF RequestCommit, Final
  <2>3. ASSUME NEW t \in Thread, RequestAbort(t)
        PROVE  Final
    BY <2>3 DEF RequestAbort, RequestAbortLocked, Final
  <2>4. ASSUME NEW t \in Thread, NoMoreOpenReferences(t)
        PROVE  Final
    BY <2>4 DEF NoMoreOpenReferences, Final
  <2>5. ASSUME NEW t \in Thread, NoMoreCommitReferences(t)
        PROVE  Final
    BY <2>5 DEF NoMoreCommitReferences, RequestAbortLocked, Final
  <2>. QED
    BY <2>1, <2>2, <2>3, <2>4, <2>5, OnlyLockedSteps
    DEF Next, Final, LockedStep, ClientStep
<1>. QED BY <1>1, PTL DEF Spec, DecisionsAreFinal, Final

-----------------------------------------------------------------------------
(* Counting the pieces of work that are pending.                           *)

Positions(s, x) == {j \in DOMAIN s : s[j] = x}

Count(s, x) == Cardinality(Positions(s, x))

Is(a, x) == IF a = x THEN 1 ELSE 0

\* Renaming the elements of a finite set keeps their number.
LEMMA SameSize ==
  ASSUME NEW S, NEW T, IsFiniteSet(S), NEW f \in Bijection(S, T)
  PROVE  IsFiniteSet(T) /\ Cardinality(T) = Cardinality(S)
BY FS_Bijection DEF ExistsBijection

\* Two disjoint finite sets together.
LEMMA DisjointUnion ==
  ASSUME NEW S, NEW T, IsFiniteSet(S), IsFiniteSet(T), S \cap T = {}
  PROVE  IsFiniteSet(S \cup T) /\ Cardinality(S \cup T) = Cardinality(S) + Cardinality(T)
<1>1. Cardinality(S) \in Nat /\ Cardinality(T) \in Nat /\ Cardinality(S \cap T) = 0
  BY FS_CardinalityType, FS_EmptySet
<1>2. /\ IsFiniteSet(S \cup T)
      /\ Cardinality(S \cup T) = Cardinality(S) + Cardinality(T) - Cardinality(S \cap T)
  BY FS_Union
<1>. QED BY <1>1, <1>2

LEMMA CountType ==
  ASSUME NEW s \in Seq(Task), NEW x
  PROVE  IsFiniteSet(Positions(s, x)) /\ Count(s, x) \in Nat
<1>1. Positions(s, x) \subseteq 1 .. Len(s) /\ Len(s) \in Nat BY DEF Positions
<1>2. IsFiniteSet(1 .. Len(s)) BY <1>1, FS_Interval
<1>. QED BY <1>1, <1>2, FS_Subset, FS_CardinalityType DEF Count

LEMMA CountEmpty ==
  ASSUME NEW x
  PROVE  Count(<<>>, x) = 0
<1>1. Positions(<<>>, x) = {} BY DEF Positions
<1>. QED BY <1>1, FS_EmptySet DEF Count

LEMMA CountPiece ==
  ASSUME NEW a, NEW x
  PROVE  Count(<<a>>, x) = Is(a, x)
<1>1. DOMAIN <<a>> = {1} /\ <<a>>[1] = a OBVIOUS
<1>2. Positions(<<a>>, x) = IF a = x THEN {1} ELSE {} BY <1>1 DEF Positions
<1>3. CASE a = x BY <1>2, <1>3, FS_Singleton DEF Count, Is
<1>4. CASE a # x BY <1>2, <1>4, FS_EmptySet DEF Count, Is
<1>. QED BY <1>3, <1>4

\* Work in front of other work.
LEMMA CountConcat ==
  ASSUME NEW u \in Seq(Task), NEW v \in Seq(Task), NEW x
  PROVE  Count(u \o v, x) = Count(u, x) + Count(v, x)
<1>. DEFINE P == Positions(u, x)
            Q == Positions(v, x)
            R == {j + Len(u) : j \in Q}
            f == [j \in Q |-> j + Len(u)]
<1>1. /\ Len(u) \in Nat /\ Len(v) \in Nat /\ Len(u \o v) = Len(u) + Len(v)
      /\ DOMAIN u = 1 .. Len(u) /\ DOMAIN v = 1 .. Len(v)
      /\ DOMAIN (u \o v) = 1 .. Len(u) + Len(v)
      /\ \A i \in 1 .. Len(u) + Len(v) : (u \o v)[i] = IF i <= Len(u) THEN u[i] ELSE v[i - Len(u)]
  BY ConcatProperties
<1>2. P \subseteq 1 .. Len(u) /\ Q \subseteq 1 .. Len(v) BY <1>1 DEF Positions
<1>3. Positions(u \o v, x) = P \cup R
  <2>1. ASSUME NEW i \in Positions(u \o v, x) PROVE i \in P \cup R
    <3>1. i \in 1 .. Len(u) + Len(v) /\ (u \o v)[i] = x BY <1>1, <2>1 DEF Positions
    <3>2. CASE i <= Len(u) BY <1>1, <3>1, <3>2 DEF Positions
    <3>3. CASE ~ (i <= Len(u))
      <4>1. i - Len(u) \in 1 .. Len(v) /\ v[i - Len(u)] = x /\ i = (i - Len(u)) + Len(u)
        BY <1>1, <3>1, <3>3
      <4>2. i - Len(u) \in Q BY <1>1, <4>1 DEF Positions
      <4>. QED BY <4>1, <4>2
    <3>. QED BY <3>2, <3>3
  <2>2. ASSUME NEW i \in P PROVE i \in Positions(u \o v, x) BY <1>1, <2>2 DEF Positions
  <2>3. ASSUME NEW j \in Q PROVE j + Len(u) \in Positions(u \o v, x)
    <3>1. j \in 1 .. Len(v) /\ v[j] = x BY <1>1, <2>3 DEF Positions
    <3>2. j + Len(u) \in 1 .. Len(u) + Len(v) /\ ~ (j + Len(u) <= Len(u)) /\ (j + Len(u)) - Len(u) = j
      BY <1>1, <3>1
    <3>3. (u \o v)[j + Len(u)] = x BY <1>1, <3>1, <3>2
    <3>. QED BY <1>1, <3>2, <3>3 DEF Positions
  <2>. QED BY <2>1, <2>2, <2>3
<1>4. P \cap R = {}
  <2>1. ASSUME NEW j \in Q PROVE j + Len(u) \notin P
    <3>1. j \in 1 .. Len(v) /\ P \subseteq 1 .. Len(u) BY <1>2
    <3>. QED BY <1>1, <3>1
  <2>. QED BY <2>1
<1>5. IsFiniteSet(P) /\ IsFiniteSet(Q) BY CountType
<1>6. IsFiniteSet(R) /\ Cardinality(R) = Cardinality(Q)
  <2>1. \A j \in Q : j \in Int BY <1>2
  <2>2. f \in Bijection(Q, R)
    <3>1. f \in [Q -> R] OBVIOUS
    <3>2. \A i, j \in Q : f[i] = f[j] => i = j BY <1>1, <2>1
    <3>3. \A r \in R : \E j \in Q : f[j] = r OBVIOUS
    <3>. HIDE DEF f, Q, R
    <3>. QED BY <3>1, <3>2, <3>3 DEF Bijection, Injection, Surjection, IsInjective
  <2>. HIDE DEF f, Q, R
  <2>. QED BY <1>5, <2>2, SameSize
<1>. HIDE DEF P, Q, R
<1>7. Cardinality(P \cup R) = Cardinality(P) + Cardinality(Q) BY <1>4, <1>5, <1>6, DisjointUnion
<1>. QED BY <1>3, <1>7 DEF Count, P, Q

\* The piece at the head and the rest.
LEMMA CountTail ==
  ASSUME NEW s \in Seq(Task), s # <<>>, NEW x
  PROVE  /\ Tail(s) \in Seq(Task) /\ Head(s) \in Task
         /\ Count(s, x) = Is(Head(s), x) + Count(Tail(s), x)
<1>1. Tail(s) \in Seq(Task) /\ Head(s) \in Task /\ <<Head(s)>> \in Seq(Task) OBVIOUS
<1>2. s = <<Head(s)>> \o Tail(s) OBVIOUS
<1>3. Count(<<Head(s)>> \o Tail(s), x) = Count(<<Head(s)>>, x) + Count(Tail(s), x)
  BY <1>1, CountConcat
<1>4. Count(<<Head(s)>>, x) = Is(Head(s), x) BY CountPiece
<1>. QED BY <1>1, <1>2, <1>3, <1>4

\* Work that never mentions x.
LEMMA CountNone ==
  ASSUME NEW S, NEW s \in Seq(S), NEW x, x \notin S
  PROVE  Count(s, x) = 0
<1>1. \A i \in DOMAIN s : s[i] \in S OBVIOUS
<1>2. Positions(s, x) = {} BY <1>1 DEF Positions
<1>. QED BY <1>2, FS_EmptySet DEF Count

\* Where a piece of work is pending in the stacks of some threads.
Places(S, x) == UNION {{<<u, i>> : i \in Positions(stack[u], x)} : u \in S}

\* Those places are finitely many.
LEMMA PendingFinite ==
  ASSUME StackOK, NEW S \in SUBSET Thread, NEW x
  PROVE  IsFiniteSet(Places(S, x))
<1>1. IsFiniteSet(S) BY LifecycleAssumption, FS_Subset
<1>2. ASSUME NEW u \in S PROVE IsFiniteSet({<<u, i>> : i \in Positions(stack[u], x)})
  <2>1. IsFiniteSet(Positions(stack[u], x)) BY CountType DEF StackOK
  <2>2. [i \in Positions(stack[u], x) |-> <<u, i>>]
          \in Surjection(Positions(stack[u], x), {<<u, i>> : i \in Positions(stack[u], x)})
    BY DEF Surjection
  <2>. QED BY <2>1, <2>2, FS_Surjection DEF ExistsSurjection
<1>. DEFINE D == {{<<u, i>> : i \in Positions(stack[u], x)} : u \in S}
<1>3. IsFiniteSet(D)
  <2>. DEFINE g == [u \in S |-> {<<u, i>> : i \in Positions(stack[u], x)}]
  <2>1. g \in Surjection(S, D) BY DEF Surjection
  <2>. HIDE DEF g, D
  <2>. QED BY <1>1, <2>1, FS_Surjection DEF ExistsSurjection
<1>4. \A d \in D : IsFiniteSet(d) BY <1>2
<1>. HIDE DEF D
<1>5. IsFiniteSet(UNION D) BY <1>3, <1>4, FS_UNION
<1>. QED BY <1>5 DEF D, Places

\* No thread has a piece of work on its stack that is pending nowhere.
LEMMA PendingNowhere ==
  ASSUME StackOK, NEW x, Pending(x) = 0
  PROVE  \A t \in Thread : \A i \in 1 .. Len(stack[t]) : stack[t][i] # x
<1>1. Pending(x) = Cardinality(Places(Thread, x)) BY DEF Pending, Positions, Places
<1>2. IsFiniteSet(Places(Thread, x)) BY PendingFinite
<1>3. Places(Thread, x) = {} BY <1>1, <1>2, FS_EmptySet
<1>4. ASSUME NEW t \in Thread, NEW i \in 1 .. Len(stack[t]), stack[t][i] = x
      PROVE  FALSE
  <2>1. i \in Positions(stack[t], x) BY <1>4 DEF Positions, StackOK
  <2>2. <<t, i>> \in Places(Thread, x) BY <2>1 DEF Places
  <2>. QED BY <1>3, <2>2
<1>. QED BY <1>4

\* What is pending, after the stack of one thread has been replaced.
LEMMA PendingChange ==
  ASSUME StackOK, NEW t \in Thread, NEW s \in Seq(Task), stack' = [stack EXCEPT ![t] = s], NEW x
  PROVE  /\ Pending(x) \in Nat /\ Pending(x)' \in Nat
         /\ Pending(x)' = Pending(x) - Count(stack[t], x) + Count(s, x)
         /\ Count(stack[t], x) <= Pending(x)
<1>. DEFINE Tag(r) == {<<t, i>> : i \in Positions(r, x)}
            Others == Places(Thread \ {t}, x)
            All == Places(Thread, x)
            After == UNION {{<<u, i>> : i \in Positions(stack'[u], x)} : u \in Thread}
<1>1. \A u \in Thread : stack[u] \in Seq(Task) BY DEF StackOK
<1>2. stack'[t] = s /\ \A u \in Thread \ {t} : stack'[u] = stack[u] BY DEF StackOK
<1>3. All = Tag(stack[t]) \cup Others /\ After = Tag(s) \cup Others BY <1>2 DEF Places
<1>4. ASSUME NEW r PROVE Tag(r) \cap Others = {} BY DEF Places
<1>5. IsFiniteSet(Others)
  <2>1. (Thread \ {t}) \in SUBSET Thread OBVIOUS
  <2>. QED BY <2>1, PendingFinite
<1>6. ASSUME NEW r \in Seq(Task)
      PROVE  IsFiniteSet(Tag(r)) /\ Cardinality(Tag(r)) = Count(r, x)
  <2>. DEFINE f == [i \in Positions(r, x) |-> <<t, i>>]
  <2>1. f \in [Positions(r, x) -> Tag(r)] OBVIOUS
  <2>2. \A i, j \in Positions(r, x) : f[i] = f[j] => i = j OBVIOUS
  <2>3. \A y \in Tag(r) : \E i \in Positions(r, x) : f[i] = y OBVIOUS
  <2>4. IsFiniteSet(Positions(r, x)) BY CountType
  <2>. HIDE DEF f, Tag
  <2>5. f \in Bijection(Positions(r, x), Tag(r))
    BY <2>1, <2>2, <2>3 DEF Bijection, Injection, Surjection, IsInjective
  <2>. QED BY <2>4, <2>5, SameSize DEF Count
<1>7. Pending(x) = Cardinality(All) /\ Pending(x)' = Cardinality(After)
  BY DEF Pending, Positions, Places
<1>. HIDE DEF Tag, Others, All, After
<1>8. Cardinality(All) = Count(stack[t], x) + Cardinality(Others)
  BY <1>1, <1>3, <1>4, <1>5, <1>6, DisjointUnion
<1>9. Cardinality(After) = Count(s, x) + Cardinality(Others)
  BY <1>3, <1>4, <1>5, <1>6, DisjointUnion
<1>10. Cardinality(Others) \in Nat /\ Count(stack[t], x) \in Nat /\ Count(s, x) \in Nat
  BY <1>1, <1>5, FS_CardinalityType, CountType
<1>. QED BY <1>7, <1>8, <1>9, <1>10

Counted == {"DecrementCommit", "DecrementForce", "DecrementWeak", "DestroyNext"}

\* What is pending after a thread returned from a piece of work.
LEMMA PendingReturn ==
  ASSUME StackOK, NEW t \in Thread, stack[t] # <<>>, NEW w \in Seq(Task),
         Return(t, w), NEW x \in Counted
  PROVE  /\ Pending(x) \in Nat /\ Pending(x)' \in Nat /\ Count(w, x) \in Nat
         /\ Pending(x)' = Pending(x) - Is(Head(stack[t]), x) + Count(w, x)
<1>. DEFINE rest == w \o Tail(stack[t])
            s == IF Len(rest) = 1 /\ Head(rest) \in Via THEN <<>> ELSE rest
<1>1. stack[t] \in Seq(Task) BY DEF StackOK
<1>2. /\ Tail(stack[t]) \in Seq(Task)
      /\ Count(stack[t], x) = Is(Head(stack[t]), x) + Count(Tail(stack[t]), x)
  BY <1>1, CountTail
<1>3. rest \in Seq(Task) /\ Count(rest, x) = Count(w, x) + Count(Tail(stack[t]), x)
  BY <1>2, ConcatType, CountConcat
<1>4. s \in Seq(Task) /\ Count(s, x) = Count(rest, x)
  <2>. HIDE DEF rest
  <2>1. CASE Len(rest) = 1 /\ Head(rest) \in Via
    <3>1. rest = <<Head(rest)>> BY <1>3, <2>1
    <3>2. Head(rest) # x BY <2>1 DEF Via, Counted
    <3>3. Count(<<Head(rest)>>, x) = 0 BY <3>2, CountPiece DEF Is
    <3>4. s = <<>> /\ Count(<<>>, x) = 0 BY <2>1, CountEmpty
    <3>. QED BY <3>1, <3>3, <3>4, EmptySeq
  <2>2. CASE ~ (Len(rest) = 1 /\ Head(rest) \in Via) BY <1>3, <2>2
  <2>. QED BY <2>1, <2>2
<1>5. stack' = [stack EXCEPT ![t] = s] BY DEF Return
<1>. HIDE DEF rest, s
<1>6. /\ Pending(x) \in Nat /\ Pending(x)' \in Nat
      /\ Pending(x)' = Pending(x) - Count(stack[t], x) + Count(s, x)
  BY <1>4, <1>5, PendingChange
<1>7. Count(w, x) \in Nat /\ Count(Tail(stack[t]), x) \in Nat BY <1>2, CountType
<1>. QED BY <1>2, <1>3, <1>4, <1>6, <1>7 DEF Is

\* What is pending after an idle thread made a call.
LEMMA PendingCall ==
  ASSUME StackOK, NEW t \in Thread, Idle(t), NEW w \in Seq(Task), Call(t, w), NEW x
  PROVE  /\ Pending(x) \in Nat /\ Pending(x)' \in Nat /\ Count(w, x) \in Nat
         /\ Pending(x)' = Pending(x) + Count(w, x)
<1>1. /\ Pending(x) \in Nat /\ Pending(x)' \in Nat
      /\ Pending(x)' = Pending(x) - Count(stack[t], x) + Count(w, x)
  BY PendingChange DEF Call
<1>2. Count(stack[t], x) = 0 BY CountEmpty DEF Idle
<1>3. Count(w, x) \in Nat BY CountType
<1>. QED BY <1>1, <1>2, <1>3

\* Short pieces of work.
LEMMA CountTwo ==
  ASSUME NEW a \in Task, NEW b \in Task, NEW x
  PROVE  Count(<<a, b>>, x) = Is(a, x) + Is(b, x)
<1>. DEFINE s == <<a, b>>
<1>1. s \in Seq(Task) /\ s # <<>> /\ Head(s) = a /\ Tail(s) = <<b>> OBVIOUS
<1>. HIDE DEF s
<1>2. Count(s, x) = Is(Head(s), x) + Count(Tail(s), x) BY <1>1, CountTail
<1>3. Count(<<b>>, x) = Is(b, x) BY CountPiece
<1>4. Count(s, x) = Is(a, x) + Is(b, x) BY <1>1, <1>2, <1>3
<1>. QED BY <1>4 DEF s

LEMMA CountThree ==
  ASSUME NEW a \in Task, NEW b \in Task, NEW c \in Task, NEW x
  PROVE  Count(<<a, b, c>>, x) = Is(a, x) + (Is(b, x) + Is(c, x))
<1>. DEFINE s == <<a, b, c>>
<1>1. s \in Seq(Task) /\ s # <<>> /\ Head(s) = a /\ Tail(s) = <<b, c>> OBVIOUS
<1>. HIDE DEF s
<1>2. Count(s, x) = Is(Head(s), x) + Count(Tail(s), x) BY <1>1, CountTail
<1>3. Count(<<b, c>>, x) = Is(b, x) + Is(c, x) BY CountTwo
<1>4. Count(s, x) = Is(a, x) + (Is(b, x) + Is(c, x)) BY <1>1, <1>2, <1>3
<1>. QED BY <1>4 DEF s

LEMMA CountFour ==
  ASSUME NEW a \in Task, NEW b \in Task, NEW c \in Task, NEW d \in Task, NEW x
  PROVE  Count(<<a, b, c, d>>, x) = Is(a, x) + (Is(b, x) + (Is(c, x) + Is(d, x)))
<1>. DEFINE s == <<a, b, c, d>>
<1>1. s \in Seq(Task) /\ s # <<>> /\ Head(s) = a /\ Tail(s) = <<b, c, d>> OBVIOUS
<1>. HIDE DEF s
<1>2. Count(s, x) = Is(Head(s), x) + Count(Tail(s), x) BY <1>1, CountTail
<1>3. Count(<<b, c, d>>, x) = Is(b, x) + (Is(c, x) + Is(d, x)) BY CountThree
<1>4. Count(s, x) = Is(a, x) + (Is(b, x) + (Is(c, x) + Is(d, x))) BY <1>1, <1>2, <1>3
<1>. QED BY <1>4 DEF s

-----------------------------------------------------------------------------
(* Who keeps the transaction alive.                                        *)

\* A pending release, or the reference through which a call was made, stands
\* for a reference that has not been given back yet.
Holding == {"DecrementCommit", "DecrementForce", "DecrementWeak",
            "via_handle", "via_open", "via_node"}

\* Work that touches the transaction is above, or is itself, such a reference.
Covered(s) ==
  \A i \in 1 .. Len(s) :
    s[i] \in TouchesTransaction => \E j \in i .. Len(s) : s[j] \in Holding

ViaLast(s) == \A i \in 1 .. Len(s) : s[i] \in Via => i = Len(s)

StacksCovered == \A t \in Thread : Covered(stack[t]) /\ ViaLast(stack[t])

\* Pieces of work that a thread runs only once it has taken a callback out of
\* the promise's list.
Allowed ==
  {x \in Task :
     /\ x \in {"DestroyNext", "ForceCallbackDone"} => force_cb # "listed"
     /\ x = "NotNeededDone" => not_needed_cb # "listed"}

CallbacksTaken == \A t \in Thread : stack[t] \in Seq(Allowed)

\* A client keeps the reference through which it is making a call.
CallersHold ==
  /\ Busy("via_handle") # {} => handles > 0
  /\ Busy("via_open") # {} => open_ptrs > 0
  /\ Busy("via_node") # {} => nodes > 0

\* Facts about concatenation in the form the provers use.
LEMMA ConcatFacts ==
  ASSUME NEW S, NEW u \in Seq(S), NEW v \in Seq(S)
  PROVE  /\ Len(u) \in Nat /\ Len(v) \in Nat /\ u \o v \in Seq(S)
         /\ Len(u \o v) = Len(u) + Len(v)
         /\ \A i \in 1 .. Len(u) : (u \o v)[i] = u[i]
         /\ \A i \in 1 .. Len(v) : (u \o v)[i + Len(u)] = v[i]
         /\ \A i \in 1 .. Len(u) + Len(v) :
              ~ (i <= Len(u)) => /\ i - Len(u) \in 1 .. Len(v)
                                 /\ (u \o v)[i] = v[i - Len(u)]
BY ConcatProperties

\* The rest of a stack.
LEMMA TailFacts ==
  ASSUME NEW S, NEW s \in Seq(S), s # <<>>
  PROVE  /\ Tail(s) \in Seq(S) /\ Head(s) \in S /\ Head(s) = s[1]
         /\ Len(s) \in Nat \ {0} /\ Len(Tail(s)) = Len(s) - 1
         /\ \A i \in 1 .. Len(Tail(s)) : Tail(s)[i] = s[i + 1] /\ i + 1 \in 1 .. Len(s)
         /\ \A i \in 2 .. Len(s) : s[i] = Tail(s)[i - 1] /\ i - 1 \in 1 .. Len(Tail(s))
OBVIOUS

\* Covered work on top of a covered stack; and any work, if below it is a
\* reference that is kept.
LEMMA CoveredConcat ==
  ASSUME NEW u \in Seq(Task), NEW v \in Seq(Task), Covered(v),
         Covered(u) \/ \E j \in 1 .. Len(v) : v[j] \in Holding
  PROVE  Covered(u \o v)
<1>1. /\ Len(u) \in Nat /\ Len(v) \in Nat
      /\ Len(u \o v) = Len(u) + Len(v)
      /\ \A i \in 1 .. Len(u) : (u \o v)[i] = u[i]
      /\ \A i \in 1 .. Len(v) : (u \o v)[i + Len(u)] = v[i]
      /\ \A i \in 1 .. Len(u) + Len(v) :
           ~ (i <= Len(u)) => /\ i - Len(u) \in 1 .. Len(v)
                              /\ (u \o v)[i] = v[i - Len(u)]
  BY ConcatFacts
<1>. SUFFICES ASSUME NEW i \in 1 .. Len(u) + Len(v), (u \o v)[i] \in TouchesTransaction
              PROVE  \E j \in i .. Len(u) + Len(v) : (u \o v)[j] \in Holding
  BY <1>1 DEF Covered
<1>2. CASE i <= Len(u) /\ Covered(u)
  <2>1. i \in 1 .. Len(u) /\ u[i] \in TouchesTransaction BY <1>1, <1>2
  <2>2. PICK j \in i .. Len(u) : u[j] \in Holding BY <1>2, <2>1 DEF Covered
  <2>3. j \in 1 .. Len(u) /\ j \in i .. Len(u) + Len(v) BY <1>1, <2>1, <2>2
  <2>. QED BY <1>1, <2>2, <2>3
<1>3. CASE i <= Len(u) /\ \E j \in 1 .. Len(v) : v[j] \in Holding
  <2>1. PICK j \in 1 .. Len(v) : v[j] \in Holding BY <1>3
  <2>2. j + Len(u) \in i .. Len(u) + Len(v) BY <1>1, <1>3, <2>1
  <2>. QED BY <1>1, <2>1, <2>2
<1>4. CASE ~ (i <= Len(u))
  <2>1. i - Len(u) \in 1 .. Len(v) /\ v[i - Len(u)] \in TouchesTransaction BY <1>1, <1>4
  <2>2. PICK j \in (i - Len(u)) .. Len(v) : v[j] \in Holding BY <2>1 DEF Covered
  <2>3. j \in 1 .. Len(v) /\ j + Len(u) \in i .. Len(u) + Len(v) BY <1>1, <2>1, <2>2
  <2>. QED BY <1>1, <2>2, <2>3
<1>. QED BY <1>2, <1>3, <1>4

\* What is left of a covered stack is covered; and if the piece on top touches
\* the transaction without being a reference, the reference is below it.
LEMMA CoveredTail ==
  ASSUME NEW s \in Seq(Task), s # <<>>, Covered(s)
  PROVE  /\ Covered(Tail(s))
         /\ Head(s) \in TouchesTransaction \ Holding =>
              \E j \in 1 .. Len(Tail(s)) : Tail(s)[j] \in Holding
<1>1. /\ Head(s) = s[1]
      /\ Len(s) \in Nat \ {0} /\ Len(Tail(s)) = Len(s) - 1
      /\ \A i \in 1 .. Len(Tail(s)) : Tail(s)[i] = s[i + 1] /\ i + 1 \in 1 .. Len(s)
      /\ \A i \in 2 .. Len(s) : s[i] = Tail(s)[i - 1] /\ i - 1 \in 1 .. Len(Tail(s))
  BY TailFacts
<1>2. ASSUME NEW i \in 1 .. Len(Tail(s)), Tail(s)[i] \in TouchesTransaction
      PROVE  \E j \in i .. Len(Tail(s)) : Tail(s)[j] \in Holding
  <2>1. i + 1 \in 1 .. Len(s) /\ s[i + 1] \in TouchesTransaction BY <1>1, <1>2
  <2>2. PICK j \in (i + 1) .. Len(s) : s[j] \in Holding BY <2>1 DEF Covered
  <2>3. j \in 2 .. Len(s) /\ j - 1 \in i .. Len(Tail(s)) BY <1>1, <2>1, <2>2
  <2>. QED BY <1>1, <2>2, <2>3
<1>3. ASSUME Head(s) \in TouchesTransaction \ Holding
      PROVE  \E j \in 1 .. Len(Tail(s)) : Tail(s)[j] \in Holding
  <2>1. 1 \in 1 .. Len(s) /\ s[1] \in TouchesTransaction BY <1>1, <1>3
  <2>2. PICK j \in 1 .. Len(s) : s[j] \in Holding BY <2>1 DEF Covered
  <2>3. j # 1 BY <1>1, <1>3, <2>2
  <2>4. j \in 2 .. Len(s) BY <1>1, <2>2, <2>3
  <2>. QED BY <1>1, <2>2, <2>4
<1>. QED BY <1>2, <1>3 DEF Covered

\* Work that ends in a reference is covered, and so is work that does not touch
\* the transaction.
LEMMA CoveredByLast ==
  ASSUME NEW u \in Seq(Task), NEW a \in Holding
  PROVE  Covered(u \o <<a>>)
<1>1. a \in Task BY DEF Holding, Task, Via
<1>2. <<a>> \in Seq(Task) /\ Len(<<a>>) = 1 /\ <<a>>[1] = a BY <1>1
<1>3. Covered(<<a>>) BY <1>2 DEF Covered
<1>4. 1 \in 1 .. Len(<<a>>) /\ <<a>>[1] \in Holding BY <1>2
<1>. QED BY <1>2, <1>3, <1>4, CoveredConcat

LEMMA CoveredUntouched ==
  ASSUME NEW u \in Seq(Task \ TouchesTransaction)
  PROVE  Covered(u)
BY DEF Covered

\* A stack of which only the reference of the caller is left covers nothing,
\* so that the call is over.
LEMMA CoveredEmpty == Covered(<<>>) /\ ViaLast(<<>>)
BY DEF Covered, ViaLast

\* Returning to a stack whose last piece is the caller's reference.
LEMMA ViaLastConcat ==
  ASSUME NEW u \in Seq(Task \ Via), NEW v \in Seq(Task), ViaLast(v)
  PROVE  ViaLast(u \o v)
<1>1. u \in Seq(Task) OBVIOUS
<1>2. /\ Len(u) \in Nat /\ Len(v) \in Nat
      /\ Len(u \o v) = Len(u) + Len(v)
      /\ \A i \in 1 .. Len(u) : (u \o v)[i] = u[i]
      /\ \A i \in 1 .. Len(u) + Len(v) :
           ~ (i <= Len(u)) => /\ i - Len(u) \in 1 .. Len(v)
                              /\ (u \o v)[i] = v[i - Len(u)]
  BY <1>1, ConcatFacts
<1>3. \A i \in 1 .. Len(u) : u[i] \notin Via OBVIOUS
<1>. SUFFICES ASSUME NEW i \in 1 .. Len(u) + Len(v), (u \o v)[i] \in Via
              PROVE  i = Len(u) + Len(v)
  BY <1>2 DEF ViaLast
<1>4. ~ (i <= Len(u)) BY <1>2, <1>3
<1>5. i - Len(u) = Len(v) BY <1>2, <1>4 DEF ViaLast
<1>. QED BY <1>2, <1>5

LEMMA ViaLastTail ==
  ASSUME NEW s \in Seq(Task), s # <<>>, ViaLast(s)
  PROVE  ViaLast(Tail(s))
<1>. DEFINE r == Tail(s)
            n == Len(s)
<1>1. /\ n \in Nat \ {0} /\ Len(r) = n - 1
      /\ \A i \in 1 .. Len(r) : r[i] = s[i + 1] /\ i + 1 \in 1 .. n
  BY TailFacts
<1>2. \A k \in 1 .. n : s[k] \in Via => k = n BY DEF ViaLast
<1>. HIDE DEF r, n
<1>3. ASSUME NEW i \in 1 .. n - 1, r[i] \in Via
      PROVE  i = n - 1
  BY <1>1, <1>2, <1>3
<1>4. ViaLast(r) BY <1>1, <1>3 DEF ViaLast
<1>. QED BY <1>4 DEF r

\* Returning keeps the stacks covered, if what is pushed is covered by itself
\* or replaces a piece that the stack covered.
LEMMA CoveredReturn ==
  ASSUME StackOK, StacksCovered, NEW t \in Thread, stack[t] # <<>>,
         NEW w \in Seq(Task \ Via), Return(t, w),
         Covered(w) \/ Head(stack[t]) \in TouchesTransaction \ Holding
  PROVE  StacksCovered'
<1>. DEFINE rest == w \o Tail(stack[t])
<1>1. stack[t] \in Seq(Task) /\ Tail(stack[t]) \in Seq(Task) /\ w \in Seq(Task) BY DEF StackOK
<1>2. /\ Covered(Tail(stack[t]))
      /\ Head(stack[t]) \in TouchesTransaction \ Holding =>
           \E j \in 1 .. Len(Tail(stack[t])) : Tail(stack[t])[j] \in Holding
  BY <1>1, CoveredTail DEF StacksCovered
<1>3. Covered(rest) BY <1>1, <1>2, CoveredConcat
<1>4. ViaLast(rest) BY <1>1, ViaLastTail, ViaLastConcat DEF StacksCovered
<1>5. stack'[t] \in {rest, <<>>} /\ \A u \in Thread \ {t} : stack'[u] = stack[u]
  BY DEF Return, StackOK
<1>. HIDE DEF rest
<1>. QED BY <1>3, <1>4, <1>5, CoveredEmpty DEF StacksCovered

LEMMA CoveredCall ==
  ASSUME StackOK, StacksCovered, NEW t \in Thread, NEW w \in Seq(Task),
         Call(t, w), Covered(w), ViaLast(w)
  PROVE  StacksCovered'
BY DEF Call, StackOK, StacksCovered

\* A callback that has been taken stays taken.
LEMMA TakenReturn ==
  ASSUME StackOK, CallbacksTaken, NEW t \in Thread, stack[t] # <<>>, NEW w, w \in Seq(Allowed'),
         Return(t, w), Allowed \subseteq Allowed'
  PROVE  CallbacksTaken'
<1>. DEFINE rest == w \o Tail(stack[t])
<1>1. \A u \in Thread : stack[u] \in Seq(Allowed')
  <2>1. \A s \in Seq(Allowed) : s \in Seq(Allowed') OBVIOUS
  <2>. QED BY <2>1 DEF CallbacksTaken
<1>2. Tail(stack[t]) \in Seq(Allowed') BY <1>1
<1>3. rest \in Seq(Allowed') BY <1>2, ConcatFacts
<1>4. stack'[t] \in {rest, <<>>} /\ \A u \in Thread \ {t} : stack'[u] = stack[u]
  BY DEF Return, StackOK
<1>. HIDE DEF rest
<1>5. <<>> \in Seq(Allowed') OBVIOUS
<1>6. \A u \in Thread : stack'[u] \in Seq(Allowed') BY <1>1, <1>3, <1>4, <1>5
<1>. QED BY <1>6 DEF CallbacksTaken

LEMMA TakenCall ==
  ASSUME StackOK, CallbacksTaken, NEW t \in Thread, NEW w, w \in Seq(Allowed'),
         Call(t, w), Allowed \subseteq Allowed'
  PROVE  CallbacksTaken'
<1>1. \A u \in Thread : stack[u] \in Seq(Allowed')
  <2>1. \A s \in Seq(Allowed) : s \in Seq(Allowed') OBVIOUS
  <2>. QED BY <2>1 DEF CallbacksTaken
<1>2. \A u \in Thread : stack'[u] \in Seq(Allowed') BY <1>1 DEF Call, StackOK
<1>. QED BY <1>2 DEF CallbacksTaken

\* Returning uses no reference that was not in use before.
LEMMA BusyReturn ==
  ASSUME StackOK, NEW t \in Thread, stack[t] # <<>>, NEW w \in Seq(Task \ Via),
         Return(t, w), NEW ref \in Via
  PROVE  Busy(ref)' \subseteq Busy(ref)
<1>. DEFINE rest == w \o Tail(stack[t])
<1>1. stack[t] \in Seq(Task) /\ Tail(stack[t]) \in Seq(Task) /\ w \in Seq(Task) BY DEF StackOK
<1>2. stack'[t] \in {rest, <<>>} /\ \A u \in Thread \ {t} : stack'[u] = stack[u]
  BY DEF Return, StackOK
<1>3. /\ Len(stack[t]) \in Nat \ {0} /\ Len(Tail(stack[t])) = Len(stack[t]) - 1
      /\ \A i \in 1 .. Len(Tail(stack[t])) : Tail(stack[t])[i] = stack[t][i + 1]
  BY <1>1, TailFacts
<1>4. /\ Len(w) \in Nat /\ Len(Tail(stack[t])) \in Nat
      /\ rest \in Seq(Task) /\ Len(rest) = Len(w) + Len(Tail(stack[t]))
      /\ \A i \in 1 .. Len(w) : rest[i] = w[i]
      /\ \A i \in 1 .. Len(Tail(stack[t])) : rest[i + Len(w)] = Tail(stack[t])[i]
  BY <1>1, ConcatFacts
<1>5. \A i \in 1 .. Len(w) : w[i] # ref OBVIOUS
<1>. HIDE DEF rest
<1>6. ASSUME rest # <<>>, rest[Len(rest)] = ref
      PROVE  stack[t][Len(stack[t])] = ref
  <2>1. Len(rest) # 0 BY <1>4, <1>6
  <2>2. CASE Len(Tail(stack[t])) = 0
    <3>. DEFINE n == Len(w)
    <3>0. n \in Nat /\ Len(rest) = n + 0 /\ Len(rest) # 0 BY <1>4, <2>1, <2>2
    <3>1. Len(rest) = n /\ n \in 1 .. n
      <4>. HIDE DEF n
      <4>. QED BY <3>0
    <3>. QED BY <1>4, <1>5, <1>6, <3>1
  <2>3. CASE Len(Tail(stack[t])) # 0
    <3>. DEFINE n == Len(Tail(stack[t]))
                m == Len(stack[t])
    <3>0. n \in Nat /\ n # 0 /\ m \in Nat /\ n = m - 1 /\ Len(w) \in Nat /\ Len(rest) = Len(w) + n
      BY <1>3, <1>4, <2>3
    <3>1. n \in 1 .. n /\ n + Len(w) = Len(rest) /\ n + 1 = m
      <4>. HIDE DEF n, m
      <4>. QED BY <3>0
    <3>2. rest[Len(rest)] = Tail(stack[t])[Len(Tail(stack[t]))] BY <1>4, <3>1
    <3>3. Tail(stack[t])[Len(Tail(stack[t]))] = stack[t][Len(stack[t])] BY <1>3, <3>1
    <3>. QED BY <1>6, <3>2, <3>3
  <2>. QED BY <2>2, <2>3
<1>. SUFFICES ASSUME NEW u \in Thread, stack'[u] # <<>>, stack'[u][Len(stack'[u])] = ref
              PROVE  u \in Busy(ref)
  BY DEF Busy
<1>7. CASE u = t BY <1>2, <1>6, <1>7 DEF Busy
<1>8. CASE u # t BY <1>2, <1>8 DEF Busy
<1>. QED BY <1>7, <1>8

\* A call uses the reference it was made through, if any.
LEMMA BusyCall ==
  ASSUME StackOK, NEW t \in Thread, NEW w \in Seq(Task), w # <<>>, Call(t, w), NEW ref
  PROVE  /\ w[Len(w)] # ref => Busy(ref)' \subseteq Busy(ref)
         /\ Busy(ref)' \subseteq Busy(ref) \cup {t}
BY DEF Busy, Call, StackOK

-----------------------------------------------------------------------------
(* The reference counts.                                                   *)

\* What the counts mean, and why nobody touches a transaction that is gone.
Alive == ReferencesCounted /\ StacksCovered /\ CallbacksTaken /\ CallersHold

RInv == IInv /\ Alive

\* Pieces of work that stand for no reference and no callback.
Plain == Task \ (Counted \cup Via \cup {"ForceCallbackDone", "NotNeededDone"})

kept == <<handles, open_ptrs, blocks, nodes, counts, callbacks>>

\* What the pieces of work that stand for a reference do to the counts.
LEMMA CountsKept ==
  ASSUME ReferencesCounted, \A x \in Counted : Pending(x)' = Pending(x), UNCHANGED kept
  PROVE  ReferencesCounted'
<1>1. /\ Pending("DecrementCommit")' = Pending("DecrementCommit")
      /\ Pending("DecrementForce")' = Pending("DecrementForce")
      /\ Pending("DecrementWeak")' = Pending("DecrementWeak")
      /\ Pending("DestroyNext")' = Pending("DestroyNext")
  BY DEF Counted
<1>. QED BY <1>1 DEF ReferencesCounted, kept, counts, callbacks

LEMMA PlainType ==
  ASSUME NEW w \in Seq(Plain)
  PROVE  /\ w \in Seq(Task) /\ w \in Seq(Task \ Via) /\ w \in Seq(Allowed')
         /\ \A x \in Counted : Count(w, x) = 0
<1>1. Plain \subseteq Task \ Via /\ Plain \subseteq Allowed' /\ Counted \cap Plain = {}
  BY DEF Plain, Counted, Allowed
<1>2. /\ w \in Seq(Task) /\ w \in Seq(Task \ Via)
      /\ w \in Seq(Allowed')
  BY <1>1
<1>. QED BY <1>1, <1>2, CountNone

\* Steps that neither give back nor take a reference: what they push is not a
\* release, and it is covered by the stack or does not touch the transaction.
LEMMA PlainReturn ==
  ASSUME RInv, NEW t \in Thread, stack[t] # <<>>, Head(stack[t]) \notin Counted,
         NEW w \in Seq(Plain), Return(t, w), UNCHANGED kept,
         \/ w \in Seq(Task \ TouchesTransaction)
         \/ Head(stack[t]) \in TouchesTransaction \ Holding
  PROVE  Alive'
<1>0. StackOK /\ Alive BY DEF RInv, IInv, TypeOK, StackOK
<1>1. /\ w \in Seq(Task) /\ w \in Seq(Task \ Via) /\ w \in Seq(Allowed')
      /\ \A x \in Counted : Count(w, x) = 0
  BY PlainType
<1>2. ReferencesCounted'
  <2>1. ASSUME NEW x \in Counted PROVE Pending(x)' = Pending(x)
    <3>1. Head(stack[t]) # x /\ Is(Head(stack[t]), x) = 0 BY DEF Is
    <3>2. /\ Pending(x) \in Nat
          /\ Pending(x)' = Pending(x) - Is(Head(stack[t]), x) + Count(w, x)
      BY <1>0, <1>1, PendingReturn
    <3>. QED BY <1>1, <3>1, <3>2
  <2>. QED BY <1>0, <2>1, CountsKept DEF Alive
<1>3. StacksCovered' BY <1>0, <1>1, CoveredUntouched, CoveredReturn DEF Alive
<1>4. CallbacksTaken'
  <2>1. Allowed \subseteq Allowed' BY DEF Allowed, kept, callbacks
  <2>. QED BY <1>0, <1>1, <2>1, TakenReturn DEF Alive
<1>5. CallersHold'
  <2>1. /\ Busy("via_handle")' \subseteq Busy("via_handle")
        /\ Busy("via_open")' \subseteq Busy("via_open")
        /\ Busy("via_node")' \subseteq Busy("via_node")
    BY <1>0, <1>1, BusyReturn DEF Via
  <2>. QED BY <1>0, <2>1 DEF Alive, CallersHold, kept
<1>. QED BY <1>2, <1>3, <1>4, <1>5 DEF Alive

\* Calls that neither give back nor take a reference.
LEMMA PlainCall ==
  ASSUME RInv, NEW t \in Thread, Idle(t), NEW w \in Seq(Plain \cup Via), w # <<>>,
         Call(t, w), UNCHANGED kept, Covered(w), ViaLast(w),
         w[Len(w)] = "via_handle" => handles > 0,
         w[Len(w)] = "via_open" => open_ptrs > 0,
         w[Len(w)] = "via_node" => nodes > 0
  PROVE  Alive'
<1>0. StackOK /\ Alive BY DEF RInv, IInv, TypeOK, StackOK
<1>1. /\ Plain \cup Via \subseteq Task /\ Plain \cup Via \subseteq Allowed'
      /\ Counted \cap (Plain \cup Via) = {}
  BY DEF Plain, Counted, Allowed, Task, Via
<1>2. w \in Seq(Task) /\ w \in Seq(Allowed') BY <1>1
<1>3. ReferencesCounted'
  <2>1. ASSUME NEW x \in Counted PROVE Pending(x)' = Pending(x)
    <3>1. Count(w, x) = 0 BY <1>1, CountNone
    <3>2. /\ Pending(x) \in Nat
          /\ Pending(x)' = Pending(x) + Count(w, x)
      BY <1>0, <1>2, PendingCall
    <3>. QED BY <3>1, <3>2
  <2>. QED BY <1>0, <2>1, CountsKept DEF Alive
<1>4. StacksCovered' BY <1>0, <1>2, CoveredCall DEF Alive
<1>5. CallbacksTaken'
  <2>1. Allowed \subseteq Allowed' BY DEF Allowed, kept, callbacks
  <2>. QED BY <1>0, <1>2, <2>1, TakenCall DEF Alive
<1>6. CallersHold'
  <2>1. \A ref : w[Len(w)] # ref => Busy(ref)' \subseteq Busy(ref) BY <1>0, <1>2, BusyCall
  <2>. QED BY <1>0, <2>1 DEF Alive, CallersHold, kept
<1>. QED BY <1>3, <1>4, <1>5, <1>6 DEF Alive

\* Short pieces of plain work.
LEMMA PlainPieces ==
  /\ <<>> \in Seq(Plain) /\ <<>> \in Seq(Task \ TouchesTransaction)
  /\ \A a \in Plain : <<a>> \in Seq(Plain)
  /\ \A c, w : w \in Seq(Plain) => If(c, w) \in Seq(Plain)
  /\ \A v, w : v \in Seq(Plain) /\ w \in Seq(Plain) => v \o w \in Seq(Plain)
<1>1. <<>> \in Seq(Plain) /\ <<>> \in Seq(Task \ TouchesTransaction) OBVIOUS
<1>2. \A a \in Plain : <<a>> \in Seq(Plain) OBVIOUS
<1>3. ASSUME NEW c, NEW w, w \in Seq(Plain) PROVE If(c, w) \in Seq(Plain) BY <1>1, <1>3 DEF If
<1>4. ASSUME NEW v, NEW w, v \in Seq(Plain), w \in Seq(Plain) PROVE v \o w \in Seq(Plain)
  BY <1>4, ConcatFacts
<1>. QED BY <1>1, <1>2, <1>3, <1>4

\* The same for work that leaves the transaction alone.
Aside == Plain \ TouchesTransaction

LEMMA AsidePieces ==
  /\ <<>> \in Seq(Aside)
  /\ \A a \in Aside : <<a>> \in Seq(Aside)
  /\ \A c, w : w \in Seq(Aside) => If(c, w) \in Seq(Aside)
  /\ \A v, w : v \in Seq(Aside) /\ w \in Seq(Aside) => v \o w \in Seq(Aside)
  /\ \A w \in Seq(Aside) : w \in Seq(Plain) /\ w \in Seq(Task \ TouchesTransaction)
<1>1. <<>> \in Seq(Aside) OBVIOUS
<1>2. \A a \in Aside : <<a>> \in Seq(Aside) OBVIOUS
<1>3. ASSUME NEW c, NEW w, w \in Seq(Aside) PROVE If(c, w) \in Seq(Aside) BY <1>1, <1>3 DEF If
<1>4. ASSUME NEW v, NEW w, v \in Seq(Aside), w \in Seq(Aside) PROVE v \o w \in Seq(Aside)
  BY <1>4, ConcatFacts
<1>5. Aside \subseteq Plain /\ Aside \subseteq Task \ TouchesTransaction BY DEF Aside, Plain
<1>. QED BY <1>1, <1>2, <1>3, <1>4, <1>5

\* Steps that leave the transaction alone.
LEMMA AsideReturn ==
  ASSUME RInv, NEW t \in Thread, stack[t] # <<>>, Head(stack[t]) \notin Counted,
         NEW w \in Seq(Aside), Return(t, w), UNCHANGED kept
  PROVE  Alive'
BY AsidePieces, PlainReturn

\* The critical sections of mutex_ before the commit or the abort.
LEMMA LockedAlive ==
  ASSUME RInv, NEW t \in Thread, LockedStep(t)
  PROVE  Alive'
<1>1. /\ ExecuteCommitWork \in Seq(Plain) /\ ExecuteAbortWork \in Seq(Plain)
      /\ <<"SetDeferredResult">> \in Seq(Plain) /\ <<"ReleasePromise">> \in Seq(Plain)
      /\ <<"SetDeferredResult", "ReleasePromise">> \in Seq(Plain)
      /\ <<"ReleaseFuture">> \in Seq(Plain) /\ <<>> \in Seq(Plain)
  BY DEF ExecuteCommitWork, ExecuteAbortWork, Plain, Task, Counted, Via
<1>2. ASSUME NEW after \in Seq(Plain), RequestAbortLocked(t, after)
      PROVE  \E w \in Seq(Plain) : Return(t, w)
  <2>1. <<"SetDeferredResult", "ReleasePromise">> \o after \in Seq(Plain) BY <1>1, PlainPieces
  <2>2. <<"SetDeferredResult">> \o ExecuteAbortWork \o <<"ReleasePromise">> \o after \in Seq(Plain)
    BY <1>1, PlainPieces
  <2>. QED BY <1>2, <2>1, <2>2 DEF RequestAbortLocked
<1>3. UNCHANGED kept
  BY DEF LockedStep, RequestCommit, RequestAbort, NoMoreOpenReferences,
     NoMoreCommitReferences, kept, refs, counts, callbacks
<1>4. /\ stack[t] # <<>>
      /\ Head(stack[t]) \in {"RequestCommit", "RequestAbort", "NoMoreOpenReferences",
                             "NoMoreCommitReferences"}
  BY DEF LockedStep, RequestCommit, RequestAbort, NoMoreOpenReferences,
     NoMoreCommitReferences, At
<1>5. Head(stack[t]) \notin Counted /\ Head(stack[t]) \in TouchesTransaction \ Holding
  BY <1>4 DEF Counted, TouchesTransaction, Holding
<1>6. \E w \in Seq(Plain) : Return(t, w)
  <2>1. CASE RequestCommit(t) BY <1>1, <2>1 DEF RequestCommit
  <2>2. CASE RequestAbort(t) BY <1>1, <1>2, <2>2 DEF RequestAbort
  <2>3. CASE NoMoreOpenReferences(t) BY <1>1, <2>3 DEF NoMoreOpenReferences
  <2>4. CASE NoMoreCommitReferences(t)
    <3>1. If(own_future, <<"ReleaseFuture">>) \in Seq(Plain) BY <1>1, PlainPieces
    <3>. QED BY <1>1, <1>2, <2>4, <3>1 DEF NoMoreCommitReferences
  <2>. QED BY <2>1, <2>2, <2>3, <2>4 DEF LockedStep
<1>. QED BY <1>3, <1>4, <1>5, <1>6, PlainReturn

FutureStep(t) ==
  \/ ExecuteCommit(t) \/ ExecuteAbort(t)
  \/ SetDeferredResult(t) \/ WriteResult(t) \/ WriteResultAndReady(t)
  \/ ReleasePromise(t) \/ ReleaseFuture(t) \/ Forced(t)

\* The steps of the promise and of the future, and the start of the commit.
LEMMA FutureAlive ==
  ASSUME RInv, NEW t \in Thread, FutureStep(t)
  PROVE  Alive'
<1>1. /\ <<"DestroyPromiseCallbacks">> \in Seq(Aside) /\ <<"WriteResult">> \in Seq(Aside)
      /\ <<"WriteResultAndReady">> \in Seq(Aside) /\ <<"ReleasePromise">> \in Seq(Aside)
      /\ <<>> \in Seq(Aside)
  BY DEF Aside, Plain, Task, Counted, Via, TouchesTransaction
<1>2. DestroyUnlessForcing \in Seq(Aside) BY <1>1, AsidePieces DEF DestroyUnlessForcing
<1>3. UNCHANGED kept
  BY DEF FutureStep, ExecuteCommit, ExecuteAbort, Execute, SetDeferredResult, WriteResult,
     WriteResultAndReady, ReleasePromise, ReleaseFuture, Forced, kept, refs, counts, callbacks
<1>4. stack[t] # <<>> /\ Head(stack[t]) \notin Counted
  BY DEF FutureStep, ExecuteCommit, ExecuteAbort, SetDeferredResult, WriteResult,
     WriteResultAndReady, ReleasePromise, ReleaseFuture, Forced, At, Counted
<1>5. \E w \in Seq(Aside) : Return(t, w)
  <2>1. CASE ExecuteCommit(t) \/ ExecuteAbort(t)
    <3>1. If(own_promise /\ nodes = 0, <<"ReleasePromise">>) \in Seq(Aside) BY <1>1, AsidePieces
    <3>. QED BY <2>1, <3>1 DEF ExecuteCommit, ExecuteAbort, Execute
  <2>2. CASE SetDeferredResult(t)
    <3>1. DestroyUnlessForcing \o <<"WriteResult">> \in Seq(Aside) BY <1>1, <1>2, AsidePieces
    <3>2. If("kResultLocked" \notin future_state, DestroyUnlessForcing \o <<"WriteResult">>)
            \in Seq(Aside)
      BY <3>1, AsidePieces
    <3>. QED BY <2>2, <3>2 DEF SetDeferredResult
  <2>3. CASE WriteResult(t) \/ WriteResultAndReady(t)
    BY <1>1, <2>3 DEF WriteResult, WriteResultAndReady
  <2>4. CASE ReleasePromise(t)
    <3>. DEFINE lock == promise_refs = 1 /\ "kResultLocked" \notin future_state
    <3>1. DestroyUnlessForcing \o <<"WriteResultAndReady">> \in Seq(Aside)
      BY <1>1, <1>2, AsidePieces
    <3>2. If(lock, DestroyUnlessForcing \o <<"WriteResultAndReady">>) \in Seq(Aside)
      BY <3>1, AsidePieces
    <3>. QED BY <2>4, <3>2 DEF ReleasePromise
  <2>5. CASE ReleaseFuture(t)
    <3>1. If(future_refs' = 0, <<"DestroyPromiseCallbacks">>) \in Seq(Aside)
      BY <1>1, AsidePieces
    <3>. QED BY <2>5, <3>1 DEF ReleaseFuture
  <2>6. CASE Forced(t)
    <3>1. If("kResultLocked" \in future_state \/ ~HasFuture, <<"DestroyPromiseCallbacks">>)
            \in Seq(Aside)
      BY <1>1, AsidePieces
    <3>. QED BY <2>6, <3>1 DEF Forced
  <2>. QED BY <2>1, <2>2, <2>3, <2>4, <2>5, <2>6 DEF FutureStep
<1>. QED BY <1>3, <1>4, <1>5, AsideReturn

\* A call through a reference of the client.
LEMMA CoveredPair ==
  ASSUME NEW a \in Plain, NEW b \in Via, b \in Holding \/ a \notin TouchesTransaction
  PROVE  /\ <<a, b>> \in Seq(Plain \cup Via) /\ <<a, b>> # <<>>
         /\ Len(<<a, b>>) = 2 /\ <<a, b>>[2] = b
         /\ Covered(<<a, b>>) /\ ViaLast(<<a, b>>)
<1>. DEFINE w == <<a, b>>
<1>1. w \in Seq(Plain \cup Via) /\ w # <<>> /\ Len(w) = 2 /\ w[1] = a /\ w[2] = b OBVIOUS
<1>2. a \notin Via /\ b \notin TouchesTransaction BY DEF Plain, Via, TouchesTransaction
<1>. HIDE DEF w
<1>3. Covered(w) /\ ViaLast(w) BY <1>1, <1>2 DEF Covered, ViaLast
<1>. QED BY <1>1, <1>3 DEF w

CallStep(t) == \/ Request(t) \/ NodeSetError(t) \/ DropFuture(t)

\* The calls that only start work.
LEMMA CallAlive ==
  ASSUME RInv, NEW t \in Thread, CallStep(t)
  PROVE  Alive'
<1>1. /\ "RequestCommit" \in Plain /\ "RequestAbort" \in Plain /\ "SetDeferredResult" \in Plain
      /\ "SetDeferredResult" \notin TouchesTransaction
      /\ {"via_handle", "via_open", "via_node"} \subseteq Via \cap Holding
  BY DEF Plain, Task, Counted, Via, TouchesTransaction, Holding
<1>2. UNCHANGED kept /\ Idle(t)
  BY DEF CallStep, Request, CommitAsync, Abort, AbortWithError, SetError, ForceFuture,
     NodeSetError, DropFuture, kept, refs, counts, callbacks
<1>3. CASE CommitAsync(t) \/ Abort(t)
  <2>1. PICK a \in {"RequestCommit", "RequestAbort"} : Call(t, <<a, "via_handle">>) /\ handles > 0
    BY <1>3 DEF CommitAsync, Abort
  <2>. QED BY <1>1, <1>2, <2>1, CoveredPair, PlainCall
<1>4. CASE AbortWithError(t) \/ SetError(t)
  <2>1. PICK a \in {"RequestAbort", "SetDeferredResult"} : Call(t, <<a, "via_open">>) /\ open_ptrs > 0
    BY <1>4 DEF AbortWithError, SetError
  <2>. QED BY <1>1, <1>2, <2>1, CoveredPair, PlainCall
<1>5. CASE NodeSetError(t)
  <2>1. Call(t, <<"SetDeferredResult", "via_node">>) /\ nodes > 0
    BY <1>5, BusyCount DEF NodeSetError, RInv, IInv, TypeOK
  <2>. QED BY <1>1, <1>2, <2>1, CoveredPair, PlainCall
<1>6. CASE ForceFuture(t)
  <2>. DEFINE w == <<"RunForceCallbacks", "Forced", "via_future">>
  <2>1. /\ w \in Seq(Plain \cup Via) /\ w # <<>>
        /\ Len(w) = 3 /\ w[1] = "RunForceCallbacks" /\ w[2] = "Forced" /\ w[3] = "via_future"
    BY DEF Plain, Task, Counted, Via
  <2>2. Call(t, w) BY <1>6 DEF ForceFuture
  <2>. HIDE DEF w
  <2>3. Covered(w) /\ ViaLast(w) BY <2>1 DEF Covered, ViaLast, TouchesTransaction, Via
  <2>. QED BY <1>2, <2>1, <2>2, <2>3, PlainCall
<1>7. CASE DropFuture(t)
  <2>. DEFINE w == <<"ReleaseFuture">>
  <2>1. w \in Seq(Plain \cup Via) /\ w # <<>> /\ Len(w) = 1 /\ w[1] = "ReleaseFuture"
    BY DEF Plain, Task, Counted, Via
  <2>2. Call(t, w) BY <1>7 DEF DropFuture
  <2>. HIDE DEF w
  <2>3. Covered(w) /\ ViaLast(w) BY <2>1 DEF Covered, ViaLast, TouchesTransaction, Via
  <2>. QED BY <1>2, <2>1, <2>2, <2>3, PlainCall
<1>. QED BY <1>3, <1>4, <1>5, <1>6, <1>7 DEF CallStep, Request

\* New references are counted.
LEMMA AcquireAlive ==
  ASSUME RInv, NEW t \in Thread, Acquire(t)
  PROVE  Alive'
<1>1. UNCHANGED <<stack, callbacks>>
  BY DEF Acquire, AcquireOpenPtr, CopyOpenPtr, AcquireImplicitOpenPtr, AcquireCommitBlock,
     CopyTransaction, GetFuture, Register
<1>2. \A x : Pending(x)' = Pending(x) /\ Busy(x)' = Busy(x) BY <1>1 DEF Pending, Busy
<1>3. StacksCovered' /\ CallbacksTaken'
  BY <1>1 DEF RInv, Alive, StacksCovered, CallbacksTaken, Allowed, callbacks
<1>4. /\ Pending("DecrementCommit") \in Nat /\ Pending("DecrementForce") \in Nat
      /\ Pending("DecrementWeak") \in Nat /\ Pending("DestroyNext") \in Nat
  <2>1. stack' = [stack EXCEPT ![t] = stack[t]] /\ stack[t] \in Seq(Task)
    BY <1>1 DEF RInv, IInv, TypeOK
  <2>2. StackOK BY DEF RInv, IInv, TypeOK, StackOK
  <2>. QED BY <2>1, <2>2, PendingChange
<1>5. /\ handles \in Nat /\ open_ptrs \in Nat /\ blocks \in Nat /\ nodes \in Nat
      /\ open_reference_count \in Int /\ commit_reference_count \in Int
      /\ weak_reference_count \in Int
  BY DEF RInv, IInv, TypeOK
<1>6. \/ /\ open_ptrs' = open_ptrs + 1 /\ open_reference_count' = open_reference_count + 1
         /\ commit_reference_count' = commit_reference_count + 2
         /\ weak_reference_count' = weak_reference_count + 1
         /\ UNCHANGED <<handles, blocks, nodes>>
      \/ /\ blocks' = blocks + 1 /\ open_reference_count' = open_reference_count + 1
         /\ weak_reference_count' = weak_reference_count + 1
         /\ UNCHANGED <<handles, open_ptrs, nodes, commit_reference_count>>
      \/ /\ handles' = handles + 1
         /\ commit_reference_count' = commit_reference_count + 2
         /\ weak_reference_count' = weak_reference_count + 1
         /\ UNCHANGED <<open_ptrs, blocks, nodes, open_reference_count>>
      \/ /\ nodes' = nodes + 1 /\ weak_reference_count' = weak_reference_count + 1
         /\ UNCHANGED <<handles, open_ptrs, blocks, open_reference_count, commit_reference_count>>
      \/ UNCHANGED <<handles, open_ptrs, blocks, nodes, counts>>
  BY DEF Acquire, AcquireOpenPtr, CopyOpenPtr, AcquireImplicitOpenPtr, AcquireCommitBlock,
     CopyTransaction, GetFuture, Register, AcquireOpenReference, AcquireCommitReference,
     kCommitReferenceIncrement
<1>7. CallersHold' BY <1>2, <1>5, <1>6 DEF RInv, Alive, CallersHold, counts
<1>8. ReferencesCounted'
  BY <1>1, <1>2, <1>4, <1>5, <1>6 DEF RInv, Alive, ReferencesCounted, counts, callbacks,
     kCommitReferenceIncrement, kFutureReferenceIncrement
<1>. QED BY <1>3, <1>7, <1>8 DEF Alive

\* What returning to covered work does, whatever references it gives back.
LEMMA ReturnEffects ==
  ASSUME RInv, NEW t \in Thread, stack[t] # <<>>, NEW w \in Seq(Task \ Via),
         w \in Seq(Allowed'), Covered(w), Return(t, w), Allowed \subseteq Allowed',
         UNCHANGED <<handles, open_ptrs, nodes>>
  PROVE  /\ StacksCovered' /\ CallbacksTaken' /\ CallersHold'
         /\ \A x \in Counted :
              /\ Pending(x) \in Nat /\ Pending(x)' \in Nat
              /\ Pending(x)' = Pending(x) - Is(Head(stack[t]), x) + Count(w, x)
<1>0. StackOK /\ Alive /\ w \in Seq(Task) BY DEF RInv, IInv, TypeOK, StackOK
<1>1. StacksCovered' BY <1>0, CoveredReturn DEF Alive
<1>2. CallbacksTaken' BY <1>0, TakenReturn DEF Alive
<1>3. CallersHold'
  <2>1. /\ Busy("via_handle")' \subseteq Busy("via_handle")
        /\ Busy("via_open")' \subseteq Busy("via_open")
        /\ Busy("via_node")' \subseteq Busy("via_node")
    BY <1>0, BusyReturn DEF Via
  <2>. QED BY <1>0, <2>1 DEF Alive, CallersHold
<1>4. \A x \in Counted :
        /\ Pending(x) \in Nat /\ Pending(x)' \in Nat
        /\ Pending(x)' = Pending(x) - Is(Head(stack[t]), x) + Count(w, x)
  BY <1>0, PendingReturn
<1>. QED BY <1>1, <1>2, <1>3, <1>4

\* Work that ends by giving back one reference.
LEMMA OneRelease ==
  ASSUME NEW v \in Seq(Plain), NEW b \in {"DecrementCommit", "DecrementForce", "DecrementWeak"}
  PROVE  /\ v \o <<b>> \in Seq(Task \ Via) /\ v \o <<b>> \in Seq(Allowed')
         /\ v \o <<b>> \in Seq(Task) /\ v \o <<b>> # <<>>
         /\ Covered(v \o <<b>>) /\ ViaLast(v \o <<b>>)
         /\ (v \o <<b>>)[Len(v \o <<b>>)] = b
         /\ \A x \in Counted : Count(v \o <<b>>, x) = Is(b, x)
<1>1. /\ v \in Seq(Task) /\ v \in Seq(Task \ Via) /\ v \in Seq(Allowed')
      /\ \A x \in Counted : Count(v, x) = 0
  BY PlainType
<1>2. b \in Task /\ b \in Task \ Via /\ b \in Allowed' /\ b \in Holding
  BY DEF Task, Via, Allowed, Holding
<1>3. /\ <<b>> \in Seq(Task) /\ <<b>> \in Seq(Task \ Via) /\ <<b>> \in Seq(Allowed')
      /\ Len(<<b>>) = 1 /\ <<b>>[1] = b
  BY <1>2
<1>4. v \o <<b>> \in Seq(Task \ Via) /\ v \o <<b>> \in Seq(Allowed') /\ v \o <<b>> \in Seq(Task)
  BY <1>1, <1>3, ConcatFacts
<1>5. Covered(v \o <<b>>) BY <1>1, <1>2, CoveredByLast
<1>6. ViaLast(v \o <<b>>)
  <2>1. ViaLast(<<b>>) BY <1>3 DEF ViaLast
  <2>. QED BY <1>1, <1>3, <2>1, ViaLastConcat
<1>7. /\ Len(v) \in Nat /\ Len(v \o <<b>>) = Len(v) + 1
      /\ (v \o <<b>>)[1 + Len(v)] = b
  BY <1>1, <1>3, ConcatFacts
<1>8. v \o <<b>> # <<>> /\ (v \o <<b>>)[Len(v \o <<b>>)] = b
  <2>1. Len(v \o <<b>>) = 1 + Len(v) /\ Len(v \o <<b>>) # 0 BY <1>7
  <2>. QED BY <1>4, <1>7, <2>1
<1>9. ASSUME NEW x \in Counted PROVE Count(v \o <<b>>, x) = Is(b, x)
  <2>1. Count(v \o <<b>>, x) = Count(v, x) + Count(<<b>>, x) BY <1>1, <1>3, CountConcat
  <2>2. Count(<<b>>, x) = Is(b, x) /\ Is(b, x) \in Nat /\ Count(v, x) = 0
    BY <1>1, CountPiece DEF Is
  <2>. QED BY <2>1, <2>2
<1>. QED BY <1>4, <1>5, <1>6, <1>8, <1>9

\* The balance of the two counts that the pending releases are part of.
Listed(cb) == IF cb = "listed" THEN 1 ELSE 0

LEMMA Balance ==
  ASSUME RInv, IInv', \A x \in Counted : Pending(x) \in Nat /\ Pending(x)' \in Nat,
         commit_reference_count' = commit_reference_count
           + 2 * ((handles' - handles) + (open_ptrs' - open_ptrs)
                    + (Pending("DecrementCommit")' - Pending("DecrementCommit")))
           + (Listed(force_cb)' - Listed(force_cb))
           + (Pending("DestroyNext")' - Pending("DestroyNext"))
           + (Pending("DecrementForce")' - Pending("DecrementForce")),
         weak_reference_count' = weak_reference_count
           + ((handles' - handles) + (open_ptrs' - open_ptrs)
                + (Pending("DecrementCommit")' - Pending("DecrementCommit")))
           + ((blocks' - blocks) + (nodes' - nodes)
                + (Pending("DecrementWeak")' - Pending("DecrementWeak")))
           + (Pending("DecrementForce")' - Pending("DecrementForce"))
           + (Pending("DestroyNext")' - Pending("DestroyNext"))
           + (Listed(force_cb)' - Listed(force_cb))
           + (Listed(not_needed_cb)' - Listed(not_needed_cb))
  PROVE  ReferencesCounted'
<1>1. /\ handles \in Nat /\ open_ptrs \in Nat /\ blocks \in Nat /\ nodes \in Nat
      /\ commit_reference_count \in Int /\ weak_reference_count \in Int
      /\ handles' \in Nat /\ open_ptrs' \in Nat /\ blocks' \in Nat /\ nodes' \in Nat
      /\ commit_reference_count' \in Int /\ weak_reference_count' \in Int
      /\ OpenCountOK'
  BY DEF RInv, IInv, TypeOK
<1>2. /\ Pending("DecrementCommit") \in Nat /\ Pending("DecrementForce") \in Nat
      /\ Pending("DecrementWeak") \in Nat /\ Pending("DestroyNext") \in Nat
      /\ Pending("DecrementCommit")' \in Nat /\ Pending("DecrementForce")' \in Nat
      /\ Pending("DecrementWeak")' \in Nat /\ Pending("DestroyNext")' \in Nat
  BY DEF Counted
<1>3. /\ Listed(force_cb) \in Int /\ Listed(force_cb)' \in Int
      /\ Listed(not_needed_cb) \in Int /\ Listed(not_needed_cb)' \in Int
  BY DEF Listed
<1>4. /\ commit_reference_count = 2 * (handles + open_ptrs + Pending("DecrementCommit"))
           + (Listed(force_cb) + Pending("DestroyNext") + Pending("DecrementForce"))
      /\ weak_reference_count = handles + open_ptrs + blocks + nodes
           + Pending("DecrementCommit") + Pending("DecrementForce")
           + Pending("DecrementWeak") + Pending("DestroyNext")
           + Listed(force_cb) + Listed(not_needed_cb)
  BY <1>2, <1>3 DEF RInv, Alive, ReferencesCounted, Listed, kCommitReferenceIncrement,
     kFutureReferenceIncrement
<1>5. /\ commit_reference_count' = 2 * (handles' + open_ptrs' + Pending("DecrementCommit")')
           + (Listed(force_cb)' + Pending("DestroyNext")' + Pending("DecrementForce")')
      /\ weak_reference_count' = handles' + open_ptrs' + blocks' + nodes'
           + Pending("DecrementCommit")' + Pending("DecrementForce")'
           + Pending("DecrementWeak")' + Pending("DestroyNext")'
           + Listed(force_cb)' + Listed(not_needed_cb)'
  BY <1>1, <1>2, <1>3, <1>4
<1>. QED
  BY <1>1, <1>2, <1>3, <1>5 DEF ReferencesCounted, OpenCountOK, Listed, kCommitReferenceIncrement,
     kFutureReferenceIncrement

\* The three decrements: the piece that is popped gives back its part, and the
\* weak reference that it still holds is given back last.
LEMMA DecrementAlive ==
  ASSUME RInv, IInv', NEW t \in Thread, DecrementCommit(t) \/ DecrementForce(t)
  PROVE  Alive'
<1>. DEFINE c == IF DecrementCommit(t) THEN commit_reference_count' < kCommitReferenceIncrement
                                       ELSE commit_reference_count' < kFutureReferenceIncrement
            v == If(c, <<"NoMoreCommitReferences">>)
            w == v \o <<"DecrementWeak">>
<1>1. v \in Seq(Plain)
  <2>1. <<"NoMoreCommitReferences">> \in Seq(Plain) BY DEF Plain, Task, Counted, Via
  <2>. QED BY <2>1, PlainPieces
<1>2. stack[t] # <<>> /\ Return(t, w) /\ UNCHANGED <<handles, open_ptrs, blocks, nodes, callbacks>>
  BY DEF DecrementCommit, DecrementForce, At, refs
<1>3. Allowed \subseteq Allowed' BY <1>2 DEF Allowed, callbacks
<1>4. /\ w \in Seq(Task \ Via) /\ w \in Seq(Allowed') /\ Covered(w)
      /\ \A x \in Counted : Count(w, x) = Is("DecrementWeak", x)
  BY <1>1, OneRelease
<1>. HIDE DEF c, v, w
<1>5. /\ StacksCovered' /\ CallbacksTaken' /\ CallersHold'
      /\ \A x \in Counted :
           /\ Pending(x) \in Nat /\ Pending(x)' \in Nat
           /\ Pending(x)' = Pending(x) - Is(Head(stack[t]), x) + Is("DecrementWeak", x)
  BY <1>2, <1>3, <1>4, ReturnEffects
<1>6. /\ Head(stack[t]) = IF DecrementCommit(t) THEN "DecrementCommit" ELSE "DecrementForce"
      /\ Pending("DecrementCommit")' = Pending("DecrementCommit") - Is(Head(stack[t]), "DecrementCommit")
      /\ Pending("DecrementForce")' = Pending("DecrementForce") - Is(Head(stack[t]), "DecrementForce")
      /\ Pending("DecrementWeak")' = Pending("DecrementWeak") + 1
      /\ Pending("DestroyNext")' = Pending("DestroyNext")
      /\ Pending("DecrementCommit") \in Nat /\ Pending("DecrementForce") \in Nat
      /\ Pending("DecrementWeak") \in Nat /\ Pending("DestroyNext") \in Nat
  <2>1. Head(stack[t]) = IF DecrementCommit(t) THEN "DecrementCommit" ELSE "DecrementForce"
    BY DEF DecrementCommit, DecrementForce, At
  <2>. QED BY <1>5, <2>1 DEF Counted, Is
<1>7. /\ handles' - handles = 0 /\ open_ptrs' - open_ptrs = 0 /\ blocks' - blocks = 0
      /\ nodes' - nodes = 0
      /\ Listed(force_cb)' - Listed(force_cb) = 0
      /\ Listed(not_needed_cb)' - Listed(not_needed_cb) = 0
      /\ commit_reference_count \in Int /\ weak_reference_count \in Int
      /\ weak_reference_count' = weak_reference_count
  BY <1>2 DEF RInv, IInv, TypeOK, callbacks, Listed, DecrementCommit, DecrementForce
<1>8. ReferencesCounted'
  <2>1. commit_reference_count' = commit_reference_count
          - 2 * Is(Head(stack[t]), "DecrementCommit") - Is(Head(stack[t]), "DecrementForce")
    BY <1>6, <1>7 DEF DecrementCommit, DecrementForce, Is, kCommitReferenceIncrement,
       kFutureReferenceIncrement
  <2>2. Is(Head(stack[t]), "DecrementCommit") + Is(Head(stack[t]), "DecrementForce") = 1
        /\ Is(Head(stack[t]), "DecrementCommit") \in Nat /\ Is(Head(stack[t]), "DecrementForce") \in Nat
    BY <1>6 DEF Is
  <2>. QED BY <1>5, <1>6, <1>7, <2>1, <2>2, Balance
<1>. QED BY <1>5, <1>8 DEF Alive

\* The last decrement deletes the object and releases its promise and future.
LEMMA DecrementWeakAlive ==
  ASSUME RInv, IInv', NEW t \in Thread, DecrementWeak(t)
  PROVE  Alive'
<1>. DEFINE destroyed == weak_reference_count' = 0
            w == If(destroyed /\ own_future, <<"ReleaseFuture">>)
                   \o If(destroyed /\ own_promise, <<"ReleasePromise">>)
<1>1. w \in Seq(Aside)
  <2>1. <<"ReleaseFuture">> \in Seq(Aside) /\ <<"ReleasePromise">> \in Seq(Aside)
    BY DEF Aside, Plain, Task, Counted, Via, TouchesTransaction
  <2>2. /\ If(destroyed /\ own_future, <<"ReleaseFuture">>) \in Seq(Aside)
        /\ If(destroyed /\ own_promise, <<"ReleasePromise">>) \in Seq(Aside)
    BY <2>1, AsidePieces
  <2>. QED BY <2>2, AsidePieces
<1>2. /\ stack[t] # <<>> /\ Return(t, w) /\ Head(stack[t]) = "DecrementWeak"
      /\ UNCHANGED <<handles, open_ptrs, blocks, nodes, callbacks, commit_reference_count>>
      /\ weak_reference_count' = weak_reference_count - 1
  BY DEF DecrementWeak, At, refs
<1>. HIDE DEF w
<1>3. Allowed \subseteq Allowed' BY <1>2 DEF Allowed, callbacks
<1>4. w \in Seq(Plain) /\ w \in Seq(Task \ TouchesTransaction) BY <1>1, AsidePieces
<1>5. /\ w \in Seq(Task \ Via) /\ w \in Seq(Allowed') /\ Covered(w)
      /\ \A x \in Counted : Count(w, x) = 0
  BY <1>4, PlainType, CoveredUntouched
<1>6. /\ StacksCovered' /\ CallbacksTaken' /\ CallersHold'
      /\ \A x \in Counted :
           /\ Pending(x) \in Nat /\ Pending(x)' \in Nat
           /\ Pending(x)' = Pending(x) - Is(Head(stack[t]), x)
  BY <1>2, <1>3, <1>5, ReturnEffects DEF Is
<1>7. /\ Pending("DecrementCommit")' = Pending("DecrementCommit")
      /\ Pending("DecrementForce")' = Pending("DecrementForce")
      /\ Pending("DecrementWeak")' = Pending("DecrementWeak") - 1
      /\ Pending("DestroyNext")' = Pending("DestroyNext")
      /\ Pending("DecrementCommit") \in Nat /\ Pending("DecrementForce") \in Nat
      /\ Pending("DecrementWeak") \in Nat /\ Pending("DestroyNext") \in Nat
  BY <1>2, <1>6 DEF Counted, Is
<1>8. /\ handles' - handles = 0 /\ open_ptrs' - open_ptrs = 0 /\ blocks' - blocks = 0
      /\ nodes' - nodes = 0
      /\ Listed(force_cb)' - Listed(force_cb) = 0
      /\ Listed(not_needed_cb)' - Listed(not_needed_cb) = 0
      /\ commit_reference_count \in Int /\ weak_reference_count \in Int
  BY <1>2 DEF RInv, IInv, TypeOK, callbacks, Listed
<1>9. ReferencesCounted' BY <1>2, <1>6, <1>7, <1>8, Balance
<1>. QED BY <1>6, <1>9 DEF Alive

LEMMA BusySome ==
  ASSUME NEW ref, Busy(ref) # {}
  PROVE  Cardinality(Busy(ref)) \in Nat \ {0}
<1>1. IsFiniteSet(Busy(ref)) BY LifecycleAssumption, FS_Subset DEF Busy
<1>. QED BY <1>1, FS_EmptySet, FS_CardinalityType

\* What a call does that gives back one reference at its end.
LEMMA ReleaseEffects ==
  ASSUME RInv, NEW t \in Thread, Idle(t), NEW v \in Seq(Plain),
         NEW b \in {"DecrementCommit", "DecrementForce", "DecrementWeak"},
         Call(t, v \o <<b>>), UNCHANGED callbacks
  PROVE  /\ StacksCovered' /\ CallbacksTaken'
         /\ \A ref \in Via : Busy(ref)' \subseteq Busy(ref)
         /\ \A x \in Counted :
              /\ Pending(x) \in Nat /\ Pending(x)' \in Nat
              /\ Pending(x)' = Pending(x) + Is(b, x)
<1>. DEFINE w == v \o <<b>>
<1>0. StackOK /\ Alive BY DEF RInv, IInv, TypeOK, StackOK
<1>1. /\ w \in Seq(Allowed') /\ w \in Seq(Task) /\ w # <<>>
      /\ Covered(w) /\ ViaLast(w) /\ w[Len(w)] = b
      /\ \A x \in Counted : Count(w, x) = Is(b, x)
  BY OneRelease
<1>. HIDE DEF w
<1>2. Call(t, w) BY DEF w
<1>3. StacksCovered' BY <1>0, <1>1, <1>2, CoveredCall DEF Alive
<1>4. CallbacksTaken'
  <2>1. Allowed \subseteq Allowed' BY DEF Allowed, callbacks
  <2>. QED BY <1>0, <1>1, <1>2, <2>1, TakenCall DEF Alive
<1>5. ASSUME NEW ref \in Via PROVE Busy(ref)' \subseteq Busy(ref)
  <2>1. w[Len(w)] # ref BY <1>1 DEF Via
  <2>. QED BY <1>0, <1>1, <1>2, <2>1, BusyCall
<1>6. ASSUME NEW x \in Counted
      PROVE  /\ Pending(x) \in Nat /\ Pending(x)' \in Nat
             /\ Pending(x)' = Pending(x) + Is(b, x)
  BY <1>0, <1>1, <1>2, PendingCall
<1>. QED BY <1>3, <1>4, <1>5, <1>6

\* Clients giving back a reference, and nodes that are done.
LEMMA ReleaseAlive ==
  ASSUME RInv, IInv', NEW t \in Thread,
         \/ ReleaseOpenPtr(t) \/ ReleaseCommitBlock(t) \/ DropTransaction(t) \/ NodeDone(t)
  PROVE  Alive'
<1>1. PICK v \in Seq(Plain), b \in {"DecrementCommit", "DecrementWeak"} :
        /\ Call(t, v \o <<b>>)
        /\ b = "DecrementCommit" <=> (ReleaseOpenPtr(t) \/ DropTransaction(t))
  <2>0. /\ <<"NoMoreOpenReferences">> \in Seq(Plain) /\ <<"ReleasePromise">> \in Seq(Plain)
        /\ <<>> \in Seq(Plain)
    BY DEF Plain, Task, Counted, Via
  <2>1. /\ If(open_reference_count' = 0, <<"NoMoreOpenReferences">>) \in Seq(Plain)
        /\ If(own_promise /\ nodes' = 0, <<"ReleasePromise">>) \in Seq(Plain)
    BY <2>0, PlainPieces
  <2>2. CASE ReleaseOpenPtr(t) BY <2>1, <2>2 DEF ReleaseOpenPtr
  <2>3. CASE ReleaseCommitBlock(t) /\ ~ReleaseOpenPtr(t) /\ ~DropTransaction(t)
    BY <2>1, <2>3 DEF ReleaseCommitBlock
  <2>4. CASE DropTransaction(t)
    <3>1. <<"DecrementCommit">> = <<>> \o <<"DecrementCommit">> OBVIOUS
    <3>. QED BY <2>0, <2>4, <3>1 DEF DropTransaction
  <2>5. CASE NodeDone(t) /\ ~ReleaseOpenPtr(t) /\ ~DropTransaction(t) BY <2>1, <2>5 DEF NodeDone
  <2>. QED BY <2>2, <2>3, <2>4, <2>5
<1>2. Idle(t) /\ UNCHANGED callbacks
  BY DEF ReleaseOpenPtr, ReleaseCommitBlock, DropTransaction, NodeDone
<1>3. /\ StacksCovered' /\ CallbacksTaken'
      /\ \A ref \in Via : Busy(ref)' \subseteq Busy(ref)
      /\ \A x \in Counted :
           /\ Pending(x) \in Nat /\ Pending(x)' \in Nat
           /\ Pending(x)' = Pending(x) + Is(b, x)
  BY <1>1, <1>2, ReleaseEffects
<1>4. /\ Pending("DecrementCommit")' = Pending("DecrementCommit") + Is(b, "DecrementCommit")
      /\ Pending("DecrementForce")' = Pending("DecrementForce")
      /\ Pending("DecrementWeak")' = Pending("DecrementWeak") + Is(b, "DecrementWeak")
      /\ Pending("DestroyNext")' = Pending("DestroyNext")
      /\ Pending("DecrementCommit") \in Nat /\ Pending("DecrementForce") \in Nat
      /\ Pending("DecrementWeak") \in Nat /\ Pending("DestroyNext") \in Nat
  BY <1>3 DEF Counted, Is
<1>5. /\ handles \in Nat /\ open_ptrs \in Nat /\ blocks \in Nat /\ nodes \in Nat
      /\ commit_reference_count \in Int /\ weak_reference_count \in Int
      /\ Listed(force_cb)' - Listed(force_cb) = 0
      /\ Listed(not_needed_cb)' - Listed(not_needed_cb) = 0
  BY <1>2 DEF RInv, IInv, TypeOK, callbacks, Listed
<1>6. /\ UNCHANGED <<commit_reference_count, weak_reference_count>>
      /\ \/ /\ b = "DecrementCommit" /\ open_ptrs' = open_ptrs - 1
            /\ open_ptrs > Cardinality(Busy("via_open"))
            /\ UNCHANGED <<handles, blocks, nodes>>
         \/ /\ b = "DecrementCommit" /\ handles' = handles - 1
            /\ handles > Cardinality(Busy("via_handle"))
            /\ UNCHANGED <<open_ptrs, blocks, nodes>>
         \/ /\ b = "DecrementWeak" /\ blocks' = blocks - 1
            /\ UNCHANGED <<handles, open_ptrs, nodes>>
         \/ /\ b = "DecrementWeak" /\ nodes' = nodes - 1
            /\ nodes > Cardinality(Busy("via_node"))
            /\ UNCHANGED <<handles, open_ptrs, blocks>>
  BY <1>1 DEF ReleaseOpenPtr, ReleaseCommitBlock, DropTransaction, NodeDone, counts
<1>7. ReferencesCounted'
  <2>1. /\ b = "DecrementCommit" => Is(b, "DecrementCommit") = 1 /\ Is(b, "DecrementWeak") = 0
        /\ b = "DecrementWeak" => Is(b, "DecrementCommit") = 0 /\ Is(b, "DecrementWeak") = 1
    BY DEF Is
  <2>2. /\ (handles' - handles) + (open_ptrs' - open_ptrs)
             + (Pending("DecrementCommit")' - Pending("DecrementCommit")) = 0
        /\ (blocks' - blocks) + (nodes' - nodes)
             + (Pending("DecrementWeak")' - Pending("DecrementWeak")) = 0
    BY SMTT(30), <1>4, <1>5, <1>6, <2>1
  <2>3. /\ handles' \in Int /\ open_ptrs' \in Int /\ blocks' \in Int /\ nodes' \in Int
    BY <1>5, <1>6
  <2>4. \A x \in Counted : Pending(x) \in Nat /\ Pending(x)' \in Nat BY <1>3
  <2>5. /\ Pending("DecrementCommit")' \in Nat /\ Pending("DecrementWeak")' \in Nat
        /\ Pending("DestroyNext")' - Pending("DestroyNext") = 0
        /\ Pending("DecrementForce")' - Pending("DecrementForce") = 0
    BY <1>4, <2>4 DEF Counted
  <2>6. /\ commit_reference_count' = commit_reference_count
             + 2 * ((handles' - handles) + (open_ptrs' - open_ptrs)
                    + (Pending("DecrementCommit")' - Pending("DecrementCommit")))
             + (Listed(force_cb)' - Listed(force_cb))
             + (Pending("DestroyNext")' - Pending("DestroyNext"))
             + (Pending("DecrementForce")' - Pending("DecrementForce"))
    BY <1>5, <1>6, <2>2, <2>5
  <2>7. weak_reference_count' = weak_reference_count
           + ((handles' - handles) + (open_ptrs' - open_ptrs)
                + (Pending("DecrementCommit")' - Pending("DecrementCommit")))
           + ((blocks' - blocks) + (nodes' - nodes)
                + (Pending("DecrementWeak")' - Pending("DecrementWeak")))
           + (Pending("DecrementForce")' - Pending("DecrementForce"))
           + (Pending("DestroyNext")' - Pending("DestroyNext"))
           + (Listed(force_cb)' - Listed(force_cb))
           + (Listed(not_needed_cb)' - Listed(not_needed_cb))
    BY <1>4, <1>5, <1>6, <2>2, <2>3, <2>5
  <2>. QED BY <2>4, <2>6, <2>7, Balance
<1>8. CallersHold'
  <2>1. /\ Busy("via_handle")' # {} => Busy("via_handle") # {}
        /\ Busy("via_open")' # {} => Busy("via_open") # {}
        /\ Busy("via_node")' # {} => Busy("via_node") # {}
    BY <1>3 DEF Via
  <2>2. /\ Busy("via_handle") # {} => handles > 0 /\ Cardinality(Busy("via_handle")) \in Nat \ {0}
        /\ Busy("via_open") # {} => open_ptrs > 0 /\ Cardinality(Busy("via_open")) \in Nat \ {0}
        /\ Busy("via_node") # {} => nodes > 0 /\ Cardinality(Busy("via_node")) \in Nat \ {0}
    BY BusySome DEF RInv, Alive, CallersHold
  <2>. QED BY <1>5, <1>6, <2>1, <2>2 DEF CallersHold
<1>. QED BY <1>3, <1>7, <1>8 DEF Alive

-----------------------------------------------------------------------------
(* Callbacks of the promise.                                               *)

\* The work w gives back f references of the force callback and k weak ones,
\* and leaves n callbacks to be destroyed.
Gives(w, f, k, n) ==
  /\ w \in Seq(Task \ Via) /\ Covered(w)
  /\ Count(w, "DecrementCommit") = 0 /\ Count(w, "DecrementForce") = f
  /\ Count(w, "DecrementWeak") = k /\ Count(w, "DestroyNext") = n

\* A step that takes a callback out of the list takes over its references.
TakesOver(piece, f, k, n) ==
  /\ Listed(force_cb) + Is(piece, "DestroyNext") = Listed(force_cb)' + f + n
  /\ Listed(not_needed_cb) = Listed(not_needed_cb)' + k

Pushes(t, w) ==
  /\ stack[t] # <<>>
  /\ Head(stack[t]) \in Task \ {"DecrementCommit", "DecrementForce", "DecrementWeak"}
  /\ w \in Seq(Allowed') /\ Allowed \subseteq Allowed'
  /\ Return(t, w)
  /\ UNCHANGED <<refs, counts>>

LEMMA CallbackStep ==
  ASSUME RInv, IInv', NEW t \in Thread, NEW w, Pushes(t, w),
         NEW f \in Nat, NEW k \in Nat, NEW n \in Nat, Gives(w, f, k, n),
         TakesOver(Head(stack[t]), f, k, n)
  PROVE  Alive'
<1>. DEFINE i == Is(Head(stack[t]), "DestroyNext")
            lf == Listed(force_cb)
            ln == Listed(not_needed_cb)
            lf1 == Listed(force_cb)'
            ln1 == Listed(not_needed_cb)'
            DC == Pending("DecrementCommit")
            DF == Pending("DecrementForce")
            DW == Pending("DecrementWeak")
            DN == Pending("DestroyNext")
<1>1. /\ w \in Seq(Task \ Via) /\ Covered(w) /\ UNCHANGED <<handles, open_ptrs, nodes>>
  BY DEF Gives, Pushes, refs
<1>2. /\ StacksCovered' /\ CallbacksTaken' /\ CallersHold'
      /\ \A x \in Counted :
           /\ Pending(x) \in Nat /\ Pending(x)' \in Nat
           /\ Pending(x)' = Pending(x) - Is(Head(stack[t]), x) + Count(w, x)
  BY <1>1, ReturnEffects DEF Pushes
<1>3. \A x \in Counted : Pending(x) \in Nat /\ Pending(x)' \in Nat BY <1>2
<1>4. DC \in Nat /\ DF \in Nat /\ DW \in Nat /\ DN \in Nat BY <1>3 DEF Counted
<1>5. DC' = DC - 0 + 0 /\ DF' = DF - 0 + f /\ DW' = DW - 0 + k /\ DN' = DN - i + n
  <2>1. /\ Is(Head(stack[t]), "DecrementCommit") = 0 /\ Is(Head(stack[t]), "DecrementForce") = 0
        /\ Is(Head(stack[t]), "DecrementWeak") = 0
    BY DEF Is, Pushes
  <2>. QED BY <1>2, <2>1 DEF Counted, Gives
<1>6. /\ i \in Nat /\ lf \in Nat /\ lf1 \in Nat /\ ln \in Nat /\ ln1 \in Nat
      /\ lf + i = lf1 + f + n /\ ln = ln1 + k
  BY DEF Is, Listed, TakesOver
<1>7. /\ handles' - handles = 0 /\ open_ptrs' - open_ptrs = 0 /\ blocks' - blocks = 0
      /\ nodes' - nodes = 0
      /\ commit_reference_count \in Int /\ weak_reference_count \in Int
      /\ commit_reference_count' = commit_reference_count
      /\ weak_reference_count' = weak_reference_count
  BY DEF RInv, IInv, TypeOK, Pushes, refs, counts
<1>8. /\ commit_reference_count' = commit_reference_count + 2 * (0 + 0 + (DC' - DC))
                                      + (lf1 - lf) + (DN' - DN) + (DF' - DF)
      /\ weak_reference_count' = weak_reference_count + (0 + 0 + (DC' - DC))
             + (0 + 0 + (DW' - DW)) + (DF' - DF) + (DN' - DN) + (lf1 - lf) + (ln1 - ln)
  <2>. HIDE DEF i, lf, ln, lf1, ln1, DC, DF, DW, DN
  <2>1. DC' - DC = 0 /\ DF' - DF = f /\ DW' - DW = k /\ DN' - DN = n - i BY <1>4, <1>5, <1>6
  <2>2. (lf1 - lf) + (n - i) + f = 0 BY <1>6
  <2>3. k + (ln1 - ln) = 0 BY <1>6
  <2>4. lf1 - lf \in Int /\ ln1 - ln \in Int BY <1>6
  <2>. QED BY <1>6, <1>7, <2>1, <2>2, <2>3, <2>4
<1>9. ReferencesCounted' BY <1>3, <1>7, <1>8, Balance
<1>. QED BY <1>2, <1>9 DEF Alive

\* The pieces of work that the callbacks leave behind.
LEMMA GivesNothing == Gives(<<>>, 0, 0, 0)
BY CountEmpty, CoveredEmpty DEF Gives

LEMMA GivesForce == Gives(<<"ReleasePromise", "DecrementForce">>, 1, 0, 0)
<1>. DEFINE w == <<"ReleasePromise", "DecrementForce">>
<1>1. /\ w \in Seq(Task \ Via) /\ Len(w) = 2 /\ w[1] = "ReleasePromise" /\ w[2] = "DecrementForce"
      /\ "ReleasePromise" \in Task /\ "DecrementForce" \in Task
  BY DEF Task, Via
<1>2. \A x : Count(w, x) = Is("ReleasePromise", x) + Is("DecrementForce", x) BY <1>1, CountTwo
<1>. HIDE DEF w
<1>3. Covered(w) BY <1>1 DEF Covered, TouchesTransaction, Holding
<1>4. Gives(w, 1, 0, 0) BY <1>1, <1>2, <1>3 DEF Gives, Is
<1>. QED BY <1>4 DEF w

LEMMA GivesWeak == Gives(<<"DecrementWeak">>, 0, 1, 0)
<1>. DEFINE w == <<"DecrementWeak">>
<1>1. w \in Seq(Task \ Via) /\ Len(w) = 1 /\ w[1] = "DecrementWeak" BY DEF Task, Via
<1>2. \A x : Count(w, x) = Is("DecrementWeak", x) BY CountPiece
<1>. HIDE DEF w
<1>3. Covered(w) BY <1>1 DEF Covered, TouchesTransaction, Holding
<1>4. Gives(w, 0, 1, 0) BY <1>1, <1>2, <1>3 DEF Gives, Is
<1>. QED BY <1>4 DEF w

LEMMA GivesNext == Gives(<<"DestroyNext">>, 0, 0, 1)
<1>. DEFINE w == <<"DestroyNext">>
<1>1. w \in Seq(Task \ Via) /\ Len(w) = 1 /\ w[1] = "DestroyNext" BY DEF Task, Via
<1>2. \A x : Count(w, x) = Is("DestroyNext", x) BY CountPiece
<1>. HIDE DEF w
<1>3. Covered(w) BY <1>1 DEF Covered, TouchesTransaction, Holding
<1>4. Gives(w, 0, 0, 1) BY <1>1, <1>2, <1>3 DEF Gives, Is
<1>. QED BY <1>4 DEF w

LEMMA GivesNotNeeded == Gives(RunNotNeeded, 0, 1, 0)
<1>. DEFINE w == <<"RequestAbort", "DecrementWeak", "NotNeededDone">>
<1>1. /\ w \in Seq(Task \ Via) /\ Len(w) = 3
      /\ w[1] = "RequestAbort" /\ w[2] = "DecrementWeak" /\ w[3] = "NotNeededDone"
      /\ "RequestAbort" \in Task /\ "DecrementWeak" \in Task /\ "NotNeededDone" \in Task
  BY DEF Task, Via
<1>2. \A x : Count(w, x) = Is("RequestAbort", x) + (Is("DecrementWeak", x) + Is("NotNeededDone", x))
  BY <1>1, CountThree
<1>. HIDE DEF w
<1>3. Covered(w) BY <1>1 DEF Covered, TouchesTransaction, Holding
<1>4. Gives(w, 0, 1, 0) BY <1>1, <1>2, <1>3 DEF Gives, Is
<1>. QED BY <1>4 DEF w, RunNotNeeded

LEMMA GivesForced ==
  Gives(<<"RequestCommit", "ReleasePromise", "DecrementForce", "ForceCallbackDone">>, 1, 0, 0)
<1>. DEFINE w == <<"RequestCommit", "ReleasePromise", "DecrementForce", "ForceCallbackDone">>
<1>1. /\ w \in Seq(Task \ Via) /\ Len(w) = 4
      /\ w[1] = "RequestCommit" /\ w[2] = "ReleasePromise" /\ w[3] = "DecrementForce"
      /\ w[4] = "ForceCallbackDone"
      /\ "RequestCommit" \in Task /\ "ReleasePromise" \in Task /\ "DecrementForce" \in Task
      /\ "ForceCallbackDone" \in Task
  BY DEF Task, Via
<1>2. \A x : Count(w, x) = Is("RequestCommit", x)
         + (Is("ReleasePromise", x) + (Is("DecrementForce", x) + Is("ForceCallbackDone", x)))
  BY <1>1, CountFour
<1>. HIDE DEF w
<1>3. Covered(w) BY <1>1 DEF Covered, TouchesTransaction, Holding
<1>4. Gives(w, 1, 0, 0) BY <1>1, <1>2, <1>3 DEF Gives, Is
<1>. QED BY <1>4 DEF w

\* One piece of work after the other.
LEMMA GivesBoth ==
  ASSUME NEW v, NEW w, NEW f \in Nat, NEW k \in Nat, NEW n \in Nat, NEW g \in Nat, NEW l \in Nat,
         NEW m \in Nat, Gives(v, f, k, n), Gives(w, g, l, m)
  PROVE  Gives(v \o w, f + g, k + l, n + m)
<1>1. v \in Seq(Task \ Via) /\ w \in Seq(Task \ Via) /\ v \in Seq(Task) /\ w \in Seq(Task)
  BY DEF Gives
<1>2. v \o w \in Seq(Task \ Via) BY <1>1, ConcatFacts
<1>3. Covered(v \o w) BY <1>1, CoveredConcat DEF Gives
<1>4. \A x : Count(v \o w, x) = Count(v, x) + Count(w, x) BY <1>1, CountConcat
<1>. QED BY <1>2, <1>3, <1>4 DEF Gives

CallbackAction(t) ==
  \/ UnregisterForce(t) \/ UnregisterNotNeeded(t) \/ RunForceCallbacks(t) \/ ForceCallbackDone(t)
  \/ DestroyPromiseCallbacks(t) \/ DestroyNext(t) \/ NotNeededDone(t)

\* A thread that is at DestroyNext, ForceCallbackDone or NotNeededDone has
\* taken the callback itself.
LEMMA TakenHead ==
  ASSUME RInv, NEW t \in Thread, stack[t] # <<>>
  PROVE  Head(stack[t]) \in Allowed
BY DEF RInv, Alive, CallbacksTaken

\* Every way in which a callback leaves the list hands its references on.
LEMMA CallbackAlive ==
  ASSUME RInv, IInv', NEW t \in Thread, CallbackAction(t)
  PROVE  Alive'
<1>0. /\ stack[t] # <<>> /\ UNCHANGED <<refs, counts>>
      /\ Head(stack[t]) \in {"UnregisterForce", "UnregisterNotNeeded", "RunForceCallbacks",
           "ForceCallbackDone", "DestroyPromiseCallbacks", "DestroyNext", "NotNeededDone"}
  BY DEF CallbackAction, UnregisterForce, UnregisterNotNeeded, RunForceCallbacks,
     ForceCallbackDone, DestroyPromiseCallbacks, DestroyNext, NotNeededDone, At
<1>1. Head(stack[t]) \in Task \ {"DecrementCommit", "DecrementForce", "DecrementWeak"}
  BY <1>0 DEF Task
<1>2. Head(stack[t]) \in Allowed BY <1>0, TakenHead
<1>3. t # "listed" /\ t # "gone" BY LifecycleAssumption
<1>4. /\ force_cb' = "listed" => force_cb = "listed"
      /\ not_needed_cb' = "listed" => not_needed_cb = "listed"
  BY <1>3 DEF CallbackAction, UnregisterForce, UnregisterNotNeeded, RunForceCallbacks,
     ForceCallbackDone, DestroyPromiseCallbacks, DestroyNext, NotNeededDone, callbacks
<1>5. Allowed \subseteq Allowed' BY <1>4 DEF Allowed
<1>6. ASSUME NEW w, w \in Seq(Allowed'), Return(t, w), NEW f \in Nat, NEW k \in Nat, NEW n \in Nat,
             Gives(w, f, k, n), TakesOver(Head(stack[t]), f, k, n)
      PROVE  Alive'
  <2>1. Pushes(t, w) BY <1>0, <1>1, <1>5, <1>6 DEF Pushes
  <2>. QED BY <1>6, <2>1, CallbackStep
<1>7. /\ "ReleasePromise" \in Allowed' /\ "DecrementForce" \in Allowed' /\ "DecrementWeak" \in Allowed'
      /\ "RequestAbort" \in Allowed' /\ "RequestCommit" \in Allowed'
      /\ force_cb' # "listed" => "DestroyNext" \in Allowed' /\ "ForceCallbackDone" \in Allowed'
      /\ not_needed_cb' # "listed" => "NotNeededDone" \in Allowed'
  BY DEF Allowed, Task
<1>8. /\ <<>> \in Seq(Allowed') /\ <<"ReleasePromise", "DecrementForce">> \in Seq(Allowed')
      /\ <<"DecrementWeak">> \in Seq(Allowed')
      /\ force_cb' # "listed" =>
           /\ <<"DestroyNext">> \in Seq(Allowed')
           /\ <<"RequestCommit", "ReleasePromise", "DecrementForce", "ForceCallbackDone">>
                \in Seq(Allowed')
      /\ not_needed_cb' # "listed" => RunNotNeeded \in Seq(Allowed')
  BY <1>7 DEF RunNotNeeded
<1>9. CASE UnregisterForce(t)
  <2>1. CASE force_cb = "listed"
    <3>1. Return(t, <<"ReleasePromise", "DecrementForce">>)
      BY <1>9, <2>1 DEF UnregisterForce, If
    <3>2. TakesOver(Head(stack[t]), 1, 0, 0)
      BY <1>9, <2>1 DEF UnregisterForce, At, TakesOver, Listed, Is
    <3>. QED BY <1>6, <1>8, <3>1, <3>2, GivesForce
  <2>2. CASE force_cb # "listed"
    <3>1. Return(t, <<>>) BY <1>9, <2>2 DEF UnregisterForce, If
    <3>2. TakesOver(Head(stack[t]), 0, 0, 0)
      BY <1>9, <2>2 DEF UnregisterForce, At, TakesOver, Listed, Is
    <3>. QED BY <1>6, <1>8, <3>1, <3>2, GivesNothing
  <2>. QED BY <2>1, <2>2
<1>10. CASE UnregisterNotNeeded(t)
  <2>1. CASE not_needed_cb = "listed"
    <3>1. Return(t, <<"DecrementWeak">>) BY <1>10, <2>1 DEF UnregisterNotNeeded, If
    <3>2. TakesOver(Head(stack[t]), 0, 1, 0)
      BY <1>10, <2>1 DEF UnregisterNotNeeded, At, TakesOver, Listed, Is
    <3>. QED BY <1>6, <1>8, <3>1, <3>2, GivesWeak
  <2>2. CASE not_needed_cb # "listed"
    <3>1. Return(t, <<>>) BY <1>10, <2>2 DEF UnregisterNotNeeded, If
    <3>2. TakesOver(Head(stack[t]), 0, 0, 0)
      BY <1>10, <2>2 DEF UnregisterNotNeeded, At, TakesOver, Listed, Is
    <3>. QED BY <1>6, <1>8, <3>1, <3>2, GivesNothing
  <2>. QED BY <2>1, <2>2
<1>11. CASE RunForceCallbacks(t)
  <2>1. CASE force_cb = "listed"
    <3>1. Return(t, <<"RequestCommit", "ReleasePromise", "DecrementForce", "ForceCallbackDone">>)
      BY <1>11, <2>1 DEF RunForceCallbacks, If
    <3>2. TakesOver(Head(stack[t]), 1, 0, 0) /\ force_cb' # "listed"
      BY <1>3, <1>11, <2>1 DEF RunForceCallbacks, At, TakesOver, Listed, Is
    <3>. QED BY <1>6, <1>8, <3>1, <3>2, GivesForced
  <2>2. CASE force_cb # "listed"
    <3>1. Return(t, <<>>) BY <1>11, <2>2 DEF RunForceCallbacks, If
    <3>2. TakesOver(Head(stack[t]), 0, 0, 0)
      BY <1>11, <2>2 DEF RunForceCallbacks, At, TakesOver, Listed, Is
    <3>. QED BY <1>6, <1>8, <3>1, <3>2, GivesNothing
  <2>. QED BY <2>1, <2>2
<1>12. CASE ForceCallbackDone(t)
  <2>1. Return(t, <<>>) /\ force_cb # "listed" BY <1>2, <1>12 DEF ForceCallbackDone, At, Allowed
  <2>2. TakesOver(Head(stack[t]), 0, 0, 0)
    BY <1>12, <2>1 DEF ForceCallbackDone, At, TakesOver, Listed, Is
  <2>. QED BY <1>6, <1>8, <2>1, <2>2, GivesNothing
<1>13. CASE NotNeededDone(t)
  <2>1. Return(t, <<>>) /\ not_needed_cb # "listed"
    BY <1>2, <1>13 DEF NotNeededDone, At, Allowed
  <2>2. TakesOver(Head(stack[t]), 0, 0, 0)
    BY <1>13, <2>1 DEF NotNeededDone, At, TakesOver, Listed, Is
  <2>. QED BY <1>6, <1>8, <2>1, <2>2, GivesNothing
<1>14. CASE DestroyPromiseCallbacks(t)
  <2>0. Head(stack[t]) = "DestroyPromiseCallbacks" BY <1>14 DEF DestroyPromiseCallbacks, At
  <2>1. CASE force_cb = "listed"
    <3>1. Return(t, <<"DestroyNext">>) /\ force_cb' = t /\ not_needed_cb' = not_needed_cb
      BY <1>14, <2>1 DEF DestroyPromiseCallbacks
    <3>2. TakesOver(Head(stack[t]), 0, 0, 1) /\ force_cb' # "listed"
      BY <1>3, <2>0, <2>1, <3>1 DEF TakesOver, Listed, Is
    <3>. QED BY <1>6, <1>8, <3>1, <3>2, GivesNext
  <2>2. CASE force_cb # "listed" /\ not_needed_cb = "listed"
    <3>1. Return(t, RunNotNeeded) /\ not_needed_cb' = t /\ force_cb' = force_cb
      BY <1>14, <2>2 DEF DestroyPromiseCallbacks
    <3>2. TakesOver(Head(stack[t]), 0, 1, 0) /\ not_needed_cb' # "listed"
      BY <1>3, <2>0, <2>2, <3>1 DEF TakesOver, Listed, Is
    <3>. QED BY <1>6, <1>8, <3>1, <3>2, GivesNotNeeded
  <2>3. CASE force_cb # "listed" /\ not_needed_cb # "listed"
    <3>1. Return(t, <<>>) /\ not_needed_cb' = not_needed_cb /\ force_cb' = force_cb
      BY <1>14, <2>3 DEF DestroyPromiseCallbacks, callbacks
    <3>2. TakesOver(Head(stack[t]), 0, 0, 0) BY <2>0, <2>3, <3>1 DEF TakesOver, Listed, Is
    <3>. QED BY <1>6, <1>8, <3>1, <3>2, GivesNothing
  <2>. QED BY <2>1, <2>2, <2>3
<1>15. CASE DestroyNext(t)
  <2>. DEFINE v == <<"ReleasePromise", "DecrementForce">>
  <2>1. Head(stack[t]) = "DestroyNext" /\ force_cb # "listed" /\ force_cb' = "gone"
    BY <1>2, <1>15 DEF DestroyNext, At, Allowed
  <2>2. CASE not_needed_cb = "listed"
    <3>1. Return(t, v \o RunNotNeeded) /\ not_needed_cb' = t BY <1>15, <2>2 DEF DestroyNext, If
    <3>2. TakesOver(Head(stack[t]), 1, 1, 0) /\ not_needed_cb' # "listed"
      BY <1>3, <2>1, <2>2, <3>1 DEF TakesOver, Listed, Is
    <3>3. v \in Seq(Allowed') /\ RunNotNeeded \in Seq(Allowed') /\ Gives(v, 1, 0, 0)
      BY <1>8, <3>2, GivesForce
    <3>. HIDE DEF v
    <3>4. Gives(v \o RunNotNeeded, 1 + 0, 0 + 1, 0 + 0) BY <3>3, GivesNotNeeded, GivesBoth
    <3>5. Gives(v \o RunNotNeeded, 1, 1, 0) BY <3>4
    <3>6. v \o RunNotNeeded \in Seq(Allowed') BY <3>3, ConcatFacts
    <3>. QED BY <1>6, <3>1, <3>2, <3>5, <3>6
  <2>3. CASE not_needed_cb # "listed"
    <3>1. Return(t, v \o <<>>) /\ not_needed_cb' = not_needed_cb
      BY <1>15, <2>3 DEF DestroyNext, If
    <3>2. v \o <<>> = v OBVIOUS
    <3>3. TakesOver(Head(stack[t]), 1, 0, 0) BY <2>1, <2>3, <3>1 DEF TakesOver, Listed, Is
    <3>. QED BY <1>6, <1>8, <3>1, <3>2, <3>3, GivesForce
  <2>. QED BY <2>2, <2>3
<1>. QED BY <1>9, <1>10, <1>11, <1>12, <1>13, <1>14, <1>15 DEF CallbackAction

-----------------------------------------------------------------------------
(* The transaction lives as long as it is used.                            *)

LEMMA InitAlive == Init => Alive
<1>. SUFFICES ASSUME Init PROVE Alive OBVIOUS
<1>1. \A t \in Thread : stack[t] = <<>> BY DEF Init
<1>2. ASSUME NEW x PROVE Pending(x) = 0 /\ Busy(x) = {}
  <2>1. Places(Thread, x) = {} BY <1>1 DEF Places, Positions
  <2>2. Pending(x) = Cardinality(Places(Thread, x)) BY DEF Pending, Positions, Places
  <2>. QED BY <1>1, <2>1, <2>2, FS_EmptySet DEF Busy
<1>3. StacksCovered /\ CallbacksTaken
  <2>1. <<>> \in Seq(Allowed) OBVIOUS
  <2>2. CallbacksTaken BY <1>1, <2>1 DEF CallbacksTaken
  <2>3. StacksCovered BY <1>1, CoveredEmpty, Zenon DEF StacksCovered
  <2>. QED BY <2>2, <2>3
<1>4. CallersHold BY <1>2 DEF CallersHold
<1>5. ReferencesCounted
  BY <1>2, LifecycleAssumption DEF Init, ReferencesCounted, kCommitReferenceIncrement,
     kFutureReferenceIncrement
<1>. QED BY <1>3, <1>4, <1>5 DEF Alive

LEMMA NextRInv == RInv /\ [Next]_vars => RInv'
<1>. SUFFICES ASSUME RInv, [Next]_vars
              PROVE  RInv'
  OBVIOUS
<1>1. IInv' BY NextIInv DEF RInv
<1>2. CASE UNCHANGED vars
  <2>1. UNCHANGED <<stack, handles, open_ptrs, blocks, nodes, counts, callbacks>>
    BY <1>2 DEF vars, refs
  <2>. QED
    BY <1>1, <2>1 DEF RInv, Alive, ReferencesCounted, Pending, StacksCovered, CallbacksTaken,
       Allowed, CallersHold, Busy, counts, callbacks
<1>3. CASE Next
  <2>1. ASSUME NEW t \in Thread, Step(t)
        PROVE  Alive'
    BY <1>1, <2>1, LockedAlive, FutureAlive, DecrementAlive, DecrementWeakAlive, CallbackAlive
    DEF Step, LockedStep, FutureStep, CallbackAction
  <2>2. ASSUME NEW t \in Thread, Acquire(t) \/ Release(t) \/ Request(t) \/ NodeDone(t) \/ NodeSetError(t)
        PROVE  Alive'
    BY <1>1, <2>2, AcquireAlive, ReleaseAlive, CallAlive DEF Release, CallStep
  <2>3. CASE Terminated BY <1>2, <2>3 DEF Terminated, RInv
  <2>. QED BY <1>1, <1>3, <2>1, <2>2, <2>3 DEF Next, RInv
<1>. QED BY <1>2, <1>3

LEMMA InductiveReferences == Spec => []RInv
<1>1. Init => RInv BY InitIInv, InitAlive DEF RInv
<1>. QED BY <1>1, NextRInv, PTL DEF Spec

\* The counts stand for the references that exist, at every step of every
\* release that is under way, for any number of threads: each decrement that
\* a thread still has to make is counted, and so is each callback that is still
\* registered or is being destroyed.
THEOREM CountsAreExact == Spec => []ReferencesCounted
<1>1. RInv => ReferencesCounted BY DEF RInv, Alive
<1>. QED BY <1>1, InductiveReferences, PTL

\* When the last weak reference is given back and the TransactionState is
\* deleted, no client holds it and no thread has work left that touches it.
THEOREM DeletedWhenUnused == Spec => []NoUseAfterFree
<1>1. RInv => NoUseAfterFree
  <2>. SUFFICES ASSUME RInv, weak_reference_count = 0
                PROVE  /\ handles + open_ptrs + blocks + nodes = 0
                       /\ \A t \in Thread : \A i \in 1 .. Len(stack[t]) :
                            stack[t][i] \notin TouchesTransaction
    BY DEF NoUseAfterFree
  <2>0. StackOK /\ Alive BY DEF RInv, IInv, TypeOK, StackOK
  <2>1. ASSUME NEW x PROVE Pending(x) \in Nat
    <3>1. Pending(x) = Cardinality(Places(Thread, x)) BY DEF Pending, Positions, Places
    <3>. QED BY <2>0, <3>1, PendingFinite, FS_CardinalityType
  <2>2. /\ handles = 0 /\ open_ptrs = 0 /\ blocks = 0 /\ nodes = 0
        /\ Pending("DecrementCommit") = 0 /\ Pending("DecrementForce") = 0
        /\ Pending("DecrementWeak") = 0
    <3>1. /\ Pending("DecrementCommit") \in Nat /\ Pending("DecrementForce") \in Nat
          /\ Pending("DecrementWeak") \in Nat /\ Pending("DestroyNext") \in Nat
      BY <2>1
    <3>2. /\ handles \in Nat /\ open_ptrs \in Nat /\ blocks \in Nat /\ nodes \in Nat
      BY DEF RInv, IInv, TypeOK
    <3>3. Listed(force_cb) \in Nat /\ Listed(not_needed_cb) \in Nat BY DEF Listed
    <3>4. weak_reference_count = handles + open_ptrs + blocks + nodes
            + Pending("DecrementCommit") + Pending("DecrementForce")
            + Pending("DecrementWeak") + Pending("DestroyNext")
            + Listed(force_cb) + Listed(not_needed_cb)
      BY <2>0 DEF Alive, ReferencesCounted, Listed
    <3>. DEFINE a == handles + open_ptrs + blocks + nodes
                p == Pending("DecrementCommit")
                q == Pending("DecrementForce")
                r == Pending("DecrementWeak")
                d == Pending("DestroyNext")
                lf == Listed(force_cb)
                ln == Listed(not_needed_cb)
    <3>5. /\ a \in Nat /\ p \in Nat /\ q \in Nat /\ r \in Nat /\ d \in Nat /\ lf \in Nat /\ ln \in Nat
          /\ a + p + q + r + d + lf + ln = 0
      BY <3>1, <3>2, <3>3, <3>4
    <3>6. a = 0 /\ p = 0 /\ q = 0 /\ r = 0
      <4>. HIDE DEF a, p, q, r, d, lf, ln
      <4>. QED BY <3>5
    <3>. QED BY <3>2, <3>6
  <2>3. ASSUME NEW t \in Thread, NEW j \in 1 .. Len(stack[t])
        PROVE  stack[t][j] \notin Holding
    <3>1. /\ stack[t][j] # "DecrementCommit" /\ stack[t][j] # "DecrementForce"
          /\ stack[t][j] # "DecrementWeak"
      BY <2>0, <2>2, PendingNowhere
    <3>2. Busy("via_handle") = {} /\ Busy("via_open") = {} /\ Busy("via_node") = {}
      BY <2>0, <2>2 DEF Alive, CallersHold
    <3>3. stack[t] \in Seq(Task) /\ stack[t] # <<>> BY <2>0 DEF StackOK
    <3>4. stack[t][j] \in Via => stack[t][Len(stack[t])] = stack[t][j]
      BY <2>0 DEF Alive, StacksCovered, ViaLast
    <3>5. stack[t][j] \notin {"via_handle", "via_open", "via_node"}
      BY <3>2, <3>3, <3>4 DEF Busy, Via
    <3>. QED BY <3>1, <3>5 DEF Holding
  <2>4. ASSUME NEW t \in Thread, NEW i \in 1 .. Len(stack[t]), stack[t][i] \in TouchesTransaction
        PROVE  FALSE
    <3>1. PICK j \in i .. Len(stack[t]) : stack[t][j] \in Holding
      BY <2>0, <2>4 DEF Alive, StacksCovered, Covered
    <3>2. j \in 1 .. Len(stack[t]) BY <2>0, <3>1 DEF StackOK
    <3>. QED BY <2>3, <3>1, <3>2
  <2>. QED BY <2>2, <2>4
<1>. QED BY <1>1, InductiveReferences, PTL

-----------------------------------------------------------------------------
(* What becomes of the promise, and that nothing is left behind.           *)

Executes == {"ExecuteCommit", "ExecuteAbort"}
Requested == commit_state \in {"kOpenAndCommitRequested", "kAbortRequested"}
Decided == commit_state \in {"kCommitStarted", "kAborted"}
Aborting == commit_state \in {"kAbortRequested", "kAborted"}
Locked == "kResultLocked" \in future_state

One(b) == IF b THEN 1 ELSE 0

\* References to the promise and to the future: the members of the transaction,
\* the callback that is registered, the clients and the releases under way.
PromiseCounted ==
  promise_refs = One(own_promise) + Listed(force_cb) + Pending("DestroyNext") + Pending("ReleasePromise")
FutureCounted == future_refs = One(own_future) + user_futures + Pending("ReleaseFuture")

\* The force callback's references are given back once.
ForceOnce == Listed(force_cb) + Pending("DestroyNext") + Pending("DecrementForce") <= 1

\* Execution follows the decision, and the decision is followed by execution.
ExecutedAsDecided ==
  /\ executed = "commit" => commit_state = "kCommitStarted"
  /\ executed = "abort" => commit_state = "kAborted"
  /\ Decided => executed # "none" \/ Pending("ExecuteCommit") > 0 \/ Pending("ExecuteAbort") > 0
  /\ executed # "none" => force_cb # "listed" /\ not_needed_cb # "listed"

\* A request that had to wait is carried out by whoever opened the transaction.
RequestCarried == Requested => open_reference_count > 0 \/ Pending("NoMoreOpenReferences") > 0

\* The promise is kept until the nodes are done.
PromiseOwned == own_promise <=> executed = "none" \/ nodes # 0

\* The last commit reference takes the future, the last future reference the
\* callbacks, and the callback that says that nobody waits asks for the abort.
NotNeededAborts ==
  /\ not_needed_cb # "listed" /\ commit_state = "kOpen" => Pending("RequestAbort") > 0
  /\ commit_state = "kOpen" /\ handles + open_ptrs + Pending("DecrementCommit") = 0
       => ~own_future \/ Pending("NoMoreCommitReferences") > 0
  /\ future_refs = 0 => \/ not_needed_cb # "listed"
                        \/ Pending("DestroyPromiseCallbacks") > 0
                        \/ Pending("DestroyNext") > 0

\* The result: ready exactly when no promise is left, and an error if the
\* transaction is aborted.
ResultInv ==
  /\ promise_refs = 0 <=> "kReady" \in future_state \/ Pending("WriteResultAndReady") > 0
  /\ "kReady" \in future_state \/ Pending("WriteResultAndReady") > 0 => Locked
  /\ Locked => \/ "kResultWritten" \in future_state
               \/ Pending("WriteResult") > 0
               \/ Pending("WriteResultAndReady") > 0
  /\ "kResultWritten" \in future_state \/ Pending("WriteResultAndReady") > 0 =>
       result = "error" \/ (promise_refs = 0 /\ ~Aborting)

\* An abort sets the error before it gives back its reference to the promise.
Defers(s) == \E i, j \in 1 .. Len(s) : i < j /\ s[i] = "SetDeferredResult" /\ s[j] = "ReleasePromise"

ErrorDeferred == Aborting => Locked \/ \E t \in Thread : Defers(stack[t])

\* Each piece of work that belongs to a decision is done after it, and
\* execution after the callbacks are unregistered.
Timely == {x \in Task : /\ x = "ExecuteCommit" => commit_state = "kCommitStarted"
                        /\ x = "ExecuteAbort" => commit_state = "kAborted"
                        /\ x \in {"UnregisterForce", "UnregisterNotNeeded"} => Decided}

First(a, s) == \A i \in 1 .. Len(s) : s[i] \in Executes => \E j \in 1 .. Len(s) : j < i /\ s[j] = a

WorkInOrder ==
  /\ \A t \in Thread : stack[t] \in Seq(Timely)
  /\ force_cb = "listed" => \A t \in Thread : First("UnregisterForce", stack[t])
  /\ not_needed_cb = "listed" => \A t \in Thread : First("UnregisterNotNeeded", stack[t])

Tallies == /\ PromiseCounted /\ FutureCounted /\ ForceOnce /\ ExecutedAsDecided
           /\ RequestCarried /\ PromiseOwned /\ NotNeededAborts /\ ResultInv

EndInv == RInv /\ Tallies /\ ErrorDeferred /\ WorkInOrder

-----------------------------------------------------------------------------
(* What a step does to the stacks.                                         *)

\* Thread t goes on with w, in an idle thread or in place of a piece of work.
Does(t, w) == \/ Idle(t) /\ Call(t, w)
              \/ ~Idle(t) /\ Return(t, w)

Popped(t) == IF Idle(t) THEN "none" ELSE Head(stack[t])

\* The pieces that the invariant counts.
Tallied == {"DecrementCommit", "DecrementForce", "DestroyNext", "ReleasePromise", "ReleaseFuture",
            "ExecuteCommit", "ExecuteAbort", "NoMoreOpenReferences", "NoMoreCommitReferences",
            "RequestAbort", "DestroyPromiseCallbacks", "WriteResult", "WriteResultAndReady"}

Moved(out, w) == \A x \in Tallied :
                   /\ Pending(x) \in Nat /\ Pending(x)' \in Nat
                   /\ Is(out, x) <= Pending(x)
                   /\ Pending(x)' = Pending(x) - Is(out, x) + Count(w, x)

\* The new stack of the thread.
LEMMA DoesStack ==
  ASSUME StackOK, NEW t \in Thread, NEW w \in Seq(Task), Does(t, w)
  PROVE  \E s \in Seq(Task) :
           /\ stack' = [stack EXCEPT ![t] = s] /\ stack'[t] = s
           /\ \A u \in Thread \ {t} : stack'[u] = stack[u]
           /\ Idle(t) => s = w
           /\ ~Idle(t) => /\ stack[t] # <<>> /\ stack[t] \in Seq(Task)
                          /\ \/ s = w \o Tail(stack[t])
                             \/ /\ s = <<>> /\ Len(w \o Tail(stack[t])) = 1
                                /\ (w \o Tail(stack[t]))[1] \in Via
<1>1. CASE Idle(t) BY <1>1 DEF Does, Call, StackOK
<1>2. CASE ~Idle(t)
  <2>. DEFINE rest == w \o Tail(stack[t])
              s == IF Len(rest) = 1 /\ Head(rest) \in Via THEN <<>> ELSE rest
  <2>1. stack[t] # <<>> /\ stack[t] \in Seq(Task) BY <1>2 DEF Idle, StackOK
  <2>2. rest \in Seq(Task) BY <2>1, ConcatType
  <2>3. s \in Seq(Task) /\ (s = rest \/ (s = <<>> /\ Len(rest) = 1 /\ rest[1] \in Via))
    <3>. HIDE DEF rest
    <3>. QED BY <2>2, EmptySeq
  <2>4. stack' = [stack EXCEPT ![t] = s] BY <1>2 DEF Does, Return
  <2>. HIDE DEF rest, s
  <2>5. stack'[t] = s /\ \A u \in Thread \ {t} : stack'[u] = stack[u] BY <2>4 DEF StackOK
  <2>. QED BY <1>2, <2>1, <2>3, <2>4, <2>5 DEF rest
<1>. QED BY <1>1, <1>2

\* What it does to the number of pieces that are pending.
LEMMA DoesCounts ==
  ASSUME StackOK, NEW t \in Thread, NEW w \in Seq(Task), Does(t, w)
  PROVE  Moved(Popped(t), w)
<1>. SUFFICES ASSUME NEW x \in Tallied
              PROVE  /\ Pending(x) \in Nat /\ Pending(x)' \in Nat
                     /\ Is(Popped(t), x) <= Pending(x)
                     /\ Pending(x)' = Pending(x) - Is(Popped(t), x) + Count(w, x)
  BY DEF Moved
<1>0. x # "none" /\ x \notin Via BY DEF Tallied, Via
<1>1. PICK s \in Seq(Task) :
           /\ stack' = [stack EXCEPT ![t] = s]
           /\ Idle(t) => s = w
           /\ ~Idle(t) => /\ stack[t] # <<>> /\ stack[t] \in Seq(Task)
                          /\ \/ s = w \o Tail(stack[t])
                             \/ /\ s = <<>> /\ Len(w \o Tail(stack[t])) = 1
                                /\ (w \o Tail(stack[t]))[1] \in Via
  BY DoesStack
<1>2. /\ Pending(x) \in Nat /\ Pending(x)' \in Nat
      /\ Pending(x)' = Pending(x) - Count(stack[t], x) + Count(s, x)
      /\ Count(stack[t], x) <= Pending(x)
  BY <1>1, PendingChange
<1>3. CASE Idle(t)
  <2>1. Count(stack[t], x) = 0 /\ Is(Popped(t), x) = 0
    BY <1>0, <1>3, CountEmpty DEF Idle, Popped, Is
  <2>. QED BY <1>1, <1>2, <1>3, <2>1
<1>4. CASE ~Idle(t)
  <2>1. stack[t] # <<>> /\ stack[t] \in Seq(Task) /\ Popped(t) = Head(stack[t])
    BY <1>1, <1>4 DEF Popped
  <2>2. /\ Tail(stack[t]) \in Seq(Task)
        /\ Count(stack[t], x) = Is(Popped(t), x) + Count(Tail(stack[t]), x)
    BY <2>1, CountTail
  <2>. DEFINE rest == w \o Tail(stack[t])
  <2>3. rest \in Seq(Task) /\ Count(rest, x) = Count(w, x) + Count(Tail(stack[t]), x)
    BY <2>2, ConcatType, CountConcat
  <2>4. s = rest \/ (s = <<>> /\ Len(rest) = 1 /\ rest[1] \in Via) BY <1>1, <1>4
  <2>. HIDE DEF rest
  <2>5. Count(s, x) = Count(rest, x)
    <3>1. CASE s = rest BY <3>1
    <3>2. CASE s = <<>> /\ Len(rest) = 1 /\ rest[1] \in Via
      <4>1. rest = <<rest[1]>> /\ rest[1] # x BY <1>0, <2>3, <3>2
      <4>2. Count(<<rest[1]>>, x) = 0 BY <4>1, CountPiece DEF Is
      <4>. QED BY <3>2, <4>1, <4>2, CountEmpty
    <3>. QED BY <2>4, <3>1, <3>2
  <2>6. Count(w, x) \in Nat /\ Count(Tail(stack[t]), x) \in Nat /\ Is(Popped(t), x) \in Nat
    BY <2>2, CountType DEF Is
  <2>. QED BY <1>2, <2>2, <2>3, <2>5, <2>6
<1>. QED BY <1>3, <1>4

\* A step that leaves the stacks alone.
LEMMA SameCounts ==
  ASSUME StackOK, UNCHANGED stack
  PROVE  \A x \in Tallied : Pending(x) \in Nat /\ Pending(x)' = Pending(x)
<1>. SUFFICES ASSUME NEW x \in Tallied PROVE Pending(x) \in Nat /\ Pending(x)' = Pending(x)
  OBVIOUS
<1>1. IsFiniteSet(Places(Thread, x)) BY PendingFinite
<1>2. Pending(x) = Cardinality(Places(Thread, x)) BY DEF Pending, Positions, Places
<1>3. Pending(x)' = Pending(x) BY DEF Pending
<1>. QED BY <1>1, <1>2, <1>3, FS_CardinalityType

\* A piece that is pending is in the stack of some thread.
LEMMA PendingSomewhere ==
  ASSUME StackOK, NEW x, Pending(x) > 0
  PROVE  \E u \in Thread : \E i \in 1 .. Len(stack[u]) : stack[u][i] = x
<1>. SUFFICES ASSUME \A u \in Thread : \A i \in 1 .. Len(stack[u]) : stack[u][i] # x
              PROVE  Pending(x) = 0
  OBVIOUS
<1>1. \A u \in Thread : Positions(stack[u], x) = {} BY DEF Positions, StackOK
<1>2. Places(Thread, x) = {} BY <1>1 DEF Places
<1>3. Pending(x) = Cardinality(Places(Thread, x)) BY DEF Pending, Positions, Places
<1>. QED BY <1>2, <1>3, FS_EmptySet

-----------------------------------------------------------------------------
(* The order of the work in a stack.                                       *)

\* Work that may be pushed: after the decision it belongs to, and with the
\* callbacks unregistered before an execution.
Sound(w) == /\ w \in Seq(Task) /\ w \in Seq(Timely')
            /\ First("UnregisterForce", w) /\ First("UnregisterNotNeeded", w)

\* The order holds of work that is put together from work in order.
LEMMA FirstConcat ==
  ASSUME NEW a, NEW u \in Seq(Task), NEW v \in Seq(Task), First(a, u), First(a, v)
  PROVE  First(a, u \o v)
<1>1. /\ Len(u) \in Nat /\ Len(v) \in Nat
      /\ Len(u \o v) = Len(u) + Len(v)
      /\ \A i \in 1 .. Len(u) : (u \o v)[i] = u[i]
      /\ \A i \in 1 .. Len(v) : (u \o v)[i + Len(u)] = v[i]
      /\ \A i \in 1 .. Len(u) + Len(v) :
           ~ (i <= Len(u)) => /\ i - Len(u) \in 1 .. Len(v)
                              /\ (u \o v)[i] = v[i - Len(u)]
  BY ConcatFacts
<1>. SUFFICES ASSUME NEW i \in 1 .. Len(u) + Len(v), (u \o v)[i] \in Executes
              PROVE  \E j \in 1 .. Len(u) + Len(v) : j < i /\ (u \o v)[j] = a
  BY <1>1 DEF First
<1>2. CASE i <= Len(u)
  <2>1. i \in 1 .. Len(u) /\ u[i] \in Executes BY <1>1, <1>2
  <2>2. PICK j \in 1 .. Len(u) : j < i /\ u[j] = a BY <2>1 DEF First
  <2>3. j \in 1 .. Len(u) + Len(v) BY <1>1, <2>2
  <2>. QED BY <1>1, <2>2, <2>3
<1>3. CASE ~ (i <= Len(u))
  <2>1. i - Len(u) \in 1 .. Len(v) /\ v[i - Len(u)] \in Executes BY <1>1, <1>3
  <2>2. PICK j \in 1 .. Len(v) : j < i - Len(u) /\ v[j] = a BY <2>1 DEF First
  <2>3. j + Len(u) \in 1 .. Len(u) + Len(v) /\ j + Len(u) < i BY <1>1, <2>1, <2>2
  <2>. QED BY <1>1, <2>2, <2>3
<1>. QED BY <1>2, <1>3

\* An execution is not at the head; popping another piece keeps the order.
LEMMA FirstTail ==
  ASSUME NEW a, NEW s \in Seq(Task), s # <<>>, First(a, s)
  PROVE  Head(s) \notin Executes /\ (Head(s) # a => First(a, Tail(s)))
<1>1. /\ Tail(s) \in Seq(Task) /\ Head(s) = s[1]
      /\ Len(s) \in Nat \ {0} /\ Len(Tail(s)) = Len(s) - 1
      /\ \A i \in 1 .. Len(Tail(s)) : Tail(s)[i] = s[i + 1] /\ i + 1 \in 1 .. Len(s)
      /\ \A i \in 2 .. Len(s) : s[i] = Tail(s)[i - 1] /\ i - 1 \in 1 .. Len(Tail(s))
  BY TailFacts
<1>. DEFINE r == Tail(s)
            n == Len(s)
<1>. HIDE DEF r
<1>2. Head(s) \notin Executes BY <1>1 DEF First
<1>3. ASSUME Head(s) # a, NEW i \in 1 .. Len(r), r[i] \in Executes
      PROVE  \E j \in 1 .. Len(r) : j < i /\ r[j] = a
  <2>1. i + 1 \in 1 .. n /\ s[i + 1] \in Executes BY <1>1, <1>3 DEF r
  <2>2. PICK j \in 1 .. n : j < i + 1 /\ s[j] = a BY <2>1 DEF First
  <2>3. j \in 2 .. n BY <1>1, <1>3, <2>2
  <2>4. j - 1 \in 1 .. Len(r) /\ r[j - 1] = a /\ j - 1 < i BY <1>1, <2>2, <2>3 DEF r
  <2>. QED BY <2>4
<1>. QED BY <1>2, <1>3 DEF First, r

\* Work that executes nothing is in order.
LEMMA FirstNone ==
  ASSUME NEW a, NEW w \in Seq(Task \ Executes)
  PROVE  First(a, w)
BY DEF First

\* The order is kept by a step that pushes sound work, until the callback is
\* unregistered.
LEMMA FirstDoes ==
  ASSUME StackOK, NEW t \in Thread, NEW w \in Seq(Task), Does(t, w), NEW a,
         \A u \in Thread : First(a, stack[u]), First(a, w), Popped(t) # a
  PROVE  \A u \in Thread : First(a, stack'[u])
<1>1. PICK s \in Seq(Task) :
           /\ stack'[t] = s
           /\ \A u \in Thread \ {t} : stack'[u] = stack[u]
           /\ Idle(t) => s = w
           /\ ~Idle(t) => /\ stack[t] # <<>> /\ stack[t] \in Seq(Task)
                          /\ s = w \o Tail(stack[t]) \/ s = <<>>
  BY DoesStack
<1>2. First(a, <<>>) BY DEF First
<1>3. First(a, s)
  <2>1. CASE Idle(t) BY <1>1, <2>1
  <2>2. CASE ~Idle(t)
    <3>1. First(a, Tail(stack[t])) /\ Tail(stack[t]) \in Seq(Task)
      BY <1>1, <2>2, FirstTail DEF Popped
    <3>2. First(a, w \o Tail(stack[t])) BY <3>1, FirstConcat
    <3>. QED BY <1>1, <1>2, <2>2, <3>2
  <2>. QED BY <2>1, <2>2
<1>. QED BY <1>1, <1>3

\* A step that pushes sound work keeps all work in order.
LEMMA OrderDoes ==
  ASSUME StackOK, WorkInOrder, NEW t \in Thread, NEW w, Does(t, w), Sound(w), Timely \subseteq Timely',
         force_cb' = "listed" => force_cb = "listed" /\ Popped(t) # "UnregisterForce",
         not_needed_cb' = "listed" => not_needed_cb = "listed" /\ Popped(t) # "UnregisterNotNeeded"
  PROVE  WorkInOrder'
<1>0. w \in Seq(Task) /\ w \in Seq(Timely') BY DEF Sound
<1>1. PICK s \in Seq(Task) :
           /\ stack'[t] = s
           /\ \A u \in Thread \ {t} : stack'[u] = stack[u]
           /\ Idle(t) => s = w
           /\ ~Idle(t) => /\ stack[t] # <<>> /\ stack[t] \in Seq(Task)
                          /\ s = w \o Tail(stack[t]) \/ s = <<>>
  BY <1>0, DoesStack
<1>2. \A u \in Thread : stack[u] \in Seq(Timely')
  <2>1. \A r \in Seq(Timely) : r \in Seq(Timely') OBVIOUS
  <2>. QED BY <2>1 DEF WorkInOrder
<1>3. s \in Seq(Timely')
  <2>1. <<>> \in Seq(Timely') OBVIOUS
  <2>2. CASE ~Idle(t)
    <3>1. Tail(stack[t]) \in Seq(Timely') BY <1>1, <1>2, <2>2
    <3>2. w \o Tail(stack[t]) \in Seq(Timely') BY <1>0, <3>1, ConcatFacts
    <3>. QED BY <1>1, <2>1, <2>2, <3>2
  <2>. QED BY <1>0, <1>1, <2>2
<1>4. \A u \in Thread : stack'[u] \in Seq(Timely') BY <1>1, <1>2, <1>3
<1>5. force_cb' = "listed" => \A u \in Thread : First("UnregisterForce", stack'[u])
  BY <1>0, FirstDoes DEF WorkInOrder, Sound
<1>6. not_needed_cb' = "listed" => \A u \in Thread : First("UnregisterNotNeeded", stack'[u])
  BY <1>0, FirstDoes DEF WorkInOrder, Sound
<1>7. \A a, u : First(a, stack[u])' = First(a, stack'[u]) BY DEF First
<1>. QED BY <1>4, <1>5, <1>6 DEF WorkInOrder, First

\* The work that steps push is sound.
LEMMA SoundWork ==
  /\ Sound(<<>>)
  /\ \A a \in Timely' \ Executes : Sound(<<a>>)
  /\ \A c : \A w : Sound(w) => Sound(If(c, w))
  /\ \A u, v : Sound(u) /\ Sound(v) => Sound(u \o v)
  /\ commit_state' = "kCommitStarted" => Sound(ExecuteCommitWork)
  /\ commit_state' = "kAborted" => Sound(ExecuteAbortWork)
<1>1. Sound(<<>>) BY DEF Sound, First
<1>2. ASSUME NEW a \in Timely' \ Executes PROVE Sound(<<a>>)
  <2>1. a \in Task \ Executes BY DEF Timely
  <2>2. <<a>> \in Seq(Task \ Executes) /\ <<a>> \in Seq(Timely') /\ <<a>> \in Seq(Task) BY <2>1
  <2>. QED BY <2>2, FirstNone DEF Sound
<1>3. ASSUME NEW c, NEW w, Sound(w) PROVE Sound(If(c, w)) BY <1>1, <1>3 DEF If
<1>4. ASSUME NEW u, NEW v, Sound(u), Sound(v) PROVE Sound(u \o v)
  <2>1. u \in Seq(Task) /\ v \in Seq(Task) /\ u \in Seq(Timely') /\ v \in Seq(Timely')
    BY <1>4 DEF Sound
  <2>2. u \o v \in Seq(Task) /\ u \o v \in Seq(Timely') BY <2>1, ConcatFacts
  <2>. QED BY <1>4, <2>1, <2>2, FirstConcat DEF Sound
<1>5. ASSUME NEW e \in Executes, {"UnregisterForce", "UnregisterNotNeeded", e} \subseteq Timely'
      PROVE  Sound(<<"UnregisterForce", "UnregisterNotNeeded", e>>)
  <2>. DEFINE w == <<"UnregisterForce", "UnregisterNotNeeded", e>>
  <2>1. w \in Seq(Timely') /\ w \in Seq(Task) BY <1>5 DEF Timely
  <2>2. /\ Len(w) = 3 /\ w[1] = "UnregisterForce" /\ w[2] = "UnregisterNotNeeded" /\ w[3] = e
        /\ 1 .. 3 = {1, 2, 3}
    OBVIOUS
  <2>3. "UnregisterForce" \notin Executes /\ "UnregisterNotNeeded" \notin Executes
    BY DEF Executes
  <2>. HIDE DEF w
  <2>4. First("UnregisterForce", w) /\ First("UnregisterNotNeeded", w) BY <2>2, <2>3 DEF First
  <2>. QED BY <2>1, <2>4 DEF Sound, w
<1>6. ASSUME commit_state' = "kCommitStarted" PROVE Sound(ExecuteCommitWork)
  <2>1. {"UnregisterForce", "UnregisterNotNeeded", "ExecuteCommit"} \subseteq Timely'
    BY <1>6 DEF Timely, Task, Decided
  <2>. QED BY <1>5, <2>1 DEF ExecuteCommitWork, Executes
<1>7. ASSUME commit_state' = "kAborted" PROVE Sound(ExecuteAbortWork)
  <2>1. {"UnregisterForce", "UnregisterNotNeeded", "ExecuteAbort"} \subseteq Timely'
    BY <1>7 DEF Timely, Task, Decided
  <2>. QED BY <1>5, <2>1 DEF ExecuteAbortWork, Executes
<1>. QED BY <1>1, <1>2, <1>3, <1>4, <1>6, <1>7

\* The error that an abort will set.
LEMMA DefersConcat ==
  ASSUME NEW u \in Seq(Task), NEW v \in Seq(Task), Defers(u) \/ Defers(v)
  PROVE  Defers(u \o v)
<1>1. /\ Len(u) \in Nat /\ Len(v) \in Nat
      /\ Len(u \o v) = Len(u) + Len(v)
      /\ \A i \in 1 .. Len(u) : (u \o v)[i] = u[i]
      /\ \A i \in 1 .. Len(v) : (u \o v)[i + Len(u)] = v[i]
  BY ConcatFacts
<1>2. CASE Defers(u)
  <2>1. PICK i, j \in 1 .. Len(u) : i < j /\ u[i] = "SetDeferredResult" /\ u[j] = "ReleasePromise"
    BY <1>2 DEF Defers
  <2>2. i \in 1 .. Len(u \o v) /\ j \in 1 .. Len(u \o v) BY <1>1, <2>1
  <2>. QED BY <1>1, <2>1, <2>2 DEF Defers
<1>3. CASE Defers(v)
  <2>1. PICK i, j \in 1 .. Len(v) : i < j /\ v[i] = "SetDeferredResult" /\ v[j] = "ReleasePromise"
    BY <1>3 DEF Defers
  <2>2. i + Len(u) \in 1 .. Len(u \o v) /\ j + Len(u) \in 1 .. Len(u \o v) /\ i + Len(u) < j + Len(u)
    BY <1>1, <2>1
  <2>. QED BY <1>1, <2>1, <2>2 DEF Defers
<1>. QED BY <1>2, <1>3

\* An error to be set is set before the promise that the abort holds is given
\* back.
LEMMA DefersTail ==
  ASSUME NEW s \in Seq(Task), Defers(s), s # <<>>
  PROVE  /\ Head(s) # "SetDeferredResult" => Defers(Tail(s))
         /\ \E j \in 2 .. Len(s) : s[j] = "ReleasePromise"
<1>1. /\ Tail(s) \in Seq(Task) /\ Head(s) = s[1]
      /\ Len(s) \in Nat \ {0} /\ Len(Tail(s)) = Len(s) - 1
      /\ \A i \in 2 .. Len(s) : s[i] = Tail(s)[i - 1] /\ i - 1 \in 1 .. Len(Tail(s))
  BY TailFacts
<1>2. PICK i, j \in 1 .. Len(s) : i < j /\ s[i] = "SetDeferredResult" /\ s[j] = "ReleasePromise"
  BY DEF Defers
<1>3. j \in 2 .. Len(s) BY <1>1, <1>2
<1>4. ASSUME Head(s) # "SetDeferredResult" PROVE Defers(Tail(s))
  <2>1. i \in 2 .. Len(s) BY <1>1, <1>2, <1>4
  <2>2. i - 1 < j - 1 BY <1>2
  <2>. QED BY <1>1, <1>2, <1>3, <2>1, <2>2 DEF Defers
<1>. QED BY <1>2, <1>3, <1>4

\* An abort's error is still to be set, or the result is locked.
LEMMA DeferDoes ==
  ASSUME StackOK, ErrorDeferred, NEW t \in Thread, NEW w \in Seq(Task), Does(t, w),
         Aborting' => Aborting \/ Locked' \/ Defers(w),
         Locked => Locked', Popped(t) = "SetDeferredResult" => Locked'
  PROVE  ErrorDeferred'
<1>. SUFFICES ASSUME Aborting', ~Locked' PROVE \E u \in Thread : Defers(stack'[u])
  BY DEF ErrorDeferred, Defers
<1>1. PICK s \in Seq(Task) :
           /\ stack'[t] = s
           /\ \A u \in Thread \ {t} : stack'[u] = stack[u]
           /\ Idle(t) => s = w
           /\ ~Idle(t) => /\ stack[t] # <<>> /\ stack[t] \in Seq(Task)
                          /\ \/ s = w \o Tail(stack[t])
                             \/ s = <<>> /\ Len(w \o Tail(stack[t])) = 1
  BY DoesStack
<1>2. ASSUME ~Idle(t), Defers(w) \/ Defers(Tail(stack[t])) PROVE Defers(s)
  <2>1. Tail(stack[t]) \in Seq(Task) BY <1>1, <1>2
  <2>2. Defers(w \o Tail(stack[t])) BY <1>2, <2>1, DefersConcat
  <2>3. Len(w \o Tail(stack[t])) # 1 BY <2>2 DEF Defers
  <2>. QED BY <1>1, <1>2, <2>2, <2>3
<1>3. CASE Defers(w) BY <1>1, <1>2, <1>3
<1>4. CASE ~Defers(w)
  <2>1. PICK u \in Thread : Defers(stack[u]) BY <1>4 DEF ErrorDeferred
  <2>2. CASE u = t
    <3>1. stack[t] # <<>> BY <2>1, <2>2 DEF Defers
    <3>2. Defers(Tail(stack[t])) BY <1>1, <2>1, <2>2, <3>1, DefersTail DEF Popped, Idle
    <3>. QED BY <1>1, <1>2, <3>1, <3>2 DEF Idle
  <2>3. CASE u # t BY <1>1, <2>1, <2>3
  <2>. QED BY <2>2, <2>3
<1>. QED BY <1>3, <1>4

\* A piece of work that is in two places is pending twice.
LEMMA TwoPlaces ==
  ASSUME StackOK, NEW x, NEW t \in Thread, NEW u \in Thread, NEW i, NEW j,
         i \in Positions(stack[t], x), j \in Positions(stack[u], x), t # u \/ i # j
  PROVE  Pending(x) >= 2
<1>. DEFINE S == {<<t, i>>, <<u, j>>}
<1>6. S \subseteq Places(Thread, x) BY DEF Places
<1>7. IsFiniteSet(Places(Thread, x)) BY PendingFinite
<1>8. Cardinality(S) = 2
  <2>1. <<t, i>> # <<u, j>> OBVIOUS
  <2>. DEFINE a == <<t, i>>
              b == <<u, j>>
  <2>. HIDE DEF a, b
  <2>2. IsFiniteSet({a}) /\ Cardinality({a}) = 1 BY FS_Singleton
  <2>3. b \notin {a} BY <2>1 DEF a, b
  <2>4. Cardinality({a} \cup {b}) = Cardinality({a}) + 1 BY <2>2, <2>3, FS_AddElement
  <2>5. S = {a} \cup {b} BY DEF a, b
  <2>. HIDE DEF S
  <2>. QED BY <2>2, <2>4, <2>5
<1>9. Cardinality(S) <= Cardinality(Places(Thread, x)) BY <1>6, <1>7, FS_Subset
<1>10. Pending(x) = Cardinality(Places(Thread, x)) BY DEF Pending, Positions, Places
<1>11. Cardinality(Places(Thread, x)) \in Nat BY <1>7, FS_CardinalityType
<1>. HIDE DEF S
<1>. QED BY <1>8, <1>9, <1>10, <1>11

\* The promise that such an abort still holds is not the one being released.
LEMMA DeferredKeeps ==
  ASSUME StackOK, NEW t \in Thread, Popped(t) = "ReleasePromise", NEW u \in Thread, Defers(stack[u])
  PROVE  Pending("ReleasePromise") >= 2
<1>1. stack[t] # <<>> /\ Head(stack[t]) = "ReleasePromise" /\ stack[t] \in Seq(Task) /\ stack[u] \in Seq(Task)
  BY DEF Popped, Idle, StackOK
<1>2. 1 \in Positions(stack[t], "ReleasePromise") BY <1>1 DEF Positions
<1>3. stack[u] # <<>> BY DEF Defers
<1>4. PICK j \in 2 .. Len(stack[u]) : stack[u][j] = "ReleasePromise" BY <1>1, <1>3, DefersTail
<1>5. j \in Positions(stack[u], "ReleasePromise") /\ j # 1 BY <1>1, <1>4 DEF Positions
<1>. QED BY <1>2, <1>5, TwoPlaces

-----------------------------------------------------------------------------
(* One step: what it pushes, and what this does to the invariant.          *)

\* The types of the state, as the tallies need them.
Typed == /\ commit_state \in CommitState /\ executed \in {"none", "commit", "abort"}
         /\ commit_reference_count \in Int /\ promise_refs \in Int /\ future_refs \in Int
         /\ open_reference_count \in Nat /\ handles \in Nat /\ open_ptrs \in Nat
         /\ user_futures \in Nat /\ nodes \in Nat
         /\ own_future \in BOOLEAN /\ own_promise \in BOOLEAN

\* A step of t that pushes the work w respects a decision, and leaves a callback
\* listed only when it is not about to be unregistered.
Orderly(t, w) ==
    /\ Decided => UNCHANGED commit_state
    /\ force_cb' = "listed" => force_cb = "listed" /\ Popped(t) # "UnregisterForce"
    /\ not_needed_cb' = "listed" => not_needed_cb = "listed" /\ Popped(t) # "UnregisterNotNeeded"
    /\ Aborting' => Aborting \/ Locked' \/ Defers(w)
    /\ Locked => Locked'
    /\ Popped(t) = "SetDeferredResult" => Locked'

\* What is left to show of a step that pushes sound work.
LEMMA EndStep ==
  ASSUME EndInv, RInv', NEW t \in Thread, NEW w, Does(t, w), Sound(w), Orderly(t, w), Tallies'
  PROVE  EndInv'
<1>1. StackOK /\ w \in Seq(Task) BY DEF EndInv, RInv, IInv, TypeOK, StackOK, Sound
<1>2. Timely \subseteq Timely' BY DEF Timely, Decided, Orderly
<1>3. WorkInOrder' BY <1>1, <1>2, OrderDoes DEF EndInv, Orderly
<1>4. ErrorDeferred' BY <1>1, DeferDoes DEF EndInv, Orderly
<1>. QED BY <1>3, <1>4 DEF EndInv

\* A step that leaves the stacks and the decision alone.
LEMMA EndStay ==
  ASSUME EndInv, RInv', UNCHANGED <<stack, commit_state, callbacks, future_state>>, Tallies'
  PROVE  EndInv'
<1>1. WorkInOrder' BY DEF EndInv, WorkInOrder, Timely, Decided, First, callbacks
<1>2. ErrorDeferred' BY DEF EndInv, ErrorDeferred, Aborting, Locked, Defers
<1>. QED BY <1>1, <1>2 DEF EndInv

\* The parts of the invariant in the form the step lemmas use.
LEMMA EndTyped ==
  ASSUME EndInv
  PROVE  /\ StackOK /\ Typed /\ Tallies /\ ErrorDeferred /\ WorkInOrder
         /\ \A t \in Thread : t \notin {"listed", "gone"}
         /\ open_reference_count = open_ptrs + blocks
         /\ commit_reference_count =
              (handles + open_ptrs + Pending("DecrementCommit"))
                + (handles + open_ptrs + Pending("DecrementCommit"))
                + (Listed(force_cb) + Pending("DestroyNext") + Pending("DecrementForce"))
<1>1. /\ StackOK /\ Typed /\ Tallies /\ ErrorDeferred /\ WorkInOrder /\ RInv
      /\ open_reference_count = open_ptrs + blocks
  BY DEF EndInv, RInv, IInv, TypeOK, StackOK, Typed, OpenCountOK
<1>2. \A x \in Tallied : Pending(x) \in Nat
  <2>. SUFFICES ASSUME NEW x \in Tallied PROVE Pending(x) \in Nat OBVIOUS
  <2>1. IsFiniteSet(Places(Thread, x)) BY <1>1, PendingFinite
  <2>2. Pending(x) = Cardinality(Places(Thread, x)) BY DEF Pending, Positions, Places
  <2>. QED BY <2>1, <2>2, FS_CardinalityType
<1>3. commit_reference_count =
              (handles + open_ptrs + Pending("DecrementCommit"))
                + (handles + open_ptrs + Pending("DecrementCommit"))
                + (Listed(force_cb) + Pending("DestroyNext") + Pending("DecrementForce"))
  BY <1>1, <1>2 DEF RInv, Alive, ReferencesCounted, Listed, kCommitReferenceIncrement,
     kFutureReferenceIncrement, Tallied, Typed
<1>. QED BY <1>1, <1>3, LifecycleAssumption

\* The same, for the thread of a step.
Booked(t) ==
    /\ StackOK /\ Typed /\ Tallies /\ ErrorDeferred /\ WorkInOrder /\ t \notin {"listed", "gone"}
    /\ open_reference_count = open_ptrs + blocks
    /\ commit_reference_count = (handles + open_ptrs + Pending("DecrementCommit"))
         + (handles + open_ptrs + Pending("DecrementCommit"))
         + (Listed(force_cb) + Pending("DestroyNext") + Pending("DecrementForce"))

\* The numbers of pieces in the work that steps push.
LEMMA CountWork ==
  ASSUME NEW x
  PROVE  /\ Count(<<>>, x) = 0
         /\ \A a : Count(<<a>>, x) = Is(a, x)
         /\ \A a, b \in Task : Count(<<a, b>>, x) = Is(a, x) + Is(b, x)
         /\ \A a, b, c \in Task : Count(<<a, b, c>>, x) = Is(a, x) + (Is(b, x) + Is(c, x))
         /\ \A a, b, c, d \in Task :
              Count(<<a, b, c, d>>, x) = Is(a, x) + (Is(b, x) + (Is(c, x) + Is(d, x)))
BY CountEmpty, CountPiece, CountTwo, CountThree, CountFour

Natural == \A x \in Tallied : Pending(x) \in Nat /\ Pending(x)' \in Nat
Steady(X) == \A x \in Tallied \ X : Pending(x)' = Pending(x)

\* Pieces that no decision has to precede.
Free == Task \ {"ExecuteCommit", "ExecuteAbort", "UnregisterForce", "UnregisterNotNeeded"}

\* Work that is bound to no decision: what it counts.
LEMMA FreeWork ==
  ASSUME NEW a \in Free, NEW b \in Free
  PROVE  /\ Sound(<<>>) /\ Sound(<<a>>) /\ Sound(<<a, b>>)
         /\ \A x : /\ Count(<<>>, x) = 0 /\ Count(<<a>>, x) = Is(a, x)
                   /\ Count(<<a, b>>, x) = Is(a, x) + Is(b, x)
<1>1. a \in Timely' \ Executes /\ b \in Timely' \ Executes /\ a \in Task /\ b \in Task
  BY DEF Free, Timely, Executes
<1>2. Sound(<<>>) /\ Sound(<<a>>) BY <1>1, SoundWork
<1>3. <<a, b>> \in Seq(Task \ Executes) /\ <<a, b>> \in Seq(Timely') /\ <<a, b>> \in Seq(Task)
  BY <1>1
<1>4. Sound(<<a, b>>) BY <1>3, FirstNone DEF Sound
<1>5. \A x : /\ Count(<<>>, x) = 0 /\ Count(<<a>>, x) = Is(a, x)
            /\ Count(<<a, b>>, x) = Is(a, x) + Is(b, x)
  BY <1>1, CountWork
<1>. QED BY <1>2, <1>4, <1>5

\* Sound work in front of sound work.
LEMMA BothWork ==
  ASSUME NEW u, NEW v, Sound(u), Sound(v)
  PROVE  Sound(u \o v) /\ \A x : Count(u \o v, x) = Count(u, x) + Count(v, x)
<1>1. u \in Seq(Task) /\ v \in Seq(Task) BY DEF Sound
<1>2. Sound(u \o v) BY SoundWork
<1>. QED BY <1>1, <1>2, CountConcat

\* Work that depends on a condition.
LEMMA IfWork ==
  ASSUME NEW c \in BOOLEAN, NEW v, Sound(v)
  PROVE  Sound(If(c, v)) /\ \A x : Count(If(c, v), x) = IF c THEN Count(v, x) ELSE 0
<1>1. Sound(If(c, v)) BY SoundWork
<1>. QED BY <1>1, CountEmpty DEF If

\* One piece of work, if a condition holds.
LEMMA OneWork ==
  ASSUME NEW c \in BOOLEAN, NEW a \in Free
  PROVE  Sound(If(c, <<a>>)) /\ \A x : Count(If(c, <<a>>), x) = IF c THEN Is(a, x) ELSE 0
<1>1. Sound(<<a>>) /\ \A x : Count(<<a>>, x) = Is(a, x) BY FreeWork
<1>2. Sound(If(c, <<a>>)) /\ \A x : Count(If(c, <<a>>), x) = IF c THEN Count(<<a>>, x) ELSE 0
  BY <1>1, IfWork
<1>. QED BY <1>1, <1>2

\* One piece of work if a condition holds, then another.
LEMMA PairWork ==
  ASSUME NEW c \in BOOLEAN, NEW a \in Free, NEW b \in Free
  PROVE  /\ Sound(If(c, <<a>>) \o <<b>>)
         /\ \A x : Count(If(c, <<a>>) \o <<b>>, x) = (IF c THEN Is(a, x) ELSE 0) + Is(b, x)
<1>1. Sound(If(c, <<a>>)) /\ \A x : Count(If(c, <<a>>), x) = IF c THEN Is(a, x) ELSE 0
  BY OneWork
<1>2. Sound(<<b>>) /\ \A x : Count(<<b>>, x) = Is(b, x) BY FreeWork
<1>3. /\ Sound(If(c, <<a>>) \o <<b>>)
      /\ \A x : Count(If(c, <<a>>) \o <<b>>, x) = Count(If(c, <<a>>), x) + Count(<<b>>, x)
  BY <1>1, <1>2, BothWork
<1>. QED BY <1>1, <1>2, <1>3

\* The work of a decision counts as its execution.
LEMMA ExecutesWork ==
  /\ commit_state' = "kCommitStarted" =>
       /\ Sound(ExecuteCommitWork)
       /\ \A x \in Tallied : Count(ExecuteCommitWork, x) = Is("ExecuteCommit", x)
  /\ commit_state' = "kAborted" =>
       /\ Sound(ExecuteAbortWork)
       /\ \A x \in Tallied : Count(ExecuteAbortWork, x) = Is("ExecuteAbort", x)
<1>1. ASSUME NEW x \in Tallied, NEW e \in Executes
      PROVE  Count(<<"UnregisterForce", "UnregisterNotNeeded", e>>, x) = Is(e, x)
  <2>1. "UnregisterForce" \in Task /\ "UnregisterNotNeeded" \in Task /\ e \in Task
    BY DEF Task, Executes
  <2>2. Is("UnregisterForce", x) = 0 /\ Is("UnregisterNotNeeded", x) = 0 /\ Is(e, x) \in {0, 1}
    BY DEF Is, Tallied
  <2>3. Count(<<"UnregisterForce", "UnregisterNotNeeded", e>>, x)
          = Is("UnregisterForce", x) + (Is("UnregisterNotNeeded", x) + Is(e, x))
    BY <2>1, CountThree
  <2>. QED BY <2>2, <2>3
<1>. QED BY <1>1, SoundWork DEF ExecuteCommitWork, ExecuteAbortWork, Executes

\* What a step pushes is what becomes pending.
LEMMA MovedBy ==
  ASSUME EndInv, NEW t \in Thread, NEW w, Sound(w), Does(t, w)
  PROVE  Moved(Popped(t), w)
BY EndTyped, DoesCounts DEF Sound

\* Three pieces of work.
LEMMA ThreeWork ==
  ASSUME NEW a \in Free, NEW b \in Free, NEW c \in Free
  PROVE  /\ Sound(<<a, b, c>>)
         /\ \A x : Count(<<a, b, c>>, x) = Is(a, x) + (Is(b, x) + Is(c, x))
<1>1. /\ a \in Timely' /\ b \in Timely' /\ c \in Timely'
      /\ a \in Task \ Executes /\ b \in Task \ Executes /\ c \in Task \ Executes
  BY DEF Free, Timely, Executes
<1>2. <<a, b, c>> \in Seq(Task \ Executes) /\ <<a, b, c>> \in Seq(Timely') /\ <<a, b, c>> \in Seq(Task)
  BY <1>1
<1>3. Sound(<<a, b, c>>) BY <1>2, FirstNone DEF Sound
<1>. QED BY <1>1, <1>3, CountThree

\* Four pieces of work.
LEMMA FourWork ==
  ASSUME NEW a \in Free, NEW b \in Free, NEW c \in Free, NEW d \in Free
  PROVE  /\ Sound(<<a, b, c, d>>)
         /\ \A x : Count(<<a, b, c, d>>, x) = Is(a, x) + (Is(b, x) + (Is(c, x) + Is(d, x)))
<1>1. /\ a \in Timely' /\ b \in Timely' /\ c \in Timely' /\ d \in Timely'
      /\ a \in Task \ Executes /\ b \in Task \ Executes /\ c \in Task \ Executes /\ d \in Task \ Executes
  BY DEF Free, Timely, Executes
<1>2. <<a, b, c, d>> \in Seq(Task \ Executes) /\ <<a, b, c, d>> \in Seq(Timely') /\ <<a, b, c, d>> \in Seq(Task)
  BY <1>1
<1>3. Sound(<<a, b, c, d>>) BY <1>2, FirstNone DEF Sound
<1>. QED BY <1>1, <1>3, CountFour

-----------------------------------------------------------------------------
(* The invariant step by step.                                             *)

\* The last promise reference locks the result, which an abort has done before.
LEMMA ReleasePromiseEnd ==
  ASSUME EndInv, RInv', NEW t \in Thread, ReleasePromise(t)
  PROVE  EndInv'
<1>. DEFINE last == promise_refs = 1
            lock == last /\ ~Locked
            v == DestroyUnlessForcing \o <<"WriteResultAndReady">>
            w == If(lock, v)
<1>0. StackOK /\ Typed /\ Tallies /\ ErrorDeferred BY EndTyped
<1>1. Does(t, w) /\ Popped(t) = "ReleasePromise"
  BY DEF ReleasePromise, At, Does, Popped, Idle, Locked
<1>2. Sound(w)
  <2>1. {"DestroyPromiseCallbacks", "WriteResultAndReady"} \subseteq Timely' \ Executes
    BY DEF Timely, Task, Executes
  <2>. QED BY <2>1, SoundWork DEF DestroyUnlessForcing
<1>3. ASSUME NEW x \in Tallied
      PROVE  Count(w, x) = IF lock THEN (IF Forcing THEN 0 ELSE Is("DestroyPromiseCallbacks", x))
                                          + Is("WriteResultAndReady", x) ELSE 0
  <2>1. /\ <<"DestroyPromiseCallbacks">> \in Seq(Task) /\ <<"WriteResultAndReady">> \in Seq(Task)
    BY DEF Task
  <2>2. DestroyUnlessForcing \in Seq(Task) BY <2>1, IfType DEF DestroyUnlessForcing
  <2>3. Count(v, x) = Count(DestroyUnlessForcing, x) + Count(<<"WriteResultAndReady">>, x)
    BY <2>1, <2>2, CountConcat
  <2>4. Count(DestroyUnlessForcing, x) = IF Forcing THEN 0 ELSE Is("DestroyPromiseCallbacks", x)
    BY CountWork DEF If, DestroyUnlessForcing
  <2>5. Count(w, x) = IF lock THEN Count(v, x) ELSE 0
    <3>. HIDE DEF v, lock
    <3>. QED BY CountWork DEF If
  <2>6. Count(<<"WriteResultAndReady">>, x) = Is("WriteResultAndReady", x) BY CountWork
  <2>. HIDE DEF v, lock, w
  <2>. QED BY <2>3, <2>4, <2>5, <2>6
<1>4. Moved("ReleasePromise", w) BY <1>0, <1>1, <1>2, DoesCounts DEF Sound
<1>5. /\ promise_refs' = promise_refs - 1
      /\ future_state' = future_state \cup (IF lock THEN {"kResultLocked"} ELSE IF last THEN {"kReady"} ELSE {})
      /\ UNCHANGED <<commit_state, handles, open_ptrs, user_futures, nodes, open_reference_count,
                     commit_reference_count, own_future, own_promise, future_refs, result, force_cb, not_needed_cb, executed>>
  BY DEF ReleasePromise, Locked, refs, counts, callbacks
<1>6. lock => ~Aborting
  BY <1>0, <1>1, <1>4, DeferredKeeps DEF ErrorDeferred, Moved, Tallied, Tallies, PromiseCounted, One, Listed, Typed
<1>. HIDE DEF w
<1>7. /\ Natural /\ Steady({"ReleasePromise", "DestroyPromiseCallbacks", "WriteResultAndReady"})
      /\ Pending("ReleasePromise")' = Pending("ReleasePromise") - 1
      /\ Pending("DestroyPromiseCallbacks")' >= Pending("DestroyPromiseCallbacks")
      /\ Pending("WriteResultAndReady")' = Pending("WriteResultAndReady") + IF lock THEN 1 ELSE 0
  BY <1>3, <1>4 DEF Natural, Steady, Moved, Tallied, Is
<1>8. Tallies'
  BY <1>0, <1>5, <1>6, <1>7 DEF Tallies, PromiseCounted, FutureCounted, ForceOnce, ExecutedAsDecided,
     RequestCarried, PromiseOwned, NotNeededAborts, ResultInv, Requested, Decided, Aborting, Locked,
     One, Listed, Typed, Natural, Steady, Tallied
<1>9. /\ UNCHANGED commit_state /\ UNCHANGED force_cb /\ UNCHANGED not_needed_cb
      /\ Locked => Locked'
      /\ Aborting' => Aborting
      /\ Popped(t) \notin {"UnregisterForce", "UnregisterNotNeeded", "SetDeferredResult"}
  BY <1>1, <1>5 DEF Locked, Aborting
<1>. QED BY <1>1, <1>2, <1>8, <1>9, EndStep DEF Orderly

\* A commit reference is given back; the last one takes the future.
LEMMA DecrementCommitEnd ==
  ASSUME EndInv, RInv', NEW t \in Thread, DecrementCommit(t)
  PROVE  EndInv'
<1>. DEFINE c == commit_reference_count' < 2
            w == If(c, <<"NoMoreCommitReferences">>) \o <<"DecrementWeak">>
<1>1. Does(t, w) /\ Popped(t) = "DecrementCommit"
  BY DEF DecrementCommit, kCommitReferenceIncrement, At, Does, Popped, Idle
<1>2. Sound(w) /\ \A x \in Tallied : Count(w, x) = (IF c THEN Is("NoMoreCommitReferences", x) ELSE 0) + Is("DecrementWeak", x)
  <2>1. {"NoMoreCommitReferences", "DecrementWeak"} \subseteq Free /\ c \in BOOLEAN
    BY DEF Free, Task, Via
  <2>. HIDE DEF c
  <2>. QED BY <2>1, PairWork
<1>3. Moved(Popped(t), w) BY <1>1, <1>2, MovedBy
<1>4. /\ commit_reference_count' = commit_reference_count - 2
      /\ UNCHANGED <<commit_state, handles, open_ptrs, user_futures, nodes,
                     open_reference_count, own_future, own_promise, promise_refs,
                     future_refs, future_state, result, force_cb, not_needed_cb,
                     executed>>
  BY DEF DecrementCommit, kCommitReferenceIncrement, refs, counts, future, callbacks
<1>. HIDE DEF w
<1>5. /\ Natural /\ Steady({"DecrementCommit", "NoMoreCommitReferences"})
      /\ Pending("DecrementCommit")' = Pending("DecrementCommit") - 1
      /\ Pending("NoMoreCommitReferences")' = Pending("NoMoreCommitReferences") + IF c THEN 1 ELSE 0
  BY <1>1, <1>2, <1>3 DEF Natural, Steady, Moved, Tallied, Is
<1>6. Tallies'
  <2>1. (PromiseCounted /\ FutureCounted /\ ForceOnce)'
    BY EndTyped, <1>4, <1>5 DEF Tallies, PromiseCounted, FutureCounted, ForceOnce, One, Listed,
       Typed, Natural, Steady, Tallied
  <2>2. (ExecutedAsDecided /\ RequestCarried /\ PromiseOwned)'
    BY EndTyped, <1>4, <1>5 DEF Tallies, ExecutedAsDecided, RequestCarried, PromiseOwned, PromiseCounted, Requested, Decided, CommitState, One, Listed,
       Typed, Natural, Steady, Tallied
  <2>0. handles' + open_ptrs' + Pending("DecrementCommit")' = 0 => c
    <3>1. /\ handles \in Nat /\ open_ptrs \in Nat /\ handles' = handles /\ open_ptrs' = open_ptrs
          /\ Pending("DecrementCommit") \in Nat
          /\ Pending("DecrementCommit")' = Pending("DecrementCommit") - 1
      BY EndTyped, <1>4, <1>5 DEF Typed, Natural, Tallied
    <3>2. /\ Listed(force_cb) + Pending("DestroyNext") + Pending("DecrementForce") \in Nat
          /\ Listed(force_cb) + Pending("DestroyNext") + Pending("DecrementForce") <= 1
      BY EndTyped, <1>5 DEF Natural, Tallied, Listed, Tallies, ForceOnce
    <3>. QED BY EndTyped, <1>4, <3>1, <3>2
  <2>3. NotNeededAborts'
    BY EndTyped, <1>4, <1>5, <2>0 DEF Tallies, NotNeededAborts, ForceOnce, FutureCounted, One, Listed, CommitState, Decided,
       Typed, Natural, Steady, Tallied
  <2>4. ResultInv'
    BY EndTyped, <1>4, <1>5 DEF Tallies, ResultInv, PromiseCounted, PromiseOwned, ExecutedAsDecided, Decided, Aborting, Locked, One, Listed, CommitState,
       Typed, Natural, Steady, Tallied
  <2>. QED BY <2>1, <2>2, <2>3, <2>4 DEF Tallies
<1>7. Orderly(t, w)
  BY EndTyped, <1>1, <1>4 DEF Orderly, Decided, Locked, Aborting, Typed, CommitState
<1>. QED BY <1>1, <1>2, <1>6, <1>7, EndStep

\* The reference of the force callback is given back.
LEMMA DecrementForceEnd ==
  ASSUME EndInv, RInv', NEW t \in Thread, DecrementForce(t)
  PROVE  EndInv'
<1>. DEFINE c == commit_reference_count' < 1
            w == If(c, <<"NoMoreCommitReferences">>) \o <<"DecrementWeak">>
<1>1. Does(t, w) /\ Popped(t) = "DecrementForce"
  BY DEF DecrementForce, kFutureReferenceIncrement, At, Does, Popped, Idle
<1>2. Sound(w) /\ \A x \in Tallied : Count(w, x) = (IF c THEN Is("NoMoreCommitReferences", x) ELSE 0) + Is("DecrementWeak", x)
  <2>1. {"NoMoreCommitReferences", "DecrementWeak"} \subseteq Free /\ c \in BOOLEAN
    BY DEF Free, Task, Via
  <2>. HIDE DEF c
  <2>. QED BY <2>1, PairWork
<1>3. Moved(Popped(t), w) BY <1>1, <1>2, MovedBy
<1>4. /\ commit_reference_count' = commit_reference_count - 1
      /\ UNCHANGED <<commit_state, handles, open_ptrs, user_futures, nodes,
                     open_reference_count, own_future, own_promise, promise_refs,
                     future_refs, future_state, result, force_cb, not_needed_cb,
                     executed>>
  BY DEF DecrementForce, kFutureReferenceIncrement, refs, counts, future, callbacks
<1>. HIDE DEF w
<1>5. /\ Natural /\ Steady({"DecrementForce", "NoMoreCommitReferences"})
      /\ Pending("DecrementForce")' = Pending("DecrementForce") - 1
      /\ Pending("NoMoreCommitReferences")' >= Pending("NoMoreCommitReferences")
  BY <1>1, <1>2, <1>3 DEF Natural, Steady, Moved, Tallied, Is
<1>6. Tallies'
  <2>1. (PromiseCounted /\ FutureCounted /\ ForceOnce)'
    BY EndTyped, <1>4, <1>5 DEF Tallies, PromiseCounted, FutureCounted, ForceOnce, One, Listed,
       Typed, Natural, Steady, Tallied
  <2>2. (ExecutedAsDecided /\ RequestCarried /\ PromiseOwned)'
    BY EndTyped, <1>4, <1>5 DEF Tallies, ExecutedAsDecided, RequestCarried, PromiseOwned, PromiseCounted, Requested, Decided, CommitState, One, Listed,
       Typed, Natural, Steady, Tallied
  <2>3. NotNeededAborts'
    BY EndTyped, <1>4, <1>5 DEF Tallies, NotNeededAborts, ForceOnce, FutureCounted, One, Listed, CommitState, Decided,
       Typed, Natural, Steady, Tallied
  <2>4. ResultInv'
    BY EndTyped, <1>4, <1>5 DEF Tallies, ResultInv, PromiseCounted, PromiseOwned, ExecutedAsDecided, Decided, Aborting, Locked, One, Listed, CommitState,
       Typed, Natural, Steady, Tallied
  <2>. QED BY <2>1, <2>2, <2>3, <2>4 DEF Tallies
<1>7. Orderly(t, w)
  BY EndTyped, <1>1, <1>4 DEF Orderly, Decided, Locked, Aborting, Typed, CommitState
<1>. QED BY <1>1, <1>2, <1>6, <1>7, EndStep

\* The last open reference carries out a request that waits.
LEMMA ReleaseOpenEnd ==
  ASSUME EndInv, RInv', NEW t \in Thread, ReleaseOpenPtr(t)
  PROVE  EndInv'
<1>. USE DEF Booked
<1>0. Booked(t) BY EndTyped
<1>. DEFINE c == open_reference_count' = 0
            w == If(c, <<"NoMoreOpenReferences">>) \o <<"DecrementCommit">>
<1>1. Does(t, w) /\ Popped(t) = "none" BY DEF ReleaseOpenPtr, At, Does, Popped, Idle
<1>2. Sound(w) /\ \A x \in Tallied : Count(w, x) = (IF c THEN Is("NoMoreOpenReferences", x) ELSE 0) + Is("DecrementCommit", x)
  <2>1. {"NoMoreOpenReferences", "DecrementCommit"} \subseteq Free /\ c \in BOOLEAN
    BY DEF Free, Task, Via
  <2>. HIDE DEF c
  <2>. QED BY <2>1, PairWork, ZenonT(60)
<1>3. Moved(Popped(t), w) BY <1>1, <1>2, MovedBy
<1>4. /\ open_ptrs' = open_ptrs - 1
      /\ open_reference_count' = open_reference_count - 1
      /\ UNCHANGED <<commit_state, handles, user_futures, nodes, commit_reference_count,
                     own_future, own_promise, promise_refs, future_refs, future_state,
                     result, force_cb, not_needed_cb, executed>>
  BY DEF ReleaseOpenPtr, refs, counts, future, callbacks
<1>10. open_reference_count' \in Nat BY DEF RInv, IInv, TypeOK
<1>. HIDE DEF w
<1>5. /\ Natural /\ Steady({"DecrementCommit", "NoMoreOpenReferences"})
      /\ Pending("DecrementCommit")' = Pending("DecrementCommit") + 1
      /\ Pending("NoMoreOpenReferences")' = Pending("NoMoreOpenReferences") + IF c THEN 1 ELSE 0
  BY <1>1, <1>2, <1>3 DEF Natural, Steady, Moved, Tallied, Is
<1>6. Tallies'
  <2>1. (PromiseCounted /\ FutureCounted /\ ForceOnce)'
    BY <1>0, <1>4, <1>5, <1>10 DEF Tallies, PromiseCounted, FutureCounted, ForceOnce, One, Listed,
       Typed, Natural, Steady, Tallied
  <2>2. (ExecutedAsDecided /\ RequestCarried /\ PromiseOwned)'
    BY <1>0, <1>4, <1>5, <1>10 DEF Tallies, ExecutedAsDecided, RequestCarried, PromiseOwned, PromiseCounted, Requested, Decided, CommitState, One, Listed,
       Typed, Natural, Steady, Tallied
  <2>3. NotNeededAborts'
    BY <1>0, <1>4, <1>5, <1>10 DEF Tallies, NotNeededAborts, ForceOnce, FutureCounted, One, Listed, CommitState, Decided,
       Typed, Natural, Steady, Tallied
  <2>4. ResultInv'
    BY <1>0, <1>4, <1>5, <1>10 DEF Tallies, ResultInv, PromiseCounted, PromiseOwned, ExecutedAsDecided, Decided, Aborting, Locked, One, Listed, CommitState,
       Typed, Natural, Steady, Tallied
  <2>. QED BY <2>1, <2>2, <2>3, <2>4 DEF Tallies
<1>7. Orderly(t, w)
  BY <1>0, <1>1, <1>4 DEF Orderly, Decided, Locked, Aborting, Typed, CommitState
<1>. QED BY <1>1, <1>2, <1>6, <1>7, EndStep

\* The last commit block carries out a request that waits.
LEMMA ReleaseBlockEnd ==
  ASSUME EndInv, RInv', NEW t \in Thread, ReleaseCommitBlock(t)
  PROVE  EndInv'
<1>. USE DEF Booked
<1>0. Booked(t) BY EndTyped
<1>. DEFINE c == open_reference_count' = 0
            w == If(c, <<"NoMoreOpenReferences">>) \o <<"DecrementWeak">>
<1>1. Does(t, w) /\ Popped(t) = "none" BY DEF ReleaseCommitBlock, At, Does, Popped, Idle
<1>2. Sound(w) /\ \A x \in Tallied : Count(w, x) = (IF c THEN Is("NoMoreOpenReferences", x) ELSE 0) + Is("DecrementWeak", x)
  <2>1. {"NoMoreOpenReferences", "DecrementWeak"} \subseteq Free /\ c \in BOOLEAN
    BY DEF Free, Task, Via
  <2>. HIDE DEF c
  <2>. QED BY <2>1, PairWork
<1>3. Moved(Popped(t), w) BY <1>1, <1>2, MovedBy
<1>4. /\ open_reference_count' = open_reference_count - 1
      /\ UNCHANGED <<commit_state, handles, open_ptrs, user_futures, nodes,
                     commit_reference_count, own_future, own_promise, promise_refs,
                     future_refs, future_state, result, force_cb, not_needed_cb,
                     executed>>
  BY DEF ReleaseCommitBlock, refs, counts, future, callbacks
<1>10. open_reference_count' \in Nat BY DEF RInv, IInv, TypeOK
<1>. HIDE DEF w
<1>5. /\ Natural /\ Steady({"NoMoreOpenReferences"})
      /\ Pending("NoMoreOpenReferences")' = Pending("NoMoreOpenReferences") + IF c THEN 1 ELSE 0
  BY <1>1, <1>2, <1>3 DEF Natural, Steady, Moved, Tallied, Is
<1>6. Tallies'
  BY <1>0, <1>4, <1>5, <1>10 DEF Tallies, PromiseCounted, FutureCounted, ForceOnce, ExecutedAsDecided,
     RequestCarried, PromiseOwned, NotNeededAborts, ResultInv, Requested, Decided, Aborting, Locked,
     One, Listed, Typed, CommitState, Natural, Steady, Tallied
<1>7. Orderly(t, w)
  BY <1>0, <1>1, <1>4 DEF Orderly, Decided, Locked, Aborting, Typed, CommitState
<1>. QED BY <1>1, <1>2, <1>6, <1>7, EndStep

\* Clients drop a transaction or a future.
LEMMA DropTransactionEnd ==
  ASSUME EndInv, RInv', NEW t \in Thread, DropTransaction(t)
  PROVE  EndInv'
<1>. DEFINE w == <<"DecrementCommit">>
<1>1. Does(t, w) /\ Popped(t) = "none" BY DEF DropTransaction, At, Does, Popped, Idle
<1>2. Sound(w) /\ \A x \in Tallied : Count(w, x) = Is("DecrementCommit", x)
  <2>1. {"DecrementCommit", "DecrementCommit"} \subseteq Free BY DEF Free, Task, Via
  <2>. QED BY <2>1, FreeWork
<1>3. Moved(Popped(t), w) BY <1>1, <1>2, MovedBy
<1>4. /\ handles' = handles - 1
      /\ UNCHANGED <<commit_state, open_ptrs, user_futures, nodes, open_reference_count,
                     commit_reference_count, own_future, own_promise, promise_refs,
                     future_refs, future_state, result, force_cb, not_needed_cb,
                     executed>>
  BY DEF DropTransaction, refs, counts, future, callbacks
<1>. HIDE DEF w
<1>5. /\ Natural /\ Steady({"DecrementCommit"})
      /\ Pending("DecrementCommit")' = Pending("DecrementCommit") + 1
  BY <1>1, <1>2, <1>3 DEF Natural, Steady, Moved, Tallied, Is
<1>6. Tallies'
  BY EndTyped, <1>4, <1>5 DEF Tallies, PromiseCounted, FutureCounted, ForceOnce, ExecutedAsDecided,
     RequestCarried, PromiseOwned, NotNeededAborts, ResultInv, Requested, Decided, Aborting, Locked,
     One, Listed, Typed, CommitState, Natural, Steady, Tallied
<1>7. Orderly(t, w)
  BY EndTyped, <1>1, <1>4 DEF Orderly, Decided, Locked, Aborting, Typed, CommitState
<1>. QED BY <1>1, <1>2, <1>6, <1>7, EndStep

\* A client drops a future.
LEMMA DropFutureEnd ==
  ASSUME EndInv, RInv', NEW t \in Thread, DropFuture(t)
  PROVE  EndInv'
<1>. DEFINE w == <<"ReleaseFuture">>
<1>1. Does(t, w) /\ Popped(t) = "none" BY DEF DropFuture, At, Does, Popped, Idle
<1>2. Sound(w) /\ \A x \in Tallied : Count(w, x) = Is("ReleaseFuture", x)
  <2>1. {"ReleaseFuture", "ReleaseFuture"} \subseteq Free BY DEF Free, Task, Via
  <2>. QED BY <2>1, FreeWork
<1>3. Moved(Popped(t), w) BY <1>1, <1>2, MovedBy
<1>4. /\ user_futures' = user_futures - 1
      /\ UNCHANGED <<commit_state, handles, open_ptrs, nodes, open_reference_count,
                     commit_reference_count, own_future, own_promise, promise_refs,
                     future_refs, future_state, result, force_cb, not_needed_cb,
                     executed>>
  BY DEF DropFuture, refs, counts, future, callbacks
<1>. HIDE DEF w
<1>5. /\ Natural /\ Steady({"ReleaseFuture"})
      /\ Pending("ReleaseFuture")' = Pending("ReleaseFuture") + 1
  BY <1>1, <1>2, <1>3 DEF Natural, Steady, Moved, Tallied, Is
<1>6. Tallies'
  BY EndTyped, <1>4, <1>5 DEF Tallies, PromiseCounted, FutureCounted, ForceOnce, ExecutedAsDecided,
     RequestCarried, PromiseOwned, NotNeededAborts, ResultInv, Requested, Decided, Aborting, Locked,
     One, Listed, Typed, CommitState, Natural, Steady, Tallied
<1>7. Orderly(t, w)
  BY EndTyped, <1>1, <1>4 DEF Orderly, Decided, Locked, Aborting, Typed, CommitState
<1>. QED BY <1>1, <1>2, <1>6, <1>7, EndStep

\* The last node gives back the promise.
LEMMA NodeDoneEnd ==
  ASSUME EndInv, RInv', NEW t \in Thread, NodeDone(t)
  PROVE  EndInv'
<1>. DEFINE c == own_promise /\ nodes' = 0
            w == If(c, <<"ReleasePromise">>) \o <<"DecrementWeak">>
<1>1. Does(t, w) /\ Popped(t) = "none" BY DEF NodeDone, At, Does, Popped, Idle
<1>2. Sound(w) /\ \A x \in Tallied : Count(w, x) = (IF c THEN Is("ReleasePromise", x) ELSE 0) + Is("DecrementWeak", x)
  <2>1. {"ReleasePromise", "DecrementWeak"} \subseteq Free /\ c \in BOOLEAN
    BY DEF Free, Task, Via
  <2>. HIDE DEF c
  <2>. QED BY <2>1, PairWork
<1>3. Moved(Popped(t), w) BY <1>1, <1>2, MovedBy
<1>4. /\ executed # "none"
      /\ nodes' = nodes - 1
      /\ own_promise' = (own_promise /\ nodes' # 0)
      /\ UNCHANGED <<commit_state, handles, open_ptrs, user_futures, open_reference_count,
                     commit_reference_count, own_future, promise_refs, future_refs,
                     future_state, result, force_cb, not_needed_cb, executed>>
  BY DEF NodeDone, refs, counts, future, callbacks
<1>10. nodes' \in Nat /\ own_promise' \in BOOLEAN BY DEF RInv, IInv, TypeOK
<1>11. nodes # 0 BY EndTyped, <1>4, <1>10 DEF Typed
<1>12. own_promise BY EndTyped, <1>4, <1>11 DEF Tallies, PromiseOwned
<1>13. own_promise' <=> nodes' # 0 BY <1>4, <1>12
<1>14. c <=> nodes' = 0 BY <1>12
<1>. HIDE DEF c
<1>. HIDE DEF w
<1>5. /\ Natural /\ Steady({"ReleasePromise"})
      /\ Pending("ReleasePromise")' = Pending("ReleasePromise") + IF c THEN 1 ELSE 0
  BY <1>1, <1>2, <1>3 DEF Natural, Steady, Moved, Tallied, Is
<1>6. Tallies'
  <2>1. (PromiseCounted /\ FutureCounted /\ ForceOnce)'
    BY EndTyped, <1>4, <1>5, <1>10, <1>11, <1>12, <1>13, <1>14 DEF Tallies, PromiseCounted, FutureCounted, ForceOnce, One, Listed,
       Typed, Natural, Steady, Tallied
  <2>2. (ExecutedAsDecided /\ RequestCarried /\ PromiseOwned)'
    BY EndTyped, <1>4, <1>5, <1>10, <1>11, <1>12, <1>13, <1>14 DEF Tallies, ExecutedAsDecided, RequestCarried, PromiseOwned, PromiseCounted, Requested, Decided, CommitState, One, Listed,
       Typed, Natural, Steady, Tallied
  <2>3. NotNeededAborts'
    BY EndTyped, <1>4, <1>5, <1>10, <1>11, <1>12, <1>13, <1>14 DEF Tallies, NotNeededAborts, ForceOnce, FutureCounted, One, Listed, CommitState, Decided,
       Typed, Natural, Steady, Tallied
  <2>4. ResultInv'
    BY EndTyped, <1>4, <1>5, <1>10, <1>11, <1>12, <1>13, <1>14 DEF Tallies, ResultInv, PromiseCounted, PromiseOwned, ExecutedAsDecided, Decided, Aborting, Locked, One, Listed, CommitState,
       Typed, Natural, Steady, Tallied
  <2>. QED BY <2>1, <2>2, <2>3, <2>4 DEF Tallies
<1>7. Orderly(t, w)
  BY EndTyped, <1>1, <1>4 DEF Orderly, Decided, Locked, Aborting, Typed, CommitState
<1>. QED BY <1>1, <1>2, <1>6, <1>7, EndStep

\* Calls that clients and nodes make.
LEMMA CommitAsyncEnd ==
  ASSUME EndInv, RInv', NEW t \in Thread, CommitAsync(t)
  PROVE  EndInv'
<1>. USE DEF Booked
<1>0. Booked(t) BY EndTyped
<1>. DEFINE w == <<"RequestCommit", "via_handle">>
<1>1. Does(t, w) /\ Popped(t) = "none" BY DEF CommitAsync, At, Does, Popped, Idle
<1>2. Sound(w) /\ \A x \in Tallied : Count(w, x) = Is("RequestCommit", x) + Is("via_handle", x)
  <2>1. {"RequestCommit", "via_handle"} \subseteq Free BY DEF Free, Task, Via
  <2>. QED BY <2>1, FreeWork
<1>3. Moved(Popped(t), w) BY <1>1, <1>2, MovedBy
<1>4. /\ UNCHANGED <<commit_state, handles, open_ptrs, user_futures, nodes,
                     open_reference_count, commit_reference_count, own_future,
                     own_promise, promise_refs, future_refs, future_state, result,
                     force_cb, not_needed_cb, executed>>
  BY DEF CommitAsync, refs, counts, future, callbacks
<1>. HIDE DEF w
<1>5. /\ Natural /\ Steady({}) BY <1>1, <1>2, <1>3 DEF Natural, Steady, Moved, Tallied, Is
<1>6. Tallies'
  BY <1>0, <1>4, <1>5 DEF Tallies, PromiseCounted, FutureCounted, ForceOnce, ExecutedAsDecided,
     RequestCarried, PromiseOwned, NotNeededAborts, ResultInv, Requested, Decided, Aborting, Locked,
     One, Listed, Typed, CommitState, Natural, Steady, Tallied
<1>7. Orderly(t, w)
  BY <1>0, <1>1, <1>4 DEF Orderly, Decided, Locked, Aborting, Typed, CommitState
<1>. QED BY <1>1, <1>2, <1>6, <1>7, EndStep

\* A client asks for the abort.
LEMMA AbortEnd ==
  ASSUME EndInv, RInv', NEW t \in Thread, Abort(t)
  PROVE  EndInv'
<1>. DEFINE w == <<"RequestAbort", "via_handle">>
<1>1. Does(t, w) /\ Popped(t) = "none" BY DEF Abort, At, Does, Popped, Idle
<1>2. Sound(w) /\ \A x \in Tallied : Count(w, x) = Is("RequestAbort", x) + Is("via_handle", x)
  <2>1. {"RequestAbort", "via_handle"} \subseteq Free BY DEF Free, Task, Via
  <2>. QED BY <2>1, FreeWork
<1>3. Moved(Popped(t), w) BY <1>1, <1>2, MovedBy
<1>4. /\ UNCHANGED <<commit_state, handles, open_ptrs, user_futures, nodes,
                     open_reference_count, commit_reference_count, own_future,
                     own_promise, promise_refs, future_refs, future_state, result,
                     force_cb, not_needed_cb, executed>>
  BY DEF Abort, refs, counts, future, callbacks
<1>. HIDE DEF w
<1>5. /\ Natural /\ Steady({"RequestAbort"})
      /\ Pending("RequestAbort")' = Pending("RequestAbort") + 1
  BY <1>1, <1>2, <1>3 DEF Natural, Steady, Moved, Tallied, Is
<1>6. Tallies'
  BY EndTyped, <1>4, <1>5 DEF Tallies, PromiseCounted, FutureCounted, ForceOnce, ExecutedAsDecided,
     RequestCarried, PromiseOwned, NotNeededAborts, ResultInv, Requested, Decided, Aborting, Locked,
     One, Listed, Typed, CommitState, Natural, Steady, Tallied
<1>7. Orderly(t, w)
  BY EndTyped, <1>1, <1>4 DEF Orderly, Decided, Locked, Aborting, Typed, CommitState
<1>. QED BY <1>1, <1>2, <1>6, <1>7, EndStep

\* A second terminal node, or a failing write, asks for the abort.
LEMMA AbortWithErrorEnd ==
  ASSUME EndInv, RInv', NEW t \in Thread, AbortWithError(t)
  PROVE  EndInv'
<1>. DEFINE w == <<"RequestAbort", "via_open">>
<1>1. Does(t, w) /\ Popped(t) = "none" BY DEF AbortWithError, At, Does, Popped, Idle
<1>2. Sound(w) /\ \A x \in Tallied : Count(w, x) = Is("RequestAbort", x) + Is("via_open", x)
  <2>1. {"RequestAbort", "via_open"} \subseteq Free BY DEF Free, Task, Via
  <2>. QED BY <2>1, FreeWork
<1>3. Moved(Popped(t), w) BY <1>1, <1>2, MovedBy
<1>4. /\ UNCHANGED <<commit_state, handles, open_ptrs, user_futures, nodes,
                     open_reference_count, commit_reference_count, own_future,
                     own_promise, promise_refs, future_refs, future_state, result,
                     force_cb, not_needed_cb, executed>>
  BY DEF AbortWithError, refs, counts, future, callbacks
<1>. HIDE DEF w
<1>5. /\ Natural /\ Steady({"RequestAbort"})
      /\ Pending("RequestAbort")' = Pending("RequestAbort") + 1
  BY <1>1, <1>2, <1>3 DEF Natural, Steady, Moved, Tallied, Is
<1>6. Tallies'
  BY EndTyped, <1>4, <1>5 DEF Tallies, PromiseCounted, FutureCounted, ForceOnce, ExecutedAsDecided,
     RequestCarried, PromiseOwned, NotNeededAborts, ResultInv, Requested, Decided, Aborting, Locked,
     One, Listed, Typed, CommitState, Natural, Steady, Tallied
<1>7. Orderly(t, w)
  BY EndTyped, <1>1, <1>4 DEF Orderly, Decided, Locked, Aborting, Typed, CommitState
<1>. QED BY <1>1, <1>2, <1>6, <1>7, EndStep

\* An open node reports an error.
LEMMA SetErrorEnd ==
  ASSUME EndInv, RInv', NEW t \in Thread, SetError(t)
  PROVE  EndInv'
<1>. USE DEF Booked
<1>0. Booked(t) BY EndTyped
<1>. DEFINE w == <<"SetDeferredResult", "via_open">>
<1>1. Does(t, w) /\ Popped(t) = "none" BY DEF SetError, At, Does, Popped, Idle
<1>2. Sound(w) /\ \A x \in Tallied : Count(w, x) = Is("SetDeferredResult", x) + Is("via_open", x)
  <2>1. {"SetDeferredResult", "via_open"} \subseteq Free BY DEF Free, Task, Via
  <2>. QED BY <2>1, FreeWork
<1>3. Moved(Popped(t), w) BY <1>1, <1>2, MovedBy
<1>4. /\ UNCHANGED <<commit_state, handles, open_ptrs, user_futures, nodes,
                     open_reference_count, commit_reference_count, own_future,
                     own_promise, promise_refs, future_refs, future_state, result,
                     force_cb, not_needed_cb, executed>>
  BY DEF SetError, refs, counts, future, callbacks
<1>. HIDE DEF w
<1>5. /\ Natural /\ Steady({}) BY <1>1, <1>2, <1>3 DEF Natural, Steady, Moved, Tallied, Is
<1>6. Tallies'
  BY <1>0, <1>4, <1>5 DEF Tallies, PromiseCounted, FutureCounted, ForceOnce, ExecutedAsDecided,
     RequestCarried, PromiseOwned, NotNeededAborts, ResultInv, Requested, Decided, Aborting, Locked,
     One, Listed, Typed, CommitState, Natural, Steady, Tallied
<1>7. Orderly(t, w)
  BY <1>0, <1>1, <1>4 DEF Orderly, Decided, Locked, Aborting, Typed, CommitState
<1>. QED BY <1>1, <1>2, <1>6, <1>7, EndStep

\* A node that is being committed reports an error.
LEMMA NodeSetErrorEnd ==
  ASSUME EndInv, RInv', NEW t \in Thread, NodeSetError(t)
  PROVE  EndInv'
<1>. USE DEF Booked
<1>0. Booked(t) BY EndTyped
<1>. DEFINE w == <<"SetDeferredResult", "via_node">>
<1>1. Does(t, w) /\ Popped(t) = "none" BY DEF NodeSetError, At, Does, Popped, Idle
<1>2. Sound(w) /\ \A x \in Tallied : Count(w, x) = Is("SetDeferredResult", x) + Is("via_node", x)
  <2>1. {"SetDeferredResult", "via_node"} \subseteq Free BY DEF Free, Task, Via
  <2>. QED BY <2>1, FreeWork
<1>3. Moved(Popped(t), w) BY <1>1, <1>2, MovedBy
<1>4. /\ UNCHANGED <<commit_state, handles, open_ptrs, user_futures, nodes,
                     open_reference_count, commit_reference_count, own_future,
                     own_promise, promise_refs, future_refs, future_state, result,
                     force_cb, not_needed_cb, executed>>
  BY DEF NodeSetError, refs, counts, future, callbacks
<1>. HIDE DEF w
<1>5. /\ Natural /\ Steady({}) BY <1>1, <1>2, <1>3 DEF Natural, Steady, Moved, Tallied, Is
<1>6. Tallies'
  BY <1>0, <1>4, <1>5 DEF Tallies, PromiseCounted, FutureCounted, ForceOnce, ExecutedAsDecided,
     RequestCarried, PromiseOwned, NotNeededAborts, ResultInv, Requested, Decided, Aborting, Locked,
     One, Listed, Typed, CommitState, Natural, Steady, Tallied
<1>7. Orderly(t, w)
  BY <1>0, <1>1, <1>4 DEF Orderly, Decided, Locked, Aborting, Typed, CommitState
<1>. QED BY <1>1, <1>2, <1>6, <1>7, EndStep

\* New references of clients.
LEMMA AcquireOpenEnd ==
  ASSUME EndInv, RInv', NEW t \in Thread, AcquireOpenPtr(t) \/ CopyOpenPtr(t)
  PROVE  EndInv'
<1>. USE DEF Booked
<1>0. Booked(t) BY EndTyped
<1>1. UNCHANGED <<stack, commit_state, callbacks, future_state>>
  BY DEF AcquireOpenPtr, CopyOpenPtr, AcquireOpenReference, AcquireCommitReference, kCommitReferenceIncrement, future, counts
<1>2. /\ open_ptrs' = open_ptrs + 1
      /\ open_reference_count' = open_reference_count + 1
      /\ UNCHANGED <<commit_state, handles, user_futures, nodes, own_future, own_promise,
                     promise_refs, future_refs, future_state, result, force_cb,
                     not_needed_cb, executed>>
  BY DEF AcquireOpenPtr, CopyOpenPtr, AcquireOpenReference, AcquireCommitReference, kCommitReferenceIncrement, refs, counts, future, callbacks
<1>3. Natural /\ Steady({}) BY <1>0, <1>1, SameCounts DEF Natural, Steady
<1>4. Tallies'
  BY <1>0, <1>2, <1>3 DEF Tallies, PromiseCounted, FutureCounted, ForceOnce, ExecutedAsDecided,
     RequestCarried, PromiseOwned, NotNeededAborts, ResultInv, Requested, Decided, Aborting, Locked,
     One, Listed, Typed, CommitState, Natural, Steady, Tallied
<1>. QED BY <1>1, <1>4, EndStay

\* An implicit transaction is opened again through a node, and takes its future
\* back.
LEMMA AcquireImplicitEnd ==
  ASSUME EndInv, RInv', NEW t \in Thread, AcquireImplicitOpenPtr(t)
  PROVE  EndInv'
<1>. USE DEF Booked
<1>0. Booked(t) BY EndTyped
<1>1. UNCHANGED <<stack, commit_state, callbacks, future_state>>
  BY DEF AcquireImplicitOpenPtr, AcquireOpenReference, AcquireCommitReference, kCommitReferenceIncrement, future, counts
<1>2. /\ open_ptrs' = open_ptrs + 1
      /\ open_reference_count' = open_reference_count + 1
      /\ own_future' = TRUE
      /\ future_refs' = future_refs + IF own_future THEN 0 ELSE 1
      /\ UNCHANGED <<commit_state, handles, user_futures, nodes, own_promise, promise_refs,
                     future_state, result, force_cb, not_needed_cb, executed>>
  BY DEF AcquireImplicitOpenPtr, AcquireOpenReference, AcquireCommitReference, kCommitReferenceIncrement, refs, counts, future, callbacks
<1>3. Natural /\ Steady({}) BY <1>0, <1>1, SameCounts DEF Natural, Steady
<1>4. Tallies'
  BY <1>0, <1>2, <1>3 DEF Tallies, PromiseCounted, FutureCounted, ForceOnce, ExecutedAsDecided,
     RequestCarried, PromiseOwned, NotNeededAborts, ResultInv, Requested, Decided, Aborting, Locked,
     One, Listed, Typed, CommitState, Natural, Steady, Tallied
<1>. QED BY <1>1, <1>4, EndStay

\* A commit block is taken while the transaction is open.
LEMMA AcquireBlockEnd ==
  ASSUME EndInv, RInv', NEW t \in Thread, AcquireCommitBlock(t)
  PROVE  EndInv'
<1>. USE DEF Booked
<1>0. Booked(t) BY EndTyped
<1>1. UNCHANGED <<stack, commit_state, callbacks, future_state>>
  BY DEF AcquireCommitBlock, future, counts
<1>2. /\ open_reference_count' = open_reference_count + 1
      /\ UNCHANGED <<commit_state, handles, open_ptrs, user_futures, nodes,
                     commit_reference_count, own_future, own_promise, promise_refs,
                     future_refs, future_state, result, force_cb, not_needed_cb,
                     executed>>
  BY DEF AcquireCommitBlock, refs, counts, future, callbacks
<1>3. Natural /\ Steady({}) BY <1>0, <1>1, SameCounts DEF Natural, Steady
<1>4. Tallies'
  BY <1>0, <1>2, <1>3 DEF Tallies, PromiseCounted, FutureCounted, ForceOnce, ExecutedAsDecided,
     RequestCarried, PromiseOwned, NotNeededAborts, ResultInv, Requested, Decided, Aborting, Locked,
     One, Listed, Typed, CommitState, Natural, Steady, Tallied
<1>. QED BY <1>1, <1>4, EndStay

\* A transaction is copied.
LEMMA CopyTransactionEnd ==
  ASSUME EndInv, RInv', NEW t \in Thread, CopyTransaction(t)
  PROVE  EndInv'
<1>. USE DEF Booked
<1>0. Booked(t) BY EndTyped
<1>1. UNCHANGED <<stack, commit_state, callbacks, future_state>>
  BY DEF CopyTransaction, AcquireOpenReference, AcquireCommitReference, kCommitReferenceIncrement, future, counts
<1>2. /\ handles' = handles + 1
      /\ UNCHANGED <<commit_state, open_ptrs, user_futures, nodes, open_reference_count,
                     own_future, own_promise, promise_refs, future_refs, future_state,
                     result, force_cb, not_needed_cb, executed>>
  BY DEF CopyTransaction, AcquireOpenReference, AcquireCommitReference, kCommitReferenceIncrement, refs, counts, future, callbacks
<1>3. Natural /\ Steady({}) BY <1>0, <1>1, SameCounts DEF Natural, Steady
<1>4. Tallies'
  BY <1>0, <1>2, <1>3 DEF Tallies, PromiseCounted, FutureCounted, ForceOnce, ExecutedAsDecided,
     RequestCarried, PromiseOwned, NotNeededAborts, ResultInv, Requested, Decided, Aborting, Locked,
     One, Listed, Typed, CommitState, Natural, Steady, Tallied
<1>. QED BY <1>1, <1>4, EndStay

\* A client takes a future while the transaction owns one.
LEMMA GetFutureEnd ==
  ASSUME EndInv, RInv', NEW t \in Thread, GetFuture(t)
  PROVE  EndInv'
<1>1. UNCHANGED <<stack, commit_state, callbacks, future_state>>
  BY DEF GetFuture, future, counts
<1>2. /\ user_futures' = user_futures + 1
      /\ future_refs' = future_refs + 1
      /\ UNCHANGED <<commit_state, handles, open_ptrs, nodes, open_reference_count,
                     commit_reference_count, own_future, own_promise, promise_refs,
                     future_state, result, force_cb, not_needed_cb, executed>>
  BY DEF GetFuture, refs, counts, future, callbacks
<1>3. Natural /\ Steady({}) BY EndTyped, <1>1, SameCounts DEF Natural, Steady
<1>4. Tallies'
  <2>1. (PromiseCounted /\ FutureCounted /\ ForceOnce)'
    BY EndTyped, <1>2, <1>3 DEF Tallies, PromiseCounted, FutureCounted, ForceOnce, One, Listed,
       Typed, Natural, Steady, Tallied
  <2>2. (ExecutedAsDecided /\ RequestCarried /\ PromiseOwned)'
    BY EndTyped, <1>2, <1>3 DEF Tallies, ExecutedAsDecided, RequestCarried, PromiseOwned, PromiseCounted, Requested, Decided, CommitState, One, Listed,
       Typed, Natural, Steady, Tallied
  <2>3. NotNeededAborts'
    BY EndTyped, <1>2, <1>3 DEF Tallies, NotNeededAborts, ForceOnce, FutureCounted, One, Listed, CommitState, Decided,
       Typed, Natural, Steady, Tallied
  <2>4. ResultInv'
    BY EndTyped, <1>2, <1>3 DEF Tallies, ResultInv, PromiseCounted, PromiseOwned, ExecutedAsDecided, Decided, Aborting, Locked, One, Listed, CommitState,
       Typed, Natural, Steady, Tallied
  <2>. QED BY <2>1, <2>2, <2>3, <2>4 DEF Tallies
<1>. QED BY <1>1, <1>4, EndStay

\* A node is added before the decision.
LEMMA RegisterEnd ==
  ASSUME EndInv, RInv', NEW t \in Thread, Register(t)
  PROVE  EndInv'
<1>1. UNCHANGED <<stack, commit_state, callbacks, future_state>> BY DEF Register, future, counts
<1>2. /\ nodes' = nodes + 1
      /\ commit_state \in {"kOpen", "kOpenAndCommitRequested"}
      /\ UNCHANGED <<commit_state, handles, open_ptrs, user_futures, open_reference_count,
                     commit_reference_count, own_future, own_promise, promise_refs,
                     future_refs, future_state, result, force_cb, not_needed_cb,
                     executed>>
  BY DEF Register, refs, counts, future, callbacks
<1>3. Natural /\ Steady({}) BY EndTyped, <1>1, SameCounts DEF Natural, Steady
<1>4. Tallies'
  BY EndTyped, <1>2, <1>3 DEF Tallies, PromiseCounted, FutureCounted, ForceOnce, ExecutedAsDecided,
     RequestCarried, PromiseOwned, NotNeededAborts, ResultInv, Requested, Decided, Aborting, Locked,
     One, Listed, Typed, CommitState, Natural, Steady, Tallied
<1>. QED BY <1>1, <1>4, EndStay

\* The first to force the future.
LEMMA ForceFutureEnd ==
  ASSUME EndInv, RInv', NEW t \in Thread, ForceFuture(t)
  PROVE  EndInv'
<1>. DEFINE w == <<"RunForceCallbacks", "Forced", "via_future">>
<1>1. Does(t, w) /\ Popped(t) = "none" BY DEF ForceFuture, At, Does, Popped, Idle
<1>2. Sound(w) /\ \A x \in Tallied : Count(w, x) = 0
  <2>1. {"RunForceCallbacks", "Forced", "via_future"} \subseteq Free BY DEF Free, Task, Via
  <2>2. Sound(w) /\ \A x : Count(w, x) = Is("RunForceCallbacks", x) + (Is("Forced", x) + Is("via_future", x))
    BY <2>1, ThreeWork
  <2>. QED BY <2>2 DEF Is, Tallied
<1>3. Moved(Popped(t), w) BY <1>1, <1>2, MovedBy
<1>4. /\ future_state = {}
      /\ future_state' = {"kPreparingToForce"}
      /\ UNCHANGED <<commit_state, handles, open_ptrs, user_futures, nodes,
                     open_reference_count, commit_reference_count, own_future,
                     own_promise, promise_refs, future_refs, result, force_cb,
                     not_needed_cb, executed>>
  BY DEF ForceFuture, refs, counts, future, callbacks
<1>. HIDE DEF w
<1>5. /\ Natural /\ Steady({}) BY <1>1, <1>2, <1>3 DEF Natural, Steady, Moved, Tallied, Is
<1>6. Tallies'
  BY EndTyped, <1>4, <1>5 DEF Tallies, PromiseCounted, FutureCounted, ForceOnce, ExecutedAsDecided,
     RequestCarried, PromiseOwned, NotNeededAborts, ResultInv, Requested, Decided, Aborting, Locked,
     One, Listed, Typed, CommitState, Natural, Steady, Tallied
<1>7. Orderly(t, w)
  BY EndTyped, <1>1, <1>4 DEF Orderly, Decided, Locked, Aborting, Typed, CommitState
<1>. QED BY <1>1, <1>2, <1>6, <1>7, EndStep

\* The nodes are called; with no node the promise is given back.
LEMMA ExecuteCommitEnd ==
  ASSUME EndInv, RInv', NEW t \in Thread, ExecuteCommit(t)
  PROVE  EndInv'
<1>. DEFINE c == own_promise /\ nodes = 0
            w == If(c, <<"ReleasePromise">>)
<1>1. Does(t, w) /\ Popped(t) = "ExecuteCommit"
  BY DEF ExecuteCommit, Execute, At, Does, Popped, Idle
<1>2. Sound(w) /\ \A x \in Tallied : Count(w, x) = IF c THEN Is("ReleasePromise", x) ELSE 0
  <2>1. "ReleasePromise" \in Free /\ c \in BOOLEAN BY DEF Free, Task, Via
  <2>. HIDE DEF c
  <2>. QED BY <2>1, OneWork
<1>3. Moved(Popped(t), w) BY <1>1, <1>2, MovedBy
<1>4. /\ executed' = "commit"
      /\ own_promise' = (own_promise /\ nodes # 0)
      /\ UNCHANGED <<commit_state, handles, open_ptrs, user_futures, nodes,
                     open_reference_count, commit_reference_count, own_future,
                     promise_refs, future_refs, future_state, result, force_cb,
                     not_needed_cb>>
  BY DEF ExecuteCommit, Execute, refs, counts, future, callbacks
<1>10. /\ ~Idle(t) /\ stack[t] # <<>> /\ Head(stack[t]) = "ExecuteCommit" /\ stack[t] \in Seq(Task)
       /\ stack[t] \in Seq(Timely)
  BY EndTyped, <1>1 DEF Popped, StackOK, Idle, WorkInOrder
<1>11. commit_state = "kCommitStarted"
  <2>1. Head(stack[t]) \in Timely BY <1>10
  <2>. QED BY <1>10, <2>1 DEF Timely
<1>12. force_cb # "listed" /\ not_needed_cb # "listed"
  BY EndTyped, <1>10, FirstTail DEF WorkInOrder, Executes
<1>13. own_promise' \in BOOLEAN /\ (own_promise' <=> own_promise /\ nodes # 0)
  BY <1>4 DEF RInv, IInv, TypeOK
<1>14. /\ own_promise' <=> nodes # 0
       /\ c => own_promise /\ ~own_promise'
       /\ ~c => own_promise' = own_promise
  BY EndTyped, <1>13 DEF Tallies, PromiseOwned, Typed
<1>. HIDE DEF c
<1>. HIDE DEF w
<1>5. /\ Natural /\ Steady({"ReleasePromise", "ExecuteCommit"})
      /\ Pending("ExecuteCommit")' = Pending("ExecuteCommit") - 1
      /\ Pending("ReleasePromise")' = Pending("ReleasePromise") + IF c THEN 1 ELSE 0
  BY <1>1, <1>2, <1>3 DEF Natural, Steady, Moved, Tallied, Is
<1>6. Tallies'
  <2>0. One(own_promise') + (IF c THEN 1 ELSE 0) = One(own_promise) BY <1>14 DEF One
  <2>1. (PromiseCounted /\ FutureCounted /\ ForceOnce)'
    BY EndTyped, <1>4, <1>5, <1>11, <1>12, <1>13, <1>14, <2>0 DEF Tallies, PromiseCounted, FutureCounted, ForceOnce, One, Listed,
       Typed, Natural, Steady, Tallied
  <2>2. (ExecutedAsDecided /\ RequestCarried /\ PromiseOwned)'
    BY EndTyped, <1>4, <1>5, <1>11, <1>12, <1>13, <1>14 DEF Tallies, ExecutedAsDecided, RequestCarried, PromiseOwned, PromiseCounted, Requested, Decided, CommitState, One, Listed,
       Typed, Natural, Steady, Tallied
  <2>3. NotNeededAborts'
    BY EndTyped, <1>4, <1>5, <1>11, <1>12, <1>13, <1>14 DEF Tallies, NotNeededAborts, ForceOnce, FutureCounted, One, Listed, CommitState, Decided,
       Typed, Natural, Steady, Tallied
  <2>4. ResultInv'
    BY EndTyped, <1>4, <1>5, <1>11, <1>12, <1>13, <1>14 DEF Tallies, ResultInv, PromiseCounted, PromiseOwned, ExecutedAsDecided, Decided, Aborting, Locked, One, Listed, CommitState,
       Typed, Natural, Steady, Tallied
  <2>. QED BY <2>1, <2>2, <2>3, <2>4 DEF Tallies
<1>7. Orderly(t, w)
  BY EndTyped, <1>1, <1>4 DEF Orderly, Decided, Locked, Aborting, Typed, CommitState
<1>. QED BY <1>1, <1>2, <1>6, <1>7, EndStep

\* The abort runs, and releases the promise if there is no node.
LEMMA ExecuteAbortEnd ==
  ASSUME EndInv, RInv', NEW t \in Thread, ExecuteAbort(t)
  PROVE  EndInv'
<1>. DEFINE c == own_promise /\ nodes = 0
            w == If(c, <<"ReleasePromise">>)
<1>1. Does(t, w) /\ Popped(t) = "ExecuteAbort"
  BY DEF ExecuteAbort, Execute, At, Does, Popped, Idle
<1>2. Sound(w) /\ \A x \in Tallied : Count(w, x) = IF c THEN Is("ReleasePromise", x) ELSE 0
  <2>1. "ReleasePromise" \in Free /\ c \in BOOLEAN BY DEF Free, Task, Via
  <2>. HIDE DEF c
  <2>. QED BY <2>1, OneWork
<1>3. Moved(Popped(t), w) BY <1>1, <1>2, MovedBy
<1>4. /\ executed' = "abort"
      /\ own_promise' = (own_promise /\ nodes # 0)
      /\ UNCHANGED <<commit_state, handles, open_ptrs, user_futures, nodes,
                     open_reference_count, commit_reference_count, own_future,
                     promise_refs, future_refs, future_state, result, force_cb,
                     not_needed_cb>>
  BY DEF ExecuteAbort, Execute, refs, counts, future, callbacks
<1>10. /\ ~Idle(t) /\ stack[t] # <<>> /\ Head(stack[t]) = "ExecuteAbort" /\ stack[t] \in Seq(Task)
       /\ stack[t] \in Seq(Timely)
  BY EndTyped, <1>1 DEF Popped, StackOK, Idle, WorkInOrder
<1>11. commit_state = "kAborted"
  <2>1. Head(stack[t]) \in Timely BY <1>10
  <2>. QED BY <1>10, <2>1 DEF Timely
<1>12. force_cb # "listed" /\ not_needed_cb # "listed"
  BY EndTyped, <1>10, FirstTail DEF WorkInOrder, Executes
<1>13. own_promise' \in BOOLEAN /\ (own_promise' <=> own_promise /\ nodes # 0)
  BY <1>4 DEF RInv, IInv, TypeOK
<1>14. /\ own_promise' <=> nodes # 0
       /\ c => own_promise /\ ~own_promise'
       /\ ~c => own_promise' = own_promise
  BY EndTyped, <1>13 DEF Tallies, PromiseOwned, Typed
<1>. HIDE DEF c
<1>. HIDE DEF w
<1>5. /\ Natural /\ Steady({"ReleasePromise", "ExecuteAbort"})
      /\ Pending("ExecuteAbort")' = Pending("ExecuteAbort") - 1
      /\ Pending("ReleasePromise")' = Pending("ReleasePromise") + IF c THEN 1 ELSE 0
  BY <1>1, <1>2, <1>3 DEF Natural, Steady, Moved, Tallied, Is
<1>6. Tallies'
  <2>0. One(own_promise') + (IF c THEN 1 ELSE 0) = One(own_promise) BY <1>14 DEF One
  <2>1. (PromiseCounted /\ FutureCounted /\ ForceOnce)'
    BY EndTyped, <1>4, <1>5, <1>11, <1>12, <1>13, <1>14, <2>0 DEF Tallies, PromiseCounted, FutureCounted, ForceOnce, One, Listed,
       Typed, Natural, Steady, Tallied
  <2>2. (ExecutedAsDecided /\ RequestCarried /\ PromiseOwned)'
    BY EndTyped, <1>4, <1>5, <1>11, <1>12, <1>13, <1>14 DEF Tallies, ExecutedAsDecided, RequestCarried, PromiseOwned, PromiseCounted, Requested, Decided, CommitState, One, Listed,
       Typed, Natural, Steady, Tallied
  <2>3. NotNeededAborts'
    BY EndTyped, <1>4, <1>5, <1>11, <1>12, <1>13, <1>14 DEF Tallies, NotNeededAborts, ForceOnce, FutureCounted, One, Listed, CommitState, Decided,
       Typed, Natural, Steady, Tallied
  <2>4. ResultInv'
    BY EndTyped, <1>4, <1>5, <1>11, <1>12, <1>13, <1>14 DEF Tallies, ResultInv, PromiseCounted, PromiseOwned, ExecutedAsDecided, Decided, Aborting, Locked, One, Listed, CommitState,
       Typed, Natural, Steady, Tallied
  <2>. QED BY <2>1, <2>2, <2>3, <2>4 DEF Tallies
<1>7. Orderly(t, w)
  BY EndTyped, <1>1, <1>4 DEF Orderly, Decided, Locked, Aborting, Typed, CommitState
<1>. QED BY <1>1, <1>2, <1>6, <1>7, EndStep

\* A commit is requested.
LEMMA RequestCommitEnd ==
  ASSUME EndInv, RInv', NEW t \in Thread, RequestCommit(t)
  PROVE  EndInv'
<1>. USE DEF Booked
<1>0. Booked(t) BY EndTyped
<1>1. CASE commit_state # "kOpen"
  <2>. DEFINE w == <<>>
  <2>1. Does(t, w) /\ Popped(t) = "RequestCommit"
    BY <1>1 DEF RequestCommit, At, Does, Popped, Idle
  <2>2. Sound(w) /\ \A x \in Tallied : Count(w, x) = 0 BY SoundWork, CountEmpty
  <2>3. Moved(Popped(t), w) BY <2>1, <2>2, MovedBy
  <2>4. /\ UNCHANGED <<commit_state, handles, open_ptrs, user_futures, nodes,
                       open_reference_count, commit_reference_count, own_future,
                       own_promise, promise_refs, future_refs, future_state, result,
                       force_cb, not_needed_cb, executed>>
    BY <1>1 DEF RequestCommit, refs, counts, future, callbacks
  <2>. HIDE DEF w
  <2>5. /\ Natural /\ Steady({})
    BY <1>1, <2>1, <2>2, <2>3 DEF Natural, Steady, Moved, Tallied, Is
  <2>6. Tallies'
    BY <1>1, <1>0, <2>4, <2>5 DEF Tallies, PromiseCounted, FutureCounted, ForceOnce, ExecutedAsDecided,
       RequestCarried, PromiseOwned, NotNeededAborts, ResultInv, Requested, Decided, Aborting, Locked,
       One, Listed, Typed, CommitState, Natural, Steady, Tallied
  <2>7. Orderly(t, w)
    BY <1>1, <1>0, <2>1, <2>4 DEF Orderly, Decided, Locked, Aborting, Typed, CommitState
  <2>. QED BY <2>1, <2>2, <2>6, <2>7, EndStep
<1>2. CASE commit_state = "kOpen" /\ open_reference_count # 0
  <2>. DEFINE w == <<>>
  <2>1. Does(t, w) /\ Popped(t) = "RequestCommit"
    BY <1>2 DEF RequestCommit, At, Does, Popped, Idle
  <2>2. Sound(w) /\ \A x \in Tallied : Count(w, x) = 0 BY SoundWork, CountEmpty
  <2>3. Moved(Popped(t), w) BY <2>1, <2>2, MovedBy
  <2>4. /\ commit_state' = "kOpenAndCommitRequested"
        /\ UNCHANGED <<handles, open_ptrs, user_futures, nodes, open_reference_count,
                       commit_reference_count, own_future, own_promise, promise_refs,
                       future_refs, future_state, result, force_cb, not_needed_cb,
                       executed>>
    BY <1>2 DEF RequestCommit, refs, counts, future, callbacks
  <2>. HIDE DEF w
  <2>5. /\ Natural /\ Steady({})
    BY <1>2, <2>1, <2>2, <2>3 DEF Natural, Steady, Moved, Tallied, Is
  <2>6. Tallies'
    BY <1>2, <1>0, <2>4, <2>5 DEF Tallies, PromiseCounted, FutureCounted, ForceOnce, ExecutedAsDecided,
       RequestCarried, PromiseOwned, NotNeededAborts, ResultInv, Requested, Decided, Aborting, Locked,
       One, Listed, Typed, CommitState, Natural, Steady, Tallied
  <2>7. Orderly(t, w)
    BY <1>2, <1>0, <2>1, <2>4 DEF Orderly, Decided, Locked, Aborting, Typed, CommitState
  <2>. QED BY <2>1, <2>2, <2>6, <2>7, EndStep
<1>3. CASE commit_state = "kOpen" /\ open_reference_count = 0
  <2>. DEFINE w == ExecuteCommitWork
  <2>1. Does(t, w) /\ Popped(t) = "RequestCommit"
    BY <1>3 DEF RequestCommit, At, Does, Popped, Idle
  <2>2. Sound(w) /\ \A x \in Tallied : Count(w, x) = Is("ExecuteCommit", x)
    <3>1. commit_state' = "kCommitStarted" BY <1>3 DEF RequestCommit
    <3>. QED BY <3>1, ExecutesWork
  <2>3. Moved(Popped(t), w) BY <2>1, <2>2, MovedBy
  <2>4. /\ commit_state' = "kCommitStarted"
        /\ UNCHANGED <<handles, open_ptrs, user_futures, nodes, open_reference_count,
                       commit_reference_count, own_future, own_promise, promise_refs,
                       future_refs, future_state, result, force_cb, not_needed_cb,
                       executed>>
    BY <1>3 DEF RequestCommit, refs, counts, future, callbacks
  <2>. HIDE DEF w
  <2>5. /\ Natural /\ Steady({"ExecuteCommit"})
        /\ Pending("ExecuteCommit")' = Pending("ExecuteCommit") + 1
    BY <1>3, <2>1, <2>2, <2>3 DEF Natural, Steady, Moved, Tallied, Is
  <2>6. Tallies'
    BY <1>3, <1>0, <2>4, <2>5 DEF Tallies, PromiseCounted, FutureCounted, ForceOnce, ExecutedAsDecided,
       RequestCarried, PromiseOwned, NotNeededAborts, ResultInv, Requested, Decided, Aborting, Locked,
       One, Listed, Typed, CommitState, Natural, Steady, Tallied
  <2>7. Orderly(t, w)
    BY <1>3, <1>0, <2>1, <2>4 DEF Orderly, Decided, Locked, Aborting, Typed, CommitState
  <2>. QED BY <2>1, <2>2, <2>6, <2>7, EndStep
<1>. QED BY <1>1, <1>2, <1>3

\* A request that had to wait is carried out.
LEMMA NoMoreOpenEnd ==
  ASSUME EndInv, RInv', NEW t \in Thread, NoMoreOpenReferences(t)
  PROVE  EndInv'
<1>1. CASE open_reference_count # 0 \/ ~Requested
  <2>. DEFINE w == <<>>
  <2>1. Does(t, w) /\ Popped(t) = "NoMoreOpenReferences"
    BY <1>1 DEF NoMoreOpenReferences, Requested, At, Does, Popped, Idle
  <2>2. Sound(w) /\ \A x \in Tallied : Count(w, x) = 0 BY SoundWork, CountEmpty
  <2>3. Moved(Popped(t), w) BY <2>1, <2>2, MovedBy
  <2>4. /\ UNCHANGED <<commit_state, handles, open_ptrs, user_futures, nodes,
                       open_reference_count, commit_reference_count, own_future,
                       own_promise, promise_refs, future_refs, future_state, result,
                       force_cb, not_needed_cb, executed>>
    BY <1>1 DEF NoMoreOpenReferences, Requested, refs, counts, future, callbacks
  <2>. HIDE DEF w
  <2>5. /\ Natural /\ Steady({"NoMoreOpenReferences"})
        /\ Pending("NoMoreOpenReferences")' = Pending("NoMoreOpenReferences") - 1
    BY <1>1, <2>1, <2>2, <2>3 DEF Natural, Steady, Moved, Tallied, Is
  <2>6. Tallies'
    <3>1. (PromiseCounted /\ FutureCounted /\ ForceOnce)'
      BY <1>1, EndTyped, <2>4, <2>5 DEF Tallies, PromiseCounted, FutureCounted, ForceOnce, One, Listed,
         Typed, Natural, Steady, Tallied
    <3>2. (ExecutedAsDecided /\ RequestCarried /\ PromiseOwned)'
      BY <1>1, EndTyped, <2>4, <2>5 DEF Tallies, ExecutedAsDecided, RequestCarried, PromiseOwned, PromiseCounted, Requested, Decided, CommitState, One, Listed,
         Typed, Natural, Steady, Tallied
    <3>3. NotNeededAborts'
      BY <1>1, EndTyped, <2>4, <2>5 DEF Tallies, NotNeededAborts, ForceOnce, FutureCounted, One, Listed, CommitState, Decided,
         Typed, Natural, Steady, Tallied
    <3>4. ResultInv'
      BY <1>1, EndTyped, <2>4, <2>5 DEF Tallies, ResultInv, PromiseCounted, PromiseOwned, ExecutedAsDecided, Decided, Aborting, Locked, One, Listed, CommitState,
         Typed, Natural, Steady, Tallied
    <3>. QED BY <3>1, <3>2, <3>3, <3>4 DEF Tallies
  <2>7. Orderly(t, w)
    BY <1>1, EndTyped, <2>1, <2>4 DEF Orderly, Decided, Locked, Aborting, Typed, CommitState
  <2>. QED BY <2>1, <2>2, <2>6, <2>7, EndStep
<1>2. CASE open_reference_count = 0 /\ commit_state = "kOpenAndCommitRequested"
  <2>. DEFINE w == ExecuteCommitWork
  <2>1. Does(t, w) /\ Popped(t) = "NoMoreOpenReferences"
    BY <1>2 DEF NoMoreOpenReferences, At, Does, Popped, Idle
  <2>2. Sound(w) /\ \A x \in Tallied : Count(w, x) = Is("ExecuteCommit", x)
    <3>1. commit_state' = "kCommitStarted" BY <1>2 DEF NoMoreOpenReferences
    <3>. QED BY <3>1, ExecutesWork
  <2>3. Moved(Popped(t), w) BY <2>1, <2>2, MovedBy
  <2>4. /\ commit_state' = "kCommitStarted"
        /\ UNCHANGED <<handles, open_ptrs, user_futures, nodes, open_reference_count,
                       commit_reference_count, own_future, own_promise, promise_refs,
                       future_refs, future_state, result, force_cb, not_needed_cb,
                       executed>>
    BY <1>2 DEF NoMoreOpenReferences, refs, counts, future, callbacks
  <2>. HIDE DEF w
  <2>5. /\ Natural /\ Steady({"ExecuteCommit", "NoMoreOpenReferences"})
        /\ Pending("ExecuteCommit")' = Pending("ExecuteCommit") + 1
    BY <1>2, <2>1, <2>2, <2>3 DEF Natural, Steady, Moved, Tallied, Is
  <2>6. Tallies'
    BY <1>2, EndTyped, <2>4, <2>5 DEF Tallies, PromiseCounted, FutureCounted, ForceOnce, ExecutedAsDecided,
       RequestCarried, PromiseOwned, NotNeededAborts, ResultInv, Requested, Decided, Aborting, Locked,
       One, Listed, Typed, CommitState, Natural, Steady, Tallied
  <2>7. Orderly(t, w)
    BY <1>2, EndTyped, <2>1, <2>4 DEF Orderly, Decided, Locked, Aborting, Typed, CommitState
  <2>. QED BY <2>1, <2>2, <2>6, <2>7, EndStep
<1>3. CASE open_reference_count = 0 /\ commit_state = "kAbortRequested"
  <2>. DEFINE w == ExecuteAbortWork
  <2>1. Does(t, w) /\ Popped(t) = "NoMoreOpenReferences"
    BY <1>3 DEF NoMoreOpenReferences, At, Does, Popped, Idle
  <2>2. Sound(w) /\ \A x \in Tallied : Count(w, x) = Is("ExecuteAbort", x)
    <3>1. commit_state' = "kAborted" BY <1>3 DEF NoMoreOpenReferences
    <3>. QED BY <3>1, ExecutesWork
  <2>3. Moved(Popped(t), w) BY <2>1, <2>2, MovedBy
  <2>4. /\ commit_state' = "kAborted"
        /\ UNCHANGED <<handles, open_ptrs, user_futures, nodes, open_reference_count,
                       commit_reference_count, own_future, own_promise, promise_refs,
                       future_refs, future_state, result, force_cb, not_needed_cb,
                       executed>>
    BY <1>3 DEF NoMoreOpenReferences, refs, counts, future, callbacks
  <2>. HIDE DEF w
  <2>5. /\ Natural /\ Steady({"ExecuteAbort", "NoMoreOpenReferences"})
        /\ Pending("ExecuteAbort")' = Pending("ExecuteAbort") + 1
    BY <1>3, <2>1, <2>2, <2>3 DEF Natural, Steady, Moved, Tallied, Is
  <2>6. Tallies'
    BY <1>3, EndTyped, <2>4, <2>5 DEF Tallies, PromiseCounted, FutureCounted, ForceOnce, ExecutedAsDecided,
       RequestCarried, PromiseOwned, NotNeededAborts, ResultInv, Requested, Decided, Aborting, Locked,
       One, Listed, Typed, CommitState, Natural, Steady, Tallied
  <2>7. Orderly(t, w)
    BY <1>3, EndTyped, <2>1, <2>4 DEF Orderly, Decided, Locked, Aborting, Typed, CommitState
  <2>. QED BY <2>1, <2>2, <2>6, <2>7, EndStep
<1>. QED BY <1>1, <1>2, <1>3 DEF Requested

\* What an abort leaves to do: the error is set before the promise is released.
LEMMA AbortWork ==
  ASSUME NEW after, Sound(after)
  PROVE  /\ LET v == <<"SetDeferredResult", "ReleasePromise">> \o after
            IN  Sound(v) /\ Defers(v) /\ \A x \in Tallied : Count(v, x) = Is("ReleasePromise", x) + Count(after, x)
         /\ commit_state' = "kAborted" =>
              LET v == <<"SetDeferredResult">> \o ExecuteAbortWork \o <<"ReleasePromise">> \o after
              IN  /\ Sound(v) /\ Defers(v)
                  /\ \A x \in Tallied : Count(v, x) = Is("ExecuteAbort", x) + Is("ReleasePromise", x) + Count(after, x)
<1>. DEFINE p == <<"SetDeferredResult", "ReleasePromise">>
            q == <<"SetDeferredResult">> \o ExecuteAbortWork
            r == q \o <<"ReleasePromise">>
<1>1. {"SetDeferredResult", "ReleasePromise"} \subseteq Free BY DEF Free, Task, Via
<1>2. /\ Sound(p) /\ Sound(<<"SetDeferredResult">>) /\ Sound(<<"ReleasePromise">>)
      /\ \A x \in Tallied : /\ Count(p, x) = Is("ReleasePromise", x)
                            /\ Count(<<"SetDeferredResult">>, x) = 0
                            /\ Count(<<"ReleasePromise">>, x) = Is("ReleasePromise", x)
  <2>1. /\ Sound(p) /\ Sound(<<"SetDeferredResult">>) /\ Sound(<<"ReleasePromise">>)
        /\ \A x : /\ Count(p, x) = Is("SetDeferredResult", x) + Is("ReleasePromise", x)
                  /\ Count(<<"SetDeferredResult">>, x) = Is("SetDeferredResult", x)
                  /\ Count(<<"ReleasePromise">>, x) = Is("ReleasePromise", x)
    BY <1>1, FreeWork
  <2>2. \A x \in Tallied : Is("SetDeferredResult", x) = 0 /\ Is("ReleasePromise", x) \in Nat
    BY DEF Is, Tallied
  <2>. QED BY <2>1, <2>2
<1>3. Defers(p) BY DEF Defers
<1>4. Sound(p \o after) /\ \A x : Count(p \o after, x) = Count(p, x) + Count(after, x)
  BY <1>2, BothWork
<1>5. p \in Seq(Task) /\ after \in Seq(Task) BY <1>2 DEF Sound
<1>6. Defers(p \o after) BY <1>3, <1>5, DefersConcat
<1>7. ASSUME commit_state' = "kAborted"
      PROVE  /\ Sound(r \o after) /\ Defers(r \o after)
             /\ \A x \in Tallied : Count(r \o after, x) = Is("ExecuteAbort", x) + Is("ReleasePromise", x) + Count(after, x)
  <2>1. Sound(ExecuteAbortWork) /\ \A x \in Tallied : Count(ExecuteAbortWork, x) = Is("ExecuteAbort", x)
    BY <1>7, ExecutesWork
  <2>2. Sound(q) /\ \A x : Count(q, x) = Count(<<"SetDeferredResult">>, x) + Count(ExecuteAbortWork, x)
    BY <1>2, <2>1, BothWork
  <2>3. Sound(r) /\ \A x : Count(r, x) = Count(q, x) + Count(<<"ReleasePromise">>, x)
    <3>. HIDE DEF q
    <3>. QED BY <1>2, <2>2, BothWork
  <2>4. Sound(r \o after) /\ \A x : Count(r \o after, x) = Count(r, x) + Count(after, x)
    <3>. HIDE DEF r
    <3>. QED BY <2>3, BothWork
  <2>5. Defers(r)
    <3>1. /\ Len(q) = 4 /\ q[1] = "SetDeferredResult" /\ q \in Seq(Task)
      BY <2>2 DEF ExecuteAbortWork, Sound
    <3>2. Len(r) = 5 /\ r[1] = "SetDeferredResult" /\ r[5] = "ReleasePromise"
      <4>1. <<"ReleasePromise">> \in Seq(Task) BY <1>2 DEF Sound
      <4>2. Len(<<"ReleasePromise">>) = 1 /\ <<"ReleasePromise">>[1] = "ReleasePromise" OBVIOUS
      <4>. DEFINE z == <<"ReleasePromise">>
      <4>. HIDE DEF q, z
      <4>3. z \in Seq(Task) /\ Len(z) = 1 /\ z[1] = "ReleasePromise" BY <4>1, <4>2 DEF z
      <4>4. /\ Len(q \o z) = Len(q) + Len(z)
            /\ \A i \in 1 .. Len(q) : (q \o z)[i] = q[i]
            /\ \A i \in 1 .. Len(z) : (q \o z)[i + Len(q)] = z[i]
        <5>1. q \in Seq(Task) /\ z \in Seq(Task) BY <3>1, <4>3
        <5>. QED BY <5>1, ConcatFacts
      <4>5. Len(q \o z) = 5 /\ (q \o z)[1] = "SetDeferredResult" /\ (q \o z)[1 + 4] = "ReleasePromise"
        BY <3>1, <4>3, <4>4
      <4>. QED BY <4>5 DEF z
    <3>. HIDE DEF r
    <3>. QED BY <3>2 DEF Defers
  <2>6. Defers(r \o after)
    <3>. HIDE DEF r
    <3>. QED BY <1>5, <2>3, <2>5, DefersConcat DEF Sound
  <2>7. \A x \in Tallied : Is("ExecuteAbort", x) \in Nat /\ Is("ReleasePromise", x) \in Nat
    BY DEF Is
  <2>8. \A x \in Tallied : Count(r, x) = Is("ExecuteAbort", x) + Is("ReleasePromise", x)
    <3>. HIDE DEF r, q
    <3>. QED BY <1>2, <2>1, <2>2, <2>3, <2>7
  <2>. HIDE DEF r, q
  <2>. QED BY <2>4, <2>6, <2>8
<1>. HIDE DEF p
<1>. QED BY <1>2, <1>4, <1>6, <1>7 DEF p

\* An abort is requested, if the decision is not yet taken.
LEMMA RequestAbortEnd ==
  ASSUME EndInv, RInv', NEW t \in Thread, RequestAbort(t)
  PROVE  EndInv'
<1>1. CASE ~(commit_state \in {"kOpen", "kOpenAndCommitRequested"})
  <2>. DEFINE w == <<>>
  <2>1. Does(t, w) /\ Popped(t) = "RequestAbort"
    BY <1>1 DEF RequestAbort, RequestAbortLocked, At, Does, Popped, Idle
  <2>2. Sound(w) /\ \A x \in Tallied : Count(w, x) = 0 BY SoundWork, CountEmpty
  <2>3. Moved(Popped(t), w) BY <2>1, <2>2, MovedBy
  <2>4. /\ UNCHANGED <<commit_state, handles, open_ptrs, user_futures, nodes,
                       open_reference_count, commit_reference_count, own_future,
                       own_promise, promise_refs, future_refs, future_state, result,
                       force_cb, not_needed_cb, executed>>
    BY <1>1 DEF RequestAbort, RequestAbortLocked, refs, counts, future, callbacks
  <2>. HIDE DEF w
  <2>5. /\ Natural /\ Steady({"RequestAbort"})
        /\ Pending("RequestAbort")' = Pending("RequestAbort") - 1
    BY <1>1, <2>1, <2>2, <2>3 DEF Natural, Steady, Moved, Tallied, Is
  <2>6. Tallies'
    <3>1. (PromiseCounted /\ FutureCounted /\ ForceOnce)'
      BY <1>1, EndTyped, <2>4, <2>5 DEF Tallies, PromiseCounted, FutureCounted, ForceOnce, One, Listed,
         Typed, Natural, Steady, Tallied
    <3>2. (ExecutedAsDecided /\ RequestCarried /\ PromiseOwned)'
      BY <1>1, EndTyped, <2>4, <2>5 DEF Tallies, ExecutedAsDecided, RequestCarried, PromiseOwned, PromiseCounted, Requested, Decided, CommitState, One, Listed,
         Typed, Natural, Steady, Tallied
    <3>3. NotNeededAborts'
      BY <1>1, EndTyped, <2>4, <2>5 DEF Tallies, NotNeededAborts, ForceOnce, FutureCounted, One, Listed, CommitState, Decided,
         Typed, Natural, Steady, Tallied
    <3>4. ResultInv'
      BY <1>1, EndTyped, <2>4, <2>5 DEF Tallies, ResultInv, PromiseCounted, PromiseOwned, ExecutedAsDecided, Decided, Aborting, Locked, One, Listed, CommitState,
         Typed, Natural, Steady, Tallied
    <3>. QED BY <3>1, <3>2, <3>3, <3>4 DEF Tallies
  <2>7. Orderly(t, w)
    BY <1>1, EndTyped, <2>1, <2>4 DEF Orderly, Decided, Locked, Aborting, Typed, CommitState
  <2>. QED BY <2>1, <2>2, <2>6, <2>7, EndStep
<1>2. CASE commit_state \in {"kOpen", "kOpenAndCommitRequested"} /\ open_reference_count # 0
  <2>. DEFINE after == <<>>
              w == <<"SetDeferredResult", "ReleasePromise">> \o after
  <2>1. Does(t, w) /\ Popped(t) = "RequestAbort"
    BY <1>2 DEF RequestAbort, RequestAbortLocked, At, Does, Popped, Idle
  <2>2. Sound(w) /\ Defers(w) /\ \A x \in Tallied : Count(w, x) = Is("ReleasePromise", x)
    <3>1. Sound(after) /\ \A x \in Tallied : Count(after, x) = 0 BY SoundWork, CountEmpty
    <3>2. \A x \in Tallied : Is("ReleasePromise", x) \in Nat /\ Is("ExecuteAbort", x) \in Nat /\ Is("ReleaseFuture", x) \in Nat
      BY DEF Is
    <3>. HIDE DEF after
    <3>4. /\ Sound(w) /\ Defers(w)
          /\ \A x \in Tallied : Count(w, x) = Is("ReleasePromise", x) + Count(after, x)
      BY <3>1, AbortWork
    <3>. HIDE DEF w
    <3>. QED BY <3>1, <3>2, <3>4
  <2>3. Moved(Popped(t), w) BY <2>1, <2>2, MovedBy
  <2>4. /\ commit_state' = "kAbortRequested"
        /\ promise_refs' = promise_refs + 1
        /\ UNCHANGED <<handles, open_ptrs, user_futures, nodes, open_reference_count,
                       commit_reference_count, own_future, own_promise, future_refs,
                       future_state, result, force_cb, not_needed_cb, executed>>
    BY <1>2 DEF RequestAbort, RequestAbortLocked, refs, counts, future, callbacks
  <2>. HIDE DEF w
  <2>5. /\ Natural /\ Steady({"ReleasePromise", "RequestAbort"})
        /\ Pending("ReleasePromise")' = Pending("ReleasePromise") + 1
        /\ Pending("RequestAbort")' = Pending("RequestAbort") - 1
    BY <1>2, <2>1, <2>2, <2>3 DEF Natural, Steady, Moved, Tallied, Is
  <2>6. Tallies'
    <3>1. (PromiseCounted /\ FutureCounted /\ ForceOnce)'
      BY <1>2, EndTyped, <2>4, <2>5 DEF Tallies, PromiseCounted, FutureCounted, ForceOnce, One, Listed,
         Typed, Natural, Steady, Tallied
    <3>2. (ExecutedAsDecided /\ RequestCarried /\ PromiseOwned)'
      BY <1>2, EndTyped, <2>4, <2>5 DEF Tallies, ExecutedAsDecided, RequestCarried, PromiseOwned, PromiseCounted, Requested, Decided, CommitState, One, Listed,
         Typed, Natural, Steady, Tallied
    <3>3. NotNeededAborts'
      BY <1>2, EndTyped, <2>4, <2>5 DEF Tallies, NotNeededAborts, ForceOnce, FutureCounted, One, Listed, CommitState, Decided,
         Typed, Natural, Steady, Tallied
    <3>4. ResultInv'
      BY <1>2, EndTyped, <2>4, <2>5 DEF Tallies, ResultInv, PromiseCounted, PromiseOwned, ExecutedAsDecided, Decided, Aborting, Locked, One, Listed, CommitState,
         Typed, Natural, Steady, Tallied
    <3>. QED BY <3>1, <3>2, <3>3, <3>4 DEF Tallies
  <2>7. Orderly(t, w)
    BY <1>2, EndTyped, <2>1, <2>4, <2>2 DEF Orderly, Decided, Locked, Aborting, Typed, CommitState
  <2>. QED BY <2>1, <2>2, <2>6, <2>7, EndStep
<1>3. CASE commit_state \in {"kOpen", "kOpenAndCommitRequested"} /\ open_reference_count = 0
  <2>. DEFINE after == <<>>
              w == <<"SetDeferredResult">> \o ExecuteAbortWork \o <<"ReleasePromise">> \o after
  <2>1. Does(t, w) /\ Popped(t) = "RequestAbort"
    BY <1>3 DEF RequestAbort, RequestAbortLocked, At, Does, Popped, Idle
  <2>2. Sound(w) /\ Defers(w) /\ \A x \in Tallied : Count(w, x) = Is("ExecuteAbort", x) + Is("ReleasePromise", x)
    <3>1. Sound(after) /\ \A x \in Tallied : Count(after, x) = 0 BY SoundWork, CountEmpty
    <3>2. \A x \in Tallied : Is("ReleasePromise", x) \in Nat /\ Is("ExecuteAbort", x) \in Nat /\ Is("ReleaseFuture", x) \in Nat
      BY DEF Is
    <3>3. commit_state' = "kAborted" BY <1>3 DEF RequestAbort, RequestAbortLocked
    <3>. HIDE DEF after
    <3>4. /\ Sound(w) /\ Defers(w)
          /\ \A x \in Tallied : Count(w, x) = Is("ExecuteAbort", x) + Is("ReleasePromise", x) + Count(after, x)
      BY <3>1, <3>3, AbortWork
    <3>. HIDE DEF w
    <3>. QED BY <3>1, <3>2, <3>4
  <2>3. Moved(Popped(t), w) BY <2>1, <2>2, MovedBy
  <2>4. /\ commit_state' = "kAborted"
        /\ promise_refs' = promise_refs + 1
        /\ UNCHANGED <<handles, open_ptrs, user_futures, nodes, open_reference_count,
                       commit_reference_count, own_future, own_promise, future_refs,
                       future_state, result, force_cb, not_needed_cb, executed>>
    BY <1>3 DEF RequestAbort, RequestAbortLocked, refs, counts, future, callbacks
  <2>. HIDE DEF w
  <2>5. /\ Natural /\ Steady({"ReleasePromise", "RequestAbort", "ExecuteAbort"})
        /\ Pending("ReleasePromise")' = Pending("ReleasePromise") + 1
        /\ Pending("RequestAbort")' = Pending("RequestAbort") - 1
        /\ Pending("ExecuteAbort")' = Pending("ExecuteAbort") + 1
    BY <1>3, <2>1, <2>2, <2>3 DEF Natural, Steady, Moved, Tallied, Is
  <2>6. Tallies'
    <3>1. (PromiseCounted /\ FutureCounted /\ ForceOnce)'
      BY <1>3, EndTyped, <2>4, <2>5 DEF Tallies, PromiseCounted, FutureCounted, ForceOnce, One, Listed,
         Typed, Natural, Steady, Tallied
    <3>2. (ExecutedAsDecided /\ RequestCarried /\ PromiseOwned)'
      BY <1>3, EndTyped, <2>4, <2>5 DEF Tallies, ExecutedAsDecided, RequestCarried, PromiseOwned, PromiseCounted, Requested, Decided, CommitState, One, Listed,
         Typed, Natural, Steady, Tallied
    <3>3. NotNeededAborts'
      BY <1>3, EndTyped, <2>4, <2>5 DEF Tallies, NotNeededAborts, ForceOnce, FutureCounted, One, Listed, CommitState, Decided,
         Typed, Natural, Steady, Tallied
    <3>4. ResultInv'
      BY <1>3, EndTyped, <2>4, <2>5 DEF Tallies, ResultInv, PromiseCounted, PromiseOwned, ExecutedAsDecided, Decided, Aborting, Locked, One, Listed, CommitState,
         Typed, Natural, Steady, Tallied
    <3>. QED BY <3>1, <3>2, <3>3, <3>4 DEF Tallies
  <2>7. Orderly(t, w)
    BY <1>3, EndTyped, <2>1, <2>4, <2>2 DEF Orderly, Decided, Locked, Aborting, Typed, CommitState
  <2>. QED BY <2>1, <2>2, <2>6, <2>7, EndStep
<1>. QED BY <1>1, <1>2, <1>3

\* The last commit reference takes the future, and aborts if nothing was requested.
LEMMA NoMoreCommitEnd ==
  ASSUME EndInv, RInv', NEW t \in Thread, NoMoreCommitReferences(t)
  PROVE  EndInv'
<1>. USE DEF Booked
<1>0. Booked(t) BY EndTyped
<1>1. CASE commit_reference_count >= 2
  <2>. DEFINE w == <<>>
  <2>1. Does(t, w) /\ Popped(t) = "NoMoreCommitReferences"
    BY <1>0, <1>1 DEF NoMoreCommitReferences, RequestAbortLocked, kCommitReferenceIncrement, At, Does, Popped, Idle
  <2>2. Sound(w) /\ \A x \in Tallied : Count(w, x) = 0 BY SoundWork, CountEmpty
  <2>3. Moved(Popped(t), w) BY <2>1, <2>2, MovedBy
  <2>4. /\ UNCHANGED <<commit_state, handles, open_ptrs, user_futures, nodes,
                       open_reference_count, commit_reference_count, own_future,
                       own_promise, promise_refs, future_refs, future_state, result,
                       force_cb, not_needed_cb, executed>>
    BY <1>0, <1>1 DEF NoMoreCommitReferences, RequestAbortLocked, kCommitReferenceIncrement, refs, counts, future, callbacks
  <2>. HIDE DEF w
  <2>5. /\ Natural /\ Steady({"NoMoreCommitReferences"})
        /\ Pending("NoMoreCommitReferences")' = Pending("NoMoreCommitReferences") - 1
    BY <1>0, <1>1, <2>1, <2>2, <2>3 DEF Natural, Steady, Moved, Tallied, Is
  <2>6. Tallies'
    <3>1. (PromiseCounted /\ FutureCounted /\ ForceOnce)'
      BY <1>1, <1>0, <2>4, <2>5 DEF Tallies, PromiseCounted, FutureCounted, ForceOnce, Listed,
         Typed, Natural, Steady, Tallied
    <3>2. (ExecutedAsDecided /\ RequestCarried /\ PromiseOwned)'
      BY <1>1, <1>0, <2>4, <2>5 DEF Tallies, ExecutedAsDecided, RequestCarried, PromiseOwned, PromiseCounted, Requested, Decided, CommitState, One, Listed,
         Typed, Natural, Steady, Tallied
    <3>0. handles + open_ptrs + Pending("DecrementCommit") # 0
      <4>1. /\ handles \in Nat /\ open_ptrs \in Nat /\ Pending("DecrementCommit") \in Nat
        BY <1>0, <2>5 DEF Typed, Natural, Tallied
      <4>2. /\ Listed(force_cb) + Pending("DestroyNext") + Pending("DecrementForce") \in Nat
            /\ Listed(force_cb) + Pending("DestroyNext") + Pending("DecrementForce") <= 1
        BY <1>0, <2>5 DEF Natural, Tallied, Listed, Tallies, ForceOnce
      <4>. QED BY <1>0, <1>1, <4>1, <4>2
    <3>3. NotNeededAborts'
      BY <1>1, <1>0, <2>4, <2>5, <3>0 DEF Tallies, NotNeededAborts, ForceOnce, FutureCounted, One, Listed, CommitState, Decided,
         Typed, Natural, Steady, Tallied
    <3>4. ResultInv'
      BY <1>1, <1>0, <2>4, <2>5 DEF Tallies, ResultInv, PromiseCounted, PromiseOwned, ExecutedAsDecided, Decided, Aborting, Locked, One, Listed, CommitState,
         Typed, Natural, Steady, Tallied
    <3>. QED BY <3>1, <3>2, <3>3, <3>4 DEF Tallies
  <2>7. Orderly(t, w)
    BY <1>1, <1>0, <2>1, <2>4 DEF Orderly, Decided, Locked, Aborting, Typed, CommitState
  <2>. QED BY <2>1, <2>2, <2>6, <2>7, EndStep
<1>2. CASE commit_reference_count < 2 /\ ~(commit_reference_count = 0 /\ commit_state = "kOpen")
  <2>. DEFINE w == If(own_future, <<"ReleaseFuture">>)
  <2>1. Does(t, w) /\ Popped(t) = "NoMoreCommitReferences"
    BY <1>0, <1>2 DEF NoMoreCommitReferences, RequestAbortLocked, kCommitReferenceIncrement, At, Does, Popped, Idle
  <2>2. Sound(w) /\ \A x \in Tallied : Count(w, x) = (IF own_future THEN Is("ReleaseFuture", x) ELSE 0)
    <3>1. "ReleaseFuture" \in Free /\ own_future \in BOOLEAN BY <1>0 DEF Free, Task, Via, Typed
    <3>. QED BY <3>1, OneWork
  <2>3. Moved(Popped(t), w) BY <2>1, <2>2, MovedBy
  <2>4. /\ own_future' = FALSE
        /\ UNCHANGED <<commit_state, handles, open_ptrs, user_futures, nodes,
                       open_reference_count, commit_reference_count, own_promise,
                       promise_refs, future_refs, future_state, result, force_cb,
                       not_needed_cb, executed>>
    BY <1>0, <1>2 DEF NoMoreCommitReferences, RequestAbortLocked, kCommitReferenceIncrement, refs, counts, future, callbacks
  <2>. HIDE DEF w
  <2>5. /\ Natural /\ Steady({"NoMoreCommitReferences", "ReleaseFuture"})
        /\ Pending("ReleaseFuture")' = Pending("ReleaseFuture") + (IF own_future THEN 1 ELSE 0)
    BY <1>0, <1>2, <2>1, <2>2, <2>3 DEF Natural, Steady, Moved, Tallied, Is
  <2>6. Tallies'
    <3>0. /\ Pending("ReleaseFuture")' = Pending("ReleaseFuture") + One(own_future)
           /\ One(own_future') = 0 /\ One(own_future) \in Nat /\ One(own_promise) \in Nat /\ UNCHANGED own_promise
      BY <1>0, <2>4, <2>5 DEF One, Typed
    <3>1. (PromiseCounted /\ FutureCounted /\ ForceOnce)'
      <4>1. PromiseCounted'
        BY <1>2, <1>0, <2>4, <2>5, <3>0 DEF Tallies, PromiseCounted, Listed, Typed, Natural, Steady, Tallied
      <4>2. FutureCounted'
        BY <1>2, <1>0, <2>4, <2>5, <3>0 DEF Tallies, FutureCounted, Listed, Typed, Natural, Steady, Tallied
      <4>3. ForceOnce'
        BY <1>2, <1>0, <2>4, <2>5, <3>0 DEF Tallies, ForceOnce, Listed, Typed, Natural, Steady, Tallied
      <4>. QED BY <4>1, <4>2, <4>3
    <3>2. (ExecutedAsDecided /\ RequestCarried /\ PromiseOwned)'
      BY <1>2, <1>0, <2>4, <2>5 DEF Tallies, ExecutedAsDecided, RequestCarried, PromiseOwned, PromiseCounted, Requested, Decided, CommitState, One, Listed,
         Typed, Natural, Steady, Tallied
    <3>3. NotNeededAborts'
      BY <1>2, <1>0, <2>4, <2>5 DEF Tallies, NotNeededAborts, ForceOnce, FutureCounted, One, Listed, CommitState, Decided,
         Typed, Natural, Steady, Tallied
    <3>4. ResultInv'
      BY <1>2, <1>0, <2>4, <2>5 DEF Tallies, ResultInv, PromiseCounted, PromiseOwned, ExecutedAsDecided, Decided, Aborting, Locked, One, Listed, CommitState,
         Typed, Natural, Steady, Tallied
    <3>. QED BY <3>1, <3>2, <3>3, <3>4 DEF Tallies
  <2>7. Orderly(t, w)
    BY <1>2, <1>0, <2>1, <2>4 DEF Orderly, Decided, Locked, Aborting, Typed, CommitState
  <2>. QED BY <2>1, <2>2, <2>6, <2>7, EndStep
<1>3. CASE commit_reference_count = 0 /\ commit_state = "kOpen" /\ open_reference_count # 0
  <2>. DEFINE after == If(own_future, <<"ReleaseFuture">>)
              w == <<"SetDeferredResult", "ReleasePromise">> \o after
  <2>1. Does(t, w) /\ Popped(t) = "NoMoreCommitReferences"
    BY <1>0, <1>3 DEF NoMoreCommitReferences, kCommitReferenceIncrement, RequestAbortLocked, At, Does, Popped, Idle
  <2>2. Sound(w) /\ Defers(w) /\ \A x \in Tallied : Count(w, x) = Is("ReleasePromise", x) + (IF own_future THEN Is("ReleaseFuture", x) ELSE 0)
    <3>1. Sound(after) /\ \A x \in Tallied : Count(after, x) = IF own_future THEN Is("ReleaseFuture", x) ELSE 0
      <4>1. "ReleaseFuture" \in Free /\ own_future \in BOOLEAN
        BY <1>0 DEF Free, Task, Via, Typed
      <4>. QED BY <4>1, OneWork
    <3>2. \A x \in Tallied : Is("ReleasePromise", x) \in Nat /\ Is("ExecuteAbort", x) \in Nat /\ Is("ReleaseFuture", x) \in Nat
      BY DEF Is
    <3>. HIDE DEF after
    <3>4. /\ Sound(w) /\ Defers(w)
          /\ \A x \in Tallied : Count(w, x) = Is("ReleasePromise", x) + Count(after, x)
      BY <3>1, AbortWork
    <3>. HIDE DEF w
    <3>. QED BY <3>1, <3>2, <3>4
  <2>3. Moved(Popped(t), w) BY <2>1, <2>2, MovedBy
  <2>4. /\ commit_state' = "kAbortRequested"
        /\ promise_refs' = promise_refs + 1
        /\ own_future' = FALSE
        /\ UNCHANGED <<handles, open_ptrs, user_futures, nodes, open_reference_count,
                       commit_reference_count, own_promise, future_refs, future_state,
                       result, force_cb, not_needed_cb, executed>>
    BY <1>0, <1>3 DEF NoMoreCommitReferences, kCommitReferenceIncrement, RequestAbortLocked, refs, counts, future, callbacks
  <2>. HIDE DEF w
  <2>5. /\ Natural /\ Steady({"ReleasePromise", "NoMoreCommitReferences", "ReleaseFuture"})
        /\ Pending("ReleasePromise")' = Pending("ReleasePromise") + 1
        /\ Pending("NoMoreCommitReferences")' = Pending("NoMoreCommitReferences") - 1
        /\ Pending("ReleaseFuture")' = Pending("ReleaseFuture") + (IF own_future THEN 1 ELSE 0)
    BY <1>0, <1>3, <2>1, <2>2, <2>3 DEF Natural, Steady, Moved, Tallied, Is
  <2>6. Tallies'
    <3>0. /\ Pending("ReleaseFuture")' = Pending("ReleaseFuture") + One(own_future)
           /\ One(own_future') = 0 /\ One(own_future) \in Nat /\ One(own_promise) \in Nat /\ UNCHANGED own_promise
      BY <1>0, <2>4, <2>5 DEF One, Typed
    <3>1. (PromiseCounted /\ FutureCounted /\ ForceOnce)'
      <4>1. PromiseCounted'
        BY <1>3, <1>0, <2>4, <2>5, <3>0 DEF Tallies, PromiseCounted, Listed, Typed, Natural, Steady, Tallied
      <4>2. FutureCounted'
        BY <1>3, <1>0, <2>4, <2>5, <3>0 DEF Tallies, FutureCounted, Listed, Typed, Natural, Steady, Tallied
      <4>3. ForceOnce'
        BY <1>3, <1>0, <2>4, <2>5, <3>0 DEF Tallies, ForceOnce, Listed, Typed, Natural, Steady, Tallied
      <4>. QED BY <4>1, <4>2, <4>3
    <3>2. (ExecutedAsDecided /\ RequestCarried /\ PromiseOwned)'
      BY <1>3, <1>0, <2>4, <2>5 DEF Tallies, ExecutedAsDecided, RequestCarried, PromiseOwned, PromiseCounted, Requested, Decided, CommitState, One, Listed,
         Typed, Natural, Steady, Tallied
    <3>3. NotNeededAborts'
      BY <1>3, <1>0, <2>4, <2>5 DEF Tallies, NotNeededAborts, ForceOnce, FutureCounted, One, Listed, CommitState, Decided,
         Typed, Natural, Steady, Tallied
    <3>4. ResultInv'
      BY <1>3, <1>0, <2>4, <2>5 DEF Tallies, ResultInv, PromiseCounted, PromiseOwned, ExecutedAsDecided, Decided, Aborting, Locked, One, Listed, CommitState,
         Typed, Natural, Steady, Tallied
    <3>. QED BY <3>1, <3>2, <3>3, <3>4 DEF Tallies
  <2>7. Orderly(t, w)
    BY <1>3, <1>0, <2>1, <2>4, <2>2 DEF Orderly, Decided, Locked, Aborting, Typed, CommitState
  <2>. QED BY <2>1, <2>2, <2>6, <2>7, EndStep
<1>4. CASE commit_reference_count = 0 /\ commit_state = "kOpen" /\ open_reference_count = 0
  <2>. DEFINE after == If(own_future, <<"ReleaseFuture">>)
              w == <<"SetDeferredResult">> \o ExecuteAbortWork \o <<"ReleasePromise">> \o after
  <2>1. Does(t, w) /\ Popped(t) = "NoMoreCommitReferences"
    BY <1>0, <1>4 DEF NoMoreCommitReferences, kCommitReferenceIncrement, RequestAbortLocked, At, Does, Popped, Idle
  <2>2. Sound(w) /\ Defers(w) /\ \A x \in Tallied : Count(w, x) = Is("ExecuteAbort", x) + Is("ReleasePromise", x) + (IF own_future THEN Is("ReleaseFuture", x) ELSE 0)
    <3>1. Sound(after) /\ \A x \in Tallied : Count(after, x) = IF own_future THEN Is("ReleaseFuture", x) ELSE 0
      <4>1. "ReleaseFuture" \in Free /\ own_future \in BOOLEAN
        BY <1>0 DEF Free, Task, Via, Typed
      <4>. QED BY <4>1, OneWork
    <3>2. \A x \in Tallied : Is("ReleasePromise", x) \in Nat /\ Is("ExecuteAbort", x) \in Nat /\ Is("ReleaseFuture", x) \in Nat
      BY DEF Is
    <3>3. commit_state' = "kAborted"
      BY <1>0, <1>4 DEF NoMoreCommitReferences, kCommitReferenceIncrement, RequestAbortLocked
    <3>. HIDE DEF after
    <3>4. /\ Sound(w) /\ Defers(w)
          /\ \A x \in Tallied : Count(w, x) = Is("ExecuteAbort", x) + Is("ReleasePromise", x) + Count(after, x)
      BY <3>1, <3>3, AbortWork
    <3>. HIDE DEF w
    <3>. QED BY <3>1, <3>2, <3>4
  <2>3. Moved(Popped(t), w) BY <2>1, <2>2, MovedBy
  <2>4. /\ commit_state' = "kAborted"
        /\ promise_refs' = promise_refs + 1
        /\ own_future' = FALSE
        /\ UNCHANGED <<handles, open_ptrs, user_futures, nodes, open_reference_count,
                       commit_reference_count, own_promise, future_refs, future_state,
                       result, force_cb, not_needed_cb, executed>>
    BY <1>0, <1>4 DEF NoMoreCommitReferences, kCommitReferenceIncrement, RequestAbortLocked, refs, counts, future, callbacks
  <2>. HIDE DEF w
  <2>5. /\ Natural /\ Steady({"ReleasePromise", "NoMoreCommitReferences", "ExecuteAbort", "ReleaseFuture"})
        /\ Pending("ReleasePromise")' = Pending("ReleasePromise") + 1
        /\ Pending("NoMoreCommitReferences")' = Pending("NoMoreCommitReferences") - 1
        /\ Pending("ExecuteAbort")' = Pending("ExecuteAbort") + 1
        /\ Pending("ReleaseFuture")' = Pending("ReleaseFuture") + (IF own_future THEN 1 ELSE 0)
    BY <1>0, <1>4, <2>1, <2>2, <2>3 DEF Natural, Steady, Moved, Tallied, Is
  <2>6. Tallies'
    <3>0. /\ Pending("ReleaseFuture")' = Pending("ReleaseFuture") + One(own_future)
           /\ One(own_future') = 0 /\ One(own_future) \in Nat /\ One(own_promise) \in Nat /\ UNCHANGED own_promise
      BY <1>0, <2>4, <2>5 DEF One, Typed
    <3>1. (PromiseCounted /\ FutureCounted /\ ForceOnce)'
      <4>1. PromiseCounted'
        BY <1>0, <2>4, <2>5, <3>0, SMTT(30) DEF Tallies, PromiseCounted, Listed, Typed, Natural, Steady, Tallied
      <4>2. FutureCounted'
        BY <1>4, <1>0, <2>4, <2>5, <3>0 DEF Tallies, FutureCounted, Listed, Typed, Natural, Steady, Tallied
      <4>3. ForceOnce'
        BY <1>4, <1>0, <2>4, <2>5, <3>0 DEF Tallies, ForceOnce, Listed, Typed, Natural, Steady, Tallied
      <4>. QED BY <4>1, <4>2, <4>3
    <3>2. (ExecutedAsDecided /\ RequestCarried /\ PromiseOwned)'
      BY <1>4, <1>0, <2>4, <2>5 DEF Tallies, ExecutedAsDecided, RequestCarried, PromiseOwned, PromiseCounted, Requested, Decided, CommitState, One, Listed,
         Typed, Natural, Steady, Tallied
    <3>3. NotNeededAborts'
      BY <1>4, <1>0, <2>4, <2>5 DEF Tallies, NotNeededAborts, ForceOnce, FutureCounted, One, Listed, CommitState, Decided,
         Typed, Natural, Steady, Tallied
    <3>4. ResultInv'
      BY <1>4, <1>0, <2>4, <2>5 DEF Tallies, ResultInv, PromiseCounted, PromiseOwned, ExecutedAsDecided, Decided, Aborting, Locked, One, Listed, CommitState,
         Typed, Natural, Steady, Tallied
    <3>. QED BY <3>1, <3>2, <3>3, <3>4 DEF Tallies
  <2>7. Orderly(t, w)
    BY <1>4, <1>0, <2>1, <2>4, <2>2 DEF Orderly, Decided, Locked, Aborting, Typed, CommitState
  <2>. QED BY <2>1, <2>2, <2>6, <2>7, EndStep
<1>. QED BY <1>0, <1>1, <1>2, <1>3, <1>4 DEF Typed

\* The force callback is unregistered.
LEMMA UnregisterForceEnd ==
  ASSUME EndInv, RInv', NEW t \in Thread, UnregisterForce(t)
  PROVE  EndInv'
<1>. DEFINE c == force_cb = "listed"
            w == If(c, <<"ReleasePromise", "DecrementForce">>)
<1>1. Does(t, w) /\ Popped(t) = "UnregisterForce" BY DEF UnregisterForce, At, Does, Popped, Idle
<1>2. Sound(w) /\ \A x \in Tallied : Count(w, x) = IF c THEN Is("ReleasePromise", x) + Is("DecrementForce", x) ELSE 0
  <2>1. {"ReleasePromise", "DecrementForce"} \subseteq Free /\ c \in BOOLEAN
    BY DEF Free, Task, Via
  <2>. DEFINE v == <<"ReleasePromise", "DecrementForce">>
  <2>2. Sound(v) /\ \A x : Count(v, x) = Is("ReleasePromise", x) + Is("DecrementForce", x)
    BY <2>1, FreeWork
  <2>. HIDE DEF c, v
  <2>3. Sound(If(c, v)) /\ \A x : Count(If(c, v), x) = IF c THEN Count(v, x) ELSE 0
    BY <2>1, <2>2, IfWork
  <2>4. Sound(If(c, v)) /\ \A x : Count(If(c, v), x) = IF c THEN Is("ReleasePromise", x) + Is("DecrementForce", x) ELSE 0
    BY <2>2, <2>3
  <2>. QED BY <2>4 DEF v
<1>3. Moved(Popped(t), w) BY <1>1, <1>2, MovedBy
<1>4. /\ force_cb' = IF c THEN "gone" ELSE force_cb
      /\ UNCHANGED <<commit_state, handles, open_ptrs, user_futures, nodes,
                     open_reference_count, commit_reference_count, own_future,
                     own_promise, promise_refs, future_refs, future_state, result,
                     not_needed_cb, executed>>
  BY DEF UnregisterForce, refs, counts, future, callbacks
<1>. HIDE DEF w
<1>5. /\ Natural /\ Steady({"ReleasePromise", "DecrementForce"})
      /\ Pending("ReleasePromise")' = Pending("ReleasePromise") + IF c THEN 1 ELSE 0
      /\ Pending("DecrementForce")' = Pending("DecrementForce") + IF c THEN 1 ELSE 0
  BY <1>1, <1>2, <1>3 DEF Natural, Steady, Moved, Tallied, Is
<1>6. Tallies'
  <2>1. (PromiseCounted /\ FutureCounted /\ ForceOnce)'
    BY EndTyped, <1>4, <1>5 DEF Tallies, PromiseCounted, FutureCounted, ForceOnce, One, Listed,
       Typed, Natural, Steady, Tallied
  <2>2. (ExecutedAsDecided /\ RequestCarried /\ PromiseOwned)'
    BY EndTyped, <1>4, <1>5 DEF Tallies, ExecutedAsDecided, RequestCarried, PromiseOwned, PromiseCounted, Requested, Decided, CommitState, One, Listed,
       Typed, Natural, Steady, Tallied
  <2>3. NotNeededAborts'
    BY EndTyped, <1>4, <1>5 DEF Tallies, NotNeededAborts, ForceOnce, FutureCounted, One, Listed, CommitState, Decided,
       Typed, Natural, Steady, Tallied
  <2>4. ResultInv'
    BY EndTyped, <1>4, <1>5 DEF Tallies, ResultInv, PromiseCounted, PromiseOwned, ExecutedAsDecided, Decided, Aborting, Locked, One, Listed, CommitState,
       Typed, Natural, Steady, Tallied
  <2>. QED BY <2>1, <2>2, <2>3, <2>4 DEF Tallies
<1>7. Orderly(t, w)
  BY EndTyped, <1>1, <1>4 DEF Orderly, Decided, Locked, Aborting, Typed, CommitState
<1>. QED BY <1>1, <1>2, <1>6, <1>7, EndStep

\* The not-needed callback is unregistered, which only happens after the decision.
LEMMA UnregisterNotNeededEnd ==
  ASSUME EndInv, RInv', NEW t \in Thread, UnregisterNotNeeded(t)
  PROVE  EndInv'
<1>. DEFINE c == not_needed_cb = "listed"
            w == If(c, <<"DecrementWeak">>)
<1>1. Does(t, w) /\ Popped(t) = "UnregisterNotNeeded"
  BY DEF UnregisterNotNeeded, At, Does, Popped, Idle
<1>2. Sound(w) /\ \A x \in Tallied : Count(w, x) = IF c THEN Is("DecrementWeak", x) ELSE 0
  <2>1. "DecrementWeak" \in Free /\ c \in BOOLEAN BY DEF Free, Task, Via
  <2>. HIDE DEF c
  <2>. QED BY <2>1, OneWork
<1>3. Moved(Popped(t), w) BY <1>1, <1>2, MovedBy
<1>4. /\ not_needed_cb' = IF c THEN "gone" ELSE not_needed_cb
      /\ UNCHANGED <<commit_state, handles, open_ptrs, user_futures, nodes,
                     open_reference_count, commit_reference_count, own_future,
                     own_promise, promise_refs, future_refs, future_state, result,
                     force_cb, executed>>
  BY DEF UnregisterNotNeeded, refs, counts, future, callbacks
<1>10. Decided
  <2>1. stack[t] # <<>> /\ stack[t] \in Seq(Timely) /\ Head(stack[t]) = "UnregisterNotNeeded"
    BY EndTyped DEF UnregisterNotNeeded, At, WorkInOrder
  <2>2. Head(stack[t]) \in Timely BY <2>1
  <2>. QED BY <2>1, <2>2 DEF Timely
<1>. HIDE DEF w
<1>5. /\ Natural /\ Steady({}) BY <1>1, <1>2, <1>3 DEF Natural, Steady, Moved, Tallied, Is
<1>6. Tallies'
  <2>1. (PromiseCounted /\ FutureCounted /\ ForceOnce)'
    BY EndTyped, <1>4, <1>5, <1>10 DEF Tallies, PromiseCounted, FutureCounted, ForceOnce, One, Listed,
       Typed, Natural, Steady, Tallied
  <2>2. (ExecutedAsDecided /\ RequestCarried /\ PromiseOwned)'
    BY EndTyped, <1>4, <1>5, <1>10 DEF Tallies, ExecutedAsDecided, RequestCarried, PromiseOwned, PromiseCounted, Requested, Decided, CommitState, One, Listed,
       Typed, Natural, Steady, Tallied
  <2>3. NotNeededAborts'
    BY EndTyped, <1>4, <1>5, <1>10 DEF Tallies, NotNeededAborts, ForceOnce, FutureCounted, One, Listed, CommitState, Decided,
       Typed, Natural, Steady, Tallied
  <2>4. ResultInv'
    BY EndTyped, <1>4, <1>5, <1>10 DEF Tallies, ResultInv, PromiseCounted, PromiseOwned, ExecutedAsDecided, Decided, Aborting, Locked, One, Listed, CommitState,
       Typed, Natural, Steady, Tallied
  <2>. QED BY <2>1, <2>2, <2>3, <2>4 DEF Tallies
<1>7. Orderly(t, w)
  BY EndTyped, <1>1, <1>4 DEF Orderly, Decided, Locked, Aborting, Typed, CommitState
<1>. QED BY <1>1, <1>2, <1>6, <1>7, EndStep

\* Force takes the callback, which requests the commit.
LEMMA RunForceEnd ==
  ASSUME EndInv, RInv', NEW t \in Thread, RunForceCallbacks(t)
  PROVE  EndInv'
<1>. DEFINE c == force_cb = "listed"
            w == If(c, <<"RequestCommit", "ReleasePromise", "DecrementForce", "ForceCallbackDone">>)
<1>1. Does(t, w) /\ Popped(t) = "RunForceCallbacks"
  BY DEF RunForceCallbacks, At, Does, Popped, Idle
<1>2. Sound(w) /\ \A x \in Tallied : Count(w, x) = IF c THEN Is("RequestCommit", x) + (Is("ReleasePromise", x) + (Is("DecrementForce", x) + Is("ForceCallbackDone", x))) ELSE 0
  <2>1. {"RequestCommit", "ReleasePromise", "DecrementForce", "ForceCallbackDone"} \subseteq Free /\ c \in BOOLEAN
    BY DEF Free, Task, Via
  <2>. DEFINE v == <<"RequestCommit", "ReleasePromise", "DecrementForce", "ForceCallbackDone">>
  <2>2. Sound(v) /\ \A x : Count(v, x) = Is("RequestCommit", x) + (Is("ReleasePromise", x) + (Is("DecrementForce", x) + Is("ForceCallbackDone", x)))
    BY <2>1, FourWork
  <2>. HIDE DEF c, v
  <2>3. Sound(If(c, v)) /\ \A x : Count(If(c, v), x) = IF c THEN Count(v, x) ELSE 0
    BY <2>1, <2>2, IfWork
  <2>4. Sound(If(c, v)) /\ \A x : Count(If(c, v), x) = IF c THEN Is("RequestCommit", x) + (Is("ReleasePromise", x) + (Is("DecrementForce", x) + Is("ForceCallbackDone", x))) ELSE 0
    BY <2>2, <2>3
  <2>. QED BY <2>4 DEF v
<1>3. Moved(Popped(t), w) BY <1>1, <1>2, MovedBy
<1>4. /\ force_cb' = IF c THEN t ELSE force_cb
      /\ UNCHANGED <<commit_state, handles, open_ptrs, user_futures, nodes,
                     open_reference_count, commit_reference_count, own_future,
                     own_promise, promise_refs, future_refs, future_state, result,
                     not_needed_cb, executed>>
  BY DEF RunForceCallbacks, refs, counts, future, callbacks
<1>. HIDE DEF w
<1>5. /\ Natural /\ Steady({"ReleasePromise", "DecrementForce"})
      /\ Pending("ReleasePromise")' = Pending("ReleasePromise") + IF c THEN 1 ELSE 0
      /\ Pending("DecrementForce")' = Pending("DecrementForce") + IF c THEN 1 ELSE 0
  BY <1>1, <1>2, <1>3 DEF Natural, Steady, Moved, Tallied, Is
<1>6. Tallies'
  <2>1. (PromiseCounted /\ FutureCounted /\ ForceOnce)'
    BY EndTyped, <1>4, <1>5 DEF Tallies, PromiseCounted, FutureCounted, ForceOnce, One, Listed,
       Typed, Natural, Steady, Tallied
  <2>2. (ExecutedAsDecided /\ RequestCarried /\ PromiseOwned)'
    BY EndTyped, <1>4, <1>5 DEF Tallies, ExecutedAsDecided, RequestCarried, PromiseOwned, PromiseCounted, Requested, Decided, CommitState, One, Listed,
       Typed, Natural, Steady, Tallied
  <2>3. NotNeededAborts'
    BY EndTyped, <1>4, <1>5 DEF Tallies, NotNeededAborts, ForceOnce, FutureCounted, One, Listed, CommitState, Decided,
       Typed, Natural, Steady, Tallied
  <2>4. ResultInv'
    BY EndTyped, <1>4, <1>5 DEF Tallies, ResultInv, PromiseCounted, PromiseOwned, ExecutedAsDecided, Decided, Aborting, Locked, One, Listed, CommitState,
       Typed, Natural, Steady, Tallied
  <2>. QED BY <2>1, <2>2, <2>3, <2>4 DEF Tallies
<1>7. Orderly(t, w)
  BY EndTyped, <1>1, <1>4 DEF Orderly, Decided, Locked, Aborting, Typed, CommitState
<1>. QED BY <1>1, <1>2, <1>6, <1>7, EndStep

\* A callback that was taken is done.
LEMMA ForceDoneEnd ==
  ASSUME EndInv, RInv', NEW t \in Thread, ForceCallbackDone(t)
  PROVE  EndInv'
<1>. USE DEF Booked
<1>0. Booked(t) BY EndTyped
<1>. DEFINE w == <<>>
<1>1. Does(t, w) /\ Popped(t) = "ForceCallbackDone"
  BY DEF ForceCallbackDone, At, Does, Popped, Idle
<1>2. Sound(w) /\ \A x \in Tallied : Count(w, x) = 0 BY SoundWork, CountEmpty
<1>3. Moved(Popped(t), w) BY <1>1, <1>2, MovedBy
<1>4. /\ force_cb' = "gone"
      /\ UNCHANGED <<commit_state, handles, open_ptrs, user_futures, nodes,
                     open_reference_count, commit_reference_count, own_future,
                     own_promise, promise_refs, future_refs, future_state, result,
                     not_needed_cb, executed>>
  BY DEF ForceCallbackDone, refs, counts, future, callbacks
<1>10. force_cb # "listed"
  <2>1. stack[t] # <<>> /\ Head(stack[t]) = "ForceCallbackDone" BY DEF ForceCallbackDone, At
  <2>2. Head(stack[t]) \in Allowed BY <2>1, TakenHead DEF EndInv
  <2>. QED BY <2>1, <2>2 DEF Allowed
<1>. HIDE DEF w
<1>5. /\ Natural /\ Steady({}) BY <1>1, <1>2, <1>3 DEF Natural, Steady, Moved, Tallied, Is
<1>6. Tallies'
  BY <1>0, <1>4, <1>5, <1>10 DEF Tallies, PromiseCounted, FutureCounted, ForceOnce, ExecutedAsDecided,
     RequestCarried, PromiseOwned, NotNeededAborts, ResultInv, Requested, Decided, Aborting, Locked,
     One, Listed, Typed, CommitState, Natural, Steady, Tallied
<1>7. Orderly(t, w)
  BY <1>0, <1>1, <1>4 DEF Orderly, Decided, Locked, Aborting, Typed, CommitState
<1>. QED BY <1>1, <1>2, <1>6, <1>7, EndStep

\* The other callback that was taken is done.
LEMMA NotNeededDoneEnd ==
  ASSUME EndInv, RInv', NEW t \in Thread, NotNeededDone(t)
  PROVE  EndInv'
<1>. USE DEF Booked
<1>0. Booked(t) BY EndTyped
<1>. DEFINE w == <<>>
<1>1. Does(t, w) /\ Popped(t) = "NotNeededDone" BY DEF NotNeededDone, At, Does, Popped, Idle
<1>2. Sound(w) /\ \A x \in Tallied : Count(w, x) = 0 BY SoundWork, CountEmpty
<1>3. Moved(Popped(t), w) BY <1>1, <1>2, MovedBy
<1>4. /\ not_needed_cb' = "gone"
      /\ UNCHANGED <<commit_state, handles, open_ptrs, user_futures, nodes,
                     open_reference_count, commit_reference_count, own_future,
                     own_promise, promise_refs, future_refs, future_state, result,
                     force_cb, executed>>
  BY DEF NotNeededDone, refs, counts, future, callbacks
<1>10. not_needed_cb # "listed"
  <2>1. stack[t] # <<>> /\ Head(stack[t]) = "NotNeededDone" BY DEF NotNeededDone, At
  <2>2. Head(stack[t]) \in Allowed BY <2>1, TakenHead DEF EndInv
  <2>. QED BY <2>1, <2>2 DEF Allowed
<1>. HIDE DEF w
<1>5. /\ Natural /\ Steady({}) BY <1>1, <1>2, <1>3 DEF Natural, Steady, Moved, Tallied, Is
<1>6. Tallies'
  BY <1>0, <1>4, <1>5, <1>10 DEF Tallies, PromiseCounted, FutureCounted, ForceOnce, ExecutedAsDecided,
     RequestCarried, PromiseOwned, NotNeededAborts, ResultInv, Requested, Decided, Aborting, Locked,
     One, Listed, Typed, CommitState, Natural, Steady, Tallied
<1>7. Orderly(t, w)
  BY <1>0, <1>1, <1>4 DEF Orderly, Decided, Locked, Aborting, Typed, CommitState
<1>. QED BY <1>1, <1>2, <1>6, <1>7, EndStep

\* The promise's callbacks are destroyed, the force callback first.
LEMMA DestroyCallbacksEnd ==
  ASSUME EndInv, RInv', NEW t \in Thread, DestroyPromiseCallbacks(t)
  PROVE  EndInv'
<1>1. CASE force_cb = "listed"
  <2>. DEFINE w == <<"DestroyNext">>
  <2>1. Does(t, w) /\ Popped(t) = "DestroyPromiseCallbacks"
    BY <1>1 DEF DestroyPromiseCallbacks, At, Does, Popped, Idle
  <2>2. Sound(w) /\ \A x \in Tallied : Count(w, x) = Is("DestroyNext", x)
    <3>1. {"DestroyNext", "DestroyNext"} \subseteq Free BY DEF Free, Task, Via
    <3>. QED BY <3>1, FreeWork
  <2>3. Moved(Popped(t), w) BY <2>1, <2>2, MovedBy
  <2>4. /\ force_cb' = t
        /\ UNCHANGED <<commit_state, handles, open_ptrs, user_futures, nodes,
                       open_reference_count, commit_reference_count, own_future,
                       own_promise, promise_refs, future_refs, future_state, result,
                       not_needed_cb, executed>>
    BY <1>1 DEF DestroyPromiseCallbacks, refs, counts, future, callbacks
  <2>. HIDE DEF w
  <2>5. /\ Natural /\ Steady({"DestroyPromiseCallbacks", "DestroyNext"})
        /\ Pending("DestroyNext")' = Pending("DestroyNext") + 1
        /\ Pending("DestroyPromiseCallbacks")' = Pending("DestroyPromiseCallbacks") - 1
    BY <1>1, <2>1, <2>2, <2>3 DEF Natural, Steady, Moved, Tallied, Is
  <2>6. Tallies'
    <3>1. (PromiseCounted /\ FutureCounted /\ ForceOnce)'
      BY <1>1, EndTyped, <2>4, <2>5 DEF Tallies, PromiseCounted, FutureCounted, ForceOnce, One, Listed,
         Typed, Natural, Steady, Tallied
    <3>2. (ExecutedAsDecided /\ RequestCarried /\ PromiseOwned)'
      BY <1>1, EndTyped, <2>4, <2>5 DEF Tallies, ExecutedAsDecided, RequestCarried, PromiseOwned, PromiseCounted, Requested, Decided, CommitState, One, Listed,
         Typed, Natural, Steady, Tallied
    <3>3. NotNeededAborts'
      BY <1>1, EndTyped, <2>4, <2>5 DEF Tallies, NotNeededAborts, ForceOnce, FutureCounted, One, Listed, CommitState, Decided,
         Typed, Natural, Steady, Tallied
    <3>4. ResultInv'
      BY <1>1, EndTyped, <2>4, <2>5 DEF Tallies, ResultInv, PromiseCounted, PromiseOwned, ExecutedAsDecided, Decided, Aborting, Locked, One, Listed, CommitState,
         Typed, Natural, Steady, Tallied
    <3>. QED BY <3>1, <3>2, <3>3, <3>4 DEF Tallies
  <2>7. Orderly(t, w)
    BY <1>1, EndTyped, <2>1, <2>4 DEF Orderly, Decided, Locked, Aborting, Typed, CommitState
  <2>. QED BY <2>1, <2>2, <2>6, <2>7, EndStep
<1>2. CASE force_cb # "listed" /\ not_needed_cb = "listed"
  <2>. DEFINE w == <<"RequestAbort", "DecrementWeak", "NotNeededDone">>
  <2>1. Does(t, w) /\ Popped(t) = "DestroyPromiseCallbacks"
    BY <1>2 DEF DestroyPromiseCallbacks, RunNotNeeded, At, Does, Popped, Idle
  <2>2. Sound(w) /\ \A x \in Tallied : Count(w, x) = Is("RequestAbort", x) + (Is("DecrementWeak", x) + Is("NotNeededDone", x))
    <3>1. {"RequestAbort", "DecrementWeak", "NotNeededDone"} \subseteq Free
      BY DEF Free, Task, Via
    <3>. QED BY <3>1, ThreeWork
  <2>3. Moved(Popped(t), w) BY <2>1, <2>2, MovedBy
  <2>4. /\ not_needed_cb' = t
        /\ UNCHANGED <<commit_state, handles, open_ptrs, user_futures, nodes,
                       open_reference_count, commit_reference_count, own_future,
                       own_promise, promise_refs, future_refs, future_state, result,
                       force_cb, executed>>
    BY <1>2 DEF DestroyPromiseCallbacks, refs, counts, future, callbacks
  <2>. HIDE DEF w
  <2>5. /\ Natural /\ Steady({"DestroyPromiseCallbacks", "RequestAbort"})
        /\ Pending("RequestAbort")' = Pending("RequestAbort") + 1
        /\ Pending("DestroyPromiseCallbacks")' = Pending("DestroyPromiseCallbacks") - 1
    BY <1>2, <2>1, <2>2, <2>3 DEF Natural, Steady, Moved, Tallied, Is
  <2>6. Tallies'
    <3>1. (PromiseCounted /\ FutureCounted /\ ForceOnce)'
      BY <1>2, EndTyped, <2>4, <2>5 DEF Tallies, PromiseCounted, FutureCounted, ForceOnce, One, Listed,
         Typed, Natural, Steady, Tallied
    <3>2. (ExecutedAsDecided /\ RequestCarried /\ PromiseOwned)'
      BY <1>2, EndTyped, <2>4, <2>5 DEF Tallies, ExecutedAsDecided, RequestCarried, PromiseOwned, PromiseCounted, Requested, Decided, CommitState, One, Listed,
         Typed, Natural, Steady, Tallied
    <3>3. NotNeededAborts'
      BY <1>2, EndTyped, <2>4, <2>5 DEF Tallies, NotNeededAborts, ForceOnce, FutureCounted, One, Listed, CommitState, Decided,
         Typed, Natural, Steady, Tallied
    <3>4. ResultInv'
      BY <1>2, EndTyped, <2>4, <2>5 DEF Tallies, ResultInv, PromiseCounted, PromiseOwned, ExecutedAsDecided, Decided, Aborting, Locked, One, Listed, CommitState,
         Typed, Natural, Steady, Tallied
    <3>. QED BY <3>1, <3>2, <3>3, <3>4 DEF Tallies
  <2>7. Orderly(t, w)
    BY <1>2, EndTyped, <2>1, <2>4 DEF Orderly, Decided, Locked, Aborting, Typed, CommitState
  <2>. QED BY <2>1, <2>2, <2>6, <2>7, EndStep
<1>3. CASE force_cb # "listed" /\ not_needed_cb # "listed"
  <2>. DEFINE w == <<>>
  <2>1. Does(t, w) /\ Popped(t) = "DestroyPromiseCallbacks"
    BY <1>3 DEF DestroyPromiseCallbacks, At, Does, Popped, Idle
  <2>2. Sound(w) /\ \A x \in Tallied : Count(w, x) = 0 BY SoundWork, CountEmpty
  <2>3. Moved(Popped(t), w) BY <2>1, <2>2, MovedBy
  <2>4. /\ UNCHANGED <<commit_state, handles, open_ptrs, user_futures, nodes,
                       open_reference_count, commit_reference_count, own_future,
                       own_promise, promise_refs, future_refs, future_state, result,
                       force_cb, not_needed_cb, executed>>
    BY <1>3 DEF DestroyPromiseCallbacks, refs, counts, future, callbacks
  <2>. HIDE DEF w
  <2>5. /\ Natural /\ Steady({"DestroyPromiseCallbacks"})
        /\ Pending("DestroyPromiseCallbacks")' = Pending("DestroyPromiseCallbacks") - 1
    BY <1>3, <2>1, <2>2, <2>3 DEF Natural, Steady, Moved, Tallied, Is
  <2>6. Tallies'
    <3>1. (PromiseCounted /\ FutureCounted /\ ForceOnce)'
      BY <1>3, EndTyped, <2>4, <2>5 DEF Tallies, PromiseCounted, FutureCounted, ForceOnce, One, Listed,
         Typed, Natural, Steady, Tallied
    <3>2. (ExecutedAsDecided /\ RequestCarried /\ PromiseOwned)'
      BY <1>3, EndTyped, <2>4, <2>5 DEF Tallies, ExecutedAsDecided, RequestCarried, PromiseOwned, PromiseCounted, Requested, Decided, CommitState, One, Listed,
         Typed, Natural, Steady, Tallied
    <3>3. NotNeededAborts'
      BY <1>3, EndTyped, <2>4, <2>5 DEF Tallies, NotNeededAborts, ForceOnce, FutureCounted, One, Listed, CommitState, Decided,
         Typed, Natural, Steady, Tallied
    <3>4. ResultInv'
      BY <1>3, EndTyped, <2>4, <2>5 DEF Tallies, ResultInv, PromiseCounted, PromiseOwned, ExecutedAsDecided, Decided, Aborting, Locked, One, Listed, CommitState,
         Typed, Natural, Steady, Tallied
    <3>. QED BY <3>1, <3>2, <3>3, <3>4 DEF Tallies
  <2>7. Orderly(t, w)
    BY <1>3, EndTyped, <2>1, <2>4 DEF Orderly, Decided, Locked, Aborting, Typed, CommitState
  <2>. QED BY <2>1, <2>2, <2>6, <2>7, EndStep
<1>. QED BY <1>1, <1>2, <1>3

\* The force callback is destroyed, then the not-needed callback is taken.
LEMMA DestroyNextEnd ==
  ASSUME EndInv, RInv', NEW t \in Thread, DestroyNext(t)
  PROVE  EndInv'
<1>. DEFINE c == not_needed_cb = "listed"
            w == <<"ReleasePromise", "DecrementForce">> \o If(c, <<"RequestAbort", "DecrementWeak", "NotNeededDone">>)
<1>1. Does(t, w) /\ Popped(t) = "DestroyNext"
  BY DEF DestroyNext, RunNotNeeded, At, Does, Popped, Idle
<1>2. Sound(w) /\ \A x \in Tallied : Count(w, x) = Is("ReleasePromise", x) + Is("DecrementForce", x) + (IF c THEN Is("RequestAbort", x) ELSE 0)
  <2>1. {"ReleasePromise", "DecrementForce", "RequestAbort", "DecrementWeak", "NotNeededDone"} \subseteq Free
        /\ c \in BOOLEAN
    BY DEF Free, Task, Via
  <2>. DEFINE u == <<"ReleasePromise", "DecrementForce">>
              v == <<"RequestAbort", "DecrementWeak", "NotNeededDone">>
  <2>2. Sound(u) /\ \A x : Count(u, x) = Is("ReleasePromise", x) + Is("DecrementForce", x)
    <3>1. {"ReleasePromise", "DecrementForce"} \subseteq Free BY <2>1
    <3>. QED BY <3>1, FreeWork
  <2>3. Sound(v) /\ \A x : Count(v, x) = Is("RequestAbort", x) + (Is("DecrementWeak", x) + Is("NotNeededDone", x))
    BY <2>1, ThreeWork
  <2>. HIDE DEF u, v, c
  <2>4. Sound(If(c, v)) /\ \A x : Count(If(c, v), x) = IF c THEN Count(v, x) ELSE 0
    BY <2>1, <2>3, IfWork
  <2>5. Sound(u \o If(c, v)) /\ \A x : Count(u \o If(c, v), x) = Count(u, x) + Count(If(c, v), x)
    BY <2>2, <2>4, BothWork
  <2>6. \A x \in Tallied : /\ Is("DecrementWeak", x) = 0 /\ Is("NotNeededDone", x) = 0
                           /\ Is("RequestAbort", x) \in Nat
    BY DEF Is, Tallied
  <2>7. \A x \in Tallied : Count(u \o If(c, v), x) = Is("ReleasePromise", x) + Is("DecrementForce", x)
                               + (IF c THEN Is("RequestAbort", x) ELSE 0)
    BY <2>2, <2>3, <2>4, <2>5, <2>6
  <2>. QED BY <2>5, <2>7 DEF u, v
<1>3. Moved(Popped(t), w) BY <1>1, <1>2, MovedBy
<1>4. /\ force_cb' = "gone"
      /\ not_needed_cb' = IF c THEN t ELSE not_needed_cb
      /\ UNCHANGED <<commit_state, handles, open_ptrs, user_futures, nodes,
                     open_reference_count, commit_reference_count, own_future,
                     own_promise, promise_refs, future_refs, future_state, result,
                     executed>>
  BY DEF DestroyNext, refs, counts, future, callbacks
<1>. HIDE DEF w
<1>5. /\ Natural /\ Steady({"DestroyNext", "ReleasePromise", "DecrementForce", "RequestAbort"})
      /\ Pending("DestroyNext")' = Pending("DestroyNext") - 1
      /\ Pending("ReleasePromise")' = Pending("ReleasePromise") + 1
      /\ Pending("DecrementForce")' = Pending("DecrementForce") + 1
      /\ Pending("RequestAbort")' = Pending("RequestAbort") + IF c THEN 1 ELSE 0
  BY <1>1, <1>2, <1>3 DEF Natural, Steady, Moved, Tallied, Is
<1>6. Tallies'
  <2>1. (PromiseCounted /\ FutureCounted /\ ForceOnce)'
    BY EndTyped, <1>4, <1>5 DEF Tallies, PromiseCounted, FutureCounted, ForceOnce, One, Listed,
       Typed, Natural, Steady, Tallied
  <2>2. (ExecutedAsDecided /\ RequestCarried /\ PromiseOwned)'
    BY EndTyped, <1>4, <1>5 DEF Tallies, ExecutedAsDecided, RequestCarried, PromiseOwned, PromiseCounted, Requested, Decided, CommitState, One, Listed,
       Typed, Natural, Steady, Tallied
  <2>3. NotNeededAborts'
    BY EndTyped, <1>4, <1>5 DEF Tallies, NotNeededAborts, ForceOnce, FutureCounted, One, Listed, CommitState, Decided,
       Typed, Natural, Steady, Tallied
  <2>4. ResultInv'
    BY EndTyped, <1>4, <1>5 DEF Tallies, ResultInv, PromiseCounted, PromiseOwned, ExecutedAsDecided, Decided, Aborting, Locked, One, Listed, CommitState,
       Typed, Natural, Steady, Tallied
  <2>. QED BY <2>1, <2>2, <2>3, <2>4 DEF Tallies
<1>7. Orderly(t, w)
  BY EndTyped, <1>1, <1>4 DEF Orderly, Decided, Locked, Aborting, Typed, CommitState
<1>. QED BY <1>1, <1>2, <1>6, <1>7, EndStep

\* An error locks the result.
LEMMA SetDeferredEnd ==
  ASSUME EndInv, RInv', NEW t \in Thread, SetDeferredResult(t)
  PROVE  EndInv'
<1>. DEFINE c == "kResultLocked" \notin future_state
            d == ~Forcing
            w == If(c, If(d, <<"DestroyPromiseCallbacks">>) \o <<"WriteResult">>)
<1>1. Does(t, w) /\ Popped(t) = "SetDeferredResult"
  BY DEF SetDeferredResult, DestroyUnlessForcing, At, Does, Popped, Idle
<1>2. Sound(w) /\ \A x \in Tallied : Count(w, x) = IF c THEN (IF d THEN Is("DestroyPromiseCallbacks", x) ELSE 0) + Is("WriteResult", x) ELSE 0
  <2>1. {"DestroyPromiseCallbacks", "WriteResult"} \subseteq Free /\ c \in BOOLEAN /\ d \in BOOLEAN
    BY DEF Free, Task, Via
  <2>. DEFINE v == If(d, <<"DestroyPromiseCallbacks">>) \o <<"WriteResult">>
  <2>. HIDE DEF c, d
  <2>2. Sound(v) /\ \A x : Count(v, x) = (IF d THEN Is("DestroyPromiseCallbacks", x) ELSE 0) + Is("WriteResult", x)
    BY <2>1, PairWork
  <2>. HIDE DEF v
  <2>3. Sound(If(c, v)) /\ \A x : Count(If(c, v), x) = IF c THEN Count(v, x) ELSE 0
    BY <2>1, <2>2, IfWork
  <2>4. Sound(If(c, v)) /\ \A x : Count(If(c, v), x) =
          IF c THEN (IF d THEN Is("DestroyPromiseCallbacks", x) ELSE 0) + Is("WriteResult", x) ELSE 0
    BY <2>2, <2>3
  <2>. QED BY <2>4 DEF v
<1>3. Moved(Popped(t), w) BY <1>1, <1>2, MovedBy
<1>4. /\ future_state' = future_state \cup {"kResultLocked"}
      /\ UNCHANGED <<commit_state, handles, open_ptrs, user_futures, nodes,
                     open_reference_count, commit_reference_count, own_future,
                     own_promise, promise_refs, future_refs, result, force_cb,
                     not_needed_cb, executed>>
  BY DEF SetDeferredResult, refs, counts, future, callbacks
<1>. HIDE DEF w
<1>5. /\ Natural /\ Steady({"DestroyPromiseCallbacks", "WriteResult"})
      /\ Pending("WriteResult")' = Pending("WriteResult") + IF c THEN 1 ELSE 0
      /\ Pending("DestroyPromiseCallbacks")' >= Pending("DestroyPromiseCallbacks")
  BY <1>1, <1>2, <1>3 DEF Natural, Steady, Moved, Tallied, Is
<1>6. Tallies'
  <2>1. (PromiseCounted /\ FutureCounted /\ ForceOnce)'
    BY EndTyped, <1>4, <1>5 DEF Tallies, PromiseCounted, FutureCounted, ForceOnce, One, Listed,
       Typed, Natural, Steady, Tallied
  <2>2. (ExecutedAsDecided /\ RequestCarried /\ PromiseOwned)'
    BY EndTyped, <1>4, <1>5 DEF Tallies, ExecutedAsDecided, RequestCarried, PromiseOwned, PromiseCounted, Requested, Decided, CommitState, One, Listed,
       Typed, Natural, Steady, Tallied
  <2>3. NotNeededAborts'
    BY EndTyped, <1>4, <1>5 DEF Tallies, NotNeededAborts, ForceOnce, FutureCounted, One, Listed, CommitState, Decided,
       Typed, Natural, Steady, Tallied
  <2>4. ResultInv'
    BY EndTyped, <1>4, <1>5 DEF Tallies, ResultInv, PromiseCounted, PromiseOwned, ExecutedAsDecided, Decided, Aborting, Locked, One, Listed, CommitState,
       Typed, Natural, Steady, Tallied
  <2>. QED BY <2>1, <2>2, <2>3, <2>4 DEF Tallies
<1>7. Orderly(t, w)
  BY EndTyped, <1>1, <1>4 DEF Orderly, Decided, Locked, Aborting, Typed, CommitState
<1>. QED BY <1>1, <1>2, <1>6, <1>7, EndStep

\* The error is written.
LEMMA WriteResultEnd ==
  ASSUME EndInv, RInv', NEW t \in Thread, WriteResult(t)
  PROVE  EndInv'
<1>. DEFINE w == <<>>
<1>1. Does(t, w) /\ Popped(t) = "WriteResult" BY DEF WriteResult, At, Does, Popped, Idle
<1>2. Sound(w) /\ \A x \in Tallied : Count(w, x) = 0 BY SoundWork, CountEmpty
<1>3. Moved(Popped(t), w) BY <1>1, <1>2, MovedBy
<1>4. /\ future_state' = future_state \cup {"kResultWritten"}
      /\ result' = "error"
      /\ UNCHANGED <<commit_state, handles, open_ptrs, user_futures, nodes,
                     open_reference_count, commit_reference_count, own_future,
                     own_promise, promise_refs, future_refs, force_cb, not_needed_cb,
                     executed>>
  BY DEF WriteResult, refs, counts, future, callbacks
<1>. HIDE DEF w
<1>5. /\ Natural /\ Steady({"WriteResult"})
      /\ Pending("WriteResult")' = Pending("WriteResult") - 1
  BY <1>1, <1>2, <1>3 DEF Natural, Steady, Moved, Tallied, Is
<1>6. Tallies'
  <2>1. (PromiseCounted /\ FutureCounted /\ ForceOnce)'
    BY EndTyped, <1>4, <1>5 DEF Tallies, PromiseCounted, FutureCounted, ForceOnce, One, Listed,
       Typed, Natural, Steady, Tallied
  <2>2. (ExecutedAsDecided /\ RequestCarried /\ PromiseOwned)'
    BY EndTyped, <1>4, <1>5 DEF Tallies, ExecutedAsDecided, RequestCarried, PromiseOwned, PromiseCounted, Requested, Decided, CommitState, One, Listed,
       Typed, Natural, Steady, Tallied
  <2>3. NotNeededAborts'
    BY EndTyped, <1>4, <1>5 DEF Tallies, NotNeededAborts, ForceOnce, FutureCounted, One, Listed, CommitState, Decided,
       Typed, Natural, Steady, Tallied
  <2>4. ResultInv'
    BY EndTyped, <1>4, <1>5 DEF Tallies, ResultInv, PromiseCounted, PromiseOwned, ExecutedAsDecided, Decided, Aborting, Locked, One, Listed, CommitState,
       Typed, Natural, Steady, Tallied
  <2>. QED BY <2>1, <2>2, <2>3, <2>4 DEF Tallies
<1>7. Orderly(t, w)
  BY EndTyped, <1>1, <1>4 DEF Orderly, Decided, Locked, Aborting, Typed, CommitState
<1>. QED BY <1>1, <1>2, <1>6, <1>7, EndStep

\* The last promise reference makes the future ready.
LEMMA WriteReadyEnd ==
  ASSUME EndInv, RInv', NEW t \in Thread, WriteResultAndReady(t)
  PROVE  EndInv'
<1>. DEFINE w == <<>>
<1>1. Does(t, w) /\ Popped(t) = "WriteResultAndReady"
  BY DEF WriteResultAndReady, At, Does, Popped, Idle
<1>2. Sound(w) /\ \A x \in Tallied : Count(w, x) = 0 BY SoundWork, CountEmpty
<1>3. Moved(Popped(t), w) BY <1>1, <1>2, MovedBy
<1>4. /\ future_state' = future_state \cup {"kResultWritten", "kReady"}
      /\ UNCHANGED <<commit_state, handles, open_ptrs, user_futures, nodes,
                     open_reference_count, commit_reference_count, own_future,
                     own_promise, promise_refs, future_refs, result, force_cb,
                     not_needed_cb, executed>>
  BY DEF WriteResultAndReady, refs, counts, future, callbacks
<1>10. Pending("WriteResultAndReady") > 0 BY <1>1, <1>3 DEF Moved, Tallied, Is
<1>. HIDE DEF w
<1>5. /\ Natural /\ Steady({"WriteResultAndReady"})
      /\ Pending("WriteResultAndReady")' = Pending("WriteResultAndReady") - 1
  BY <1>1, <1>2, <1>3 DEF Natural, Steady, Moved, Tallied, Is
<1>6. Tallies'
  <2>1. (PromiseCounted /\ FutureCounted /\ ForceOnce)'
    BY EndTyped, <1>4, <1>5, <1>10 DEF Tallies, PromiseCounted, FutureCounted, ForceOnce, One, Listed,
       Typed, Natural, Steady, Tallied
  <2>2. (ExecutedAsDecided /\ RequestCarried /\ PromiseOwned)'
    BY EndTyped, <1>4, <1>5, <1>10 DEF Tallies, ExecutedAsDecided, RequestCarried, PromiseOwned, PromiseCounted, Requested, Decided, CommitState, One, Listed,
       Typed, Natural, Steady, Tallied
  <2>3. NotNeededAborts'
    BY EndTyped, <1>4, <1>5, <1>10 DEF Tallies, NotNeededAborts, ForceOnce, FutureCounted, One, Listed, CommitState, Decided,
       Typed, Natural, Steady, Tallied
  <2>4. ResultInv'
    BY EndTyped, <1>4, <1>5, <1>10 DEF Tallies, ResultInv, PromiseCounted, PromiseOwned, ExecutedAsDecided, Decided, Aborting, Locked, One, Listed, CommitState,
       Typed, Natural, Steady, Tallied
  <2>. QED BY <2>1, <2>2, <2>3, <2>4 DEF Tallies
<1>7. Orderly(t, w)
  BY EndTyped, <1>1, <1>4 DEF Orderly, Decided, Locked, Aborting, Typed, CommitState
<1>. QED BY <1>1, <1>2, <1>6, <1>7, EndStep

\* The last future reference destroys the callbacks.
LEMMA ReleaseFutureEnd ==
  ASSUME EndInv, RInv', NEW t \in Thread, ReleaseFuture(t)
  PROVE  EndInv'
<1>. USE DEF Booked
<1>0. Booked(t) BY EndTyped
<1>. DEFINE c == future_refs' = 0
            w == If(c, <<"DestroyPromiseCallbacks">>)
<1>1. Does(t, w) /\ Popped(t) = "ReleaseFuture" BY DEF ReleaseFuture, At, Does, Popped, Idle
<1>2. Sound(w) /\ \A x \in Tallied : Count(w, x) = IF c THEN Is("DestroyPromiseCallbacks", x) ELSE 0
  <2>1. "DestroyPromiseCallbacks" \in Free /\ c \in BOOLEAN BY DEF Free, Task, Via
  <2>. HIDE DEF c
  <2>. QED BY <2>1, OneWork
<1>3. Moved(Popped(t), w) BY <1>1, <1>2, MovedBy
<1>4. /\ future_refs' = future_refs - 1
      /\ UNCHANGED <<commit_state, handles, open_ptrs, user_futures, nodes,
                     open_reference_count, commit_reference_count, own_future,
                     own_promise, promise_refs, future_state, result, force_cb,
                     not_needed_cb, executed>>
  BY DEF ReleaseFuture, refs, counts, future, callbacks
<1>. HIDE DEF w
<1>5. /\ Natural /\ Steady({"ReleaseFuture", "DestroyPromiseCallbacks"})
      /\ Pending("ReleaseFuture")' = Pending("ReleaseFuture") - 1
      /\ Pending("DestroyPromiseCallbacks")' = Pending("DestroyPromiseCallbacks") + IF c THEN 1 ELSE 0
  BY <1>1, <1>2, <1>3 DEF Natural, Steady, Moved, Tallied, Is
<1>6. Tallies'
  <2>1. (PromiseCounted /\ FutureCounted /\ ForceOnce)'
    BY <1>0, <1>4, <1>5 DEF Tallies, PromiseCounted, FutureCounted, ForceOnce, One, Listed,
       Typed, Natural, Steady, Tallied
  <2>2. (ExecutedAsDecided /\ RequestCarried /\ PromiseOwned)'
    BY <1>0, <1>4, <1>5 DEF Tallies, ExecutedAsDecided, RequestCarried, PromiseOwned, PromiseCounted, Requested, Decided, CommitState, One, Listed,
       Typed, Natural, Steady, Tallied
  <2>3. NotNeededAborts'
    BY <1>0, <1>4, <1>5 DEF Tallies, NotNeededAborts, ForceOnce, FutureCounted, One, Listed, CommitState, Decided,
       Typed, Natural, Steady, Tallied
  <2>4. ResultInv'
    BY <1>0, <1>4, <1>5 DEF Tallies, ResultInv, PromiseCounted, PromiseOwned, ExecutedAsDecided, Decided, Aborting, Locked, One, Listed, CommitState,
       Typed, Natural, Steady, Tallied
  <2>. QED BY <2>1, <2>2, <2>3, <2>4 DEF Tallies
<1>7. Orderly(t, w)
  BY <1>0, <1>1, <1>4 DEF Orderly, Decided, Locked, Aborting, Typed, CommitState
<1>. QED BY <1>1, <1>2, <1>6, <1>7, EndStep

\* The end of a Force destroys the callbacks that were left to it.
LEMMA ForcedEnd ==
  ASSUME EndInv, RInv', NEW t \in Thread, Forced(t)
  PROVE  EndInv'
<1>. DEFINE c == "kResultLocked" \in future_state \/ ~HasFuture
            w == If(c, <<"DestroyPromiseCallbacks">>)
<1>1. Does(t, w) /\ Popped(t) = "Forced" BY DEF Forced, At, Does, Popped, Idle
<1>2. Sound(w) /\ \A x \in Tallied : Count(w, x) = IF c THEN Is("DestroyPromiseCallbacks", x) ELSE 0
  <2>1. "DestroyPromiseCallbacks" \in Free /\ c \in BOOLEAN BY DEF Free, Task, Via
  <2>. HIDE DEF c
  <2>. QED BY <2>1, OneWork
<1>3. Moved(Popped(t), w) BY <1>1, <1>2, MovedBy
<1>4. /\ future_state' = future_state \cup {"kForced"}
      /\ UNCHANGED <<commit_state, handles, open_ptrs, user_futures, nodes,
                     open_reference_count, commit_reference_count, own_future,
                     own_promise, promise_refs, future_refs, result, force_cb,
                     not_needed_cb, executed>>
  BY DEF Forced, refs, counts, future, callbacks
<1>. HIDE DEF w
<1>5. /\ Natural /\ Steady({"DestroyPromiseCallbacks"})
      /\ Pending("DestroyPromiseCallbacks")' >= Pending("DestroyPromiseCallbacks")
  BY <1>1, <1>2, <1>3 DEF Natural, Steady, Moved, Tallied, Is
<1>6. Tallies'
  <2>1. (PromiseCounted /\ FutureCounted /\ ForceOnce)'
    BY EndTyped, <1>4, <1>5 DEF Tallies, PromiseCounted, FutureCounted, ForceOnce, One, Listed,
       Typed, Natural, Steady, Tallied
  <2>2. (ExecutedAsDecided /\ RequestCarried /\ PromiseOwned)'
    BY EndTyped, <1>4, <1>5 DEF Tallies, ExecutedAsDecided, RequestCarried, PromiseOwned, PromiseCounted, Requested, Decided, CommitState, One, Listed,
       Typed, Natural, Steady, Tallied
  <2>3. NotNeededAborts'
    BY EndTyped, <1>4, <1>5 DEF Tallies, NotNeededAborts, ForceOnce, FutureCounted, One, Listed, CommitState, Decided,
       Typed, Natural, Steady, Tallied
  <2>4. ResultInv'
    BY EndTyped, <1>4, <1>5 DEF Tallies, ResultInv, PromiseCounted, PromiseOwned, ExecutedAsDecided, Decided, Aborting, Locked, One, Listed, CommitState,
       Typed, Natural, Steady, Tallied
  <2>. QED BY <2>1, <2>2, <2>3, <2>4 DEF Tallies
<1>7. Orderly(t, w)
  BY EndTyped, <1>1, <1>4 DEF Orderly, Decided, Locked, Aborting, Typed, CommitState
<1>. QED BY <1>1, <1>2, <1>6, <1>7, EndStep

\* The last weak reference finds the transaction executed, and its promise gone.
LEMMA LastWeak ==
  ASSUME EndInv, NEW t \in Thread, At(t, "DecrementWeak"), weak_reference_count = 1
  PROVE  own_promise = FALSE
<1>0. StackOK /\ Alive /\ Typed /\ Tallies /\ blocks \in Nat /\ open_reference_count = open_ptrs + blocks
  BY EndTyped DEF EndInv, RInv, IInv, TypeOK
<1>1. ASSUME NEW x PROVE Pending(x) \in Nat
  <2>1. Pending(x) = Cardinality(Places(Thread, x)) BY DEF Pending, Positions, Places
  <2>. QED BY <1>0, <2>1, PendingFinite, FS_CardinalityType
<1>2. /\ stack[t] # <<>> /\ stack[t] \in Seq(Task) /\ 1 \in 1 .. Len(stack[t])
      /\ stack[t][1] = "DecrementWeak" /\ 1 \in Positions(stack[t], "DecrementWeak")
  <2>1. stack[t] # <<>> /\ stack[t] \in Seq(Task) /\ Head(stack[t]) = "DecrementWeak"
    BY <1>0 DEF At, StackOK
  <2>. QED BY <2>1 DEF Positions
<1>3. Pending("DecrementWeak") # 0 BY <1>0, <1>2, PendingNowhere
<1>4. /\ handles = 0 /\ open_ptrs = 0 /\ blocks = 0 /\ nodes = 0
      /\ Pending("DecrementCommit") = 0 /\ Pending("DecrementForce") = 0
      /\ Pending("DecrementWeak") = 1 /\ not_needed_cb # "listed"
  <2>1. /\ Pending("DecrementCommit") \in Nat /\ Pending("DecrementForce") \in Nat
        /\ Pending("DecrementWeak") \in Nat /\ Pending("DestroyNext") \in Nat
    BY <1>1
  <2>2. /\ handles \in Nat /\ open_ptrs \in Nat /\ blocks \in Nat /\ nodes \in Nat
    BY <1>0 DEF Typed
  <2>3. Listed(force_cb) \in Nat /\ Listed(not_needed_cb) \in Nat BY DEF Listed
  <2>4. weak_reference_count = handles + open_ptrs + blocks + nodes
          + Pending("DecrementCommit") + Pending("DecrementForce")
          + Pending("DecrementWeak") + Pending("DestroyNext")
          + Listed(force_cb) + Listed(not_needed_cb)
    BY <1>0 DEF Alive, ReferencesCounted, Listed
  <2>. DEFINE a == handles + open_ptrs + blocks + nodes
              p == Pending("DecrementCommit")
              q == Pending("DecrementForce")
              r == Pending("DecrementWeak")
              d == Pending("DestroyNext")
              lf == Listed(force_cb)
              ln == Listed(not_needed_cb)
  <2>5. /\ a \in Nat /\ p \in Nat /\ q \in Nat /\ r \in Nat /\ d \in Nat /\ lf \in Nat /\ ln \in Nat
        /\ a + p + q + r + d + lf + ln = 1 /\ r # 0
    BY <1>3, <2>1, <2>2, <2>3, <2>4
  <2>6. a = 0 /\ p = 0 /\ q = 0 /\ r = 1 /\ ln = 0
    <3>. HIDE DEF a, p, q, r, d, lf, ln
    <3>. QED BY <2>5
  <2>7. not_needed_cb # "listed" BY <2>6 DEF Listed
  <2>. QED BY <2>2, <2>6, <2>7
<1>5. ASSUME NEW u \in Thread, NEW j \in 1 .. Len(stack[u]), stack[u][j] \in Holding
      PROVE  u = t /\ j = 1
  <2>1. stack[u][j] # "DecrementCommit" /\ stack[u][j] # "DecrementForce"
    BY <1>0, <1>4, PendingNowhere
  <2>2. Busy("via_handle") = {} /\ Busy("via_open") = {} /\ Busy("via_node") = {}
    BY <1>0, <1>4 DEF Alive, CallersHold
  <2>3. stack[u] \in Seq(Task) /\ stack[u] # <<>> BY <1>0 DEF StackOK
  <2>4. stack[u][j] \in Via => stack[u][Len(stack[u])] = stack[u][j]
    BY <1>0 DEF Alive, StacksCovered, ViaLast
  <2>5. stack[u][j] \notin {"via_handle", "via_open", "via_node"}
    BY <2>2, <2>3, <2>4 DEF Busy, Via
  <2>6. stack[u][j] = "DecrementWeak" BY <1>5, <2>1, <2>5 DEF Holding
  <2>7. j \in Positions(stack[u], "DecrementWeak") BY <2>3, <2>6 DEF Positions
  <2>. SUFFICES ASSUME t # u \/ 1 # j PROVE FALSE OBVIOUS
  <2>8. Pending("DecrementWeak") >= 2 BY <1>0, <1>2, <2>7, TwoPlaces
  <2>. QED BY <1>4, <2>8
<1>6. ASSUME NEW x \in TouchesTransaction, x # "DecrementWeak"
      PROVE  Pending(x) = 0
  <2>1. ASSUME NEW u \in Thread, NEW i \in 1 .. Len(stack[u]), stack[u][i] = x
        PROVE  FALSE
    <3>1. PICK j \in i .. Len(stack[u]) : stack[u][j] \in Holding
      BY <1>0, <2>1 DEF Alive, StacksCovered, Covered
    <3>2. j \in 1 .. Len(stack[u]) BY <1>0, <3>1 DEF StackOK
    <3>3. u = t /\ j = 1 BY <1>5, <3>1, <3>2
    <3>4. i = 1 BY <3>1, <3>3
    <3>. QED BY <1>2, <1>6, <2>1, <3>3, <3>4
  <2>2. ~(Pending(x) > 0) BY <1>0, <2>1, PendingSomewhere
  <2>3. Pending(x) \in Nat BY <1>1
  <2>. QED BY <2>2, <2>3
<1>7. /\ Pending("RequestAbort") = 0 /\ Pending("NoMoreOpenReferences") = 0
      /\ Pending("ExecuteCommit") = 0 /\ Pending("ExecuteAbort") = 0
  BY <1>6 DEF TouchesTransaction
<1>. QED
  BY <1>0, <1>4, <1>7 DEF Tallies, NotNeededAborts, RequestCarried, ExecutedAsDecided, PromiseOwned,
     Requested, Decided, Typed, CommitState

\* The object is destroyed with the last weak reference, and releases its future.
LEMMA DecrementWeakEnd ==
  ASSUME EndInv, RInv', NEW t \in Thread, DecrementWeak(t)
  PROVE  EndInv'
<1>20. weak_reference_count' = weak_reference_count - 1 /\ weak_reference_count \in Int
  BY DEF DecrementWeak, EndInv, RInv, IInv, TypeOK
<1>21. weak_reference_count' = 0 => own_promise = FALSE
  <2>1. At(t, "DecrementWeak") BY DEF DecrementWeak
  <2>2. weak_reference_count' = 0 => weak_reference_count = 1 BY <1>20
  <2>. QED BY <2>1, <2>2, LastWeak
<1>22. own_promise \in BOOLEAN /\ own_future \in BOOLEAN BY EndTyped DEF Typed
<1>. DEFINE c == weak_reference_count' = 0 /\ own_future
            w == If(c, <<"ReleaseFuture">>) \o <<>>
<1>1. Does(t, w) /\ Popped(t) = "DecrementWeak"
  <2>1. stack[t] # <<>> /\ Head(stack[t]) = "DecrementWeak" BY DEF DecrementWeak, At
  <2>2. Return(t, If(c, <<"ReleaseFuture">>) \o If(weak_reference_count' = 0 /\ own_promise, <<"ReleasePromise">>))
    BY DEF DecrementWeak
  <2>3. If(weak_reference_count' = 0 /\ own_promise, <<"ReleasePromise">>) = <<>>
    BY <1>21 DEF If
  <2>4. Return(t, w) BY <2>2, <2>3
  <2>. HIDE DEF w
  <2>. QED BY <2>1, <2>4 DEF Does, Popped, Idle
<1>2. Sound(w) /\ \A x \in Tallied : Count(w, x) = IF c THEN Is("ReleaseFuture", x) ELSE 0
  <2>1. "ReleaseFuture" \in Free /\ c \in BOOLEAN BY DEF Free, Task, Via
  <2>. DEFINE v == If(c, <<"ReleaseFuture">>)
  <2>2. Sound(v) /\ \A x : Count(v, x) = IF c THEN Is("ReleaseFuture", x) ELSE 0
    <3>. HIDE DEF c
    <3>. QED BY <2>1, OneWork
  <2>. DEFINE e == <<>>
  <2>3. Sound(e) /\ \A x : Count(e, x) = 0 BY SoundWork, CountEmpty
  <2>. HIDE DEF v, e
  <2>4. Sound(v \o e) /\ \A x : Count(v \o e, x) = Count(v, x) + Count(e, x)
    BY <2>2, <2>3, BothWork
  <2>5. \A x \in Tallied : Is("ReleaseFuture", x) \in Nat BY DEF Is
  <2>6. \A x \in Tallied : Count(v \o e, x) = IF c THEN Is("ReleaseFuture", x) ELSE 0
    BY <2>2, <2>3, <2>4, <2>5
  <2>. QED BY <2>4, <2>6 DEF v, e
<1>3. Moved(Popped(t), w) BY <1>1, <1>2, MovedBy
<1>4. /\ own_promise' = own_promise
      /\ own_future' \in BOOLEAN
      /\ UNCHANGED <<commit_state, handles, open_ptrs, user_futures, nodes,
                     open_reference_count, commit_reference_count, promise_refs,
                     future_refs, future_state, result, force_cb, not_needed_cb,
                     executed>>
  BY <1>20, <1>21, <1>22 DEF DecrementWeak, refs, counts, future, callbacks
<1>10. (c => own_future /\ ~own_future') /\ (~c => (own_future' <=> own_future))
  BY <1>22 DEF DecrementWeak
<1>11. own_future' => own_future BY <1>10
<1>. HIDE DEF w
<1>5. /\ Natural /\ Steady({"ReleaseFuture"})
      /\ Pending("ReleaseFuture")' = Pending("ReleaseFuture") + IF c THEN 1 ELSE 0
  BY <1>20, <1>21, <1>22, <1>1, <1>2, <1>3 DEF Natural, Steady, Moved, Tallied, Is
<1>6. Tallies'
  <2>0. /\ Pending("ReleaseFuture")' + One(own_future') = Pending("ReleaseFuture") + One(own_future)
         /\ One(own_future') \in Nat /\ One(own_future) \in Nat /\ UNCHANGED own_promise
    <3>. HIDE DEF c
    <3>1. Pending("ReleaseFuture") \in Nat /\ own_promise' = own_promise
      BY <1>4, <1>5 DEF Natural, Tallied
    <3>2. CASE c BY <1>10, <1>5, <1>22, <3>1, <3>2 DEF One
    <3>3. CASE ~c BY <1>10, <1>5, <1>22, <3>1, <3>3 DEF One
    <3>. QED BY <3>2, <3>3
  <2>1. (PromiseCounted /\ FutureCounted /\ ForceOnce)'
    <3>1. PromiseCounted'
      BY <1>20, <1>21, <1>22, EndTyped, <1>4, <1>5, <1>11, <2>0 DEF Tallies, PromiseCounted, One, Listed, Typed, Natural, Steady, Tallied
    <3>2. FutureCounted'
      BY <1>20, <1>21, <1>22, EndTyped, <1>4, <1>5, <1>11, <2>0 DEF Tallies, FutureCounted, Typed, Natural, Steady, Tallied
    <3>3. ForceOnce'
      BY <1>20, <1>21, <1>22, EndTyped, <1>4, <1>5, <1>11, <2>0 DEF Tallies, ForceOnce, Listed, Typed, Natural, Steady, Tallied
    <3>. QED BY <3>1, <3>2, <3>3
  <2>2. (ExecutedAsDecided /\ RequestCarried /\ PromiseOwned)'
    BY <1>20, <1>21, <1>22, EndTyped, <1>4, <1>5, <1>11 DEF Tallies, ExecutedAsDecided, RequestCarried, PromiseOwned, PromiseCounted, Requested, Decided, CommitState, One, Listed,
       Typed, Natural, Steady, Tallied
  <2>3. NotNeededAborts'
    BY <1>20, <1>21, <1>22, EndTyped, <1>4, <1>5, <1>11 DEF Tallies, NotNeededAborts, ForceOnce, FutureCounted, One, Listed, CommitState, Decided,
       Typed, Natural, Steady, Tallied
  <2>4. ResultInv'
    BY <1>20, <1>21, <1>22, EndTyped, <1>4, <1>5, <1>11 DEF Tallies, ResultInv, PromiseCounted, PromiseOwned, ExecutedAsDecided, Decided, Aborting, Locked, One, Listed, CommitState,
       Typed, Natural, Steady, Tallied
  <2>. QED BY <2>1, <2>2, <2>3, <2>4 DEF Tallies
<1>7. Orderly(t, w)
  BY <1>20, <1>21, <1>22, EndTyped, <1>1, <1>4 DEF Orderly, Decided, Locked, Aborting, Typed, CommitState
<1>. QED BY <1>1, <1>2, <1>6, <1>7, EndStep

-----------------------------------------------------------------------------
(* The end of a transaction.                                               *)

\* Nothing is pending when no thread has work.
LEMMA IdleCounts ==
  ASSUME \A t \in Thread : stack[t] = <<>>
  PROVE  \A x : Pending(x) = 0
<1>. SUFFICES ASSUME NEW x PROVE Pending(x) = 0 OBVIOUS
<1>1. Places(Thread, x) = {} BY DEF Places, Positions
<1>2. Pending(x) = Cardinality(Places(Thread, x)) BY DEF Pending, Positions, Places
<1>. QED BY <1>1, <1>2, FS_EmptySet

\* The invariant holds of a new transaction.
LEMMA InitEnd == Init => EndInv
<1>. SUFFICES ASSUME Init PROVE EndInv OBVIOUS
<1>1. RInv BY InitIInv, InitAlive DEF RInv
<1>2. \A t \in Thread : stack[t] = <<>> BY DEF Init
<1>3. \A x : Pending(x) = 0 BY <1>2, IdleCounts
<1>4. Tallies
  BY <1>3 DEF Init, Tallies, PromiseCounted, FutureCounted, ForceOnce, ExecutedAsDecided,
     RequestCarried, PromiseOwned, NotNeededAborts, ResultInv, Requested, Decided, Aborting, Locked,
     One, Listed
<1>5. ErrorDeferred BY DEF Init, ErrorDeferred, Aborting
<1>6. WorkInOrder
  <2>1. <<>> \in Seq(Timely) /\ Len(<<>>) = 0 OBVIOUS
  <2>2. First("UnregisterForce", <<>>) /\ First("UnregisterNotNeeded", <<>>) BY <2>1 DEF First
  <2>. QED BY <1>2, <2>1, <2>2 DEF WorkInOrder
<1>. QED BY <1>1, <1>4, <1>5, <1>6 DEF EndInv

\* A step that changes nothing.
LEMMA StutterEnd ==
  ASSUME EndInv, RInv', UNCHANGED vars
  PROVE  EndInv'
<1>1. \A x \in Tallied : Pending(x)' = Pending(x) BY EndTyped, SameCounts DEF vars
<1>2. Tallies'
  BY <1>1, EndTyped DEF vars, refs, counts, future, callbacks, Tallied, Tallies, PromiseCounted, FutureCounted,
     ForceOnce, ExecutedAsDecided, RequestCarried, PromiseOwned, NotNeededAborts, ResultInv,
     Requested, Decided, Aborting, Locked, One, Listed
<1>3. UNCHANGED <<stack, commit_state, callbacks, future_state>> BY DEF vars, future
<1>. QED BY <1>2, <1>3, EndStay

\* Every step keeps the invariant.
LEMMA NextEnd == EndInv /\ [Next]_vars => EndInv'
<1>. SUFFICES ASSUME EndInv, [Next]_vars
              PROVE  EndInv'
  OBVIOUS
<1>1. RInv' BY NextRInv DEF EndInv
<1>2. CASE UNCHANGED vars BY <1>1, <1>2, StutterEnd
<1>3. CASE Next
  <2>1. ASSUME NEW t \in Thread, Step(t)
        PROVE  EndInv'
    <3>1. CASE DecrementCommit(t) \/ DecrementForce(t) \/ DecrementWeak(t)
      BY <1>1, <3>1, DecrementCommitEnd, DecrementForceEnd, DecrementWeakEnd
    <3>2. CASE \/ RequestCommit(t) \/ RequestAbort(t) \/ NoMoreOpenReferences(t) \/ NoMoreCommitReferences(t)
               \/ ExecuteCommit(t) \/ ExecuteAbort(t)
      BY <1>1, <3>2, RequestCommitEnd, RequestAbortEnd, NoMoreOpenEnd, NoMoreCommitEnd, ExecuteCommitEnd,
         ExecuteAbortEnd
    <3>3. CASE UnregisterForce(t) \/ UnregisterNotNeeded(t)
      BY <1>1, <3>3, UnregisterForceEnd, UnregisterNotNeededEnd
    <3>4. CASE \/ SetDeferredResult(t) \/ WriteResult(t) \/ WriteResultAndReady(t)
               \/ ReleasePromise(t) \/ ReleaseFuture(t)
      BY <1>1, <3>4, SetDeferredEnd, WriteResultEnd, WriteReadyEnd, ReleasePromiseEnd, ReleaseFutureEnd
    <3>5. CASE DestroyPromiseCallbacks(t) \/ DestroyNext(t) \/ NotNeededDone(t)
      BY <1>1, <3>5, DestroyCallbacksEnd, DestroyNextEnd, NotNeededDoneEnd
    <3>6. CASE RunForceCallbacks(t) \/ ForceCallbackDone(t) \/ Forced(t)
      BY <1>1, <3>6, RunForceEnd, ForceDoneEnd, ForcedEnd
    <3>. QED BY <2>1, <3>1, <3>2, <3>3, <3>4, <3>5, <3>6 DEF Step
  <2>2. ASSUME NEW t \in Thread, Acquire(t)
        PROVE  EndInv'
    BY <1>1, <2>2, AcquireOpenEnd, AcquireImplicitEnd, AcquireBlockEnd, CopyTransactionEnd, GetFutureEnd,
       RegisterEnd DEF Acquire
  <2>3. ASSUME NEW t \in Thread, Release(t)
        PROVE  EndInv'
    BY <1>1, <2>3, ReleaseOpenEnd, ReleaseBlockEnd, DropTransactionEnd, DropFutureEnd DEF Release
  <2>4. ASSUME NEW t \in Thread, Request(t)
        PROVE  EndInv'
    BY <1>1, <2>4, CommitAsyncEnd, AbortEnd, AbortWithErrorEnd, SetErrorEnd, ForceFutureEnd DEF Request
  <2>5. ASSUME NEW t \in Thread, NodeDone(t) \/ NodeSetError(t)
        PROVE  EndInv'
    BY <1>1, <2>5, NodeDoneEnd, NodeSetErrorEnd
  <2>6. CASE Terminated BY <1>2, <2>6 DEF Terminated
  <2>. QED BY <1>3, <2>1, <2>2, <2>3, <2>4, <2>5, <2>6 DEF Next
<1>. QED BY <1>2, <1>3

\* The invariant holds in every state.
LEMMA InductiveEnd == Spec => []EndInv
BY InitEnd, NextEnd, PTL DEF Spec

\* The future of a transaction is ready only once its commit or its abort has
\* run and no node is left, and an aborted transaction is never reported as
\* committed: RequestAbort holds a promise of its own until the error is set.
THEOREM ReadyMeansDoneHolds == Spec => []ReadyMeansDone
<1>1. EndInv => ReadyMeansDone
  <2>. SUFFICES ASSUME EndInv, Ready
                PROVE  executed # "none" /\ nodes = 0 /\ (executed = "abort" => result = "error")
    BY DEF ReadyMeansDone
  <2>0. StackOK /\ Typed /\ Tallies BY EndTyped
  <2>1. ASSUME NEW x PROVE Pending(x) \in Nat
    <3>1. Pending(x) = Cardinality(Places(Thread, x)) BY DEF Pending, Positions, Places
    <3>. QED BY <2>0, <3>1, PendingFinite, FS_CardinalityType
  <2>2. promise_refs = 0 BY <2>0 DEF Ready, Tallies, ResultInv
  <2>3. own_promise = FALSE
    <3>1. Pending("DestroyNext") \in Nat /\ Pending("ReleasePromise") \in Nat BY <2>1
    <3>2. Listed(force_cb) \in Nat /\ One(own_promise) \in {0, 1} BY DEF Listed, One
    <3>3. One(own_promise) = 0 BY <2>0, <2>2, <3>1, <3>2 DEF Tallies, PromiseCounted
    <3>. QED BY <2>0, <3>3 DEF One, Typed
  <2>4. executed # "none" /\ nodes = 0 BY <2>0, <2>3 DEF Tallies, PromiseOwned
  <2>5. executed = "abort" => result = "error"
    BY <2>0 DEF Ready, Tallies, ExecutedAsDecided, ResultInv, Aborting
  <2>. QED BY <2>4, <2>5
<1>. QED BY <1>1, InductiveEnd, PTL

\* Once the clients have dropped everything and no thread is at work, the
\* TransactionState has been destroyed, no promise is left and the future is
\* ready: neither reference cycle survives, whatever the order of the releases.
THEOREM NoLeakHolds == Spec => []NoLeak
<1>1. EndInv => NoLeak
  <2>. SUFFICES ASSUME EndInv, Released
                PROVE  weak_reference_count = 0 /\ promise_refs = 0 /\ Ready
    BY DEF NoLeak
  <2>0. StackOK /\ Typed /\ Tallies /\ open_reference_count = open_ptrs + blocks /\ ReferencesCounted
    BY EndTyped DEF EndInv, RInv, Alive
  <2>1. \A x : Pending(x) = 0 BY IdleCounts DEF Released, Idle
  <2>2. handles = 0 /\ open_ptrs = 0 /\ blocks = 0 /\ user_futures = 0 /\ nodes = 0
    BY DEF Released
  <2>3. commit_state # "kOpen"
    <3>. SUFFICES ASSUME commit_state = "kOpen" PROVE FALSE OBVIOUS
    <3>1. own_future = FALSE BY <2>0, <2>1, <2>2 DEF Tallies, NotNeededAborts, Typed
    <3>2. future_refs = 0 BY <2>0, <2>1, <2>2, <3>1 DEF Tallies, FutureCounted, One
    <3>. QED BY <2>0, <2>1, <3>2 DEF Tallies, NotNeededAborts
  <2>4. Decided
    BY <2>0, <2>1, <2>2, <2>3 DEF Tallies, RequestCarried, Requested, Decided, Typed, CommitState
  <2>5. executed # "none" /\ force_cb # "listed" /\ not_needed_cb # "listed"
    BY <2>0, <2>1, <2>4 DEF Tallies, ExecutedAsDecided
  <2>6. own_promise = FALSE BY <2>0, <2>2, <2>5 DEF Tallies, PromiseOwned, Typed
  <2>7. weak_reference_count = 0 BY <2>0, <2>1, <2>2, <2>5 DEF ReferencesCounted
  <2>8. promise_refs = 0 BY <2>0, <2>1, <2>5, <2>6 DEF Tallies, PromiseCounted, One, Listed
  <2>9. Ready BY <2>0, <2>1, <2>8 DEF Ready, Tallies, ResultInv, Locked
  <2>. QED BY <2>7, <2>8, <2>9
<1>. QED BY <1>1, InductiveEnd, PTL

=============================================================================
