# TensorStore: TLA+ models, checks and proofs

This directory holds TLA+ specifications of the concurrent core of TensorStore:
the transaction state machine, the way a transaction commits its nodes, the cache
entries through which all reads and writes of chunked data go, the cache pool that
owns them, the mutations that a transaction holds for a key-value store, and the
commit protocol of the OCDBT database.  Each module
is a translation of C++ code in `src/tensorstore/`; `PROJECT.json` maps every
definition to the lines it stands for.

## 1. The system

TensorStore reads and writes large arrays kept in key-value stores.  Its layers,
from the bottom:

| Part | State it keeps | Operations | What is hard |
|---|---|---|---|
| Future/Promise (`util/future.*`) | result, state bits, two callback lists, three reference counts | Force, SetResult, register/unregister callbacks, drop references | lock-free state bits, callbacks that free what runs them |
| Transaction (`transaction.*`, `transaction_impl.h`) | commit state, open/commit/weak counts, tree of nodes, promise and future | acquire/release references, commit, abort, node callbacks | reference cycles, hand-over between threads by counters that wrap, errors at any time |
| Cache pool (`internal/cache/cache.cc`) | strong/weak counts, LRU list, byte limits | get/pin/evict entries and caches | lock order, revival of entries being evicted |
| AsyncCache (`internal/cache/async_cache.cc`) | per entry: cached read state, issued and queued read, queue of nodes to write back | Read, batch submit, ReadSuccess/Error, PrepareForCommit, WritebackSuccess/Error | one operation at a time per entry, calls made after unlocking, staleness bounds |
| KvsBackedCache, ChunkCache, AsyncWriteArray | read state and masked writes of a chunk | encode, decode, merge, conditional write | partial writes, superseded writes |
| kvstore transactions (`kvstore/transaction.cc`) | phases of mutations ordered by key, chains of read-modify-writes | read, write, delete range, writeback | splitting of ranges, revocation, atomic multi-key commit |
| Batch (`batch.cc`) | entries by nesting depth | get entry, submit | submission order, ownership |
| OCDBT (`kvstore/ocdbt`) | B+tree versions and a manifest | read, commit with retry, distributed leases | optimistic commit, crash between writes, lease expiry |
| Stores (memory, file, gcs, s3, http, zip, shards) | values and generations | conditional read/write/delete | rename and lock files, retries |
| Threads (`internal/thread`, `internal/rate_limiter`) | task queues, admission queues | schedule, steal, admit | lost wake-ups, bounds |
| Index space, drivers, codecs, JSON | transforms and metadata | pure computation | boundary arithmetic |

How they interact: a write obtains an open transaction reference and a transaction
node of a cache entry; dropping the last open reference after a commit request
starts the commit; the transaction prepares its nodes one after the other; each
node queues up on its entry, waits for its turn and for a read in flight, and is
then written back through the kvstore, whose answer updates the entry and starts
what was waiting.  Implicit transactions do the same for writes without a
transaction.  What would make each part wrong is listed under `hazards` in
`PROJECT.json`, at the line where it bites.

Properties that make the modelled parts correct:

* Transaction references: counts equal the references that exist; exactly one
  thread starts the commit or the abort; nothing is open afterwards; the object is
  freed exactly when nobody can touch it; every request makes the future ready; an
  abort is never reported as success.
* Commit: nodes prepared in tree order, committed only when all of the phase are
  ready; phases do not overlap; errors stop later phases; the future is ready only
  when every node has ended; nothing leaks and nothing is stuck.
* AsyncCache: a read and a writeback never overlap on an entry; writebacks go in
  turn; each node is called back once; a successful read leaves data that is fresh
  enough; what waits is started; transactions do not deadlock on shared entries.
* Cache pool: an object is destroyed exactly once, when nobody can reach it any
  more; lookups never return a dying cache nor create a second one; unreferenced
  entries can be evicted and are when the limit is passed.
* kvstore transactions: a key ends up as if the operations on it had been made one
  after the other on the value stored at the commit; every condition and every
  repeatable read is checked against that value; each caller is told once, the truth.
* OCDBT: a batch takes effect as a whole, once, in order, on the manifest it
  replaces; a stored manifest refers only to stored data; numbered manifests form one
  log whose end is never lost.

## 2. Modules

| Module | Models | Notes |
|---|---|---|
| `TransactionLifecycle` | `TransactionState` references and commit states with its promise/future pair | explicit and implicit transactions; threads, each with a stack of pending pieces of work |
| `TransactionLifecycleProofs` | inductive invariants and theorems on `TransactionLifecycle` | checked by TLAPS |
| `TransactionCommit` | `ExecuteCommit`, `ExecuteAbort` and the node callbacks | refines `PhasedCommit` |
| `TransactionCommitProofs` | inductive invariant, theorems, refinement of `PhasedCommit` | checked by TLAPS |
| `PhasedCommit` | abstract: what a transaction promises about its nodes | no threads, no counters |
| `AsyncCache` | entries, readers, writeback queues, transactions of one phase | |
| `AsyncCacheProofs` | inductive invariants of the nodes and queues and of the reads, theorems on them | checked by TLAPS |
| `CachePool` | pool, caches, entries: reference counts, eviction, destruction | one step per atomic operation or critical section |
| `CachePoolInvariant` | inductive invariant of `CachePool`; eviction, destruction and the references of entries keep it | checked by TLAPS |
| `CachePoolProofs` | the other steps and the calls of the clients keep it, and what follows from it: the theorems | checked by TLAPS |
| `KvsTransaction` | `MultiPhaseMutation` and its writeback | non-atomic transactions |
| `KvsTransactionProofs` | inductive invariant of the counts and of the answers, theorems on `KvsTransaction` | checked by TLAPS |
| `OcdbtCommit` | the non-distributed B-tree writer and the manifest in one file | several processes, crashes |
| `OcdbtCommitProofs` | inductive invariant and theorems on `OcdbtCommit` | checked by TLAPS |
| `NumberedManifest` | manifests in numbered files | refines `ManifestLog` |
| `ManifestLog` | abstract: one log of versions, acknowledged commits are in it | |
| `NumberedManifestProofs` | inductive invariants, theorems, refinement of `ManifestLog` | checked by TLAPS |
| `MC...` | TLC instances | constants and symmetry |

Operators whose comment begins with "A slip:" stand next to the definition they
vary.  They are not part of any specification; each is a plausible mistake in the
code at that place, used to show that a property notices it.

### TransactionLifecycle

Variables carry the names of the members (`commit_state`, `open_reference_count`,
...).  `handles`, `open_ptrs`, `blocks`, `user_futures` and `nodes` count the
references that clients hold.  The future state is `promise_refs`, `future_refs`,
`future_state` (the bits of `state_`), `result`, and the position of the two
callbacks that the constructor registers: `listed`, running in a thread, or `gone`.

A call that takes several critical sections is a stack of pieces of work in its
thread.  One piece is one critical section or one atomic instruction, so the
interleavings are those of the code: `ReleaseOpenPtr` decrements the open count,
then runs `NoMoreOpenReferences`, then `DecrementCommit`, then `DecrementWeak`.
`UnregisterForce` waits, as `Unregister(block=true)` does, while another thread
runs the callback.  Nodes only report that they are done: how they get there is
`TransactionCommit`.  `combined_reference_count_` (the memory of the future state)
is not modelled, nor is `total_bytes_`.

### TransactionCommit and PhasedCommit

Starts where the lifecycle ends: one thread enters `ExecuteCommit` or
`ExecuteAbort` for any set of nodes in any phases.  `pc`, `cursor`, `todo` and
`count` are the locals of the thread inside; `held` counts the weak references its
frames release when they return.  `pending` and `pending_abort` are integers that
go below zero where the `size_t` counters wrap.  Callbacks of nodes are made by any
idle thread; a callback made synchronously inside `PrepareForCommit`, `Commit` or
`Abort` is the same step by another thread.  Nodes that are not terminal are told
`CommitDone` by a terminal node, possibly before their own `Commit()`.

`PhasedCommit` is the promise: a phase begins as a whole when the previous one has
ended, an error stops later phases, and the outcome is announced after every node
has committed or aborted.  `ImplementsPhasedCommit` maps a node in the tree to
"pending", one taken out to be committed to "committing", and the released
`promise_` to the announcement.

### AsyncCache

`request[e]` is `read_request_state_` (time 0 is `InfinitePast`), `queue[e]` the
list from `committing_transaction_node_` on, `prepare_state` the node's
`prepare_for_commit_state_`.  A step is one critical section of the entry's mutex;
the calls that the code makes after unlocking are put in the thread's `work` and
made one by one: the two-part structure of `MaybeStartReadOrWriteback` ("We need to
update the state while holding the lock, but we can't perform the actions until
after releasing it") is kept.  `MaybeStartReadOrWriteback` is an operator used by
every handler that ends with it.  Readers stand for futures: a reader's `on` says
which promise its future belongs to, `batch` that a batch entry for that promise
exists.  The transactions are those of `TransactionCommit` reduced to one phase.
`Outcome` is what `KvsWritebackSuccess` passes on, in all runs every one of its
three values.  A read that a writeback completes without a read state has the promise
"assumed" in place of "ok", which its reader cannot tell apart.  `ReadSatisfiesBound`
is about "ok"; `EveryReadSatisfiesBound`, about both, is violated (`async_cache_unread`).

### CachePool

`todo[t]` is the sequence of steps a thread still has to execute; a step is one
atomic operation or one critical section, and a call puts the steps of the callee
in front.  `CacheImpl::reference_count_` packs three counts in disjoint bits; they
are the fields `strong`, `shards` and `bit` of `cache[c]`.  `lru_mutex_` and the
mutex of a weak state are held across steps, with `lru` and `weak[e].mutex` as
holders; the other mutexes are not.  `DecrementReferenceCountWithLock` is the
unlocked decrement while the count stays above `LockThreshold`, and otherwise a
step under the lock.  Objects are never allocated twice, so that a use after
destruction is visible.  Each client thread holds at most one pointer of each kind.

`Spec` has every use of the pool that its interface allows.  Its properties fail in
three ways, so they are stated of `CalmSpec`, whose clients keep to three rules:
`CalmRevival`, no `StrongPtr` is made from a `WeakPtr` while a cache is being
destroyed; `CalmWeak`, no weak reference to an entry is acquired while the last one
is being released; `PinnedRelease`, a weak reference to an entry is released only by
a thread that also holds the pool, a cache or an entry.  Neither the code nor the
comments of `cache.h` ask for them.  The runs `cache_pool_races` (the first two) and
`cache_pool_release` (the third) are of any clients and show what becomes of the
properties without a rule.

### KvsTransaction

`chain[p][k]` is the sequence of `ReadModifyWriteEntry` objects of key `k` in phase
`p`, linked by `prev_`; `dels[p]` the ranges of the `DeleteRangeEntry` objects.  The
interval tree is kept by what it says about each key, so splitting a range is
`Split`, and a chain whose key is in a range is one with `kDeleted`.  A generation is
a base and the mutations on top of it, the last one first: `MarkDirty`, `Clean`,
`StripTag`, `Condition`, `LastMutatedBy` are what the encoding in `generation.cc`
computes.  Three sources implement `KvsWriteback`: writes
(`WriteViaExistingTransactionNode`), repeatable reads
(`ReadViaExistingTransactionNode`) and nodes of a `KvsBackedCache`.  A chain of
`KvsRead` calls, from the last entry down to the one that answers or to the store,
and the answers on the way back are `KvsWriteback`, a function of the position in the
chain.  `fate[o]` is what the source of an operation was told about its end: how
often, what its promise was given, and `kError`.

At the commit `plan` is what the loop of `WritebackPhase` has left: the chains to
start, the ranges whose chains are being started, and whether the number of entries is
still to be added to the count.  `job[k]` is the writeback of one chain, `drs[r]` that
of a range, `left` `remaining_entries_`, which wraps below zero.  A read or write of the store is a step of its own, between which
another client may write (`External`) and requests may fail (`StoreFails`).

Nothing is left out of the clients' operations.  Three kinds of chains are not
written back in order by the code (`Disordered`): one with a repeatable read of a
value that the transaction itself wrote, one in which an entry whose condition cannot
hold after a deletion is written over, and one in which a cache has read a value whose
condition is only assumed (the field `assumed`, not in the code, marks it).
`WritebackIsSequential` and `ReportsAreTrue` are about all other chains; the run
`kvs_disorder` has one commit with a chain of each kind.

### OcdbtCommit

Each process has a `NonDistributedBtreeWriter` and a manifest cache.  `history` is
every manifest ever stored; a time is the generation stored at that time.  The
B+tree is the map it represents, and the data a manifest refers to is a set of
items; `durable` are the items in data files.  `staged` is the tree of staged
mutations, for each key the chain of writes (`supersedes_`) with the tag that a
deletion came in between.  A commit runs through the phases "ensure", "create",
"read", "stage", "flush", "update" and back to "read" when the manifest was
replaced by somebody else.  Faults: the store answers with an error, the answer to a
successful manifest write is lost, the process crashes.

### NumberedManifest and ManifestLog

A manifest is the sequence of the versions in it.  A write conditional on absence
and the deletions of old files are in flight (`writes`, `deletes`) until they take
effect, in any order, also after the process that issued them has crashed.  A
process lists the files, reads the newest, and lists again if it is gone; either may
fail, and the commit with it (`ReadFailed`).
`ManifestLog` is the promise: the versions form a log that only grows at its end,
and an acknowledged commit is in it.  `log` is a history variable: the manifest of
the highest generation ever written.

## 3. Runs

| Run | Configuration | Shows |
|---|---|---|
| `lifecycle` | 2 threads, explicit and implicit transactions, 2 open references | counts, nothing open after the decision, no use after free, no leak, final decisions, every request leads to a ready future |
| `transaction_commit` | 2 threads, 3 nodes (1 not terminal), 3 phases | safety, refinement of `PhasedCommit`, termination |
| `async_cache` | 2 threads, clock to 2, five scenarios: 2 transactions that share 2 entries; on one entry, 2 readers and a transaction, a reader and a transaction with 2 nodes, a reader and 2 transactions, 2 transactions with 3 nodes | reads and writebacks of an entry; commits and reads end |
| `async_cache_unread` | 1 entry, 1 transaction | **violated**: a read succeeds with data older than its bound |
| `cache_pool` | 2 threads, calm, 1 identifier or anonymous, 1 key, 2 caches, 2 entries, with and without limit | reference counts, eviction, destruction |
| `cache_pool_races` | any clients, 2 identifiers | **violated**: one cache is destroyed twice and another is left with a reference too many |
| `cache_pool_release` | any clients, as `cache_pool` | **violated**: a pool is used after it was freed |
| `kvs_transaction` | 3 operations, 2 phases, 1-2 keys, 1 external write, 1 failing request | sequential effect, true reports, counters |
| `kvs_disorder` | 3 keys, 8 operations in a fixed order | **violated**: a commit leaves no key as its operations do |
| `ocdbt_commit` | 2 processes, 2 keys, 3 requests, 1 fault | batches are sequential and applied once, data durable, nothing forgotten |
| `ocdbt_forgotten_delete` | the same without faults | **violated**: a condition does not see a deletion |
| `ocdbt_numbered` | 2 processes, 2 files kept, 5 attempts, 1 crash | the newest file is the log, refinement of `ManifestLog` |

The violated properties state what a comment of the repository says; the lines are
quoted under `findings`.  `BatchesAreSequential` is `EveryBatchIsSequential` with
the batches of that finding left out, so that the rest of the protocol is checked.
Two of the runs stop at a state that breaks several such statements at once.
`SomeKeyIsInOrder` is violated by a commit in which every key is wrong, each for one
of the reasons of `Disordered`; `RacesLeaveOne` by a state in which two threads destroy
one cache, after the revival of the pool, and another cache that nobody works on has a
strong reference that no pointer accounts for, after the race on a weak reference.
`DefinedSpec`, which that run uses, ends a behaviour at the first use of a destroyed
object, so that what it shows is not a consequence of one.

Bounds.  Two threads are enough for every race between two critical sections; the
safety properties of the lifecycle, where a race can involve a release, a request and
a Force, are proved for any number.  Two open references are there because
`AcquireImplicitOpenPtr` revives a transaction.  Three nodes are needed for
a node before, at and after the one being prepared; three phases for a multi-phase
node to skip one.  Two nodes of a transaction on one entry happen after a node was
revoked.  The clock needs one tick to tell "fresh enough" from "too old".  Two cache
objects are a cache being destroyed and its successor for the same identifier; two
entries likewise.  With two entries an eviction never fills the buffer of
`MaybeEvictEntries` (`BufferSize`, 64 in the code), so that its early
`destroy_entries` is covered by the proofs, which are for any `BufferSize`, and by the
same instance with `BufferSize` 1, which passes too but then never takes the other
branch.  Three operations on a key give a first, a superseded and a last
entry; the workloads of `KvsTransaction` put the second phase, the second key and the
failing request where the operations they interact with are.  Three requests are a
write, a deletion and a conditional write that come together in one batch or are
spread over the retries of two processes.  Five attempts with two files kept let a
file be deleted and its number be written again by a process that is late.

Deadlock is checked in every run but those of the two OCDBT modules, where the
bounds on requests and attempts end the behaviour.  Elsewhere a finished system
stutters explicitly (`Terminated`, `Quiescent`, `Rest`, `Finished`).

Fairness.  A thread that is inside a call keeps running (weak fairness of its
steps).  Nodes "must" call `PrepareDone`, `ReadyForCommit`, `CommitDone` and
`AbortDone` (`transaction_impl.h`), and the kvstore answers every read and write it
was given.  In the lifecycle the node's answer needs a thread that is free again and
again, hence strong fairness of `NodeDone`.  Clients promise nothing: they may keep
references, never request, never submit a batch.  The OCDBT, cache pool and kvstore
transaction modules state safety only: a commit of OCDBT may be overtaken for ever.

## 4. Theorems

Every theorem holds for all values of the constants that satisfy the named
assumption of the module.

### TransactionLifecycleProofs (assumes `LifecycleAssumption`: natural bounds, finitely many threads)

* `TypeCorrect`: `Spec => []TypeOK`.  Not obvious for `open_reference_count \in Nat`:
  a release is guarded by the client's references, so the proof needs that the count
  equals them.
* `NothingOpenAfterDecision`: `Spec => []ClosedForWrites`.
* `DecisionsFinal`: `Spec => DecisionsAreFinal`.
* `CountsAreExact`: `Spec => []ReferencesCounted`.
* `DeletedWhenUnused`: `Spec => []NoUseAfterFree`.
* `ReadyMeansDoneHolds`: `Spec => []ReadyMeansDone`.
* `NoLeakHolds`: `Spec => []NoLeak`.

The first three rest on `IInv`: the type invariant, `open_reference_count =
open_ptrs + blocks` and `ClosedForWrites`; the second part is what makes the test
`open_reference_count = 0` in `RequestCommit`, `RequestAbort` and
`NoMoreOpenReferences` mean that no client reference exists.

The next two rest on `RInv`, which adds `Alive`.  `ReferencesCounted` says what the
counts are but not why a thread that is inside a method may touch the transaction.
`StacksCovered` does: below every piece of work that touches the transaction there
is, in the same stack, one that gives a reference back or the mark of a call made
through a reference that the caller keeps (`CallersHold`).  `CallbacksTaken` says
that a callback is not still registered while a thread runs or destroys it.  If the
weak count is zero there is nothing to give back and nobody who keeps anything, so
by `StacksCovered` no piece of work is left.  Counting is by sets of places
(`Places`): a step pops one piece and pushes others, and the lemmas `PendingReturn`,
`PendingCall` and `CountConcat` say what this does to each count.

The last two rest on `EndInv`, which adds what becomes of the promise and the future.
Its `Tallies` are: the promise references are that of the transaction, that of the
registered force callback and the releases under way, and the same for the future
(`PromiseCounted`, `FutureCounted`); the transaction keeps its promise until it was
executed and the last node is done (`PromiseOwned`); what was decided is executed or
some thread still has to (`ExecutedAsDecided`), what was requested waits for an
open reference (`RequestCarried`), and while nothing was requested the last commit
reference, the last future reference and the not-needed callback each hand over to the
next (`NotNeededAborts`), which is how the cycles are broken; `ResultInv` relates the
bits of the future to the promise references.  Two parts are about the order of
the work in a stack: `ErrorDeferred`, an abort has set its error or will do so before it
gives back its own promise reference, so that the last promise never finds an
aborted transaction without a result; and `WorkInOrder`, execution comes after both
callbacks are unregistered.  `LastWeak` is the delicate case: the thread that deletes the
object finds the promise already given back.

### TransactionCommitProofs (assumes `CommitAssumption`: finite sets of threads and nodes)

* `TypeCorrect`, `NodesPreparedInOrder` (`PreparedInOrder`), `PromiseKept`
  (`ResolvedWhenFinished`), `FreedWhenUnused` (`NoUseAfterFree`);
* `PhasedCommitImplemented`: `Spec => ImplementsPhasedCommit`, in which every step is
  a step of `PhasedCommit` or a stutter.

The counters `nodes_pending_commit_` and `nodes_pending_abort_` are used for several
things in turn and wrap below zero, so no single equation about them is invariant.
`Mode` lists the situations that a commit goes through: visiting the nodes of a phase,
suspended at a node that is not prepared, waiting for nodes to be ready, calling
`Commit()`, waiting for nodes to be done, and the same for the abort.  Each fixes which
thread is inside and what the counters count.  `References` says that the weak
count is the number of live nodes plus what the threads inside hold, `PhaseOrder` that
committed nodes lie in earlier phases than all others.

### AsyncCacheProofs (assumes `AsyncCacheAssumption`: finitely many entries, ordered by address)

* `TypeCorrect`: `Spec => []TypeOK`; `nodes_pending_commit_` never wraps around.
* `CallbacksMadeOnce`: `Spec => []CallbacksOnce`.

`NodeInv` is about the nodes.  `CallbackInv`: the state of a node and the calls made
on it or still owed by some thread say the same, each call being owed once.
`ProgressInv`: each transaction has not been requested, or is at one node (the
nodes before it prepared, the nodes after it untouched, one thread owing the call
that continues), or has prepared all its nodes, with `pending` the number of nodes
that are not ready plus one while nodes are left.  `QueueInvs`: a queue holds exactly
the nodes of its entry between `PrepareForCommit` and the end of their writeback, each
once, those of the transaction whose turn it is first, and no others of the queue have
been told anything.  Steps are first described by what they do to the nodes
(`NodeStep`), so that each part of the invariant is proved for eight kinds of step.

On the reads:

* `NobodyForgotten`: `Spec => []NoLostWakeup`.
* `WritesInTurn`: `Spec => []WritebackInTurn`.
* `TimesNeverGoBack`: `Spec => ReadTimeMonotone`.
* `ReadsAreFresh`: `Spec => []ReadSatisfiesBound`, for reads answered with a read state.

`ReadInv` adds to `NodeInv` two parts.  `CalmInv`: while a read is issued no node of the
queue is ready, and the head of a queue is ready or a read is issued.  With
`ProgressInv` this gives that no read can be issued until the writeback of a ready node
has ended.  `TimeInv`: a read is issued exactly if `DoRead` is owed or its answer is
awaited, the issued and queued times are not before the time of the read state, and a
reader waits only for a read that will be recent enough.  So an answer, which is never
older than the read that was issued, never takes the read state back.  `FreshInv` adds
the readers that are about to be told that they succeeded.  The reads of
`async_cache_unread`, which a writeback completes without a read state, are not covered.

### OcdbtCommitProofs (assumes the assumptions of `OcdbtCommit`)

* `ManifestDataIsDurable` (`ManifestDataDurable`), `NothingForgotten`
  (`NoRequestForgotten`), `RequestsAppliedOnce` (`AppliedExactlyOnce`);
* `AnswersAreFinal`: once a request is answered the answer does not change.

The inductive invariant has the shapes of the store and of the requests, `HeldOnce`
(a request that waits is in the batch or among the pending requests of exactly one
writer), `CommitInv` (one that is held was not committed, unless its commit is being
answered, and then with the results of that commit) and `DataInv` (what a manifest
refers to is durable or still to be flushed, and all durable once the manifest may be
written).  The trees
and results that a commit computes are left arbitrary: the theorems do not depend on
the folds.  That is why `BatchesAreSequential`, which is about these folds, is only
model-checked.

### NumberedManifestProofs (assumes `ConstantsAssumption`)

* `TypeCorrect`: `Spec => []TypeOK`, with the auxiliary invariant `MineMade`.
* `NewestIsAlwaysLog`: `Spec => []NewestIsLog`.
* `VersionIsAlwaysFound`: `Spec => []VersionIsFound`.

`NewestIsLog` alone is not inductive: what a delayed write does depends on the
manifest it was made from, and what a delayed deletion does on the files that were
listed before it.  `LogInv` adds that every manifest a process holds is the log or
shorter (`Readable`), that a write in flight comes too late or would be the next
one (`Writable`), that a file known to be written is not newer than the log
(`WrittenIsOld`), and that a deletion in flight is of a generation below the
log's (`Deletable`).  The lemma `CreateStep` is the core: a file is created only if
its number is free, so a late write can only bring back an old number, and a write of
the next number extends the log it was made from.  `ValidateInv` adds what the
validation needs: a process that has seen its write succeed reads a manifest that is
long enough and still has the generation in its version tree.

The refinement:

* `ManifestLogImplemented`: `Spec => ImplementsManifestLog`, for finitely many
  processes, at most `Keep` of them.

The hypothesis was found by the proof and cannot be dropped (section 5).  A late write
may create a deleted number again; the version in that file is then not in the log,
and the commit must not be acknowledged.  What others make from that file has the
version too.  But they can read it only if they listed before the deletion, and each
of them is about to read one generation.  With at most `Keep` processes some kept
generation g is read by nobody: no manifest with the version gets longer than g
(`Fence`), while the commit validates against one that is longer.  The invariant
`Orphans` says that a version whose file was written is in the log or fenced.

### CachePoolInvariant, CachePoolProofs (assume `ConstantsAssumption`)

* `PoolInvariant`: `CalmSpec => []PoolInv`, the inductive invariant, with
  `PoolTypeOK` (`TypeOK`);
* `NoUseAfterFreeHolds`, `DestroyedOnceHolds`, `CountsMatchPointersHolds`,
  `OneCachePerIdentifierHolds`, `EvictionKeepsUpHolds`, `NothingLeaksHolds`: the six
  invariants of the run, each as `CalmSpec => []...`.

These are theorems about clients that keep to the three rules of `CalmSpec`
(section 2), not about `Spec`.  No rule can be dropped: `cache_pool_races` and
`cache_pool_release` show what happens without each.

The properties say what holds when nothing is under way, or of the step that a thread
takes next; the invariant says it of every operation in the middle.  Its parts:

* the pending steps of a thread are well formed (`TodoInv`); a thread in an operation
  holds a pointer that keeps alive what it uses, or has a step left that gives one
  back (`HeldInv`); who holds `lru_mutex_` is evicting, and only it has chosen
  entries (`LruInv`);
* each count is the number of pointers, of objects in use and of pending releases:
  `PoolCount`, `CacheCount`, `EntryCount`, `WeakCount`, with `WeakInv` for the weak
  state, which is locked while the last weak reference tells the entry;
* every destruction has one owner: an entry taken from its table, and a cache whose
  count is deletable, is among the things to delete of exactly one thread
  (`RemoveInv`, `KillInv`);
* tables, shards, eviction queue and size agree with the objects (`ObjectInv`,
  `TableInv`, `ShardInv`, `QueueInv`, `SizeInv`; `NoQueue` for a pool without LRU
  caches, `InitInv` for entries that are being created).  The queue and the total size
  leave out the entries of a cache that is being freed, which `DestroyCache` has taken
  out of both.

An action is first described by its effect on the pending steps and on the object it
changes; lemmas about counting give the new value of each count.  That the fold
`TotalBytes` adds up the sizes, in whatever order it takes the entries, is proved by
choosing a smallest counterexample among the subsets of the entries, since the
induction theorems of the library cannot be used.

### KvsTransactionProofs (assumes `ConstantsAssumption`)

* `KvsInvariant`: `Spec => []KvsInv`, the inductive invariant of the counts, with
  `KvsTypeOK` (`TypeOK`);
* `ToldOnceHolds`, `PhaseDoneWhenEntriesAreHolds`, `DeletedAfterValidationHolds`: the
  three properties about the end of entries, ranges and phases, the last one an action
  property;
* `AssertionsAlwaysHold` (`AssertionsHold`).

All of them hold of every chain, `Disordered` or not.

`KvsInv` says where every chain and every range of the phase stands.  An entry belongs
to one chain (`IdsUnique`) and the ranges of a phase are disjoint (`RangesDisjoint`), so
that a chain is counted in one place.  A chain is idle exactly until the loop starts it
(`JobsOK`).  `left.n` is the number of entries, once it has been added, less the chains
and the ranges that are done (`LeftIs`), and the count of a range is the same for the
chains it supersedes (`RangeOK`): that is what makes the wrapping counters reach zero
once, after the last entry.  `FatesOK` ties what each source was told to the end of its
chain, of its range and of its phase; `OthersNotTold` and `Quiet` say that nothing else
was told or is under way.  The step that ends the last entry of a phase also leaves the
phase, so the parts are stated of a phase and of the values of the variables, and shown
of the phase that ends before it is left.

`AssertionsHold` needs a second invariant, `ResultsInv`.  Every result a source
holds or answers has a value if it carries a mutation (`ResultOK`), and a write that
was found not to apply has forgotten its `ifNoValue` (`SourceOK`): without that, a
missing value could be matched once more and turn an unspecified result into a
mutation.  The answers on the way up a chain keep this (`AscendOK`), for chains of any
length: `AnsweredExists` shows that the recursive function of `KvsWriteback` exists and
`AnsweredOK` what holds of its values, both by a smallest counterexample.  `SoFarOK` is
about the result put together so far: while entries remain to be asked it is
unconditional, and a superseded chain has no mutation in it.

### Only model-checked

Liveness (`EventuallyResolved`, `EventuallyFreed` and the other temporal properties
under fairness) is out of the prover's reach.  What the folds compute, compared with
the reference (`BatchesAreSequential`, `WritebackIsSequential`, `ReportsAreTrue`), has
no proof.

## 5. Observations

Behaviour met while modelling that no run of the present set shows; the models have
it or name the assumption that leaves it out.

* Numbered manifests: `ValidateNewNumberedManifest` (`io_handle_impl.cc:366`) trusts
  the file that was read after a list (`manifest_cache.cc:440-520`), and a deleted number
  may have been created again by a write that was delayed.  With more processes
  than `kNumNumberedManifestsToKeep` (128) stalled between the two, such files can
  form a branch as long as the manifests that are kept, and a commit on it is
  acknowledged though it is not in the log; with two files kept, four
  processes and nine versions do it.  The documentation states no such limit ("This
  method is safe for concurrent writes if the underlying key-value store supports
  atomic writes to a single key, conditioned on the key not already being present").
  `ManifestLogImplemented` shows that up to `Keep` processes are safe.
* `Future`: while `Force` runs its callbacks, `SetError` does not cancel the commit
  that the force callback is about to request (`util/future.cc:449`), so a commit can
  start after a write has failed.
* `CommitDone(next_phase)` can run `ExecuteAbort` without the weak reference that
  `transaction.cc:229-232` says the caller must hold.
* `MaybeStartReadOrWriteback` goes on with `next` after unlocking
  (`async_cache.cc:214`); the node may have been committed and unlinked meanwhile.
* For a node superseded by a `DeleteRange`, `KvsWritebackSuccess` passes `ReadState{}`,
  so that the entry is not marked as stale (`kvs_backed_cache.h:516`).
* kvstore transactions: `flags_.store(existing & kNonRetryable)` at 1153-1155 drops the
  flags that the new entry set in `KvsSetTarget`; a repeatable read of a key
  written in an earlier phase never matches at the commit.

## 6. Not modelled, and the plan

Next, in order:

1. Atomic transactions (`AtomicMultiPhaseMutation`) over the memory store, as a map
   that changes at once; `List`, `CopyRange`, layers and revocation.
2. Leases and forwarding of the distributed OCDBT writer, on top of `OcdbtCommit`.
3. `AsyncCache`: reads of transaction nodes with their commit blocks,
   `GetTransactionNodeImpl`, `Revoke`, `Abort`; `Batch` with the ownership of its
   entries.
4. Thread pool and admission queues; the file store's lock-file protocol.
5. Pure algorithms against a reference: range coalescing, masked writes.

Left out of the modelled components: the B-tree's nodes (splitting, joining, the
version tree, `CopySubtree`) and `WriteConfigManifest` of OCDBT; caches without a
pool; `combined_reference_count_` of futures and links between futures.

Theorems next: `WritebackIsSequential` for chains of any length.

Left out for good: network clients, codecs, JSON, Python bindings, index transforms
and the array drivers (conversions, arithmetic and I/O without shared protocol
state).  They are most of the repository's lines.
