----------------------------- MODULE CachePool -----------------------------
(***************************************************************************)
(* CachePool, Cache and CacheEntry (internal/cache/cache.cc, cache_impl.h): *)
(* the reference counts that decide when an entry is evicted and when an   *)
(* entry, a cache, a weak state or the pool is destroyed.                  *)
(*                                                                         *)
(* A thread is the sequence of the steps it still has to execute (`todo`). *)
(* A step is one atomic operation or one critical section; a call puts the *)
(* steps of the callee in front of those of the caller.  `caches_mutex_`,  *)
(* the shard mutexes and an entry's `mutex_` are never held from one step  *)
(* to the next; `lru_mutex_` and the mutex of a weak state are.            *)
(*                                                                         *)
(* The three components of CacheImpl::reference_count_ occupy disjoint bits *)
(* and are kept as three fields.  Objects are never allocated twice, so    *)
(* that a use of a destroyed object can be told.                           *)
(***************************************************************************)
EXTENDS Integers, Sequences, SequencesExt, FiniteSets, FiniteSetsExt

CONSTANTS
    Thread,         \* client threads
    MaxCache,       \* bound: cache objects created
    MaxEntry,       \* bound: entry objects created
    MaxWeakPtr,     \* bound: threads that hold a WeakPtr to the pool
    Ident,          \* non-empty cache identifiers
    IdentSets,      \* the sets of identifiers that the clients may use together
    Key,            \* entry keys
    ShardForKey,    \* [Key -> shard]
    Size,           \* what DoGetSizeInBytes may return after a change
    NewSize,        \* what it returns for a new entry
    Limits,         \* the values of total_bytes_limit; 0: no LRU cache
    BufferSize,     \* kBufferSize of MaybeEvictEntries
    Anonymous       \* the empty cache identifier

Cache == 1 .. MaxCache
Entry == 1 .. MaxEntry
None == 0

ASSUME ConstantsAssumption ==
    /\ MaxCache \in Nat /\ MaxEntry \in Nat /\ MaxWeakPtr \in Nat
    /\ Limits \subseteq Nat /\ BufferSize \in Nat \ {0} /\ {NewSize} \cup Size \subseteq Nat \ {0}
    /\ DOMAIN ShardForKey = Key
    /\ Anonymous \notin Ident /\ IdentSets \subseteq SUBSET (Ident \cup {Anonymous})
    /\ None \notin Thread /\ IsFiniteSet(Thread)

VARIABLES
    pool,       \* CachePoolImpl
    caches,     \* caches_
    cache,      \* [Cache -> CacheImpl]
    entry,      \* [Entry -> CacheEntryImpl]
    weak,       \* [Entry -> its CacheEntryWeakState]
    queue,      \* eviction_queue_
    lru,        \* holder of lru_mutex_
    victims,    \* [Thread -> entries_to_delete, with should_delete_cache_for_entry]
    todo,       \* [Thread -> steps left to execute]
    held        \* [Thread -> the smart pointers the client holds]

vars == << pool, caches, cache, entry, weak, queue, lru, victims, todo, held >>

HasLruCache == pool.limit # 0

State == {"new", "live", "dead"}

TypeOK ==
    /\ pool \in [live : BOOLEAN, strong : Nat, weak : Nat, total : Nat, limit : Limits,
                idents : IdentSets]
    /\ caches \subseteq Cache
    /\ cache \in [Cache -> [st : State, ident : Ident \cup {Anonymous},
                            strong : Nat, shards : Nat, bit : 0 .. 1]]
    /\ entry \in [Entry -> [st : State, cache : Cache \cup {None}, key : Key \cup {None},
                            listed : BOOLEAN, refs : Nat, bytes : Nat,
                            init : {"no", "running", "done"}]]
    /\ weak \in [Entry -> [st : State, n : Nat, entry : BOOLEAN, mutex : Thread \cup {None}]]
    /\ queue \in Seq(Entry) /\ lru \in Thread \cup {None}
    /\ held \in [Thread -> [strong : BOOLEAN, weak : BOOLEAN, cache : Cache \cup {None},
                            entry : Entry \cup {None}, weakentry : Entry \cup {None}]]

-----------------------------------------------------------------------------
(* Reference counts.                                                        *)

\* A slip: a cache is kept while it has entries, whatever the pool's references.
ShouldDeleteEmpty(c) == c.strong = 0 /\ c.shards = 0

\* ShouldDelete.
ShouldDelete(c) == c.strong = 0 /\ (c.shards = 0 \/ c.bit = 0)

\* A slip: whoever sees a deletable cache destroys it.
BecomesDeletableAgain(old, new) == ShouldDelete(new)

\* DecrementCacheReferenceCount::should_delete.
BecomesDeletable(old, new) == ~ShouldDelete(old) /\ ShouldDelete(new)

Listed(c) == {e \in Entry : entry[e].listed /\ entry[e].cache = c}

ShardOf(e) == {x \in Listed(entry[e].cache) :
                   ShardForKey[entry[x].key] = ShardForKey[entry[e].key]}

\* The cache of e after e was erased from its shard.
WithoutEntry(e) ==
    [cache[entry[e].cache] EXCEPT !.shards = IF ShardOf(e) = {e} THEN @ - 1 ELSE @]

Step(op, x) == [op |-> op, x |-> x]

\* DestroyCache: the table of the pool, then the entries, then the cache.
DestroyCache(c) == << Step("unlist", c), Step("pin", c), Step("free", c) >>

DestroyIf(cond, c) == IF cond THEN DestroyCache(c) ELSE << >>

Goto(t, steps) == todo' = [todo EXCEPT ![t] = steps \o Tail(@)]
Return(t) == Goto(t, << >>)

Idle(t) == todo[t] = << >>
Start(t, steps) == todo' = [todo EXCEPT ![t] = steps]

At(t, op) == todo[t] # << >> /\ Head(todo[t]).op = op
Arg(t) == Head(todo[t]).x

HasPool(t) == held[t].strong \/ held[t].weak

-----------------------------------------------------------------------------
(* MaybeEvictEntries, and what calls it with lru_mutex_ held.               *)

\* A slip: an entry that is still linked is linked again.
QueueTwice(e) == Append(queue, e)

\* UnlinkListNode of the entries of es: the queue without them.
Unlinked(es) ==
    FlattenSeq([i \in 1 .. Len(queue) |-> IF queue[i] \in es THEN << >> ELSE << queue[i] >>])

\* AddToEvictionQueue.
AddToEvictionQueue(e) == Append(Unlinked({e}), e)

\* destroy_entries, with lru_mutex_ released.
DestroyEntries(vs) ==
    FlattenSeq([i \in 1 .. Len(vs) |->
                   DestroyIf(vs[i].del, entry[vs[i].e].cache) \o << Step("delete", vs[i].e) >>])

\* The queue is empty or the limit is respected: the loop ends.
EvictDone(t) ==
    /\ At(t, "evict") /\ lru = t
    /\ pool.total <= pool.limit \/ queue = << >>
    /\ lru' = None
    /\ victims' = [victims EXCEPT ![t] = << >>]
    /\ Goto(t, DestroyEntries(victims[t]) \o << Step("relock", None) >>)
    /\ UNCHANGED << pool, caches, cache, entry, weak, queue, held >>

\* The entry at the front is in use: it only leaves the queue.
EvictSkip(t) ==
    /\ At(t, "evict") /\ lru = t
    /\ pool.total > pool.limit /\ queue # << >>
    /\ entry[Head(queue)].refs # 0
    /\ queue' = Tail(queue)
    /\ UNCHANGED << pool, caches, cache, entry, weak, lru, victims, todo, held >>

\* The test made with the shard's mutex held.
Evictable(e) == entry[e].refs = 0

EvictEntry(t) ==
    /\ At(t, "evict") /\ lru = t
    /\ pool.total > pool.limit /\ queue # << >>
    /\ LET e == Head(queue)
           c == entry[e].cache
           del == ShardOf(e) = {e} /\ BecomesDeletable(cache[c], WithoutEntry(e))
           vs == Append(victims[t], [e |-> e, del |-> del])
           full == Len(vs) = BufferSize
       IN /\ Evictable(e)
          /\ cache' = [cache EXCEPT ![c] = WithoutEntry(e)]
          /\ entry' = [entry EXCEPT ![e].listed = FALSE]
          /\ queue' = Tail(queue)
          /\ pool' = [pool EXCEPT !.total = @ - entry[e].bytes]
          /\ victims' = [victims EXCEPT ![t] = IF full THEN << >> ELSE vs]
          /\ lru' = IF full THEN None ELSE t
          /\ IF full THEN Goto(t, DestroyEntries(vs) \o << Step("lru", None), Step("evict", None) >>)
                     ELSE UNCHANGED todo
    /\ UNCHANGED << caches, weak, held >>

\* Locks lru_mutex_ to run MaybeEvictEntries.
LockLru(t) ==
    /\ At(t, "lru") /\ lru = None
    /\ lru' = t
    /\ Return(t)
    /\ UNCHANGED << pool, caches, cache, entry, weak, queue, victims, held >>

\* The end of destroy_entries: lru_mutex_ is locked again, and then released.
Relock(t) ==
    /\ At(t, "relock") /\ lru = None
    /\ Return(t)
    /\ UNCHANGED << pool, caches, cache, entry, weak, queue, lru, victims, held >>

\* UpdateTotalBytes(change): the steps that follow the addition.
EvictIf(change) ==
    IF change > 0 /\ pool.total + change > pool.limit
    THEN << Step("lru", None), Step("evict", None) >> ELSE << >>

-----------------------------------------------------------------------------
(* Destruction.                                                             *)

NoEntry == [st |-> "new", cache |-> None, key |-> None, listed |-> FALSE, refs |-> 0,
            bytes |-> 0, init |-> "no"]
NoCache == [st |-> "new", ident |-> Anonymous, strong |-> 0, shards |-> 0, bit |-> 0]
NoWeakState == [st |-> "new", n |-> 0, entry |-> FALSE, mutex |-> None]

\* What is left of an object that was deleted.
Deleted(object) == [object EXCEPT !.st = "dead"]

\* ~CacheEntry clears the weak state, and deletes it when no weak reference
\* remains.
WeakAfter(e) ==
    CASE weak[e].st # "live" -> weak[e]
      [] weak[e].st = "live" /\ weak[e].n > 0 -> [weak[e] EXCEPT !.entry = FALSE]
      [] weak[e].st = "live" /\ weak[e].n = 0 -> Deleted(NoWeakState)

\* delete entry, for an entry that is no longer in its cache.
DeleteEntry(t) ==
    /\ At(t, "delete")
    /\ LET e == Arg(t) IN
          /\ weak[e].mutex = None
          /\ entry' = [entry EXCEPT ![e] = Deleted(NoEntry)]
          /\ weak' = [weak EXCEPT ![e] = WeakAfter(e)]
    /\ Return(t)
    /\ UNCHANGED << pool, caches, cache, queue, lru, victims, held >>

\* DestroyCache, first part: the cache leaves the pool's table.
UnlistCache(t) ==
    /\ At(t, "unlist")
    /\ caches' = caches \ {Arg(t)}
    /\ Return(t)
    /\ UNCHANGED << pool, cache, entry, weak, queue, lru, victims, held >>

\* The sizes of the entries of es, which leave total_bytes_ one by one.
TotalBytes(es) == SumFunctionOnSet([e \in Entry |-> entry[e].bytes], es)

\* A slip: the entries that are about to be deleted are not pinned.
PinnedNever(refs) == refs

\* The reference taken on each entry while its shard is locked.
Pinned(refs) == refs + 2

\* DestroyCache, second part, with lru_mutex_ and the shard mutexes.
PinEntries(t) ==
    /\ At(t, "pin")
    /\ HasLruCache => lru = None
    /\ LET es == Listed(Arg(t)) IN
          /\ entry' = [e \in Entry |-> IF e \in es THEN [entry[e] EXCEPT !.refs = Pinned(@)]
                                       ELSE entry[e]]
          /\ queue' = Unlinked(es)
          /\ pool' = [pool EXCEPT !.total = @ - TotalBytes(es)]
    /\ Return(t)
    /\ UNCHANGED << caches, cache, weak, lru, victims, held >>

\* DestroyCache, last part: the entries are deleted without any lock, ...
FreeEntry(t) ==
    /\ At(t, "free")
    /\ \E e \in Listed(Arg(t)) :
          /\ weak[e].mutex = None
          /\ entry' = [entry EXCEPT ![e] = Deleted(NoEntry)]
          /\ weak' = [weak EXCEPT ![e] = WeakAfter(e)]
    /\ UNCHANGED << pool, caches, cache, queue, lru, victims, todo, held >>

\* ... and then the cache.
FreeCache(t) ==
    /\ At(t, "free")
    /\ Listed(Arg(t)) = {}
    /\ cache' = [cache EXCEPT ![Arg(t)] = Deleted(NoCache)]
    /\ Return(t)
    /\ UNCHANGED << pool, caches, entry, weak, queue, lru, victims, held >>

\* StrongPtrTraitsCache::decrement_impl.
DecrementCache(t) ==
    /\ At(t, "cachedec")
    /\ LET c == Arg(t)
           new == [cache[c] EXCEPT !.strong = @ - 1]
       IN /\ cache' = [cache EXCEPT ![c] = new]
          /\ Goto(t, DestroyIf(BecomesDeletable(cache[c], new), c)
                     \o (IF new.strong = 0 THEN << Step("poolweak", None) >> ELSE << >>))
    /\ UNCHANGED << pool, caches, entry, weak, queue, lru, victims, held >>

\* ReleaseWeakReference.
ReleaseWeakReference(t) ==
    /\ At(t, "poolweak")
    /\ pool' = [pool EXCEPT !.weak = @ - 1, !.live = pool.weak # 1]
    /\ Return(t)
    /\ UNCHANGED << caches, cache, entry, weak, queue, lru, victims, held >>

-----------------------------------------------------------------------------
(* StrongPtrTraitsCacheEntry::decrement_impl.  A count that may fall to the *)
(* threshold is only decreased with the mutex held.                         *)

\* A slip: the last strong reference may be released without the mutex.
LockThresholdLow == 0

\* lock_threshold of an entry's strong references: only a weak one is left.
LockThreshold == 1

DecrementEntry(t) ==
    /\ Idle(t) /\ held[t].entry # None
    /\ LET e == held[t].entry IN
          IF entry[e].refs > LockThreshold + 2
          THEN /\ entry' = [entry EXCEPT ![e].refs = @ - 2]
               /\ UNCHANGED todo
          ELSE /\ Start(t, << Step("entrylock", e) >>)
               /\ UNCHANGED entry
    /\ held' = [held EXCEPT ![t].entry = None]
    /\ UNCHANGED << pool, caches, cache, weak, queue, lru, victims >>

\* With lru_mutex_: an unreferenced entry is put at the end of the queue.
DecrementEntryLru(t) ==
    /\ HasLruCache /\ At(t, "entrylock") /\ lru = None
    /\ LET e == Arg(t)
           new == entry[e].refs - 2
       IN /\ entry' = [entry EXCEPT ![e].refs = new]
          /\ IF new = 0
             THEN lru' = t /\ queue' = AddToEvictionQueue(e)
             ELSE UNCHANGED << lru, queue >>
          /\ Goto(t, (IF new = 0 THEN << Step("evict", None) >> ELSE << >>)
                     \o (IF new <= LockThreshold THEN << Step("cachedec", entry[e].cache) >>
                         ELSE << >>))
    /\ UNCHANGED << pool, caches, cache, weak, victims, held >>

\* Without an LRU cache, with the shard's mutex: it is destroyed.
DecrementEntryShard(t) ==
    /\ ~HasLruCache /\ At(t, "entrylock")
    /\ LET e == Arg(t)
           c == entry[e].cache
           new == entry[e].refs - 2
       IN /\ entry' = [entry EXCEPT ![e].refs = new, ![e].listed = @ /\ new # 0]
          /\ cache' = IF new = 0 THEN [cache EXCEPT ![c] = WithoutEntry(e)] ELSE cache
          /\ Goto(t, (IF new = 0 THEN << Step("delete", e) >> ELSE << >>)
                     \o (IF new <= LockThreshold THEN << Step("cachedec", c) >> ELSE << >>))
    /\ UNCHANGED << pool, caches, weak, queue, lru, victims, held >>

-----------------------------------------------------------------------------
(* Weak references to entries: AcquireWeakCacheEntryReference, and          *)
(* intrusive_ptr_decrement of a CacheEntryWeakState.                        *)

\* The weak count becomes positive before the entry's count says so.
AcquireWeakEntry(t) ==
    /\ Idle(t) /\ held[t].entry # None /\ held[t].weakentry = None
    /\ LET e == held[t].entry IN
          /\ weak' = [weak EXCEPT ![e].n = @ + 1, ![e].st = "live", ![e].entry = TRUE]
          /\ held' = [held EXCEPT ![t].weakentry = e]
          /\ Start(t, IF weak[e].n = 0 THEN << Step("weakmark", e) >> ELSE << >>)
    /\ UNCHANGED << pool, caches, cache, entry, queue, lru, victims >>

MarkWeakEntry(t) ==
    /\ At(t, "weakmark")
    /\ entry' = [entry EXCEPT ![Arg(t)].refs = @ + 1]
    /\ Return(t)
    /\ UNCHANGED << pool, caches, cache, weak, queue, lru, victims, held >>

DecrementWeak(t) ==
    /\ Idle(t) /\ held[t].weakentry # None
    /\ LET e == held[t].weakentry IN
          IF weak[e].n > 1
          THEN /\ weak' = [weak EXCEPT ![e].n = @ - 1]
               /\ UNCHANGED todo
          ELSE /\ Start(t, << Step("weaklock", e) >>)
               /\ UNCHANGED weak
    /\ held' = [held EXCEPT ![t].weakentry = None]
    /\ UNCHANGED << pool, caches, cache, entry, queue, lru, victims >>

\* The last weak reference: the weak state is deleted if its entry is gone,
\* and stays locked otherwise.
DecrementWeakLocked(t) ==
    /\ At(t, "weaklock")
    /\ LET e == Arg(t)
           last == weak[e].n = 1
       IN /\ weak[e].mutex = None
          /\ weak' = [weak EXCEPT ![e] =
                         IF last /\ ~weak[e].entry THEN Deleted(NoWeakState)
                         ELSE [weak[e] EXCEPT !.n = @ - 1, !.mutex = IF last THEN t ELSE None]]
          /\ Goto(t, IF last /\ weak[e].entry THEN << Step("unmark", e) >> ELSE << >>)
    /\ UNCHANGED << pool, caches, cache, entry, queue, lru, victims, held >>

\* The entry's count loses the weak reference; nothing else is needed while
\* strong references remain.
UnmarkEntry(t) ==
    /\ At(t, "unmark")
    /\ LET e == Arg(t) IN
          IF entry[e].refs > 1
          THEN /\ entry' = [entry EXCEPT ![e].refs = @ - 1]
               /\ weak' = [weak EXCEPT ![e].mutex = None]
               /\ Return(t)
          ELSE /\ Goto(t, << Step("unmarklock", e) >>)
               /\ UNCHANGED << entry, weak >>
    /\ UNCHANGED << pool, caches, cache, queue, lru, victims, held >>

UnmarkEntryLru(t) ==
    /\ HasLruCache /\ At(t, "unmarklock") /\ lru = None
    /\ LET e == Arg(t)
           new == entry[e].refs - 1
       IN /\ entry' = [entry EXCEPT ![e].refs = new]
          /\ weak' = [weak EXCEPT ![e].mutex = None]
          /\ IF new = 0
             THEN lru' = t /\ queue' = AddToEvictionQueue(e)
             ELSE UNCHANGED << lru, queue >>
          /\ Goto(t, IF new = 0 THEN << Step("evict", None) >> ELSE << >>)
    /\ UNCHANGED << pool, caches, cache, victims, held >>

UnmarkEntryShard(t) ==
    /\ ~HasLruCache /\ At(t, "unmarklock")
    /\ LET e == Arg(t)
           c == entry[e].cache
           new == entry[e].refs - 1
           del == ShardOf(e) = {e} /\ BecomesDeletable(cache[c], WithoutEntry(e))
       IN /\ entry' = [entry EXCEPT ![e].refs = new, ![e].listed = @ /\ new # 0]
          /\ weak' = [weak EXCEPT ![e].mutex = None]
          /\ cache' = IF new = 0 THEN [cache EXCEPT ![c] = WithoutEntry(e)] ELSE cache
          /\ Goto(t, IF new = 0 THEN << Step("delete", e) >> \o DestroyIf(del, c) ELSE << >>)
    /\ UNCHANGED << pool, caches, queue, lru, victims, held >>

-----------------------------------------------------------------------------
(* Strong references to the pool.                                           *)

DecrementPool(t) ==
    /\ Idle(t) /\ held[t].strong
    /\ IF pool.strong > 1
       THEN /\ pool' = [pool EXCEPT !.strong = @ - 1]
            /\ UNCHANGED todo
       ELSE /\ Start(t, << Step("poolzero", None) >>)
            /\ UNCHANGED pool
    /\ held' = [held EXCEPT ![t].strong = FALSE]
    /\ UNCHANGED << caches, cache, entry, weak, queue, lru, victims >>

\* The pool's component of a cache's reference count.
WithBit(c, bit) == [c EXCEPT !.bit = bit]

\* With caches_mutex_: every listed cache loses the pool's reference, and the
\* caches that this makes deletable are destroyed once the mutex is released.
DecrementPoolLocked(t) ==
    /\ At(t, "poolzero")
    /\ pool' = [pool EXCEPT !.strong = @ - 1]
    /\ IF pool.strong # 1
       THEN Return(t) /\ UNCHANGED cache
       ELSE LET doomed == {c \in caches : BecomesDeletable(cache[c], WithBit(cache[c], 0))}
            IN /\ cache' = [c \in Cache |-> IF c \in caches THEN WithBit(cache[c], 0)
                                            ELSE cache[c]]
               /\ Goto(t, FlattenSeq([i \in 1 .. Cardinality(doomed) |->
                                         DestroyCache(SetToSeq(doomed)[i])])
                          \o << Step("poolweak", None) >>)
    /\ UNCHANGED << caches, entry, weak, queue, lru, victims, held >>

\* StrongPtr(WeakPtr), with caches_mutex_.
RevivePool(t) ==
    /\ Idle(t) /\ held[t].weak /\ ~held[t].strong
    /\ pool' = [pool EXCEPT !.strong = @ + 1, !.weak = IF pool.strong = 0 THEN @ + 1 ELSE @]
    /\ cache' = [c \in Cache |-> IF c \in caches /\ pool.strong = 0 THEN WithBit(cache[c], 1)
                                 ELSE cache[c]]
    /\ held' = [held EXCEPT ![t].strong = TRUE]
    /\ UNCHANGED << caches, entry, weak, queue, lru, victims, todo >>

-----------------------------------------------------------------------------
(* GetCacheInternal.                                                        *)

InTable(i) == {c \in caches : cache[c].ident = i}

\* A slip: a cache that is about to be destroyed is handed out.
TryAcquireAny(c) == TRUE

\* TryToAcquireCacheStrongReference.
TryToAcquireCacheStrongReference(c) == ~ShouldDelete(cache[c])

\* The strong reference, and the pool's weak reference that the first one takes.
AcquireCache(t, c) ==
    /\ cache' = [cache EXCEPT ![c].strong = @ + 1]
    /\ pool' = [pool EXCEPT !.weak = IF cache[c].strong = 0 THEN @ + 1 ELSE @]
    /\ held' = [held EXCEPT ![t].cache = c]

FreshCaches == {c \in Cache : cache[c].st = "new"}
FreshEntries == {e \in Entry : entry[e].st = "new"}

\* A thread may create a cache: the bound leaves one for it.
RoomForCache == Cardinality(FreshCaches) > Cardinality({t \in Thread : At(t, "insert")})

\* The first lookup, with caches_mutex_.
FindCache(t, i) ==
    /\ Idle(t) /\ HasPool(t) /\ held[t].cache = None
    /\ \/ \E c \in InTable(i) :
             /\ TryToAcquireCacheStrongReference(c)
             /\ AcquireCache(t, c)
             /\ UNCHANGED << caches, todo >>
       \/ /\ \A c \in InTable(i) : ~TryToAcquireCacheStrongReference(c)
          /\ RoomForCache
          /\ caches' = caches \ InTable(i)
          /\ Start(t, << Step("insert", i) >>)
          /\ UNCHANGED << pool, cache, held >>
    /\ UNCHANGED << entry, weak, queue, lru, victims >>

NewCache(i, bit) == [st |-> "live", ident |-> i, strong |-> 1, shards |-> 0, bit |-> bit]

\* make_cache returned null: there is no cache.
MakeCacheFails(t) ==
    /\ At(t, "insert")
    /\ Return(t)
    /\ UNCHANGED << pool, caches, cache, entry, weak, queue, lru, victims, held >>

\* The new cache is inserted, unless another thread inserted one meanwhile
\* that can still be acquired.
InsertCache(t) ==
    /\ At(t, "insert")
    /\ \/ \E c \in InTable(Arg(t)) :
             /\ TryToAcquireCacheStrongReference(c)
             /\ AcquireCache(t, c)
             /\ UNCHANGED caches
       \/ /\ \A c \in InTable(Arg(t)) : ~TryToAcquireCacheStrongReference(c)
          /\ LET c == Min(FreshCaches) IN
                /\ caches' = (caches \ InTable(Arg(t))) \cup {c}
                /\ cache' = [cache EXCEPT ![c] =
                                NewCache(Arg(t), IF pool.strong # 0 THEN 1 ELSE 0)]
                /\ held' = [held EXCEPT ![t].cache = c]
          /\ pool' = [pool EXCEPT !.weak = @ + 1]
    /\ Return(t)
    /\ UNCHANGED << entry, weak, queue, lru, victims >>

\* A cache with an empty identifier is never shared nor listed.
MakeAnonymousCache(t) ==
    /\ Idle(t) /\ HasPool(t) /\ held[t].cache = None /\ RoomForCache
    /\ Anonymous \in pool.idents
    /\ LET c == Min(FreshCaches) IN
          /\ cache' = [cache EXCEPT ![c] = NewCache(Anonymous, 0)]
          /\ held' = [held EXCEPT ![t].cache = c]
    /\ pool' = [pool EXCEPT !.weak = @ + 1]
    /\ UNCHANGED << caches, entry, weak, queue, lru, victims, todo >>

-----------------------------------------------------------------------------
(* GetCacheEntryInternal, and CacheEntry::unlock after a size change.       *)

\* With the shard's mutex: the entry found, and the cache reference that its
\* first strong reference takes, or a new entry.
GetEntry(t, k) ==
    /\ Idle(t) /\ held[t].cache # None /\ held[t].entry = None
    /\ LET c == held[t].cache
           hit == {e \in Listed(c) : entry[e].key = k}
           e == IF hit # {} THEN Min(hit) ELSE Min(FreshEntries)
           same == {x \in Listed(c) : ShardForKey[entry[x].key] = ShardForKey[k]}
       IN /\ hit # {} \/ FreshEntries # {}
          /\ IF hit # {}
             THEN /\ entry' = [entry EXCEPT ![e].refs = @ + 2]
                  /\ cache' = [cache EXCEPT ![c].strong = IF entry[e].refs <= 1 THEN @ + 1 ELSE @]
             ELSE /\ entry' = [entry EXCEPT ![e] =
                                  [st |-> "live", cache |-> c, key |-> k, listed |-> TRUE,
                                   refs |-> 2, bytes |-> 0, init |-> "no"]]
                  /\ cache' = [cache EXCEPT ![c].strong = @ + 1,
                                            ![c].shards = IF same = {} THEN @ + 1 ELSE @]
          /\ held' = [held EXCEPT ![t].entry = e]
          /\ Start(t, << Step("init", e) >>)
    /\ UNCHANGED << pool, caches, weak, queue, lru, victims >>

\* call_once(initialized_): the first caller initializes, and the others wait
\* until it has done so, evictions included.
InitEntry(t) ==
    /\ At(t, "init")
    /\ entry[Arg(t)].init = "no"
    /\ LET n == IF HasLruCache THEN NewSize ELSE 0
           evict == EvictIf(n)
       IN /\ entry' = [entry EXCEPT ![Arg(t)].bytes = n,
                                    ![Arg(t)].init = IF evict = << >> THEN "done" ELSE "running"]
          /\ pool' = [pool EXCEPT !.total = @ + n]
          /\ Goto(t, evict \o (IF evict = << >> THEN << >> ELSE << Step("initdone", Arg(t)) >>))
    /\ UNCHANGED << caches, cache, weak, queue, lru, victims, held >>

EntryInitialized(t) ==
    /\ At(t, "initdone")
    /\ entry' = [entry EXCEPT ![Arg(t)].init = "done"]
    /\ Return(t)
    /\ UNCHANGED << pool, caches, cache, weak, queue, lru, victims, held >>

AwaitInit(t) ==
    /\ At(t, "init")
    /\ entry[Arg(t)].init = "done"
    /\ Return(t)
    /\ UNCHANGED << pool, caches, cache, entry, weak, queue, lru, victims, held >>

\* CacheEntry::unlock after NotifySizeChanged.
Resize(t, n) ==
    /\ Idle(t) /\ HasLruCache /\ held[t].entry # None
    /\ LET e == held[t].entry
           change == n - entry[e].bytes
       IN /\ entry' = [entry EXCEPT ![e].bytes = n]
          /\ pool' = [pool EXCEPT !.total = @ + change]
          /\ Start(t, EvictIf(change))
    /\ UNCHANGED << caches, cache, weak, queue, lru, victims, held >>

-----------------------------------------------------------------------------
(* The clients: each thread holds at most one pointer of each kind, and     *)
(* starts an operation when it has none under way.                          *)

\* A WeakPtr made from the thread's StrongPtr, or a copy of the StrongPtr of
\* another thread.
CopyPool(t) ==
    /\ Idle(t)
    /\ \/ /\ held[t].strong /\ ~held[t].weak
          /\ Cardinality({u \in Thread : held[u].weak}) < MaxWeakPtr
          /\ pool' = [pool EXCEPT !.weak = @ + 1]
          /\ held' = [held EXCEPT ![t].weak = TRUE]
       \/ /\ ~HasPool(t)
          /\ \E u \in Thread : held[u].strong
          /\ pool' = [pool EXCEPT !.strong = @ + 1]
          /\ held' = [held EXCEPT ![t].strong = TRUE]
    /\ UNCHANGED << caches, cache, entry, weak, queue, lru, victims, todo >>

\* The destructors of a CachePtr and of a WeakPtr.
Release(t) ==
    /\ Idle(t)
    /\ \/ /\ held[t].weak
          /\ Start(t, << Step("poolweak", None) >>)
          /\ held' = [held EXCEPT ![t].weak = FALSE]
       \/ /\ held[t].cache # None
          /\ Start(t, << Step("cachedec", held[t].cache) >>)
          /\ held' = [held EXCEPT ![t].cache = None]
    /\ UNCHANGED << pool, caches, cache, entry, weak, queue, lru, victims >>

NoPointers == [strong |-> FALSE, weak |-> FALSE, cache |-> None, entry |-> None,
               weakentry |-> None]

\* CachePool::Make: the caller has the only strong reference.
Init ==
    /\ \E n \in Limits, ids \in IdentSets :
          pool = [live |-> TRUE, strong |-> 1, weak |-> 1, total |-> 0, limit |-> n,
                  idents |-> ids]
    /\ caches = {}
    /\ cache = [c \in Cache |-> NoCache]
    /\ entry = [e \in Entry |-> NoEntry]
    /\ weak = [e \in Entry |-> NoWeakState]
    /\ queue = << >> /\ lru = None
    /\ victims = [t \in Thread |-> << >>]
    /\ todo = [t \in Thread |-> << >>]
    /\ \E t \in Thread : held = [[u \in Thread |-> NoPointers] EXCEPT ![t].strong = TRUE]

Execute(t) ==
    \/ EvictDone(t) \/ EvictSkip(t) \/ EvictEntry(t) \/ LockLru(t) \/ Relock(t)
    \/ DeleteEntry(t) \/ UnlistCache(t) \/ PinEntries(t) \/ FreeEntry(t) \/ FreeCache(t)
    \/ DecrementCache(t) \/ ReleaseWeakReference(t)
    \/ DecrementEntryLru(t) \/ DecrementEntryShard(t)
    \/ MarkWeakEntry(t) \/ DecrementWeakLocked(t)
    \/ UnmarkEntry(t) \/ UnmarkEntryLru(t) \/ UnmarkEntryShard(t)
    \/ DecrementPoolLocked(t)
    \/ MakeCacheFails(t) \/ InsertCache(t) \/ InitEntry(t) \/ EntryInitialized(t) \/ AwaitInit(t)

\* Calls that need no care.
Plain(t) ==
    \/ CopyPool(t)
    \/ (\E i \in pool.idents \ {Anonymous} : FindCache(t, i)) \/ MakeAnonymousCache(t)
    \/ (\E k \in Key : GetEntry(t, k)) \/ (\E n \in Size : Resize(t, n))
    \/ DecrementEntry(t) \/ DecrementPool(t) \/ Release(t)

Request(t) == Plain(t) \/ RevivePool(t) \/ AcquireWeakEntry(t) \/ DecrementWeak(t)

\* Nothing is under way: the clients may stop here.
Rest == (\A t \in Thread : Idle(t)) /\ UNCHANGED vars

Next == (\E t \in Thread : Execute(t) \/ Request(t)) \/ Rest

Spec == Init /\ [][Next]_vars

-----------------------------------------------------------------------------
(* Calm clients.  The properties below fail for Spec in three ways, which   *)
(* the runs cache_pool_races and cache_pool_release show.  They hold for    *)
(* clients that keep to three rules, which no line of cache.cc enforces and *)
(* no comment of cache.h asks for.                                          *)

Destroying == {c \in Cache : \E t \in Thread : Step("free", c) \in ToSet(todo[t])}

\* No StrongPtr is made from a WeakPtr while a cache is being destroyed.
CalmRevival(t) == Destroying = {} /\ RevivePool(t)

\* No weak reference to an entry is acquired while the last one is being released.
CalmWeak(t) ==
    /\ held[t].entry # None => weak[held[t].entry].mutex = None
    /\ AcquireWeakEntry(t)

\* A weak reference to an entry is only released by a thread that also holds the
\* pool, a cache or an entry.
PinnedRelease(t) ==
    /\ HasPool(t) \/ held[t].cache # None \/ held[t].entry # None
    /\ DecrementWeak(t)

CalmRequest(t) == Plain(t) \/ CalmRevival(t) \/ CalmWeak(t) \/ PinnedRelease(t)

CalmNext == (\E t \in Thread : Execute(t) \/ CalmRequest(t)) \/ Rest

CalmSpec == Init /\ [][CalmNext]_vars

-----------------------------------------------------------------------------
(* Properties.                                                              *)

\* The objects that executing a step reads or writes.
UsesPool(t) ==
    Head(todo[t]).op \notin {"delete", "free", "cachedec", "weakmark", "weaklock"}

CachesUsed(t) ==
    CASE Head(todo[t]).op \in {"unlist", "pin", "free", "cachedec"} -> {Arg(t)}
      [] Head(todo[t]).op \in {"entrylock", "unmark", "unmarklock", "init", "initdone"} ->
            {entry[Arg(t)].cache}
      [] Head(todo[t]).op = "evict" -> {entry[e].cache : e \in ToSet(queue)}
      [] OTHER -> {}

EntriesUsed(t) ==
    CASE Head(todo[t]).op \in {"entrylock", "unmark", "unmarklock", "delete", "init",
                               "initdone", "weakmark"} -> {Arg(t)}
      [] Head(todo[t]).op = "pin" -> Listed(Arg(t))
      [] Head(todo[t]).op = "evict" -> ToSet(queue)
      [] OTHER -> {}

\* No thread is about to use an object that another one has destroyed, and
\* every pointer that a client holds is valid: the counts of the pool, of the
\* caches and of the entries, and the locks under which they may reach zero,
\* keep each object alive for whoever still has to use it.  For calm clients
\* only: a weak reference to an entry does not keep the pool alive, so that its
\* release by a thread that holds nothing else uses a pool that may be gone
\* (cache.cc:672-673, 688-690; the run cache_pool_release).
NoUseAfterFree ==
    /\ \A t \in Thread : todo[t] # << >> =>
          /\ UsesPool(t) => pool.live
          /\ \A e \in EntriesUsed(t) : entry[e].st = "live"
          /\ \A c \in CachesUsed(t) : cache[c].st = "live"
          /\ Head(todo[t]).op \in {"weaklock", "unmark", "unmarklock"} =>
                weak[Arg(t)].st = "live"
    /\ \A t \in Thread :
          /\ HasPool(t) => pool.live
          /\ held[t].cache # None => cache[held[t].cache].st = "live" /\ pool.live
          /\ held[t].entry # None => entry[held[t].entry].st = "live"
          /\ held[t].weakentry # None => weak[held[t].weakentry].st = "live"

\* Every cache and every entry has at most one destroyer: DestroyCache is
\* started once for a cache, and an entry is deleted by whoever evicts it, by
\* whoever releases it, or with its cache, but by one of them only.  For calm
\* clients only: a pool revived through a WeakPtr makes a cache that is being
\* destroyed deletable again (cache.cc:809; the run cache_pool_races).
DestroyedOnce ==
    LET Jobs(op, x) == UNION {{<< t, i >> : i \in {j \in DOMAIN todo[t] : todo[t][j] = Step(op, x)}}
                              : t \in Thread}
        Chosen(e) == {t \in Thread : \E i \in DOMAIN victims[t] : victims[t][i].e = e}
    IN /\ \A c \in Cache \ FreshCaches :
             Cardinality(Jobs("free", c)) <= IF cache[c].st = "live" THEN 1 ELSE 0
       /\ \A e \in Entry \ FreshEntries :
             Cardinality(Jobs("delete", e)) + Cardinality(Chosen(e))
                 <= IF entry[e].st = "live" /\ ~entry[e].listed THEN 1 ELSE 0

StrongEntries(c) ==
    {e \in Entry : entry[e].cache = c /\ \E t \in Thread : held[t].entry = e}

\* When no operation is under way, the counts are what the comments of
\* cache_impl.h say: a cache's count is made of its pointers, one for each
\* entry with a strong reference, its non-empty shards and, for a cache of the
\* table, the pool's strong references; an entry counts its pointers twice and
\* its weak references once; the pool's weak count is made of its weak
\* pointers, one for its strong ones and one for each cache in use.  For calm
\* clients only: a weak reference taken while the last one is released leaves a
\* cache with a strong reference too many (cache.cc:620-727; cache_pool_races).
CountsMatchPointers ==
    (\A t \in Thread : Idle(t)) =>
        /\ \A c \in Cache : cache[c].st = "live" =>
              /\ cache[c].strong = Cardinality({t \in Thread : held[t].cache = c})
                                   + Cardinality(StrongEntries(c))
              /\ cache[c].shards = Cardinality({ShardForKey[entry[e].key] : e \in Listed(c)})
              /\ cache[c].bit = IF c \in caches /\ pool.strong > 0 THEN 1 ELSE 0
        /\ \A e \in Entry : entry[e].st = "live" =>
              entry[e].refs = 2 * Cardinality({t \in Thread : held[t].entry = e})
                              + IF \E t \in Thread : held[t].weakentry = e THEN 1 ELSE 0
        /\ pool.strong = Cardinality({t \in Thread : held[t].strong})
        /\ pool.weak = Cardinality({t \in Thread : held[t].weak})
                       + (IF pool.strong > 0 THEN 1 ELSE 0)
                       + Cardinality({c \in Cache : cache[c].st = "live" /\ cache[c].strong > 0})

\* "Requesting a cache ... with the same identifier from the same cache pool
\* while this cache is still alive will return a pointer to this same cache":
\* the pointers that clients hold to caches of one identifier are all to one
\* object, although lookups, creations and destructions interleave, with calm
\* clients.
OneCachePerIdentifier ==
    \A c, d \in Cache : cache[c].st = "live" /\ cache[d].st = "live"
                        /\ cache[c].ident = cache[d].ident /\ cache[c].ident # Anonymous
                        /\ ~ShouldDelete(cache[c]) /\ ~ShouldDelete(cache[d]) => c = d

\* An unreferenced entry of an LRU cache is in the eviction queue, so that it
\* can be evicted, and when nothing is under way the limit is respected
\* unless every entry is referenced; total_bytes_ is then exactly the size of
\* the entries.  For calm clients.
EvictionKeepsUp ==
    HasLruCache /\ pool.live =>
        /\ \A e \in Entry : entry[e].listed /\ entry[e].refs = 0 => e \in ToSet(queue)
        /\ (\A t \in Thread : Idle(t)) =>
              /\ pool.total = TotalBytes({e \in Entry : entry[e].listed})
              /\ pool.total <= pool.limit \/ \A e \in Entry : entry[e].listed => entry[e].refs > 0

\* Once every pointer has been released, everything has been destroyed: the
\* entries, their weak states, the caches and the pool.  For calm clients only:
\* with the count of CountsMatchPointers one too high, the cache stays
\* (cache.cc:620-727; the run cache_pool_races).
NothingLeaks ==
    (\A t \in Thread : Idle(t) /\ held[t] = NoPointers) =>
        /\ ~pool.live
        /\ \A c \in Cache : cache[c].st # "live"
        /\ \A e \in Entry : entry[e].st # "live" /\ weak[e].st # "live"

=============================================================================
