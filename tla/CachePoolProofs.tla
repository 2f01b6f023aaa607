-------------------------- MODULE CachePoolProofs ---------------------------
(***************************************************************************)
(* The remaining actions of CachePool keep the invariant, those that move  *)
(* a reference to a cache or to the pool and those that find or create a   *)
(* cache or an entry; the initial states satisfy it, and it implies the     *)
(* properties of the module: for every number of threads, caches, entries   *)
(* and shards and every limit, provided that the clients keep to the three  *)
(* rules of CalmSpec.  Without a rule the invariant fails: the runs          *)
(* cache_pool_races and cache_pool_release show how.                        *)
(***************************************************************************)
EXTENDS CachePoolInvariant

-----------------------------------------------------------------------------
(* References to the pool and to caches.                                   *)

\* A strong reference to the pool is released, and another one remains.
LEMMA PoolUserLeavesKeeps ==
  ASSUME IInv, NEW t \in Thread, NEW o, NEW x, Moves(t),
         Alone(todo[t], o, x), Alone(todo'[t], "none", None), held' \in [Thread -> HeldRec],
         ~held'[t].strong, held'[t].weak = held[t].weak,
         held'[t].cache = held[t].cache, held'[t].entry = held[t].entry, held'[t].weakentry = held[t].weakentry,
         (held[t].strong /\ o = "none") \/ (~held[t].strong /\ o = "poolzero" /\ x = None),
         pool.strong # 1, pool' = [pool EXCEPT !.strong = pool.strong - 1],
         UNCHANGED << caches, cache, entry, weak, queue, lru, victims >>
  PROVE  IInv'
<1>d. UNCHANGED << caches, cache, entry, weak, queue, lru, victims >> OBVIOUS
<1>m. Moves(t) OBVIOUS
<1>e. Alone(todo[t], o, x) /\ Alone(todo'[t], "none", None) /\ OnlyTodo(t) BY DEF Moves
<1>a. /\ Cardinality(PoolUsers') = pool.strong - 1 /\ pool.strong > 1 /\ pool.strong \in Nat
  <2>1. t \in PoolUsers /\ t \notin PoolUsers' BY <1>e, StepEq DEF PoolUsers, Ends, Alone
  <2>2. Cardinality(PoolUsers) \in Nat /\ Cardinality(PoolUsers) # 0 /\ Cardinality(PoolUsers) = pool.strong
    BY Parts, <2>1, Counts DEF PoolCount
  <2>3. Cardinality(PoolUsers') = Cardinality(PoolUsers) + One(t \in PoolUsers') - One(t \in PoolUsers)
    BY <1>m, CountsAt
  <2>. QED BY <2>1, <2>2, <2>3 DEF One
<1>p. /\ pool' \in PoolRec /\ pool'.strong = pool.strong - 1 /\ pool'.weak = pool.weak /\ pool'.live = pool.live
      /\ pool'.total = pool.total /\ pool'.limit = pool.limit
  <2>1. pool.strong - 1 \in Nat BY <1>a
  <2>. QED BY Parts, <2>1, PoolIs
<1>k. EntriesKept /\ ListedKept /\ CachesKept /\ VictimsKept /\ UsedCaches' = UsedCaches
  BY Parts, <1>d, EntrySame, CacheSame, VictimsUnmoved
<1>q. TodoInv' /\ LruInv' /\ \A c : IsPinned(c)' <=> IsPinned(c)
  BY <1>d, <1>e, <1>m, <1>k, QuietStep DEF VictimsKept
<1>s. /\ PoolWeakPtrs' = PoolWeakPtrs
      /\ PoolWeakReleases' = PoolWeakReleases
      /\ Inserting' = Inserting
      /\ (\A c : CachePtrs(c)' = CachePtrs(c))
      /\ (\A c : CacheReleases(c)' = CacheReleases(c))
      /\ (\A e : Users(e)' = Users(e))
      /\ (\A e : WeakUsers(e)' = WeakUsers(e))
      /\ (\A u \in Thread : \A e : Unmarks(u, e)' <=> Unmarks(u, e))
      /\ (\A u \in Thread : \A e : Marks(u, e)' <=> Marks(u, e))
  BY <1>e, <1>m, <1>d, SameSets DEF NeverEnds, Alone
<1>u. \A c : UsedEntries(c)' = UsedEntries(c) BY <1>s, <1>d, UsedKept
<1>v. \A e \in Entry : Marked(e)' <=> Marked(e) BY <1>s, <1>d, MarkedKept
<1>1. HeldInv' BY Parts, <1>d, <1>e, <1>m, HeldOver DEF Alone
<1>2. PoolCount'
  <2>1. /\ pool.strong = Cardinality(PoolUsers) /\ (pool.live <=> pool.weak > 0)
        /\ pool.weak = Cardinality(PoolWeakPtrs) + Cardinality(PoolWeakReleases)
                       + One(pool.strong > 0) + Cardinality(UsedCaches)
    BY Parts DEF PoolCount
  <2>2. /\ Cardinality(PoolUsers) \in Nat /\ Cardinality(PoolWeakPtrs) \in Nat
        /\ Cardinality(PoolWeakReleases) \in Nat /\ Cardinality(UsedCaches) \in Nat
    BY Counts
  <2>3. One(pool.strong > 0) = 1 /\ One(pool'.strong > 0) = 1 BY <1>a, <1>p DEF One
  <2>. QED BY <1>a, <1>p, <1>k, <1>s, <2>1, <2>2, <2>3 DEF PoolCount
<1>3. CacheCount' BY Parts, <1>d, <1>s, <1>u, CacheKept
<1>4. EntryCount' BY Parts, <1>d, <1>q, <1>s, <1>v, EntryKept
<1>5. WeakCount' BY Parts, <1>d, <1>s, WeakCountKept
<1>6. WeakInv' BY Parts, <1>d, <1>s, WeakKept
<1>7. ObjectInv' BY <1>s, <1>d, <1>k, InsertingCount, Parts, ObjectKept
<1>8. RemoveInv' /\ ShardInv' /\ QueueInv' /\ SizeInv'
  BY <1>d, <1>e, <1>m, <1>k, <1>p, QuietEntries
<1>9. KillInv' /\ TableInv' BY <1>a, <1>p, <1>d, <1>e, <1>m, <1>k, QuietCaches
<1>10. TypeOK' BY Records, <1>d, <1>p, TypesNext
<1>. QED BY <1>q, <1>1, <1>2, <1>3, <1>4, <1>5, <1>6, <1>7, <1>8, <1>9, <1>10 DEF IInv

\* A WeakPtr is made from a StrongPtr.
LEMMA MakeWeakPtrKeeps ==
  ASSUME IInv, NEW t \in Thread, Idle(t), held[t].strong, ~held[t].weak, pool' = [pool EXCEPT !.weak = pool.weak + 1],
         held' = [held EXCEPT ![t].weak = TRUE],
         UNCHANGED << caches, cache, entry, weak, queue, lru, victims, todo >>
  PROVE  IInv'
<1>d. /\ Idle(t) /\ held' = [held EXCEPT ![t].weak = TRUE] /\ UNCHANGED todo
      /\ UNCHANGED << caches, cache, entry, weak, queue, lru, victims >>
  OBVIOUS
<1>r. HasPool(t) BY DEF HasPool
<1>p. /\ pool' \in PoolRec /\ pool'.strong = pool.strong /\ pool'.weak = pool.weak + 1 /\ pool'.live = pool.live
      /\ pool'.total = pool.total /\ pool'.limit = pool.limit
  <2>1. pool.weak + 1 \in Nat BY Records DEF PoolRec
  <2>. QED BY Parts, <2>1, PoolIs
<1>h. /\ held' \in [Thread -> HeldRec] /\ held'[t].weak
      /\ held'[t].strong = held[t].strong /\ held'[t].cache = held[t].cache
      /\ held'[t].entry = held[t].entry /\ held'[t].weakentry = held[t].weakentry
      /\ \A u \in Thread : u # t => held'[u] = held[u]
  BY Parts, <1>d, HeldFields
<1>e. OnlyTodo(t) /\ Alone(todo[t], "none", None) /\ Alone(todo'[t], "none", None)
  BY Parts, <1>d, StaysIdle, StepFields, StepEq, IsStep DEF Inner
<1>m. Moves(t) BY <1>d, <1>e, <1>h DEF Moves
<1>k. EntriesKept /\ ListedKept /\ CachesKept /\ VictimsKept /\ UsedCaches' = UsedCaches
  BY Parts, <1>d, EntrySame, CacheSame, VictimsUnmoved
<1>q. TodoInv' /\ LruInv' /\ \A c : IsPinned(c)' <=> IsPinned(c)
  BY <1>d, <1>e, <1>m, <1>k, QuietStep DEF VictimsKept
<1>s. /\ PoolUsers' = PoolUsers
      /\ PoolWeakReleases' = PoolWeakReleases
      /\ Inserting' = Inserting
      /\ (\A c : CachePtrs(c)' = CachePtrs(c))
      /\ (\A c : CacheReleases(c)' = CacheReleases(c))
      /\ (\A e : Users(e)' = Users(e))
      /\ (\A e : WeakUsers(e)' = WeakUsers(e))
      /\ (\A u \in Thread : \A e : Unmarks(u, e)' <=> Unmarks(u, e))
      /\ (\A u \in Thread : \A e : Marks(u, e)' <=> Marks(u, e))
  BY <1>e, <1>m, <1>d, <1>h, SameSets DEF NeverEnds, Alone
<1>u. \A c : UsedEntries(c)' = UsedEntries(c) BY <1>s, <1>d, UsedKept
<1>v. \A e \in Entry : Marked(e)' <=> Marked(e) BY <1>s, <1>d, MarkedKept
<1>1. HeldInv' BY Parts, <1>d, <1>e, <1>m, HeldOver DEF Alone
<1>2. PoolCount'
  <2>1. /\ pool.strong = Cardinality(PoolUsers) /\ (pool.live <=> pool.weak > 0)
        /\ pool.weak = Cardinality(PoolWeakPtrs) + Cardinality(PoolWeakReleases)
                       + One(pool.strong > 0) + Cardinality(UsedCaches)
    BY Parts DEF PoolCount
  <2>2. /\ Cardinality(PoolUsers) \in Nat /\ Cardinality(PoolWeakPtrs) \in Nat
        /\ Cardinality(PoolWeakReleases) \in Nat /\ Cardinality(UsedCaches) \in Nat
    BY Counts
  <2>3. Cardinality(PoolWeakPtrs') = Cardinality(PoolWeakPtrs) + 1
    BY <1>h, <1>m, <2>2, CountsAt DEF PoolWeakPtrs, One
  <2>4. pool.live BY <1>r, PoolLives
  <2>5. One(pool.strong > 0) \in {0, 1} /\ One(pool'.strong > 0) = One(pool.strong > 0)
    BY <1>p DEF One
  <2>. QED BY <1>k, <1>p, <1>s, <2>1, <2>2, <2>3, <2>4, <2>5 DEF PoolCount
<1>3. CacheCount' BY Parts, <1>d, <1>s, <1>u, CacheKept
<1>4. EntryCount' BY Parts, <1>d, <1>q, <1>s, <1>v, EntryKept
<1>5. WeakCount' BY Parts, <1>d, <1>s, WeakCountKept
<1>6. WeakInv' BY Parts, <1>d, <1>s, WeakKept
<1>7. ObjectInv' BY <1>s, <1>d, <1>k, InsertingCount, Parts, ObjectKept
<1>8. RemoveInv' /\ ShardInv' /\ QueueInv' /\ SizeInv'
  BY <1>d, <1>e, <1>m, <1>k, <1>p, QuietEntries
<1>9. KillInv' /\ TableInv' BY <1>d, <1>e, <1>m, <1>k, <1>p, QuietCaches
<1>10. TypeOK' BY Records, <1>d, <1>h, <1>p, TypesNext
<1>. QED BY <1>q, <1>1, <1>2, <1>3, <1>4, <1>5, <1>6, <1>7, <1>8, <1>9, <1>10 DEF IInv

\* The StrongPtr of another thread is copied.
LEMMA CopyStrongPtrKeeps ==
  ASSUME IInv, NEW t \in Thread, Idle(t), ~HasPool(t), NEW v \in Thread, held[v].strong, pool' = [pool EXCEPT !.strong = pool.strong + 1],
         held' = [held EXCEPT ![t].strong = TRUE],
         UNCHANGED << caches, cache, entry, weak, queue, lru, victims, todo >>
  PROVE  IInv'
<1>d. /\ Idle(t) /\ held' = [held EXCEPT ![t].strong = TRUE] /\ UNCHANGED todo
      /\ UNCHANGED << caches, cache, entry, weak, queue, lru, victims >>
  OBVIOUS
<1>p. /\ pool' \in PoolRec /\ pool'.strong = pool.strong + 1 /\ pool'.weak = pool.weak /\ pool'.live = pool.live
      /\ pool'.total = pool.total /\ pool'.limit = pool.limit
  <2>1. pool.strong + 1 \in Nat BY Records DEF PoolRec
  <2>. QED BY Parts, <2>1, PoolIs
<1>h. /\ held' \in [Thread -> HeldRec] /\ held'[t].strong
      /\ held'[t].weak = held[t].weak /\ held'[t].cache = held[t].cache
      /\ held'[t].entry = held[t].entry /\ held'[t].weakentry = held[t].weakentry
      /\ \A u \in Thread : u # t => held'[u] = held[u]
  BY Parts, <1>d, HeldFields
<1>e. OnlyTodo(t) /\ Alone(todo[t], "none", None) /\ Alone(todo'[t], "none", None)
  BY Parts, <1>d, StaysIdle, StepFields, StepEq, IsStep DEF Inner
<1>m. Moves(t) BY <1>d, <1>e, <1>h DEF Moves
<1>k. EntriesKept /\ ListedKept /\ CachesKept /\ VictimsKept /\ UsedCaches' = UsedCaches
  BY Parts, <1>d, EntrySame, CacheSame, VictimsUnmoved
<1>q. TodoInv' /\ LruInv' /\ \A c : IsPinned(c)' <=> IsPinned(c)
  BY <1>d, <1>e, <1>m, <1>k, QuietStep DEF VictimsKept
<1>s. /\ PoolWeakPtrs' = PoolWeakPtrs
      /\ PoolWeakReleases' = PoolWeakReleases
      /\ Inserting' = Inserting
      /\ (\A c : CachePtrs(c)' = CachePtrs(c))
      /\ (\A c : CacheReleases(c)' = CacheReleases(c))
      /\ (\A e : Users(e)' = Users(e))
      /\ (\A e : WeakUsers(e)' = WeakUsers(e))
      /\ (\A u \in Thread : \A e : Unmarks(u, e)' <=> Unmarks(u, e))
      /\ (\A u \in Thread : \A e : Marks(u, e)' <=> Marks(u, e))
  BY <1>e, <1>m, <1>d, <1>h, SameSets DEF NeverEnds, Alone
<1>u. \A c : UsedEntries(c)' = UsedEntries(c) BY <1>s, <1>d, UsedKept
<1>v. \A e \in Entry : Marked(e)' <=> Marked(e) BY <1>s, <1>d, MarkedKept
<1>a. /\ Cardinality(PoolUsers') = pool.strong + 1 /\ pool.strong > 0 /\ pool.strong \in Nat
  <2>1. t \notin PoolUsers /\ t \in PoolUsers' /\ v \in PoolUsers
    BY <1>e, <1>h, StepEq DEF PoolUsers, Ends, Alone, HasPool
  <2>2. Cardinality(PoolUsers) \in Nat /\ Cardinality(PoolUsers) # 0 /\ Cardinality(PoolUsers) = pool.strong
    BY Parts, <2>1, Counts DEF PoolCount
  <2>3. Cardinality(PoolUsers') = Cardinality(PoolUsers) + One(t \in PoolUsers') - One(t \in PoolUsers)
    BY <1>m, CountsAt
  <2>. QED BY <2>1, <2>2, <2>3 DEF One
<1>1. HeldInv' BY Parts, <1>d, <1>e, <1>m, HeldOver DEF Alone
<1>2. PoolCount'
  <2>1. /\ pool.strong = Cardinality(PoolUsers) /\ (pool.live <=> pool.weak > 0)
        /\ pool.weak = Cardinality(PoolWeakPtrs) + Cardinality(PoolWeakReleases)
                       + One(pool.strong > 0) + Cardinality(UsedCaches)
    BY Parts DEF PoolCount
  <2>2. /\ Cardinality(PoolUsers) \in Nat /\ Cardinality(PoolWeakPtrs) \in Nat
        /\ Cardinality(PoolWeakReleases) \in Nat /\ Cardinality(UsedCaches) \in Nat
    BY Counts
  <2>3. One(pool.strong > 0) = 1 /\ One(pool'.strong > 0) = 1 BY <1>a, <1>p DEF One
  <2>. QED BY <1>a, <1>p, <1>k, <1>s, <2>1, <2>2, <2>3 DEF PoolCount
<1>3. CacheCount' BY Parts, <1>d, <1>s, <1>u, CacheKept
<1>4. EntryCount' BY Parts, <1>d, <1>q, <1>s, <1>v, EntryKept
<1>5. WeakCount' BY Parts, <1>d, <1>s, WeakCountKept
<1>6. WeakInv' BY Parts, <1>d, <1>s, WeakKept
<1>7. ObjectInv' BY <1>s, <1>d, <1>k, InsertingCount, Parts, ObjectKept
<1>8. RemoveInv' /\ ShardInv' /\ QueueInv' /\ SizeInv'
  BY <1>d, <1>e, <1>m, <1>k, <1>p, QuietEntries
<1>9. KillInv' /\ TableInv' BY <1>a, <1>p, <1>d, <1>e, <1>m, <1>k, QuietCaches
<1>10. TypeOK' BY Records, <1>d, <1>h, <1>p, TypesNext
<1>. QED BY <1>q, <1>1, <1>2, <1>3, <1>4, <1>5, <1>6, <1>7, <1>8, <1>9, <1>10 DEF IInv

\* A strong reference to a cache is released, and another one remains.
LEMMA CacheUserLeavesKeeps ==
  ASSUME IInv, NEW t \in Thread, At(t, "cachedec"), NEW c \in Cache, c = Arg(t), cache[c].strong # 1,
         cache' = [cache EXCEPT ![c].strong = cache[c].strong - 1], Return(t),
         UNCHANGED << pool, caches, entry, weak, queue, lru, victims, held >>
  PROVE  IInv'
<1>d. /\ At(t, "cachedec") /\ c = Arg(t) /\ cache' = [cache EXCEPT ![c].strong = cache[c].strong - 1] /\ Return(t)
      /\ UNCHANGED << pool, caches, entry, weak, queue, lru, victims, held >>
  OBVIOUS
<1>e. OnlyTodo(t) /\ Alone(todo[t], "cachedec", c) /\ Alone(todo'[t], "none", None)
  BY Parts, <1>d, Returns, StepFields, StepEq, IsStep DEF Inner
<1>m. Moves(t) BY <1>d, <1>e, MovesOnly
<1>a. /\ t \in CacheReleases(c) /\ cache[c].strong \in Nat /\ cache[c].strong > 0
  BY <1>e, Referred DEF CacheReleases, Ends, Alone
<1>l. /\ cache[c].st = "live" /\ ~ShouldDelete(cache[c]) /\ ~IsPinned(c) /\ \A u \in Thread : c \notin Killed(u)
  BY <1>a, UsedCache
<1>c. /\ \A z \in Cache : z # c => cache'[z] = cache[z]
      /\ cache'[c].strong = cache[c].strong - 1
      /\ \A z \in Cache : /\ cache'[z].st = cache[z].st /\ cache'[z].ident = cache[z].ident
                          /\ cache'[z].shards = cache[z].shards /\ cache'[z].bit = cache[z].bit
      /\ cache' \in [Cache -> CacheRec] /\ CachesKept
  <2>1. cache[c].strong - 1 \in Nat BY <1>a
  <2>. QED BY Parts, <1>d, <2>1, CacheStrong
<1>k. EntriesKept /\ ListedKept /\ VictimsKept /\ CachesKept
  BY Parts, <1>d, <1>c, EntrySame, VictimsUnmoved
<1>q. TodoInv' /\ LruInv' /\ \A d : IsPinned(d)' <=> IsPinned(d)
  BY <1>d, <1>e, <1>m, <1>k, QuietStep DEF VictimsKept
<1>s. /\ PoolUsers' = PoolUsers
      /\ PoolWeakPtrs' = PoolWeakPtrs
      /\ PoolWeakReleases' = PoolWeakReleases
      /\ Inserting' = Inserting
      /\ (\A cc : CachePtrs(cc)' = CachePtrs(cc))
      /\ (\A e : Users(e)' = Users(e))
      /\ (\A e : WeakUsers(e)' = WeakUsers(e))
      /\ (\A u \in Thread : \A e : Unmarks(u, e)' <=> Unmarks(u, e))
      /\ (\A u \in Thread : \A e : Marks(u, e)' <=> Marks(u, e))
  BY <1>e, <1>m, <1>d, SameSets DEF NeverEnds, Alone
<1>u. \A cc : UsedEntries(cc)' = UsedEntries(cc) BY <1>s, <1>d, UsedKept
<1>v. \A e \in Entry : Marked(e)' <=> Marked(e) BY <1>s, <1>d, MarkedKept
<1>f. cache'[c].strong > 0 /\ UsedCaches' = UsedCaches BY <1>a, <1>c DEF UsedCaches
<1>1. HeldInv' BY Parts, <1>d, <1>e, <1>m, HeldOver DEF Alone
<1>2. PoolCount' BY Parts, <1>d, <1>f, <1>s, PoolKept
<1>3. CacheCount'
  <2>. SUFFICES ASSUME NEW d \in Cache
               PROVE  (cache[d].strong = Cardinality(CachePtrs(d)) + Cardinality(CacheReleases(d))
                                         + Cardinality(UsedEntries(d)))'
    BY DEF CacheCount
  <2>1. cache[d].strong = Cardinality(CachePtrs(d)) + Cardinality(CacheReleases(d))
                          + Cardinality(UsedEntries(d))
    BY Parts DEF CacheCount
  <2>2. /\ Cardinality(CachePtrs(d)) \in Nat /\ Cardinality(CacheReleases(d)) \in Nat
        /\ Cardinality(UsedEntries(d)) \in Nat
    BY Counts
  <2>3. /\ t \notin CacheReleases(d)' /\ (t \in CacheReleases(d) <=> d = c)
        /\ Cardinality(CacheReleases(d)') = Cardinality(CacheReleases(d))
                  + One(t \in CacheReleases(d)') - One(t \in CacheReleases(d))
    BY <1>e, <1>m, CountsAt, StepEq DEF CacheReleases, Ends, Alone
  <2>4. CachePtrs(d)' = CachePtrs(d) /\ UsedEntries(d)' = UsedEntries(d) BY <1>s, <1>u
  <2>5. CASE d = c BY <2>2, <2>3, <2>5, <1>c, <2>1, <2>4 DEF One
  <2>6. CASE d # c BY <2>2, <2>3, <2>6, <1>c, <2>1, <2>4 DEF One
  <2>. QED BY <2>5, <2>6
<1>4. EntryCount' BY Parts, <1>d, <1>q, <1>s, <1>v, EntryKept
<1>5. WeakCount' BY Parts, <1>d, <1>s, WeakCountKept
<1>6. WeakInv' BY Parts, <1>d, <1>s, WeakKept
<1>7. ObjectInv'
  <2>1. Cardinality(Inserting') <= Cardinality(Inserting) BY <1>s, InsertingCount
  <2>. QED BY Parts, <1>d, <1>c, <1>l, <1>k, <2>1, ObjectKept
<1>8. RemoveInv' /\ ShardInv' /\ QueueInv' /\ SizeInv'
  BY <1>c, <1>d, <1>e, <1>m, <1>k, QuietEntries
<1>9. KillInv' /\ TableInv'
  <2>1. \A z \in Cache : ShouldDelete(cache'[z]) <=> ShouldDelete(cache[z])
    BY <1>f, <1>c, <1>l DEF ShouldDelete
  <2>2. \A z \in Cache : cache'[z].shards = cache[z].shards /\ cache'[z].bit = cache[z].bit
    BY <1>c
  <2>. QED BY <1>d, <1>e, <1>m, <1>k, <2>1, <2>2, QuietCaches
<1>10. TypeOK' BY Records, <1>d, <1>c, TypesNext
<1>. QED BY <1>q, <1>1, <1>2, <1>3, <1>4, <1>5, <1>6, <1>7, <1>8, <1>9, <1>10 DEF IInv

\* The last strong reference to a cache is released, and the cache stays in the pool.
LEMMA LastCacheUserKeeps ==
  ASSUME IInv, NEW t \in Thread, At(t, "cachedec"), NEW c \in Cache, c = Arg(t), cache[c].strong = 1,
         cache' = [cache EXCEPT ![c].strong = cache[c].strong - 1], ~ShouldDelete(cache'[c]),
         Goto(t, << Step("poolweak", None) >>),
         UNCHANGED << pool, caches, entry, weak, queue, lru, victims, held >>
  PROVE  IInv'
<1>d. /\ At(t, "cachedec") /\ c = Arg(t) /\ cache' = [cache EXCEPT ![c].strong = cache[c].strong - 1]
      /\ Goto(t, << Step("poolweak", None) >>) /\ ~ShouldDelete(cache'[c])
      /\ UNCHANGED << pool, caches, entry, weak, queue, lru, victims, held >>
  OBVIOUS
<1>e. OnlyTodo(t) /\ Alone(todo[t], "cachedec", c) /\ Alone(todo'[t], "poolweak", None)
  BY Parts, <1>d, Proceeds, StepFields, StepEq, IsStep DEF Inner
<1>m. Moves(t) BY <1>d, <1>e, MovesOnly
<1>a. /\ t \in CacheReleases(c) /\ cache[c].strong \in Nat /\ cache[c].strong > 0
  BY <1>e, Referred DEF CacheReleases, Ends, Alone
<1>l. /\ cache[c].st = "live" /\ ~ShouldDelete(cache[c]) /\ ~IsPinned(c) /\ \A u \in Thread : c \notin Killed(u)
  BY <1>a, UsedCache
<1>c. /\ \A z \in Cache : z # c => cache'[z] = cache[z]
      /\ cache'[c].strong = cache[c].strong - 1
      /\ \A z \in Cache : /\ cache'[z].st = cache[z].st /\ cache'[z].ident = cache[z].ident
                          /\ cache'[z].shards = cache[z].shards /\ cache'[z].bit = cache[z].bit
      /\ cache' \in [Cache -> CacheRec] /\ CachesKept
  <2>1. cache[c].strong - 1 \in Nat BY <1>a
  <2>. QED BY Parts, <1>d, <2>1, CacheStrong
<1>k. EntriesKept /\ ListedKept /\ VictimsKept /\ CachesKept
  BY Parts, <1>d, <1>c, EntrySame, VictimsUnmoved
<1>q. TodoInv' /\ LruInv' /\ \A d : IsPinned(d)' <=> IsPinned(d)
  BY <1>d, <1>e, <1>m, <1>k, QuietStep DEF VictimsKept
<1>s. /\ PoolUsers' = PoolUsers
      /\ PoolWeakPtrs' = PoolWeakPtrs
      /\ Inserting' = Inserting
      /\ (\A cc : CachePtrs(cc)' = CachePtrs(cc))
      /\ (\A e : Users(e)' = Users(e))
      /\ (\A e : WeakUsers(e)' = WeakUsers(e))
      /\ (\A u \in Thread : \A e : Unmarks(u, e)' <=> Unmarks(u, e))
      /\ (\A u \in Thread : \A e : Marks(u, e)' <=> Marks(u, e))
  BY <1>e, <1>m, <1>d, SameSets DEF NeverEnds, Alone
<1>u. \A cc : UsedEntries(cc)' = UsedEntries(cc) BY <1>s, <1>d, UsedKept
<1>v. \A e \in Entry : Marked(e)' <=> Marked(e) BY <1>s, <1>d, MarkedKept
<1>f. Cardinality(UsedCaches') = Cardinality(UsedCaches) - 1
  <2>1. c \in UsedCaches /\ c \notin UsedCaches' /\ \A z \in Cache : z # c => (z \in UsedCaches <=> z \in UsedCaches')
    BY <1>a, <1>c DEF UsedCaches
  <2>2. Cardinality(UsedCaches') = Cardinality(UsedCaches) + One(c \in UsedCaches') - One(c \in UsedCaches)
    BY <2>1, CachesChange DEF UsedCaches
  <2>3. Cardinality(UsedCaches) \in Nat BY Counts
  <2>. QED BY <2>1, <2>2, <2>3 DEF One
<1>1. HeldInv' BY Parts, <1>e, <1>m, HeldPlain DEF Alone
<1>2. PoolCount'
  <2>1. /\ pool.strong = Cardinality(PoolUsers) /\ (pool.live <=> pool.weak > 0)
        /\ pool.weak = Cardinality(PoolWeakPtrs) + Cardinality(PoolWeakReleases)
                       + One(pool.strong > 0) + Cardinality(UsedCaches)
    BY Parts DEF PoolCount
  <2>2. /\ Cardinality(PoolUsers) \in Nat /\ Cardinality(PoolWeakPtrs) \in Nat
        /\ Cardinality(PoolWeakReleases) \in Nat /\ Cardinality(UsedCaches) \in Nat
    BY Counts
  <2>3. Cardinality(PoolWeakReleases') = Cardinality(PoolWeakReleases) + 1
    <3>1. t \in PoolWeakReleases' /\ t \notin PoolWeakReleases
      BY <1>e, StepEq DEF PoolWeakReleases, Ends, Alone
    <3>2. Cardinality(PoolWeakReleases') = Cardinality(PoolWeakReleases)
              + One(t \in PoolWeakReleases') - One(t \in PoolWeakReleases)
      BY <1>m, CountsAt
    <3>. QED BY <2>2, <3>1, <3>2 DEF One
  <2>4. One(pool.strong > 0) \in {0, 1} BY DEF One
  <2>. QED BY <1>d, <1>f, <1>s, <2>1, <2>2, <2>3, <2>4 DEF PoolCount
<1>3. CacheCount'
  <2>. SUFFICES ASSUME NEW d \in Cache
               PROVE  (cache[d].strong = Cardinality(CachePtrs(d)) + Cardinality(CacheReleases(d))
                                         + Cardinality(UsedEntries(d)))'
    BY DEF CacheCount
  <2>1. cache[d].strong = Cardinality(CachePtrs(d)) + Cardinality(CacheReleases(d))
                          + Cardinality(UsedEntries(d))
    BY Parts DEF CacheCount
  <2>2. /\ Cardinality(CachePtrs(d)) \in Nat /\ Cardinality(CacheReleases(d)) \in Nat
        /\ Cardinality(UsedEntries(d)) \in Nat
    BY Counts
  <2>3. /\ t \notin CacheReleases(d)' /\ (t \in CacheReleases(d) <=> d = c)
        /\ Cardinality(CacheReleases(d)') = Cardinality(CacheReleases(d))
                  + One(t \in CacheReleases(d)') - One(t \in CacheReleases(d))
    BY <1>e, <1>m, CountsAt, StepEq DEF CacheReleases, Ends, Alone
  <2>4. CachePtrs(d)' = CachePtrs(d) /\ UsedEntries(d)' = UsedEntries(d) BY <1>s, <1>u
  <2>5. CASE d = c BY <2>2, <2>3, <2>5, <1>c, <2>1, <2>4 DEF One
  <2>6. CASE d # c BY <2>2, <2>3, <2>6, <1>c, <2>1, <2>4 DEF One
  <2>. QED BY <2>5, <2>6
<1>4. EntryCount' BY Parts, <1>d, <1>q, <1>s, <1>v, EntryKept
<1>5. WeakCount' BY Parts, <1>d, <1>s, WeakCountKept
<1>6. WeakInv' BY Parts, <1>d, <1>s, WeakKept
<1>7. ObjectInv'
  <2>1. Cardinality(Inserting') <= Cardinality(Inserting) BY <1>s, InsertingCount
  <2>. QED BY Parts, <1>d, <1>c, <1>l, <1>k, <2>1, ObjectKept
<1>8. RemoveInv' /\ ShardInv' /\ QueueInv' /\ SizeInv'
  BY <1>c, <1>d, <1>e, <1>m, <1>k, QuietEntries
<1>9. KillInv' /\ TableInv' BY <1>d, <1>c, <1>l, <1>e, <1>m, <1>k, QuietCaches
<1>10. TypeOK' BY Records, <1>d, <1>c, TypesNext
<1>. QED BY <1>q, <1>1, <1>2, <1>3, <1>4, <1>5, <1>6, <1>7, <1>8, <1>9, <1>10 DEF IInv

-----------------------------------------------------------------------------
(* Caches become deletable.                                                *)

\* Caches that become deletable are destroyed by the thread that sees it.
LEMMA DoomSteps ==
  ASSUME IInv, NEW t \in Thread, Moves(t), NEW o, NEW x, Alone(todo[t], o, x), NEW D \in SUBSET Cache,
         First(todo'[t]).op \notin {"pin", "free", "evict"}, Frees(todo'[t]) = D, Deletes(todo'[t]) = {},
         UNCHANGED << entry, queue, lru, victims >>, pool'.total = pool.total, pool'.limit = pool.limit,
         CachesKept, \A c \in Cache : cache'[c].shards = cache[c].shards,
         \A c \in Cache : ShouldDelete(cache'[c]) <=> ShouldDelete(cache[c]) \/ c \in D,
         \A c \in D : cache[c].st = "live" /\ ~ShouldDelete(cache[c])
  PROVE  /\ TodoInv' /\ LruInv' /\ RemoveInv' /\ KillInv' /\ ShardInv' /\ QueueInv' /\ SizeInv'
         /\ VictimsKept /\ EntriesKept /\ ListedKept
         /\ \A c : IsPinned(c)' <=> IsPinned(c)
         /\ \A u \in Thread : Killed(u) \subseteq Killed(u)'
         /\ Killed(t)' = Killed(t) \cup D
<1>0. /\ TypeOK /\ TodoInv /\ LruInv /\ RemoveInv /\ KillInv /\ ShardInv /\ QueueInv /\ SizeInv
      /\ queue \in Seq(Entry)
  BY Parts, Types
<1>1. EntriesKept /\ ListedKept /\ VictimsKept BY <1>0, EntrySame, VictimsUnmoved
<1>2. /\ First(todo[t]).op \notin Inner /\ Frees(todo[t]) = {} /\ Deletes(todo[t]) = {} /\ ~Evicts(todo[t])
  BY DEF Alone
<1>3. TodoInv' /\ LruInv' BY <1>0, <1>1, <1>2, TodoKept, LruKept DEF Inner
<1>4. \A c : IsPinned(c)' <=> IsPinned(c) BY <1>2, SameSets DEF Inner
<1>5. RemoveInv' BY <1>0, <1>1, <1>2, RemoveKept
<1>6. /\ \A u \in Thread : u # t => Killed(u)' = Killed(u) /\ Frees(todo[u])' = Frees(todo[u])
      /\ Killed(t)' = D \cup DoomedIn(victims[t]) /\ Killed(t) = DoomedIn(victims[t])
      /\ \A u \in Thread : DoomedIn(victims[u])' = DoomedIn(victims[u])
  BY <1>0, <1>1, <1>2, RemovedAt, VictimsSame DEF Killed
<1>7. \A c \in D : \A u \in Thread : c \notin Killed(u) BY <1>0 DEF KillInv
<1>8. KillInv'
  <2>1. \A u, v \in Thread : u # v => Killed(u)' \cap Killed(v)' = {}
    BY <1>0, <1>6, <1>7 DEF KillInv
  <2>2. \A u \in Thread : Frees(todo[u])' \cap DoomedIn(victims[u])' = {}
    <3>1. \A u \in Thread : Frees(todo[u]) \cap DoomedIn(victims[u]) = {} BY <1>0 DEF KillInv
    <3>2. D \cap DoomedIn(victims[t]) = {} BY <1>6, <1>7
    <3>. QED BY <1>6, <3>1, <3>2
  <2>3. ASSUME NEW c \in Cache
        PROVE  (cache'[c].st = "live" /\ ShouldDelete(cache'[c])) <=> \E u \in Thread : c \in Killed(u)'
    <3>1. (cache[c].st = "live" /\ ShouldDelete(cache[c])) <=> \E u \in Thread : c \in Killed(u)
      BY <1>0 DEF KillInv
    <3>2. (\E u \in Thread : c \in Killed(u)') <=> (\E u \in Thread : c \in Killed(u)) \/ c \in D
      BY <1>6
    <3>3. cache'[c].st = cache[c].st BY DEF CachesKept
    <3>. QED BY <3>1, <3>2, <3>3
  <2>4. \A u \in Thread : \A c \in DoomedIn(victims[u])' : cache'[c].shards = 0
    <3>1. \A u \in Thread : \A c \in DoomedIn(victims[u]) : cache[c].shards = 0 /\ c \in Cache
      BY <1>0 DEF KillInv, DoomedIn, LruInv, Buffer
    <3>. QED BY <1>6, <3>1
  <2>. QED BY <2>1, <2>2, <2>3, <2>4 DEF KillInv, ShouldDelete
<1>9. ShardInv' BY <1>0, <1>1, <1>4, ShardKept
<1>10. QueueInv' BY <1>0, <1>1, <1>4, QueueKept
<1>11. SizeInv' BY <1>0, <1>1, <1>2, <1>4, SizeKept
<1>12. (\A u \in Thread : Killed(u) \subseteq Killed(u)') /\ Killed(t)' = Killed(t) \cup D
  BY <1>6
<1>. QED BY <1>1, <1>3, <1>4, <1>5, <1>8, <1>9, <1>10, <1>11, <1>12

\* The steps that destroy the caches of D and then release the pool.
LEMMA DoomGoto ==
  ASSUME TodoInv, NEW t \in Thread, NEW op, op \notin Inner, At(t, op), NEW D, NEW u \in Seq(Steps),
         WellFormed(u), AllInner(u), Fresh(u), Frees(u) = D, Deletes(u) = {}, ~Evicts(u),
         Goto(t, u \o << Step("poolweak", None) >>)
  PROVE  /\ OnlyTodo(t) /\ Alone(todo[t], op, Arg(t)) /\ todo'[t] # << >>
         /\ First(todo'[t]).op \notin {"pin", "free", "evict"}
         /\ Final(todo'[t]) = Step("poolweak", None) /\ Final(todo'[t]).op = "poolweak"
         /\ Frees(todo'[t]) = D /\ Deletes(todo'[t]) = {}
<1>1. /\ << Step("poolweak", None) >> \in Seq(Steps) /\ WellFormed(<< Step("poolweak", None) >>)
      /\ Alone(<< Step("poolweak", None) >>, "poolweak", None)
  BY AloneStep, IsStep DEF Inner
<1>2. PICK v \in Seq(Steps) : v = << Step("poolweak", None) >> BY <1>1
<1>3. /\ WellFormed(v) /\ First(v).op = "poolweak" /\ Final(v) = Step("poolweak", None) /\ Final(v).op = "poolweak"
      /\ Frees(v) = {} /\ Deletes(v) = {} /\ ~Evicts(v) /\ v # << >>
  BY <1>1, <1>2 DEF Alone
<1>4. /\ Fresh(v) /\ Final(v).op \in Follows
      /\ Frees(u) \cap Frees(v) = {} /\ Deletes(u) \cap Deletes(v) = {}
  BY <1>3 DEF Fresh, Follows
<1>5. PICK s : s = u \o v OBVIOUS
<1>6. /\ s \in Seq(Steps) /\ WellFormed(s) /\ First(s) = (IF u = << >> THEN First(v) ELSE First(u))
      /\ Final(s) = Final(v) /\ Frees(s) = Frees(u) \cup Frees(v) /\ Deletes(s) = Deletes(u) \cup Deletes(v)
      /\ Fresh(s)
  BY <1>3, <1>4, <1>5, Join
<1>7. Goto(t, s) BY <1>2, <1>5
<1>8. /\ From(t, Step(op, Arg(t)), Step(op, Arg(t)), {}, {}, FALSE)
      /\ Step(op, Arg(t)) \in Steps /\ todo[t] # << >> /\ OnlyTodo(t) /\ todo'[t] = s
  BY <1>6, <1>7, Replaced
<1>9. Alone(todo[t], op, Arg(t)) BY <1>8, StepEq, StepOp DEF From, Alone
<1>10. s # << >> BY <1>3, <1>6, NoStepIs, StepEq DEF Final, NoStep
<1>. QED BY <1>3, <1>6, <1>8, <1>9, <1>10 DEF Fresh

\* The last strong reference to a cache is released, and the cache is destroyed.
LEMMA DoomedCacheKeeps ==
  ASSUME IInv, NEW t \in Thread, At(t, "cachedec"), NEW c \in Cache, c = Arg(t), cache[c].strong = 1,
         cache' = [cache EXCEPT ![c].strong = cache[c].strong - 1], ShouldDelete(cache'[c]),
         Goto(t, DestroyCache(c) \o << Step("poolweak", None) >>),
         UNCHANGED << pool, caches, entry, weak, queue, lru, victims, held >>
  PROVE  IInv'
<1>d. /\ At(t, "cachedec") /\ c = Arg(t) /\ cache' = [cache EXCEPT ![c].strong = cache[c].strong - 1]
      /\ Goto(t, DestroyCache(c) \o << Step("poolweak", None) >>) /\ ShouldDelete(cache'[c])
      /\ UNCHANGED << pool, caches, entry, weak, queue, lru, victims, held >>
  OBVIOUS
<1>e. /\ OnlyTodo(t) /\ Alone(todo[t], "cachedec", c) /\ todo'[t] # << >>
      /\ First(todo'[t]).op \notin {"pin", "free", "evict"}
      /\ Final(todo'[t]) = Step("poolweak", None) /\ Final(todo'[t]).op = "poolweak"
      /\ Frees(todo'[t]) = {c} /\ Deletes(todo'[t]) = {}
  <2>1. PICK s \in Seq(Steps) : s = DestroyCache(c) BY DestroyCacheSteps
  <2>2. WellFormed(s) /\ AllInner(s) /\ Fresh(s) /\ Frees(s) = {c} /\ Deletes(s) = {} /\ ~Evicts(s)
    BY <2>1, DestroyCacheSteps
  <2>3. Goto(t, s \o << Step("poolweak", None) >>) /\ "cachedec" \notin Inner
    BY <1>d, <2>1 DEF Inner
  <2>. QED BY Parts, <1>d, <2>2, <2>3, DoomGoto
<1>m. Moves(t) BY <1>d, <1>e, MovesOnly
<1>a. /\ t \in CacheReleases(c) /\ cache[c].strong \in Nat /\ cache[c].strong > 0
  BY <1>e, Referred DEF CacheReleases, Ends, Alone
<1>l. /\ cache[c].st = "live" /\ ~ShouldDelete(cache[c]) /\ ~IsPinned(c) /\ \A u \in Thread : c \notin Killed(u)
  BY <1>a, UsedCache
<1>c. /\ \A z \in Cache : z # c => cache'[z] = cache[z]
      /\ cache'[c].strong = cache[c].strong - 1
      /\ \A z \in Cache : /\ cache'[z].st = cache[z].st /\ cache'[z].ident = cache[z].ident
                          /\ cache'[z].shards = cache[z].shards /\ cache'[z].bit = cache[z].bit
      /\ cache' \in [Cache -> CacheRec] /\ CachesKept
  <2>1. cache[c].strong - 1 \in Nat BY <1>a
  <2>. QED BY Parts, <1>d, <2>1, CacheStrong
<1>g. /\ \A z \in Cache : ShouldDelete(cache'[z]) <=> ShouldDelete(cache[z]) \/ z \in {c}
      /\ \A z \in Cache : cache'[z].shards = cache[z].shards /\ cache'[z].bit = cache[z].bit
      /\ \A z \in {c} : cache[z].st = "live" /\ ~ShouldDelete(cache[z])
  BY <1>c, <1>d, <1>l
<1>k. /\ TodoInv' /\ LruInv' /\ RemoveInv' /\ KillInv' /\ ShardInv' /\ QueueInv' /\ SizeInv'
      /\ VictimsKept /\ EntriesKept /\ ListedKept /\ CachesKept
      /\ \A z : IsPinned(z)' <=> IsPinned(z)
      /\ \A u \in Thread : Killed(u) \subseteq Killed(u)'
  <2>1. /\ First(todo'[t]).op \notin {"pin", "free", "evict"} /\ Frees(todo'[t]) = {c} /\ Deletes(todo'[t]) = {}
        /\ Alone(todo[t], "cachedec", c) /\ {c} \in SUBSET Cache
    BY <1>e
  <2>2. /\ UNCHANGED << entry, queue, lru, victims >> /\ pool'.total = pool.total /\ pool'.limit = pool.limit
        /\ CachesKept /\ \A z \in Cache : cache'[z].shards = cache[z].shards
    BY <1>c, <1>d
  <2>. QED BY <1>g, <1>m, <2>1, <2>2, DoomSteps, ZenonT(60)
<1>q. \A z : IsPinned(z)' <=> IsPinned(z) BY <1>k
<1>s. /\ PoolUsers' = PoolUsers
      /\ PoolWeakPtrs' = PoolWeakPtrs
      /\ Inserting' = Inserting
      /\ (\A cc : CachePtrs(cc)' = CachePtrs(cc))
      /\ (\A e : Users(e)' = Users(e))
      /\ (\A e : WeakUsers(e)' = WeakUsers(e))
      /\ (\A u \in Thread : \A e : Unmarks(u, e)' <=> Unmarks(u, e))
      /\ (\A u \in Thread : \A e : Marks(u, e)' <=> Marks(u, e))
  BY <1>e, <1>m, <1>d, SameSets DEF NeverEnds, Alone
<1>u. \A cc : UsedEntries(cc)' = UsedEntries(cc) BY <1>s, <1>d, UsedKept
<1>v. \A e \in Entry : Marked(e)' <=> Marked(e) BY <1>s, <1>d, MarkedKept
<1>f. Cardinality(UsedCaches') = Cardinality(UsedCaches) - 1
  <2>1. c \in UsedCaches /\ c \notin UsedCaches' /\ \A z \in Cache : z # c => (z \in UsedCaches <=> z \in UsedCaches')
    BY <1>a, <1>c DEF UsedCaches
  <2>2. Cardinality(UsedCaches') = Cardinality(UsedCaches) + One(c \in UsedCaches') - One(c \in UsedCaches)
    BY <2>1, CachesChange DEF UsedCaches
  <2>3. Cardinality(UsedCaches) \in Nat BY Counts
  <2>. QED BY <2>1, <2>2, <2>3 DEF One
<1>1. TodoInv' BY <1>k
<1>2. LruInv' BY <1>k
<1>3. HeldInv' BY Parts, <1>e, <1>m, HeldPlain
<1>4. PoolCount'
  <2>1. /\ pool.strong = Cardinality(PoolUsers) /\ (pool.live <=> pool.weak > 0)
        /\ pool.weak = Cardinality(PoolWeakPtrs) + Cardinality(PoolWeakReleases)
                       + One(pool.strong > 0) + Cardinality(UsedCaches)
    BY Parts DEF PoolCount
  <2>2. /\ Cardinality(PoolUsers) \in Nat /\ Cardinality(PoolWeakPtrs) \in Nat
        /\ Cardinality(PoolWeakReleases) \in Nat /\ Cardinality(UsedCaches) \in Nat
    BY Counts
  <2>3. Cardinality(PoolWeakReleases') = Cardinality(PoolWeakReleases) + 1
    <3>1. t \in PoolWeakReleases' /\ t \notin PoolWeakReleases
      BY <1>e, StepEq DEF PoolWeakReleases, Ends, Alone
    <3>2. Cardinality(PoolWeakReleases') = Cardinality(PoolWeakReleases)
              + One(t \in PoolWeakReleases') - One(t \in PoolWeakReleases)
      BY <1>m, CountsAt
    <3>. QED BY <2>2, <3>1, <3>2 DEF One
  <2>4. One(pool.strong > 0) \in {0, 1} BY DEF One
  <2>. QED BY <1>d, <1>f, <1>s, <2>1, <2>2, <2>3, <2>4 DEF PoolCount
<1>5. CacheCount'
  <2>. SUFFICES ASSUME NEW d \in Cache
               PROVE  (cache[d].strong = Cardinality(CachePtrs(d)) + Cardinality(CacheReleases(d))
                                         + Cardinality(UsedEntries(d)))'
    BY DEF CacheCount
  <2>1. cache[d].strong = Cardinality(CachePtrs(d)) + Cardinality(CacheReleases(d))
                          + Cardinality(UsedEntries(d))
    BY Parts DEF CacheCount
  <2>2. /\ Cardinality(CachePtrs(d)) \in Nat /\ Cardinality(CacheReleases(d)) \in Nat
        /\ Cardinality(UsedEntries(d)) \in Nat
    BY Counts
  <2>3. /\ t \notin CacheReleases(d)' /\ (t \in CacheReleases(d) <=> d = c)
        /\ Cardinality(CacheReleases(d)') = Cardinality(CacheReleases(d))
                  + One(t \in CacheReleases(d)') - One(t \in CacheReleases(d))
    BY <1>e, <1>m, CountsAt, StepEq DEF CacheReleases, Ends, Alone
  <2>4. CachePtrs(d)' = CachePtrs(d) /\ UsedEntries(d)' = UsedEntries(d) BY <1>s, <1>u
  <2>5. CASE d = c BY <2>2, <2>3, <2>5, <1>c, <2>1, <2>4 DEF One
  <2>6. CASE d # c BY <2>2, <2>3, <2>6, <1>c, <2>1, <2>4 DEF One
  <2>. QED BY <2>5, <2>6
<1>6. EntryCount' BY Parts, <1>d, <1>q, <1>s, <1>v, EntryKept
<1>7. WeakCount' BY Parts, <1>d, <1>s, WeakCountKept
<1>8. WeakInv' BY Parts, <1>d, <1>s, WeakKept
<1>9. ObjectInv'
  <2>1. Cardinality(Inserting') <= Cardinality(Inserting) BY <1>s, InsertingCount
  <2>. QED BY Parts, <1>d, <1>c, <1>l, <1>k, <2>1, ObjectKept
<1>10. RemoveInv' BY <1>k
<1>11. ShardInv' BY <1>k
<1>12. QueueInv' BY <1>k
<1>13. SizeInv' BY <1>k
<1>14. KillInv' BY <1>k
<1>15. TableInv'
  <2>1. \A z \in Cache : cache[z].st = "live" /\ ~ShouldDelete(cache'[z]) => ~ShouldDelete(cache[z])
    BY <1>g
  <2>2. (pool'.strong > 0 <=> pool.strong > 0) /\ caches' = caches BY <1>d
  <2>3. First(todo'[t]).op \notin {"pin", "free"} /\ \A z \in Cache : cache'[z].bit = cache[z].bit
    BY <1>e, <1>g
  <2>. QED BY Parts, Records, <1>k, <1>m, <2>1, <2>2, <2>3, TableSame
<1>16. TypeOK' BY Records, <1>d, <1>c, TypesNext
<1>. QED
  BY <1>1, <1>2, <1>3, <1>4, <1>5, <1>6, <1>7, <1>8, <1>9, <1>10, <1>11, <1>12, <1>13, <1>14, <1>15, <1>16 DEF IInv

\* The pool with other counts.
LEMMA PoolStrong ==
  ASSUME TypeOK, NEW s \in Nat, pool' = [pool EXCEPT !.strong = s]
  PROVE  /\ pool' \in PoolRec /\ pool'.strong = s /\ pool'.weak = pool.weak /\ pool'.live = pool.live
         /\ pool'.total = pool.total /\ pool'.limit = pool.limit /\ pool'.idents = pool.idents
BY PoolIs

\* The pool after both of its counts changed.
LEMMA PoolBoth ==
  ASSUME TypeOK, NEW s \in Nat, NEW w \in Nat, pool' = [pool EXCEPT !.strong = s, !.weak = w]
  PROVE  /\ pool' \in PoolRec /\ pool'.strong = s /\ pool'.weak = w /\ pool'.live = pool.live
         /\ pool'.total = pool.total /\ pool'.limit = pool.limit /\ pool'.idents = pool.idents
<1>1. \A p \in PoolRec : LET r == [p EXCEPT !.strong = s, !.weak = w] IN
         /\ r \in PoolRec /\ r.strong = s /\ r.weak = w /\ r.live = p.live
         /\ r.total = p.total /\ r.limit = p.limit /\ r.idents = p.idents
  BY DEF PoolRec
<1>2. PICK p \in PoolRec : p = pool BY Types
<1>3. PICK r : r = [p EXCEPT !.strong = s, !.weak = w] OBVIOUS
<1>4. /\ r \in PoolRec /\ r.strong = s /\ r.weak = w /\ r.live = p.live
      /\ r.total = p.total /\ r.limit = p.limit /\ r.idents = p.idents
  BY <1>1, <1>3
<1>. QED BY <1>2, <1>3, <1>4

-----------------------------------------------------------------------------
(* The pool's own reference to its caches.                                 *)

\* The pool's component of the counts of the listed caches is set to b.
LEMMA BitFields ==
  ASSUME TypeOK, NEW S, NEW b \in 0 .. 1,
         cache' = [c \in Cache |-> IF c \in S THEN WithBit(cache[c], b) ELSE cache[c]]
  PROVE  /\ \A c \in Cache : c \notin S => cache'[c] = cache[c]
         /\ \A c \in Cache : c \in S => cache'[c].bit = b /\ cache'[c] = WithBit(cache[c], b)
         /\ \A c \in Cache : /\ cache'[c].st = cache[c].st /\ cache'[c].ident = cache[c].ident
                             /\ cache'[c].shards = cache[c].shards /\ cache'[c].strong = cache[c].strong
         /\ cache' \in [Cache -> CacheRec] /\ CachesKept /\ UsedCaches' = UsedCaches
<1>0. cache \in [Cache -> CacheRec] BY Types
<1>1. \A r \in CacheRec : LET s == WithBit(r, b) IN
         /\ s \in CacheRec /\ s.st = r.st /\ s.ident = r.ident /\ s.shards = r.shards
         /\ s.strong = r.strong /\ s.bit = b
  BY DEF WithBit, CacheRec
<1>2. \A c \in Cache : cache'[c] = IF c \in S THEN WithBit(cache[c], b) ELSE cache[c] OBVIOUS
<1>3. ASSUME NEW c \in Cache
      PROVE  /\ cache'[c].st = cache[c].st /\ cache'[c].ident = cache[c].ident
             /\ cache'[c].shards = cache[c].shards /\ cache'[c].strong = cache[c].strong
             /\ c \in S => cache'[c].bit = b
             /\ cache'[c] \in CacheRec
  <2>1. PICK r \in CacheRec : r = cache[c] BY <1>0
  <2>2. CASE c \in S BY <1>1, <1>2, <2>1, <2>2
  <2>3. CASE c \notin S BY <1>2, <2>1, <2>3
  <2>. QED BY <2>2, <2>3
<1>4. cache' \in [Cache -> CacheRec] BY <1>3
<1>. QED BY <1>2, <1>3, <1>4 DEF CachesKept, UsedCaches

\* The last strong reference to the pool is released.
LEMMA PoolZeroKeeps ==
  ASSUME IInv, NEW t \in Thread, At(t, "poolzero"), pool.strong = 1, pool' = [pool EXCEPT !.strong = pool.strong - 1],
         NEW D, D = {c \in caches : BecomesDeletable(cache[c], WithBit(cache[c], 0))},
         cache' = [c \in Cache |-> IF c \in caches THEN WithBit(cache[c], 0) ELSE cache[c]],
         Goto(t, FlattenSeq([i \in 1 .. Cardinality(D) |-> DestroyCache(SetToSeq(D)[i])])
                 \o << Step("poolweak", None) >>),
         UNCHANGED << caches, entry, weak, queue, lru, victims, held >>
  PROVE  IInv'
<1>d. /\ At(t, "poolzero") /\ cache' = [c \in Cache |-> IF c \in caches THEN WithBit(cache[c], 0) ELSE cache[c]]
      /\ Goto(t, FlattenSeq([i \in 1 .. Cardinality(D) |-> DestroyCache(SetToSeq(D)[i])])
                 \o << Step("poolweak", None) >>)
      /\ UNCHANGED << caches, entry, weak, queue, lru, victims, held >>
  OBVIOUS
<1>f. D \in SUBSET Cache BY Records
<1>e. /\ OnlyTodo(t) /\ Alone(todo[t], "poolzero", None) /\ todo'[t] # << >>
      /\ First(todo'[t]).op \notin {"pin", "free", "evict"}
      /\ Final(todo'[t]) = Step("poolweak", None) /\ Final(todo'[t]).op = "poolweak"
      /\ Frees(todo'[t]) = D /\ Deletes(todo'[t]) = {}
  <2>1. PICK s \in Seq(Steps) : s = FlattenSeq([i \in 1 .. Cardinality(D) |-> DestroyCache(SetToSeq(D)[i])])
    BY <1>f, DestroyCachesSteps
  <2>2. WellFormed(s) /\ AllInner(s) /\ Fresh(s) /\ Frees(s) = D /\ Deletes(s) = {} /\ ~Evicts(s)
    BY <1>f, <2>1, DestroyCachesSteps
  <2>3. Goto(t, s \o << Step("poolweak", None) >>) /\ "poolzero" \notin Inner
    BY <1>d, <2>1 DEF Inner
  <2>4. Arg(t) = None BY Parts, <1>d, AtFirst, StepFields
  <2>. QED BY Parts, <1>d, <2>2, <2>3, <2>4, DoomGoto
<1>m. Moves(t) BY <1>d, <1>e, MovesOnly
<1>p. /\ pool' \in PoolRec /\ pool'.strong = 0 /\ pool'.weak = pool.weak /\ pool'.live = pool.live
      /\ pool'.total = pool.total /\ pool'.limit = pool.limit
  BY Parts, PoolStrong
<1>c. /\ \A z \in Cache : z \notin caches => cache'[z] = cache[z]
      /\ \A z \in Cache : z \in caches => cache'[z].bit = 0 /\ cache'[z] = WithBit(cache[z], 0)
      /\ \A z \in Cache : /\ cache'[z].st = cache[z].st /\ cache'[z].ident = cache[z].ident
                          /\ cache'[z].shards = cache[z].shards /\ cache'[z].strong = cache[z].strong
      /\ cache' \in [Cache -> CacheRec] /\ CachesKept /\ UsedCaches' = UsedCaches
  <2>1. 0 \in 0 .. 1 OBVIOUS
  <2>. QED BY Parts, <1>d, <2>1, BitFields
<1>g. /\ \A z \in Cache : ShouldDelete(cache'[z]) <=> ShouldDelete(cache[z]) \/ z \in D
      /\ \A z \in D : cache[z].st = "live" /\ ~ShouldDelete(cache[z])
  <2>1. ASSUME NEW z \in Cache, z \in caches
        PROVE  ShouldDelete(cache'[z]) <=> ShouldDelete(cache[z]) \/ z \in D
    BY <1>c, <2>1 DEF BecomesDeletable, ShouldDelete
  <2>2. \A z \in Cache : z \notin caches => (ShouldDelete(cache'[z]) <=> ShouldDelete(cache[z]) \/ z \in D)
    BY <1>c
  <2>3. \A z \in D : cache[z].st = "live" /\ ~ShouldDelete(cache[z])
    BY Parts DEF TableInv, BecomesDeletable
  <2>. QED BY <2>1, <2>2, <2>3
<1>k. /\ TodoInv' /\ LruInv' /\ RemoveInv' /\ KillInv' /\ ShardInv' /\ QueueInv' /\ SizeInv'
      /\ VictimsKept /\ EntriesKept /\ ListedKept /\ CachesKept
      /\ \A z : IsPinned(z)' <=> IsPinned(z)
      /\ \A u \in Thread : Killed(u) \subseteq Killed(u)'
  <2>1. /\ First(todo'[t]).op \notin {"pin", "free", "evict"} /\ Frees(todo'[t]) = D /\ Deletes(todo'[t]) = {}
        /\ Alone(todo[t], "poolzero", None)
    BY <1>e
  <2>2. /\ UNCHANGED << entry, queue, lru, victims >> /\ pool'.total = pool.total /\ pool'.limit = pool.limit
        /\ CachesKept /\ \A z \in Cache : cache'[z].shards = cache[z].shards
    BY <1>c, <1>d, <1>p
  <2>. QED BY <1>f, <1>g, <1>m, <2>1, <2>2, DoomSteps
<1>q. \A z : IsPinned(z)' <=> IsPinned(z) BY <1>k
<1>b. \A z \in Cache : cache[z].st # "live" => cache'[z] = cache[z] BY Parts, <1>c DEF TableInv
<1>s. /\ PoolWeakPtrs' = PoolWeakPtrs
      /\ Inserting' = Inserting
      /\ (\A c : CachePtrs(c)' = CachePtrs(c))
      /\ (\A c : CacheReleases(c)' = CacheReleases(c))
      /\ (\A e : Users(e)' = Users(e))
      /\ (\A e : WeakUsers(e)' = WeakUsers(e))
      /\ (\A u \in Thread : \A e : Unmarks(u, e)' <=> Unmarks(u, e))
      /\ (\A u \in Thread : \A e : Marks(u, e)' <=> Marks(u, e))
  BY <1>e, <1>m, <1>d, SameSets DEF NeverEnds, Alone
<1>u. \A c : UsedEntries(c)' = UsedEntries(c) BY <1>s, <1>d, UsedKept
<1>v. \A e \in Entry : Marked(e)' <=> Marked(e) BY <1>s, <1>d, MarkedKept
<1>1. TodoInv' BY <1>k
<1>2. LruInv' BY <1>k
<1>3. HeldInv' BY Parts, <1>e, <1>m, HeldPlain
<1>4. PoolCount'
  <2>1. /\ pool.strong = Cardinality(PoolUsers) /\ (pool.live <=> pool.weak > 0)
        /\ pool.weak = Cardinality(PoolWeakPtrs) + Cardinality(PoolWeakReleases)
                       + One(pool.strong > 0) + Cardinality(UsedCaches)
    BY Parts DEF PoolCount
  <2>2. /\ Cardinality(PoolUsers) \in Nat /\ Cardinality(PoolWeakPtrs) \in Nat
        /\ Cardinality(PoolWeakReleases) \in Nat /\ Cardinality(UsedCaches) \in Nat
    BY Counts
  <2>3. Cardinality(PoolWeakReleases') = Cardinality(PoolWeakReleases) + 1
    <3>1. t \in PoolWeakReleases' /\ t \notin PoolWeakReleases
      BY <1>e, StepEq DEF PoolWeakReleases, Ends, Alone
    <3>2. Cardinality(PoolWeakReleases') = Cardinality(PoolWeakReleases)
              + One(t \in PoolWeakReleases') - One(t \in PoolWeakReleases)
      BY <1>m, CountsAt
    <3>. QED BY <2>2, <3>1, <3>2 DEF One
  <2>4. Cardinality(PoolUsers') = 0
    <3>1. Ends(t, "poolzero", None) BY <1>e DEF Ends, Alone
    <3>2. t \in PoolUsers /\ ~held[t].strong BY Parts, <3>1 DEF PoolUsers, HeldInv, HeldAt
    <3>3. t \notin PoolUsers' BY <1>d, <1>e, <3>2, StepEq DEF PoolUsers, Ends
    <3>4. Cardinality(PoolUsers') = Cardinality(PoolUsers) + One(t \in PoolUsers') - One(t \in PoolUsers)
      BY <1>m, CountsAt
    <3>. QED BY <2>1, <2>2, <3>2, <3>3, <3>4 DEF One
  <2>5. One(pool.strong > 0) = 1 /\ One(pool'.strong > 0) = 0 BY <1>p DEF One
  <2>. QED BY <1>c, <1>p, <1>s, <2>1, <2>2, <2>3, <2>4, <2>5 DEF PoolCount
<1>5. CacheCount' BY Parts, <1>d, <1>c, <1>s, <1>u, CacheKept
<1>6. EntryCount' BY Parts, <1>d, <1>q, <1>s, <1>v, EntryKept
<1>7. WeakCount' BY Parts, <1>d, <1>s, WeakCountKept
<1>8. WeakInv' BY Parts, <1>d, <1>s, WeakKept
<1>9. ObjectInv'
  <2>1. Cardinality(Inserting') <= Cardinality(Inserting) BY <1>s, InsertingCount
  <2>. QED BY Parts, <1>d, <1>c, <1>b, <1>k, <2>1, ObjectKept
<1>10. RemoveInv' BY <1>k
<1>11. ShardInv' BY <1>k
<1>12. QueueInv' BY <1>k
<1>13. SizeInv' BY <1>k
<1>14. KillInv' BY <1>k
<1>15. TableInv'
  <2>1. \A z \in caches' : cache'[z].st = "live" /\ cache'[z].ident # Anonymous
    BY Parts, Records, <1>d, <1>c DEF TableInv
  <2>2. \A z, w \in caches' : cache'[z].ident = cache'[w].ident => z = w
    BY Parts, Records, <1>d, <1>c DEF TableInv
  <2>3. \A z \in Cache : cache'[z].st = "live" /\ cache'[z].ident # Anonymous /\ ~ShouldDelete(cache'[z])
                         => z \in caches'
    BY <1>g, <1>d, <1>c, Parts DEF TableInv
  <2>4. \A u \in Thread, z \in Cache : Doing(u, "pin", z)' \/ Doing(u, "free", z)' => z \notin caches'
    <3>1. \A u \in Thread, z \in Cache : u # t => (Doing(u, "pin", z)' <=> Doing(u, "pin", z)) /\ (Doing(u, "free", z)' <=> Doing(u, "free", z))
      BY <1>m DEF Moves, OnlyTodo, Doing
    <3>2. \A z : ~Doing(t, "pin", z)' /\ ~Doing(t, "free", z)'
      BY <1>e, StepEq DEF Doing, Alone, Inner
    <3>. QED BY Parts, <1>d, <3>1, <3>2 DEF TableInv
  <2>5. ASSUME NEW z \in Cache, cache'[z].st = "live", \A u \in Thread : z \notin Killed(u)'
        PROVE  cache'[z].bit = One(z \in caches' /\ pool'.strong > 0)
    <3>1. One(z \in caches' /\ pool'.strong > 0) = 0 BY <1>p DEF One
    <3>2. CASE z \in caches BY <1>c, <3>1, <3>2
    <3>3. CASE z \notin caches
      <4>1. cache[z].st = "live" /\ \A u \in Thread : z \notin Killed(u) BY <1>c, <1>k, <2>5
      <4>2. cache[z].bit = One(z \in caches /\ pool.strong > 0) BY Parts, <4>1 DEF TableInv
      <4>3. One(z \in caches /\ pool.strong > 0) = 0 BY <3>3 DEF One
      <4>. QED BY <1>c, <3>1, <3>3, <4>2, <4>3
    <3>. QED BY <3>2, <3>3
  <2>. QED BY <2>1, <2>2, <2>3, <2>4, <2>5 DEF TableInv, ShouldDelete, One
<1>16. TypeOK' BY Records, <1>d, <1>c, <1>p, TypesNext
<1>. QED
  BY <1>1, <1>2, <1>3, <1>4, <1>5, <1>6, <1>7, <1>8, <1>9, <1>10, <1>11, <1>12, <1>13, <1>14, <1>15, <1>16 DEF IInv

\* A StrongPtr is made from a WeakPtr while no cache is being destroyed.
LEMMA RevivePoolKeeps ==
  ASSUME IInv, NEW t \in Thread, CalmRevival(t)
  PROVE  IInv'
<1>d. /\ Idle(t) /\ held[t].weak /\ ~held[t].strong /\ Destroying = {} /\ UNCHANGED todo
      /\ pool' = [pool EXCEPT !.strong = pool.strong + 1, !.weak = IF pool.strong = 0 THEN pool.weak + 1 ELSE pool.weak]
      /\ cache' = [c \in Cache |-> IF c \in caches /\ pool.strong = 0 THEN WithBit(cache[c], 1) ELSE cache[c]]
      /\ held' = [held EXCEPT ![t].strong = TRUE]
      /\ UNCHANGED << caches, entry, weak, queue, lru, victims >>
  BY DEF CalmRevival, RevivePool
<1>w. pool.strong \in Nat /\ pool.weak \in Nat BY Records DEF PoolRec
<1>p. /\ pool' \in PoolRec /\ pool'.strong = pool.strong + 1 /\ pool'.live = pool.live
      /\ pool'.weak = (IF pool.strong = 0 THEN pool.weak + 1 ELSE pool.weak)
      /\ pool'.total = pool.total /\ pool'.limit = pool.limit
  <2>1. PICK n \in Nat : n = pool.strong + 1 BY <1>w
  <2>2. PICK k \in Nat : k = IF pool.strong = 0 THEN pool.weak + 1 ELSE pool.weak BY <1>w
  <2>3. pool' = [pool EXCEPT !.strong = n, !.weak = k] BY <1>d, <2>1, <2>2
  <2>4. /\ pool' \in PoolRec /\ pool'.strong = n /\ pool'.live = pool.live /\ pool'.weak = k
        /\ pool'.total = pool.total /\ pool'.limit = pool.limit
    BY Parts, <2>3, PoolBoth
  <2>. QED BY <2>1, <2>2, <2>4
<1>h. /\ held' \in [Thread -> HeldRec] /\ held'[t].strong
      /\ held'[t].weak = held[t].weak /\ held'[t].cache = held[t].cache
      /\ held'[t].entry = held[t].entry /\ held'[t].weakentry = held[t].weakentry
      /\ \A u \in Thread : u # t => held'[u] = held[u]
  BY Parts, <1>d, HeldFields
<1>e. OnlyTodo(t) /\ Alone(todo[t], "none", None) /\ Alone(todo'[t], "none", None)
  BY Parts, <1>d, StaysIdle, StepFields, StepEq, IsStep DEF Inner
<1>m. Moves(t) BY <1>d, <1>e, <1>h DEF Moves
<1>f. PICK S : S = {c \in caches : pool.strong = 0} OBVIOUS
<1>c. /\ \A z \in Cache : z \notin S => cache'[z] = cache[z]
      /\ \A z \in Cache : z \in S => cache'[z].bit = 1 /\ cache'[z] = WithBit(cache[z], 1)
      /\ \A z \in Cache : /\ cache'[z].st = cache[z].st /\ cache'[z].ident = cache[z].ident
                          /\ cache'[z].shards = cache[z].shards /\ cache'[z].strong = cache[z].strong
      /\ cache' \in [Cache -> CacheRec] /\ CachesKept /\ UsedCaches' = UsedCaches
  <2>1. cache' = [z \in Cache |-> IF z \in S THEN WithBit(cache[z], 1) ELSE cache[z]]
    BY <1>d, <1>f
  <2>. QED BY Parts, <2>1, BitFields
<1>b. \A z \in Cache : cache[z].st # "live" => cache'[z] = cache[z]
  BY Parts, <1>c, <1>f DEF TableInv
<1>k. EntriesKept /\ ListedKept /\ VictimsKept /\ CachesKept
  BY Parts, <1>d, <1>c, EntrySame, VictimsUnmoved
<1>q. TodoInv' /\ LruInv' /\ \A d : IsPinned(d)' <=> IsPinned(d)
  BY <1>d, <1>e, <1>m, <1>k, QuietStep DEF VictimsKept
<1>i. \A u \in Thread : Killed(u)' = Killed(u) /\ DoomedIn(victims[u])' = DoomedIn(victims[u])
  BY <1>d, <1>e, <1>m, <1>k, QuietStep DEF VictimsKept
<1>j. \A u \in Thread : Frees(todo[u])' \cap DoomedIn(victims[u])' = {}
  BY <1>d, <1>e, <1>m, <1>k, QuietStep DEF VictimsKept
<1>g. \A z \in Cache : cache[z].st = "live" => (ShouldDelete(cache'[z]) <=> ShouldDelete(cache[z]))
  <2>1. ASSUME NEW z \in Cache, z \in S
        PROVE  ShouldDelete(cache'[z]) <=> ShouldDelete(cache[z])
    <3>1. ASSUME ShouldDelete(cache[z]) PROVE cache[z].shards = 0
      <4>1. cache[z].st = "live" BY Parts, <1>f, <2>1 DEF TableInv
      <4>2. PICK u \in Thread : z \in Killed(u) BY Parts, <3>1, <4>1 DEF KillInv
      <4>3. z \notin Frees(todo[u])
        <5>1. ASSUME z \in Frees(todo[u]) PROVE FALSE
          <6>1. PICK i \in 1 .. Len(todo[u]) : todo[u][i].op = "free" /\ todo[u][i].x = z
            BY <5>1 DEF Frees
          <6>2. todo[u] \in Seq(Steps) BY Parts DEF TodoInv
          <6>3. todo[u][i] \in Steps BY <6>1, <6>2, ElementOfSeq
          <6>4. todo[u][i] = Step("free", z) BY <6>1, <6>3, StepFields
          <6>5. Step("free", z) \in ToSet(todo[u]) BY <6>1, <6>2, <6>4 DEF ToSet
          <6>. QED BY <1>d, <6>5 DEF Destroying
        <5>. QED BY <5>1
      <4>. QED BY Parts, <4>2, <4>3 DEF KillInv, Killed
    <3>2. cache'[z].strong = cache[z].strong /\ cache'[z].shards = cache[z].shards /\ cache'[z].bit = 1
      BY <1>c, <2>1
    <3>. QED BY <3>1, <3>2 DEF ShouldDelete
  <2>2. \A z \in Cache : z \notin S => cache'[z] = cache[z] BY <1>c
  <2>. QED BY <2>1, <2>2
<1>s. /\ PoolWeakPtrs' = PoolWeakPtrs
      /\ PoolWeakReleases' = PoolWeakReleases
      /\ Inserting' = Inserting
      /\ (\A c : CachePtrs(c)' = CachePtrs(c))
      /\ (\A c : CacheReleases(c)' = CacheReleases(c))
      /\ (\A e : Users(e)' = Users(e))
      /\ (\A e : WeakUsers(e)' = WeakUsers(e))
      /\ (\A u \in Thread : \A e : Unmarks(u, e)' <=> Unmarks(u, e))
      /\ (\A u \in Thread : \A e : Marks(u, e)' <=> Marks(u, e))
  BY <1>e, <1>m, <1>d, <1>h, SameSets DEF NeverEnds, Alone
<1>u. \A c : UsedEntries(c)' = UsedEntries(c) BY <1>s, <1>d, UsedKept
<1>v. \A e \in Entry : Marked(e)' <=> Marked(e) BY <1>s, <1>d, MarkedKept
<1>a. /\ Cardinality(PoolUsers') = pool.strong + 1
  <2>1. t \notin PoolUsers /\ t \in PoolUsers'
    BY <1>d, <1>e, <1>h, StepEq DEF PoolUsers, Ends, Alone
  <2>2. Cardinality(PoolUsers) \in Nat /\ Cardinality(PoolUsers) = pool.strong
    BY Parts, Counts DEF PoolCount
  <2>3. Cardinality(PoolUsers') = Cardinality(PoolUsers) + One(t \in PoolUsers') - One(t \in PoolUsers)
    BY <1>m, CountsAt
  <2>. QED BY <2>1, <2>2, <2>3 DEF One
<1>1. HeldInv' BY Parts, <1>d, <1>e, <1>m, HeldOver DEF Alone
<1>2. PoolCount'
  <2>1. /\ pool.strong = Cardinality(PoolUsers) /\ (pool.live <=> pool.weak > 0)
        /\ pool.weak = Cardinality(PoolWeakPtrs) + Cardinality(PoolWeakReleases)
                       + One(pool.strong > 0) + Cardinality(UsedCaches)
    BY Parts DEF PoolCount
  <2>2. /\ Cardinality(PoolUsers) \in Nat /\ Cardinality(PoolWeakPtrs) \in Nat
        /\ Cardinality(PoolWeakReleases) \in Nat /\ Cardinality(UsedCaches) \in Nat
    BY Counts
  <2>3. One(pool'.strong > 0) = 1 /\ One(pool.strong > 0) = (IF pool.strong = 0 THEN 0 ELSE 1)
    BY <1>w, <1>p DEF One
  <2>4. pool.live BY <1>d, PoolLives DEF HasPool
  <2>. QED BY <1>a, <1>c, <1>p, <1>s, <1>w, <2>1, <2>2, <2>3, <2>4 DEF PoolCount
<1>3. CacheCount' BY Parts, <1>d, <1>c, <1>s, <1>u, CacheKept
<1>4. EntryCount' BY Parts, <1>d, <1>q, <1>s, <1>v, EntryKept
<1>5. WeakCount' BY Parts, <1>d, <1>s, WeakCountKept
<1>6. WeakInv' BY Parts, <1>d, <1>s, WeakKept
<1>7. ObjectInv'
  <2>1. Cardinality(Inserting') <= Cardinality(Inserting) BY <1>s, InsertingCount
  <2>. QED BY Parts, <1>d, <1>c, <1>b, <1>k, <2>1, ObjectKept
<1>8. RemoveInv' /\ ShardInv' /\ QueueInv' /\ SizeInv'
  BY <1>c, <1>d, <1>e, <1>m, <1>k, <1>p, QuietEntries
<1>9. KillInv'
  <2>1. \A z \in Cache : (cache'[z].st = "live" /\ ShouldDelete(cache'[z]))
                         <=> (cache[z].st = "live" /\ ShouldDelete(cache[z]))
    BY <1>c, <1>g
  <2>2. \A u \in Thread : \A z \in DoomedIn(victims[u])' : cache'[z].shards = 0
    <3>1. \A u \in Thread : \A z \in DoomedIn(victims[u]) : cache[z].shards = 0 /\ z \in Cache
      BY Parts DEF KillInv, DoomedIn, LruInv, Buffer
    <3>. QED BY <1>c, <1>i, <3>1
  <2>. QED BY Parts, <1>i, <1>j, <2>1, <2>2, KillSame
<1>10. TableInv'
  <2>1. \A z \in caches' : cache'[z].st = "live" /\ cache'[z].ident # Anonymous
    BY Parts, Records, <1>d, <1>c DEF TableInv
  <2>2. \A z, w \in caches' : cache'[z].ident = cache'[w].ident => z = w
    BY Parts, Records, <1>d, <1>c DEF TableInv
  <2>3. \A z \in Cache : cache'[z].st = "live" /\ cache'[z].ident # Anonymous /\ ~ShouldDelete(cache'[z])
                         => z \in caches'
    BY <1>g, <1>d, <1>c, Parts DEF TableInv
  <2>4. \A u \in Thread, z \in Cache : Doing(u, "pin", z)' \/ Doing(u, "free", z)' => z \notin caches'
    <3>1. \A u \in Thread, z \in Cache : u # t => (Doing(u, "pin", z)' <=> Doing(u, "pin", z)) /\ (Doing(u, "free", z)' <=> Doing(u, "free", z))
      BY <1>m DEF Moves, OnlyTodo, Doing
    <3>2. \A z : ~Doing(t, "pin", z)' /\ ~Doing(t, "free", z)'
      BY <1>e, StepEq DEF Doing, Alone, Inner
    <3>. QED BY Parts, <1>d, <3>1, <3>2 DEF TableInv
  <2>5. ASSUME NEW z \in Cache, cache'[z].st = "live", \A u \in Thread : z \notin Killed(u)'
        PROVE  cache'[z].bit = One(z \in caches' /\ pool'.strong > 0)
    <3>1. cache[z].st = "live" /\ \A u \in Thread : z \notin Killed(u) BY <1>c, <1>i, <2>5
    <3>2. cache[z].bit = One(z \in caches /\ pool.strong > 0) BY Parts, <3>1 DEF TableInv
    <3>3. CASE z \in S BY <1>d, <1>f, <1>p, <1>w, <3>3, <1>c DEF One
    <3>4. CASE z \notin S
      <4>1. One(z \in caches' /\ pool'.strong > 0) = One(z \in caches /\ pool.strong > 0)
        BY <1>f, <1>w, <3>4, <1>d, <1>p DEF One
      <4>. QED BY <1>c, <3>2, <3>4, <4>1
    <3>. QED BY <3>3, <3>4
  <2>. QED BY <2>1, <2>2, <2>3, <2>4, <2>5 DEF TableInv, ShouldDelete, One
<1>11. TypeOK' BY Records, <1>d, <1>c, <1>h, <1>p, TypesNext
<1>. QED BY <1>q, <1>1, <1>2, <1>3, <1>4, <1>5, <1>6, <1>7, <1>8, <1>9, <1>10, <1>11 DEF IInv

-----------------------------------------------------------------------------
(* Caches are found and created.                                           *)

\* The pool after its weak count changed.
LEMMA PoolWeak ==
  ASSUME TypeOK, NEW w \in Nat, pool' = [pool EXCEPT !.weak = w]
  PROVE  /\ pool' \in PoolRec /\ pool'.strong = pool.strong /\ pool'.weak = w /\ pool'.live = pool.live
         /\ pool'.total = pool.total /\ pool'.limit = pool.limit /\ pool'.idents = pool.idents
<1>1. \A p \in PoolRec : LET r == [p EXCEPT !.weak = w] IN
         /\ r \in PoolRec /\ r.strong = p.strong /\ r.weak = w /\ r.live = p.live
         /\ r.total = p.total /\ r.limit = p.limit /\ r.idents = p.idents
  BY DEF PoolRec
<1>2. PICK p \in PoolRec : p = pool BY Types
<1>3. PICK r : r = [p EXCEPT !.weak = w] OBVIOUS
<1>4. /\ r \in PoolRec /\ r.strong = p.strong /\ r.weak = w /\ r.live = p.live
      /\ r.total = p.total /\ r.limit = p.limit /\ r.idents = p.idents
  BY <1>1, <1>3
<1>. QED BY <1>2, <1>3, <1>4

\* The threads that create a cache have no other step left.
LEMMA InsertingIs ==
  ASSUME TodoInv
  PROVE  {t \in Thread : At(t, "insert")} = Inserting
<1>1. ASSUME NEW t \in Thread, At(t, "insert") PROVE t \in Inserting
  BY <1>1, AtFirst, Pop DEF Inner, Inserting
<1>2. ASSUME NEW t \in Inserting PROVE t \in Thread /\ At(t, "insert")
  <2>1. t \in Thread /\ Final(todo[t]).op = "insert" BY DEF Inserting
  <2>2. todo[t] \in Seq(Steps) /\ WellFormed(todo[t]) BY <2>1 DEF TodoInv
  <2>3. todo[t] # << >> BY <2>1, NoStepIs DEF Final
  <2>4. First(todo[t]).op \notin Inner BY <2>2, <2>3, <2>1, Pop DEF Follows
  <2>5. Final(todo[t]) = First(todo[t]) BY <2>2, <2>3, <2>4, Pop
  <2>6. First(todo[t]) = Head(todo[t]) BY <2>2, <2>3 DEF First
  <2>. QED BY <2>1, <2>3, <2>5, <2>6 DEF At
<1>. QED BY <1>1, <1>2

\* A cache of the table is acquired.
LEMMA AcquireCacheKeeps ==
  ASSUME IInv, NEW t \in Thread, NEW c \in caches, ~ShouldDelete(cache[c]), HasPool(t), held[t].cache = None,
         NEW o \in {"none", "insert"}, NEW x, Alone(todo[t], o, x), Alone(todo'[t], "none", None), OnlyTodo(t),
         cache' = [cache EXCEPT ![c].strong = cache[c].strong + 1],
         pool' = [pool EXCEPT !.weak = IF cache[c].strong = 0 THEN pool.weak + 1 ELSE pool.weak],
         held' = [held EXCEPT ![t].cache = c],
         UNCHANGED << caches, entry, weak, queue, lru, victims >>
  PROVE  IInv'
<1>d. /\ cache' = [cache EXCEPT ![c].strong = cache[c].strong + 1] /\ HasPool(t) /\ held[t].cache = None
      /\ held' = [held EXCEPT ![t].cache = c] /\ o \in {"none", "insert"}
      /\ UNCHANGED << caches, entry, weak, queue, lru, victims >>
  OBVIOUS
<1>e. OnlyTodo(t) /\ Alone(todo[t], o, x) /\ Alone(todo'[t], "none", None) OBVIOUS
<1>f. c \in Cache /\ c \in Cache \cup {None} BY Records
<1>h. /\ held' \in [Thread -> HeldRec] /\ held'[t].cache = c
      /\ held'[t].strong = held[t].strong /\ held'[t].weak = held[t].weak
      /\ held'[t].entry = held[t].entry /\ held'[t].weakentry = held[t].weakentry
      /\ \A u \in Thread : u # t => held'[u] = held[u]
  BY Parts, <1>d, <1>f, HeldFields
<1>m. Moves(t) BY <1>d, <1>e, <1>h DEF Moves
<1>w. pool.weak \in Nat BY Records DEF PoolRec
<1>a. cache[c].strong \in Nat /\ cache[c].st = "live"
  BY Parts, Records, <1>f DEF CacheRec, TableInv
<1>l. cache[c].st = "live" /\ ~ShouldDelete(cache[c]) BY <1>a
<1>c. /\ \A z \in Cache : z # c => cache'[z] = cache[z]
      /\ cache'[c].strong = cache[c].strong + 1
      /\ \A z \in Cache : /\ cache'[z].st = cache[z].st /\ cache'[z].ident = cache[z].ident
                          /\ cache'[z].shards = cache[z].shards /\ cache'[z].bit = cache[z].bit
      /\ cache' \in [Cache -> CacheRec] /\ CachesKept
  <2>1. cache[c].strong + 1 \in Nat BY <1>a
  <2>. QED BY Parts, <1>d, <1>f, <2>1, CacheStrong
<1>p. /\ pool' \in PoolRec /\ pool'.strong = pool.strong /\ pool'.live = pool.live
      /\ pool'.weak = (IF cache[c].strong = 0 THEN pool.weak + 1 ELSE pool.weak)
      /\ pool'.total = pool.total /\ pool'.limit = pool.limit
  <2>1. PICK k \in Nat : k = IF cache[c].strong = 0 THEN pool.weak + 1 ELSE pool.weak BY <1>w
  <2>2. pool' = [pool EXCEPT !.weak = k] BY <2>1
  <2>3. /\ pool' \in PoolRec /\ pool'.strong = pool.strong /\ pool'.live = pool.live /\ pool'.weak = k
        /\ pool'.total = pool.total /\ pool'.limit = pool.limit
    BY Parts, <2>2, PoolWeak
  <2>. QED BY <2>1, <2>3
<1>k. EntriesKept /\ ListedKept /\ VictimsKept /\ CachesKept
  BY Parts, <1>d, <1>c, EntrySame, VictimsUnmoved
<1>q. TodoInv' /\ LruInv' /\ \A d : IsPinned(d)' <=> IsPinned(d)
  BY <1>d, <1>e, <1>m, <1>k, QuietStep DEF VictimsKept
<1>s. /\ PoolUsers' = PoolUsers
      /\ PoolWeakPtrs' = PoolWeakPtrs
      /\ PoolWeakReleases' = PoolWeakReleases
      /\ (\A cc : CacheReleases(cc)' = CacheReleases(cc))
      /\ (\A e : Users(e)' = Users(e))
      /\ (\A e : WeakUsers(e)' = WeakUsers(e))
      /\ (\A u \in Thread : \A e : Unmarks(u, e)' <=> Unmarks(u, e))
      /\ (\A u \in Thread : \A e : Marks(u, e)' <=> Marks(u, e))
  BY <1>e, <1>m, <1>d, <1>h, SameSets DEF NeverEnds, Alone
<1>u. \A cc : UsedEntries(cc)' = UsedEntries(cc) BY <1>s, <1>d, UsedKept
<1>v. \A e \in Entry : Marked(e)' <=> Marked(e) BY <1>s, <1>d, MarkedKept
<1>j. t \notin Inserting' /\ Cardinality(Inserting') \in Nat /\ Cardinality(Inserting) \in Nat
      /\ Cardinality(Inserting') <= Cardinality(Inserting)
  <2>1. t \notin Inserting' BY <1>e DEF Inserting, Alone
  <2>2. Cardinality(Inserting') = Cardinality(Inserting) + One(t \in Inserting') - One(t \in Inserting)
    BY <1>m, CountsAt
  <2>3. Inserting \in SUBSET Thread /\ Inserting' \in SUBSET Thread BY DEF Inserting
  <2>4. Cardinality(Inserting') \in Nat /\ Cardinality(Inserting) \in Nat BY <2>3, ThreadsFinite
  <2>. QED BY <2>1, <2>2, <2>4 DEF One
<1>g. Cardinality(UsedCaches') = Cardinality(UsedCaches) + (IF cache[c].strong = 0 THEN 1 ELSE 0)
  <2>1. /\ c \in UsedCaches' /\ (c \in UsedCaches <=> cache[c].strong # 0)
        /\ \A z \in Cache : z # c => (z \in UsedCaches <=> z \in UsedCaches')
    BY <1>a, <1>c, <1>f DEF UsedCaches
  <2>2. Cardinality(UsedCaches') = Cardinality(UsedCaches) + One(c \in UsedCaches') - One(c \in UsedCaches)
    BY <2>1, CachesChange DEF UsedCaches
  <2>3. Cardinality(UsedCaches) \in Nat BY Counts
  <2>. QED BY <2>1, <2>2, <2>3 DEF One
<1>1. HeldInv' BY <1>e, <1>m, StepEq, Parts, HeldOver DEF Ends, Alone
<1>2. PoolCount'
  <2>1. /\ pool.strong = Cardinality(PoolUsers) /\ (pool.live <=> pool.weak > 0)
        /\ pool.weak = Cardinality(PoolWeakPtrs) + Cardinality(PoolWeakReleases)
                       + One(pool.strong > 0) + Cardinality(UsedCaches)
    BY Parts DEF PoolCount
  <2>2. /\ Cardinality(PoolUsers) \in Nat /\ Cardinality(PoolWeakPtrs) \in Nat
        /\ Cardinality(PoolWeakReleases) \in Nat /\ Cardinality(UsedCaches) \in Nat
    BY Counts
  <2>3. One(pool'.strong > 0) = One(pool.strong > 0) /\ One(pool.strong > 0) \in {0, 1}
    BY <1>p DEF One
  <2>4. pool.live BY <1>d, PoolLives
  <2>. QED BY <1>g, <1>p, <1>s, <1>w, <2>1, <2>2, <2>3, <2>4 DEF PoolCount
<1>3. CacheCount'
  <2>. SUFFICES ASSUME NEW d \in Cache
               PROVE  (cache[d].strong = Cardinality(CachePtrs(d)) + Cardinality(CacheReleases(d))
                                         + Cardinality(UsedEntries(d)))'
    BY DEF CacheCount
  <2>1. cache[d].strong = Cardinality(CachePtrs(d)) + Cardinality(CacheReleases(d))
                          + Cardinality(UsedEntries(d))
    BY Parts DEF CacheCount
  <2>2. /\ Cardinality(CachePtrs(d)) \in Nat /\ Cardinality(CacheReleases(d)) \in Nat
        /\ Cardinality(UsedEntries(d)) \in Nat
    BY Counts
  <2>3. /\ t \notin CachePtrs(d) /\ (t \in CachePtrs(d)' <=> d = c)
        /\ Cardinality(CachePtrs(d)') = Cardinality(CachePtrs(d)) + One(t \in CachePtrs(d)') - One(t \in CachePtrs(d))
    <3>1. None # d BY ConstantsAssumption DEF Cache, None
    <3>2. t \notin CachePtrs(d) BY <1>d, <3>1 DEF CachePtrs
    <3>3. t \in CachePtrs(d)' <=> d = c BY <1>h DEF CachePtrs
    <3>4. Cardinality(CachePtrs(d)') = Cardinality(CachePtrs(d)) + One(t \in CachePtrs(d)') - One(t \in CachePtrs(d))
      BY <1>m, CountsAt
    <3>. QED BY <3>2, <3>3, <3>4
  <2>4. CacheReleases(d)' = CacheReleases(d) /\ UsedEntries(d)' = UsedEntries(d) BY <1>s, <1>u
  <2>5. CASE d = c BY <2>2, <2>3, <2>5, <1>c, <2>1, <2>4 DEF One
  <2>6. CASE d # c BY <2>2, <2>3, <2>6, <1>c, <2>1, <2>4 DEF One
  <2>. QED BY <2>5, <2>6
<1>4. EntryCount' BY Parts, <1>d, <1>q, <1>s, <1>v, EntryKept
<1>5. WeakCount' BY Parts, <1>d, <1>s, WeakCountKept
<1>6. WeakInv' BY Parts, <1>d, <1>s, WeakKept
<1>7. ObjectInv' BY Parts, <1>d, <1>c, <1>l, <1>k, <1>j, ObjectKept
<1>8. RemoveInv' /\ ShardInv' /\ QueueInv' /\ SizeInv'
  BY <1>c, <1>d, <1>e, <1>m, <1>k, <1>p, QuietEntries
<1>9. KillInv' /\ TableInv'
  <2>1. \A z \in Cache : ShouldDelete(cache'[z]) <=> ShouldDelete(cache[z])
    BY <1>a, <1>c, <1>f, <1>l DEF ShouldDelete
  <2>2. \A z \in Cache : cache'[z].shards = cache[z].shards /\ cache'[z].bit = cache[z].bit
    BY <1>c
  <2>. QED BY <1>d, <1>e, <1>m, <1>k, <1>p, <2>1, <2>2, QuietCaches
<1>10. TypeOK' BY Records, <1>d, <1>c, <1>h, <1>p, TypesNext
<1>. QED BY <1>q, <1>1, <1>2, <1>3, <1>4, <1>5, <1>6, <1>7, <1>8, <1>9, <1>10 DEF IInv

\* No cache can be acquired: one will be created.
LEMMA StartInsertKeeps ==
  ASSUME IInv, NEW t \in Thread, Idle(t), HasPool(t), held[t].cache = None, NEW i \in Ident,
         \A c \in InTable(i) : ShouldDelete(cache[c]), RoomForCache, caches' = caches \ InTable(i),
         Start(t, << Step("insert", i) >>),
         UNCHANGED << pool, cache, entry, weak, queue, lru, victims, held >>
  PROVE  IInv'
<1>d. /\ Idle(t) /\ HasPool(t) /\ held[t].cache = None /\ caches' = caches \ InTable(i)
      /\ Start(t, << Step("insert", i) >>)
      /\ UNCHANGED << pool, cache, entry, weak, queue, lru, victims, held >>
  OBVIOUS
<1>e. OnlyTodo(t) /\ Alone(todo[t], "none", None) /\ Alone(todo'[t], "insert", i)
  BY Parts, <1>d, Starts, StepFields, StepEq, IsStep DEF Inner
<1>m. Moves(t) BY <1>d, <1>e, MovesOnly
<1>k. EntriesKept /\ ListedKept /\ CachesKept /\ VictimsKept /\ UsedCaches' = UsedCaches
  BY Parts, <1>d, EntrySame, CacheSame, VictimsUnmoved
<1>q. TodoInv' /\ LruInv' /\ \A c : IsPinned(c)' <=> IsPinned(c)
  BY <1>d, <1>e, <1>m, <1>k, QuietStep DEF VictimsKept
<1>s. /\ PoolUsers' = PoolUsers
      /\ PoolWeakPtrs' = PoolWeakPtrs
      /\ PoolWeakReleases' = PoolWeakReleases
      /\ (\A c : CachePtrs(c)' = CachePtrs(c))
      /\ (\A c : CacheReleases(c)' = CacheReleases(c))
      /\ (\A e : Users(e)' = Users(e))
      /\ (\A e : WeakUsers(e)' = WeakUsers(e))
      /\ (\A u \in Thread : \A e : Unmarks(u, e)' <=> Unmarks(u, e))
      /\ (\A u \in Thread : \A e : Marks(u, e)' <=> Marks(u, e))
  BY <1>e, <1>m, <1>d, SameSets DEF NeverEnds, Alone
<1>u. \A c : UsedEntries(c)' = UsedEntries(c) BY <1>s, <1>d, UsedKept
<1>v. \A e \in Entry : Marked(e)' <=> Marked(e) BY <1>s, <1>d, MarkedKept
<1>i. \A u \in Thread : Killed(u)' = Killed(u) /\ DoomedIn(victims[u])' = DoomedIn(victims[u])
  BY <1>d, <1>e, <1>m, <1>k, QuietStep DEF VictimsKept
<1>j. \A u \in Thread : Frees(todo[u])' \cap DoomedIn(victims[u])' = {}
  BY <1>d, <1>e, <1>m, <1>k, QuietStep DEF VictimsKept
<1>f. \A z \in caches : (z \in caches' <=> ~(cache[z].ident = i)) /\ (z \notin caches' => ShouldDelete(cache[z]))
  BY <1>d DEF InTable
<1>1. HeldInv'
  <2>1. \A op, z : Ends(t, op, z)' <=> op = "insert" /\ z = i BY <1>e, StepEq DEF Ends, Alone
  <2>2. HeldAt(t)' BY <1>d, <2>1 DEF HeldAt, Holds, HasPool
  <2>. QED BY Parts, <1>m, <2>2, HeldKept
<1>2. PoolCount' BY Parts, <1>d, <1>k, <1>s, PoolKept
<1>3. CacheCount' BY Parts, <1>d, <1>s, <1>u, CacheKept
<1>4. EntryCount' BY Parts, <1>d, <1>q, <1>s, <1>v, EntryKept
<1>5. WeakCount' BY Parts, <1>d, <1>s, WeakCountKept
<1>6. WeakInv' BY Parts, <1>d, <1>s, WeakKept
<1>7. ObjectInv'
  <2>1. Cardinality(Inserting') <= Cardinality(FreshCaches')
    <3>1. Cardinality(FreshCaches) > Cardinality(Inserting)
      BY Parts, InsertingIs DEF RoomForCache
    <3>2. FreshCaches' = FreshCaches BY <1>d DEF FreshCaches
    <3>3. Inserting \in SUBSET Thread /\ FreshCaches \in SUBSET Cache
      BY DEF Inserting, FreshCaches
    <3>4. Cardinality(Inserting) \in Nat /\ Cardinality(FreshCaches) \in Nat
      BY <3>3, ThreadsFinite, CachesFinite
    <3>5. Cardinality(Inserting') = Cardinality(Inserting) + One(t \in Inserting') - One(t \in Inserting)
      BY <1>m, CountsAt
    <3>6. t \notin Inserting BY <1>e DEF Inserting, Alone
    <3>7. One(t \in Inserting) = 0 /\ One(t \in Inserting') \in {0, 1} BY <3>6 DEF One
    <3>. QED BY <3>1, <3>2, <3>4, <3>5, <3>7
  <2>2. Cardinality(FreshCaches') \in Nat /\ Cardinality(Inserting') \in Nat
    BY ThreadsFinite, CachesFinite DEF Inserting, FreshCaches
  <2>. QED BY Parts, <1>d, <2>1, <2>2 DEF ObjectInv
<1>8. RemoveInv' /\ ShardInv' /\ QueueInv' /\ SizeInv' BY <1>d, <1>e, <1>m, <1>k, QuietEntries
<1>9. KillInv' BY <1>d, <1>i, <1>j, Parts, KillSame DEF KillInv
<1>10. TableInv'
  <2>1. \A z \in caches' : cache'[z].st = "live" /\ cache'[z].ident # Anonymous
    BY Parts, <1>d DEF TableInv
  <2>2. \A z, w \in caches' : cache'[z].ident = cache'[w].ident => z = w
    BY Parts, <1>d DEF TableInv
  <2>3. \A z \in Cache : cache'[z].st = "live" /\ cache'[z].ident # Anonymous /\ ~ShouldDelete(cache'[z])
                         => z \in caches'
    BY Parts, <1>d, <1>f DEF TableInv
  <2>4. \A u \in Thread, z \in Cache : Doing(u, "pin", z)' \/ Doing(u, "free", z)' => z \notin caches'
    <3>1. \A u \in Thread, z \in Cache : u # t => (Doing(u, "pin", z)' <=> Doing(u, "pin", z)) /\ (Doing(u, "free", z)' <=> Doing(u, "free", z))
      BY <1>m DEF Moves, OnlyTodo, Doing
    <3>2. \A z : ~Doing(t, "pin", z)' /\ ~Doing(t, "free", z)'
      BY <1>e, StepEq DEF Doing, Alone, Inner
    <3>. QED BY Parts, <1>d, <3>1, <3>2 DEF TableInv
  <2>5. ASSUME NEW z \in Cache, cache'[z].st = "live", \A u \in Thread : z \notin Killed(u)'
        PROVE  cache'[z].bit = One(z \in caches' /\ pool'.strong > 0)
    <3>1. cache[z].st = "live" /\ \A u \in Thread : z \notin Killed(u) BY <1>d, <1>i, <2>5
    <3>2. cache[z].bit = One(z \in caches /\ pool.strong > 0) /\ ~ShouldDelete(cache[z])
      BY Parts, <3>1 DEF TableInv, KillInv
    <3>3. z \in caches' <=> z \in caches BY <1>d, <1>f, <3>2
    <3>. QED BY <1>d, <3>2, <3>3 DEF One
  <2>. QED BY <2>1, <2>2, <2>3, <2>4, <2>5 DEF TableInv, ShouldDelete, One
<1>11. TypeOK' BY Records, <1>d, TypesNext
<1>. QED BY <1>q, <1>1, <1>2, <1>3, <1>4, <1>5, <1>6, <1>7, <1>8, <1>9, <1>10, <1>11 DEF IInv

\* The fields of a new cache.
LEMMA NewFields ==
  ASSUME TypeOK, NEW c \in Cache, NEW i \in Ident \cup {Anonymous}, NEW b \in 0 .. 1,
         cache' = [cache EXCEPT ![c] = NewCache(i, b)]
  PROVE  /\ \A d \in Cache : d # c => cache'[d] = cache[d]
         /\ cache'[c].st = "live" /\ cache'[c].ident = i /\ cache'[c].strong = 1
         /\ cache'[c].shards = 0 /\ cache'[c].bit = b
         /\ cache' \in [Cache -> CacheRec]
<1>0. cache \in [Cache -> CacheRec] BY Types
<1>1. PICK r : r = NewCache(i, b) OBVIOUS
<1>2. /\ r.st = "live" /\ r.ident = i /\ r.strong = 1 /\ r.shards = 0 /\ r.bit = b
      /\ r \in CacheRec
  BY <1>1 DEF NewCache, CacheRec, State
<1>3. cache' = [cache EXCEPT ![c] = r] BY <1>1
<1>4. cache'[c] = r /\ \A d \in Cache : d # c => cache'[d] = cache[d] BY <1>0, <1>3
<1>5. cache' \in [Cache -> CacheRec] BY <1>0, <1>2, <1>3
<1>. QED BY <1>2, <1>4, <1>5

\* A cache is created.
LEMMA NewCacheKeeps ==
  ASSUME IInv, NEW t \in Thread, NEW c \in Cache, cache[c].st = "new", HasPool(t), held[t].cache = None,
         NEW o \in {"none", "insert"}, NEW x, Alone(todo[t], o, x), Alone(todo'[t], "none", None), OnlyTodo(t),
         NEW i \in Ident \cup {Anonymous}, NEW b \in 0 .. 1, cache' = [cache EXCEPT ![c] = NewCache(i, b)],
         pool' = [pool EXCEPT !.weak = pool.weak + 1], held' = [held EXCEPT ![t].cache = c],
         \/ i = Anonymous /\ caches' = caches /\ b = 0
         \/ /\ i \in Ident /\ caches' = (caches \ InTable(i)) \cup {c} /\ b = One(pool.strong > 0)
            /\ \A d \in InTable(i) : ShouldDelete(cache[d]),
         Cardinality(FreshCaches) > Cardinality(Inserting'),
         UNCHANGED << entry, weak, queue, lru, victims >>
  PROVE  IInv'
<1>d. /\ cache' = [cache EXCEPT ![c] = NewCache(i, b)] /\ HasPool(t) /\ held[t].cache = None
      /\ held' = [held EXCEPT ![t].cache = c] /\ o \in {"none", "insert"}
      /\ UNCHANGED << entry, weak, queue, lru, victims >>
  OBVIOUS
<1>e. OnlyTodo(t) /\ Alone(todo[t], o, x) /\ Alone(todo'[t], "none", None) OBVIOUS
<1>f. c \in Cache /\ c \in Cache \cup {None} OBVIOUS
<1>b. /\ i = Anonymous \/ i \in Ident
      /\ i = Anonymous => caches' = caches /\ b = 0
      /\ i \in Ident => /\ caches' = (caches \ InTable(i)) \cup {c} /\ b = One(pool.strong > 0)
                        /\ \A d \in InTable(i) : ShouldDelete(cache[d])
      /\ Anonymous \notin Ident
  BY ConstantsAssumption
<1>h. /\ held' \in [Thread -> HeldRec] /\ held'[t].cache = c
      /\ held'[t].strong = held[t].strong /\ held'[t].weak = held[t].weak
      /\ held'[t].entry = held[t].entry /\ held'[t].weakentry = held[t].weakentry
      /\ \A u \in Thread : u # t => held'[u] = held[u]
  BY Parts, <1>d, <1>f, HeldFields
<1>m. Moves(t) BY <1>d, <1>e, <1>h DEF Moves
<1>w. pool.weak \in Nat BY Records DEF PoolRec
<1>a. /\ cache[c].strong = 0 /\ cache[c].shards = 0 /\ cache[c].st = "new" /\ cache[c].st # "live"
  BY NoObject
<1>c. /\ \A z \in Cache : z # c => cache'[z] = cache[z]
      /\ cache'[c].st = "live" /\ cache'[c].ident = i /\ cache'[c].bit = b
      /\ cache'[c].strong = cache[c].strong + 1 /\ cache'[c].strong > 0
      /\ \A z \in Cache : cache'[z].shards = cache[z].shards
      /\ cache' \in [Cache -> CacheRec]
  <2>1. /\ \A z \in Cache : z # c => cache'[z] = cache[z]
        /\ cache'[c].st = "live" /\ cache'[c].ident = i /\ cache'[c].strong = 1
        /\ cache'[c].shards = 0 /\ cache'[c].bit = b
        /\ cache' \in [Cache -> CacheRec]
    BY Parts, <1>d, NewFields
  <2>. QED BY <1>a, <2>1
<1>l. /\ ~ShouldDelete(cache'[c]) /\ c \notin caches /\ \A u \in Thread : c \notin Killed(u)
      /\ \A u \in Thread : ~Doing(u, "pin", c) /\ ~Doing(u, "free", c)
  <2>1. ~ShouldDelete(cache'[c]) BY <1>c DEF ShouldDelete
  <2>2. c \notin caches BY Parts, <1>a DEF TableInv
  <2>3. \A u \in Thread : c \notin Killed(u) BY Parts, <1>a DEF KillInv
  <2>. QED BY Parts, <2>1, <2>2, <2>3, DoingFrees
<1>p. /\ pool' \in PoolRec /\ pool'.strong = pool.strong /\ pool'.live = pool.live
      /\ pool'.weak = pool.weak + 1
      /\ pool'.total = pool.total /\ pool'.limit = pool.limit
  <2>1. PICK k \in Nat : k = pool.weak + 1 BY <1>w
  <2>2. pool' = [pool EXCEPT !.weak = k] BY <2>1
  <2>3. /\ pool' \in PoolRec /\ pool'.strong = pool.strong /\ pool'.live = pool.live /\ pool'.weak = k
        /\ pool'.total = pool.total /\ pool'.limit = pool.limit
    BY Parts, <2>2, PoolWeak
  <2>. QED BY <2>1, <2>3
<1>k. EntriesKept /\ ListedKept /\ VictimsKept BY Parts, <1>d, EntrySame, VictimsUnmoved
<1>q. TodoInv' /\ LruInv' /\ \A d : IsPinned(d)' <=> IsPinned(d)
  BY <1>d, <1>e, <1>m, <1>k, QuietStep DEF VictimsKept
<1>s. /\ PoolUsers' = PoolUsers
      /\ PoolWeakPtrs' = PoolWeakPtrs
      /\ PoolWeakReleases' = PoolWeakReleases
      /\ (\A cc : CacheReleases(cc)' = CacheReleases(cc))
      /\ (\A e : Users(e)' = Users(e))
      /\ (\A e : WeakUsers(e)' = WeakUsers(e))
      /\ (\A u \in Thread : \A e : Unmarks(u, e)' <=> Unmarks(u, e))
      /\ (\A u \in Thread : \A e : Marks(u, e)' <=> Marks(u, e))
  BY <1>e, <1>m, <1>d, <1>h, SameSets DEF NeverEnds, Alone
<1>u. \A cc : UsedEntries(cc)' = UsedEntries(cc) BY <1>s, <1>d, UsedKept
<1>v. \A e \in Entry : Marked(e)' <=> Marked(e) BY <1>s, <1>d, MarkedKept
<1>i. \A u \in Thread : Killed(u)' = Killed(u) /\ DoomedIn(victims[u])' = DoomedIn(victims[u])
  BY <1>d, <1>e, <1>m, <1>k, QuietStep DEF VictimsKept
<1>j. \A u \in Thread : Frees(todo[u])' \cap DoomedIn(victims[u])' = {}
  BY <1>d, <1>e, <1>m, <1>k, QuietStep DEF VictimsKept
<1>g. Cardinality(UsedCaches') = Cardinality(UsedCaches) + 1
  <2>1. /\ c \in UsedCaches' /\ c \notin UsedCaches
        /\ \A z \in Cache : z # c => (z \in UsedCaches <=> z \in UsedCaches')
    BY <1>a, <1>c DEF UsedCaches
  <2>2. Cardinality(UsedCaches') = Cardinality(UsedCaches) + One(c \in UsedCaches') - One(c \in UsedCaches)
    BY <2>1, CachesChange DEF UsedCaches
  <2>3. Cardinality(UsedCaches) \in Nat BY Counts
  <2>. QED BY <2>1, <2>2, <2>3 DEF One
<1>1. HeldInv' BY <1>e, <1>m, StepEq, Parts, HeldOver DEF Ends, Alone
<1>2. PoolCount'
  <2>1. /\ pool.strong = Cardinality(PoolUsers) /\ (pool.live <=> pool.weak > 0)
        /\ pool.weak = Cardinality(PoolWeakPtrs) + Cardinality(PoolWeakReleases)
                       + One(pool.strong > 0) + Cardinality(UsedCaches)
    BY Parts DEF PoolCount
  <2>2. /\ Cardinality(PoolUsers) \in Nat /\ Cardinality(PoolWeakPtrs) \in Nat
        /\ Cardinality(PoolWeakReleases) \in Nat /\ Cardinality(UsedCaches) \in Nat
    BY Counts
  <2>3. One(pool'.strong > 0) = One(pool.strong > 0) /\ One(pool.strong > 0) \in {0, 1}
    BY <1>p DEF One
  <2>4. pool.live BY <1>d, PoolLives
  <2>. QED BY <1>g, <1>p, <1>s, <1>w, <2>1, <2>2, <2>3, <2>4 DEF PoolCount
<1>3. CacheCount'
  <2>. SUFFICES ASSUME NEW d \in Cache
               PROVE  (cache[d].strong = Cardinality(CachePtrs(d)) + Cardinality(CacheReleases(d))
                                         + Cardinality(UsedEntries(d)))'
    BY DEF CacheCount
  <2>1. cache[d].strong = Cardinality(CachePtrs(d)) + Cardinality(CacheReleases(d))
                          + Cardinality(UsedEntries(d))
    BY Parts DEF CacheCount
  <2>2. /\ Cardinality(CachePtrs(d)) \in Nat /\ Cardinality(CacheReleases(d)) \in Nat
        /\ Cardinality(UsedEntries(d)) \in Nat
    BY Counts
  <2>3. /\ t \notin CachePtrs(d) /\ (t \in CachePtrs(d)' <=> d = c)
        /\ Cardinality(CachePtrs(d)') = Cardinality(CachePtrs(d)) + One(t \in CachePtrs(d)') - One(t \in CachePtrs(d))
    <3>1. None # d BY ConstantsAssumption DEF Cache, None
    <3>2. t \notin CachePtrs(d) BY <1>d, <3>1 DEF CachePtrs
    <3>3. t \in CachePtrs(d)' <=> d = c BY <1>h DEF CachePtrs
    <3>4. Cardinality(CachePtrs(d)') = Cardinality(CachePtrs(d)) + One(t \in CachePtrs(d)') - One(t \in CachePtrs(d))
      BY <1>m, CountsAt
    <3>. QED BY <3>2, <3>3, <3>4
  <2>4. CacheReleases(d)' = CacheReleases(d) /\ UsedEntries(d)' = UsedEntries(d) BY <1>s, <1>u
  <2>5. CASE d = c BY <2>2, <2>3, <2>5, <1>c, <2>1, <2>4 DEF One
  <2>6. CASE d # c BY <2>2, <2>3, <2>6, <1>c, <2>1, <2>4 DEF One
  <2>. QED BY <2>5, <2>6
<1>4. EntryCount' BY Parts, <1>d, <1>q, <1>s, <1>v, EntryKept
<1>5. WeakCount' BY Parts, <1>d, <1>s, WeakCountKept
<1>6. WeakInv' BY Parts, <1>d, <1>s, WeakKept
<1>7. ObjectInv'
  <2>1. \A z \in Cache : cache'[z].st # "live" => cache'[z] = [NoCache EXCEPT !.st = cache'[z].st]
    BY Parts, <1>c DEF ObjectInv
  <2>2. /\ \A z \in Entry : entry'[z].st # "live" => entry'[z] = [NoEntry EXCEPT !.st = entry'[z].st]
        /\ \A z \in Entry : entry'[z].st = "live" => entry'[z].cache \in Cache /\ entry'[z].key \in Key
    BY Parts, <1>d DEF ObjectInv
  <2>3. ASSUME NEW z \in Entry, entry'[z].listed
        PROVE  entry'[z].st = "live" /\ cache'[entry'[z].cache].st = "live"
    <3>1. PICK d : d = entry[z].cache OBVIOUS
    <3>2. entry[z].st = "live" /\ d \in Cache /\ cache[d].st = "live"
      BY Parts, <1>d, <2>3, <3>1 DEF ObjectInv
    <3>3. cache'[d].st = "live" BY <1>c, <3>2
    <3>. QED BY <1>d, <3>1, <3>2, <3>3
  <2>4. Cardinality(FreshCaches') = Cardinality(FreshCaches) - 1
    <3>1. c \in FreshCaches /\ c \notin FreshCaches' /\ \A z \in Cache : z # c => (z \in FreshCaches <=> z \in FreshCaches')
      BY <1>a, <1>c DEF FreshCaches
    <3>2. FreshCaches \in SUBSET Cache /\ FreshCaches' \in SUBSET Cache BY DEF FreshCaches
    <3>3. Cardinality(FreshCaches') = Cardinality(FreshCaches) + One(c \in FreshCaches') - One(c \in FreshCaches)
      BY <3>1, <3>2, CachesChange
    <3>4. Cardinality(FreshCaches) \in Nat BY <3>2, CachesFinite
    <3>. QED BY <3>1, <3>3, <3>4 DEF One
  <2>5. Cardinality(FreshCaches) \in Nat /\ Cardinality(Inserting') \in Nat
    BY ThreadsFinite, CachesFinite DEF Inserting, FreshCaches
  <2>6. Cardinality(FreshCaches') >= Cardinality(Inserting') BY <2>4, <2>5
  <2>. QED BY <2>1, <2>2, <2>3, <2>6 DEF ObjectInv
<1>8. RemoveInv' /\ ShardInv' /\ QueueInv' /\ SizeInv'
  BY <1>c, <1>d, <1>e, <1>m, <1>k, <1>p, QuietEntries
<1>9. KillInv'
  <2>1. \A u \in Thread : \A z \in DoomedIn(victims[u])' : cache'[z].shards = 0
    BY <1>c, <1>i, Parts DEF KillInv, DoomedIn, LruInv, Buffer
  <2>2. \A z \in Cache : (cache'[z].st = "live" /\ ShouldDelete(cache'[z])) <=> (cache[z].st = "live" /\ ShouldDelete(cache[z]))
    BY <1>a, <1>c, <1>l
  <2>. QED BY Parts, <1>i, <1>j, <2>1, <2>2, KillSame
<1>10. TableInv'
  <2>0. \A z \in caches : z # c /\ z \in Cache /\ cache'[z] = cache[z] BY <1>c, <1>l, Records
  <2>7. \A z \in caches' : (z = c /\ i \in Ident) \/ (z \in caches /\ (i \in Ident => cache[z].ident # i))
    BY <1>b DEF InTable
  <2>1. \A z \in caches' : cache'[z].st = "live" /\ cache'[z].ident # Anonymous
    BY Parts, <1>b, <1>c, <2>0, <2>7 DEF TableInv
  <2>2. ASSUME NEW z \in caches', NEW w \in caches', cache'[z].ident = cache'[w].ident PROVE z = w
    <3>1. CASE z = c /\ w # c BY <1>c, <2>0, <2>2, <2>7, <3>1
    <3>2. CASE z # c /\ w = c BY <1>c, <2>0, <2>2, <2>7, <3>2
    <3>3. CASE z # c /\ w # c BY <2>2, <2>7, <3>3, <2>0, Parts DEF TableInv
    <3>. QED BY <3>1, <3>2, <3>3
  <2>3. ASSUME NEW z \in Cache, cache'[z].st = "live", cache'[z].ident # Anonymous, ~ShouldDelete(cache'[z])
        PROVE  z \in caches'
    BY <1>b, <1>c, <2>3, Parts DEF TableInv
  <2>4. \A u \in Thread, z \in Cache : Doing(u, "pin", z)' \/ Doing(u, "free", z)' => z \notin caches'
    <3>1. \A u \in Thread, z \in Cache : u # t => (Doing(u, "pin", z)' <=> Doing(u, "pin", z)) /\ (Doing(u, "free", z)' <=> Doing(u, "free", z))
      BY <1>m DEF Moves, OnlyTodo, Doing
    <3>2. \A z : ~Doing(t, "pin", z)' /\ ~Doing(t, "free", z)'
      BY <1>e, StepEq DEF Doing, Alone, Inner
    <3>3. \A u \in Thread, z \in Cache : Doing(u, "pin", z) \/ Doing(u, "free", z) => z \notin caches /\ z # c
      BY Parts, <1>l DEF TableInv
    <3>. QED BY <2>7, <3>1, <3>2, <3>3
  <2>5. ASSUME NEW z \in Cache, cache'[z].st = "live", \A u \in Thread : z \notin Killed(u)'
        PROVE  cache'[z].bit = One(z \in caches' /\ pool'.strong > 0)
    <3>4. CASE z # c
      <4>1. cache[z].st = "live" /\ \A u \in Thread : z \notin Killed(u)
        BY <1>c, <1>i, <2>5, <3>4
      <4>2. cache[z].bit = One(z \in caches /\ pool.strong > 0) /\ ~ShouldDelete(cache[z])
        BY Parts, <4>1 DEF TableInv, KillInv
      <4>3. z \in caches' <=> z \in caches BY <1>b, <3>4, <4>2
      <4>. QED BY <1>c, <1>p, <3>4, <4>2, <4>3 DEF One
    <3>5. CASE z = c /\ i = Anonymous BY <1>b, <1>c, <1>l, <3>5 DEF One
    <3>6. CASE z = c /\ i \in Ident BY <1>b, <3>6, <1>c, <1>p DEF One
    <3>. QED BY <1>b, <3>4, <3>5, <3>6
  <2>. QED BY <2>1, <2>2, <2>3, <2>4, <2>5 DEF TableInv, ShouldDelete, One
<1>11. TypeOK'
  <2>1. caches' \subseteq Cache BY <1>b, <1>f, Records
  <2>. QED BY Records, <1>d, <1>c, <1>h, <1>p, <2>1, TypesNext
<1>. QED BY <1>q, <1>1, <1>2, <1>3, <1>4, <1>5, <1>6, <1>7, <1>8, <1>9, <1>10, <1>11 DEF IInv

-----------------------------------------------------------------------------
(* Entries are found and created.                                          *)

\* An entry that gets its first user holds a reference to its cache.
LEMMA UsedMore ==
  ASSUME NEW e \in Entry, NEW c, entry'[e].cache = c, Users(e)' # {}, Users(e) = {} \/ entry[e].cache = c,
         \A x \in Entry : x # e => Users(x)' = Users(x),
         \A x \in Entry : x # e => entry'[x].cache = entry[x].cache
  PROVE  /\ \A d : d # c => UsedEntries(d)' = UsedEntries(d)
         /\ Cardinality(UsedEntries(c)') = Cardinality(UsedEntries(c)) + One(Users(e) = {})
<1>1. \A d : UsedEntries(d) \in SUBSET Entry /\ UsedEntries(d)' \in SUBSET Entry
  BY DEF UsedEntries
<1>2. \A d : \A x \in Entry : x # e => (x \in UsedEntries(d)' <=> x \in UsedEntries(d))
  BY DEF UsedEntries
<1>3. \A d : (e \in UsedEntries(d)' <=> d = c) /\ (e \in UsedEntries(d) <=> Users(e) # {} /\ d = c)
  BY DEF UsedEntries
<1>4. ASSUME NEW d, d # c PROVE UsedEntries(d)' = UsedEntries(d)
  <2>1. \A x \in Entry : x \in UsedEntries(d)' <=> x \in UsedEntries(d) BY <1>2, <1>3, <1>4
  <2>. QED BY <1>1, <2>1
<1>5. Cardinality(UsedEntries(c)') = Cardinality(UsedEntries(c)) + One(e \in UsedEntries(c)') - One(e \in UsedEntries(c))
  BY <1>1, <1>2, EntriesChange
<1>6. Cardinality(UsedEntries(c)) \in Nat BY Counts
<1>7. e \in UsedEntries(c)' /\ (e \in UsedEntries(c) <=> Users(e) # {}) BY <1>3
<1>. QED BY <1>4, <1>5, <1>6, <1>7 DEF One

\* An entry of the cache is found.
LEMMA HitKeeps ==
  ASSUME IInv, NEW t \in Thread, Idle(t), NEW c \in Cache, held[t].cache = c, held[t].entry = None,
         NEW e \in Entry, entry[e].listed, entry[e].cache = c, NEW n \in Nat,
         n = IF entry[e].refs <= 1 THEN cache[c].strong + 1 ELSE cache[c].strong,
         entry' = [entry EXCEPT ![e].refs = entry[e].refs + 2], cache' = [cache EXCEPT ![c].strong = n],
         held' = [held EXCEPT ![t].entry = e], Start(t, << Step("init", e) >>),
         UNCHANGED << pool, caches, weak, queue, lru, victims >>
  PROVE  IInv'
<1>d. /\ Idle(t) /\ held[t].cache = c /\ held[t].entry = None /\ entry[e].listed /\ entry[e].cache = c
      /\ entry' = [entry EXCEPT ![e].refs = entry[e].refs + 2] /\ cache' = [cache EXCEPT ![c].strong = n]
      /\ held' = [held EXCEPT ![t].entry = e] /\ Start(t, << Step("init", e) >>)
      /\ UNCHANGED << pool, caches, weak, queue, lru, victims >>
  OBVIOUS
<1>f. e \in Entry \cup {None} /\ "init" \notin Inner /\ Step("init", e) \in Steps
  BY IsStep DEF Inner
<1>h. /\ held' \in [Thread -> HeldRec] /\ held'[t].entry = e
      /\ held'[t].strong = held[t].strong /\ held'[t].weak = held[t].weak
      /\ held'[t].cache = held[t].cache /\ held'[t].weakentry = held[t].weakentry
      /\ \A u \in Thread : u # t => held'[u] = held[u]
  BY Parts, <1>d, <1>f, HeldFields
<1>e. OnlyTodo(t) /\ Alone(todo[t], "none", None) /\ Alone(todo'[t], "init", e)
  BY Parts, <1>d, <1>f, Starts, StepFields, StepEq, IsStep DEF Inner
<1>m. Moves(t) BY <1>d, <1>e, <1>h DEF Moves
<1>a. t \notin Users(e) /\ t \in Users(e)' /\ \A z \in Entry : z # e => Users(z)' = Users(z)
  <2>1. \A z \in Entry : None # z BY ConstantsAssumption DEF Entry, None
  <2>2. \A z \in Entry : \A u \in Thread : u # t => (u \in Users(z)' <=> u \in Users(z))
    BY <1>m DEF Moves, OnlyTodo, Users, Ends
  <2>3. \A z \in Entry : t \notin Users(z) /\ (t \in Users(z)' <=> z = e)
    BY <1>d, <1>e, <1>h, <2>1, StepEq DEF Users, Ends, Alone
  <2>. QED BY <2>2, <2>3 DEF Users
<1>o. cache[c].strong \in Nat /\ cache[c].strong > 0 BY <1>d, Referred DEF CachePtrs
<1>l. /\ cache[c].st = "live" /\ ~ShouldDelete(cache[c]) /\ ~IsPinned(c) /\ \A u \in Thread : c \notin Killed(u)
  BY <1>o, UsedCache
<1>b. /\ Cardinality(Users(e)) \in Nat /\ One(Marked(e)) \in {0, 1}
      /\ entry[e].refs = 2 * Cardinality(Users(e)) + One(Marked(e)) /\ entry[e].refs \in Nat
      /\ (entry[e].refs <= 1 <=> Users(e) = {})
      /\ Cardinality(Users(e)') = Cardinality(Users(e)) + 1 /\ Users(e)' # {}
  <2>1. Cardinality(Users(e)) \in Nat /\ (Cardinality(Users(e)) = 0 <=> Users(e) = {}) /\ One(Marked(e)) \in {0, 1}
    BY Counts DEF One
  <2>2. One(entry[e].listed /\ IsPinned(entry[e].cache)) = 0 BY <1>d, <1>l DEF One
  <2>3. entry[e].refs = 2 * Cardinality(Users(e)) + One(Marked(e))
                        + 2 * One(entry[e].listed /\ IsPinned(entry[e].cache))
    BY Parts DEF EntryCount
  <2>4. Cardinality(Users(e)') = Cardinality(Users(e)) + One(t \in Users(e)') - One(t \in Users(e))
    BY <1>m, CountsAt
  <2>5. Cardinality(Users(e)') = Cardinality(Users(e)) + 1 BY <1>a, <2>1, <2>4 DEF One
  <2>6. entry[e].refs = 2 * Cardinality(Users(e)) + One(Marked(e)) /\ entry[e].refs \in Nat
    BY <2>1, <2>2, <2>3
  <2>7. entry[e].refs <= 1 <=> Cardinality(Users(e)) = 0 BY <2>1, <2>6
  <2>8. Users(e)' # {} BY <1>a
  <2>. QED BY <2>1, <2>5, <2>6, <2>7, <2>8
<1>x. /\ \A z \in Entry : z # e => entry'[z] = entry[z]
      /\ entry'[e].refs = entry[e].refs + 2 /\ entry'[e].refs > 0
      /\ \A z \in Entry : /\ entry'[z].st = entry[z].st /\ entry'[z].cache = entry[z].cache
                          /\ entry'[z].key = entry[z].key /\ entry'[z].listed = entry[z].listed
                          /\ entry'[z].bytes = entry[z].bytes
      /\ entry' \in [Entry -> EntryRec] /\ EntriesKept /\ ListedKept
  <2>1. entry[e].refs + 2 \in Nat /\ entry[e].refs + 2 > 0 BY <1>b
  <2>. QED BY Parts, <1>d, <2>1, EntryRefs
<1>c. /\ \A z \in Cache : z # c => cache'[z] = cache[z]
      /\ cache'[c].strong = cache[c].strong + One(Users(e) = {}) /\ cache'[c].strong > 0
      /\ \A z \in Cache : /\ cache'[z].st = cache[z].st /\ cache'[z].ident = cache[z].ident
                          /\ cache'[z].shards = cache[z].shards /\ cache'[z].bit = cache[z].bit
      /\ cache' \in [Cache -> CacheRec] /\ CachesKept
  <2>1. n = cache[c].strong + One(Users(e) = {}) /\ n > 0 BY <1>b, <1>o DEF One
  <2>. QED BY Parts, <1>d, <2>1, CacheStrong, ZenonT(60)
<1>g. entry[e].st = "live" /\ entry[e].listed BY Parts, <1>d DEF ObjectInv
<1>k. CachesKept /\ VictimsKept /\ UsedCaches' = UsedCaches
  BY <1>c, <1>o, <1>d, <1>x, Parts, VictimsUnmoved DEF UsedCaches
<1>q. TodoInv' /\ LruInv' /\ \A d : IsPinned(d)' <=> IsPinned(d)
  BY <1>d, <1>e, <1>m, <1>k, QuietStep DEF VictimsKept
<1>s. /\ PoolUsers' = PoolUsers
      /\ PoolWeakPtrs' = PoolWeakPtrs
      /\ PoolWeakReleases' = PoolWeakReleases
      /\ Inserting' = Inserting
      /\ (\A cc : CachePtrs(cc)' = CachePtrs(cc))
      /\ (\A cc : CacheReleases(cc)' = CacheReleases(cc))
      /\ (\A ee : WeakUsers(ee)' = WeakUsers(ee))
      /\ (\A u \in Thread : \A ee : Unmarks(u, ee)' <=> Unmarks(u, ee))
      /\ (\A u \in Thread : \A ee : Marks(u, ee)' <=> Marks(u, ee))
  BY <1>e, <1>m, <1>d, <1>h, SameSets DEF NeverEnds, Alone
<1>v. \A ee \in Entry : Marked(ee)' <=> Marked(ee) BY <1>s, <1>d, MarkedKept
<1>u. /\ \A d : d # c => UsedEntries(d)' = UsedEntries(d)
      /\ Cardinality(UsedEntries(c)') = Cardinality(UsedEntries(c)) + One(Users(e) = {})
  BY <1>d, <1>x, <1>a, <1>b, UsedMore
<1>1. HeldInv'
  <2>1. \A op, z : Ends(t, op, z)' <=> op = "init" /\ z = e BY <1>e, StepEq DEF Ends, Alone
  <2>2. \A z \in Entry : None # z BY ConstantsAssumption DEF Entry, None
  <2>3. HeldAt(t)' BY <1>h, <2>1, <2>2 DEF HeldAt, Holds, HasPool
  <2>. QED BY Parts, <1>m, <2>3, HeldKept
<1>2. PoolCount' BY Parts, <1>d, <1>k, <1>s, PoolKept
<1>3. CacheCount'
  <2>. SUFFICES ASSUME NEW d \in Cache
               PROVE  (cache[d].strong = Cardinality(CachePtrs(d)) + Cardinality(CacheReleases(d))
                                         + Cardinality(UsedEntries(d)))'
    BY DEF CacheCount
  <2>1. cache[d].strong = Cardinality(CachePtrs(d)) + Cardinality(CacheReleases(d))
                          + Cardinality(UsedEntries(d))
    BY Parts DEF CacheCount
  <2>2. /\ Cardinality(CachePtrs(d)) \in Nat /\ Cardinality(CacheReleases(d)) \in Nat
        /\ Cardinality(UsedEntries(d)) \in Nat
    BY Counts
  <2>3. CachePtrs(d)' = CachePtrs(d) /\ CacheReleases(d)' = CacheReleases(d) BY <1>s
  <2>5. CASE d = c BY <1>u, <2>5, <1>c, <2>1, <2>2, <2>3 DEF One
  <2>6. CASE d # c BY <1>c, <1>u, <2>1, <2>2, <2>3, <2>6
  <2>. QED BY <2>5, <2>6
<1>4. EntryCount'
  <2>1. One(Marked(e))' = One(Marked(e)) BY <1>v DEF One
  <2>2. One(entry[e].listed /\ IsPinned(entry[e].cache))' = 0
    BY <1>d, <1>l, <1>q, <1>x DEF One, IsPinned, Doing
  <2>3. entry'[e].refs = 2 * Cardinality(Users(e)') + One(Marked(e))'
                         + 2 * One(entry[e].listed /\ IsPinned(entry[e].cache))'
    BY <1>b, <1>x, <2>1, <2>2
  <2>4. \A z \in Entry : z # e => /\ entry'[z].refs = entry[z].refs /\ entry'[z].listed = entry[z].listed
                                  /\ entry'[z].cache = entry[z].cache
    BY <1>x
  <2>. QED BY Parts, <1>a, <1>q, <1>v, <2>3, <2>4, EntryChange
<1>5. WeakCount' BY Parts, <1>d, <1>s, WeakCountKept
<1>6. WeakInv' BY Parts, <1>x, <1>d, <1>s, WeakKept
<1>7. ObjectInv'
  <2>1. Cardinality(Inserting') <= Cardinality(Inserting) BY <1>s, InsertingCount
  <2>. QED BY Parts, <1>d, <1>g, <1>l, <1>c, <1>x, <1>k, <2>1, ObjectKept
<1>8. RemoveInv' /\ ShardInv' /\ QueueInv' /\ SizeInv'
  <2>1. /\ \A z \in Entry : entry'[z].bytes = entry[z].bytes
        /\ \A z \in Entry : entry[z].listed /\ entry'[z].refs = 0 => entry[z].refs = 0
        /\ \A z \in Entry : entry[z].st = "live" /\ ~entry[z].listed => entry'[z].refs = entry[z].refs
        /\ \A z \in Cache : cache'[z].shards = cache[z].shards
    BY <1>c, <1>x, <1>g
  <2>. QED BY <1>d, <1>e, <1>m, <1>k, <1>x, <2>1, QuietEntries
<1>9. KillInv' /\ TableInv'
  <2>1. \A z \in Cache : ShouldDelete(cache'[z]) <=> ShouldDelete(cache[z])
    BY <1>c, <1>l DEF ShouldDelete
  <2>2. \A z \in Cache : cache'[z].shards = cache[z].shards /\ cache'[z].bit = cache[z].bit
    BY <1>c
  <2>. QED BY <1>x, <1>d, <1>e, <1>m, <1>k, <2>1, <2>2, QuietCaches
<1>10. TypeOK' BY Records, <1>x, <1>d, <1>c, <1>h, TypesNext
<1>. QED BY <1>q, <1>1, <1>2, <1>3, <1>4, <1>5, <1>6, <1>7, <1>8, <1>9, <1>10 DEF IInv

\* The entry e with the key k is added to the shard `same` of the cache c; m
\* is the number of shards that are no longer empty.
GainsEntry(e, c, k, same, m) ==
    /\ e \in Entry /\ ~entry[e].listed /\ c \in Cache /\ entry'[e].cache = c /\ entry'[e].listed
    /\ \A x \in Entry : x # e => entry'[x] = entry[x]
    /\ entry'[e].key = k
    /\ \A x : x \in same <=> x \in Listed(c) /\ ShardForKey[entry[x].key] = ShardForKey[k]
    /\ m = IF same = {} THEN 1 ELSE 0

\* An entry enters its shard.
LEMMA ShardMore ==
  ASSUME NEW e, NEW c, NEW k, NEW same, NEW m, GainsEntry(e, c, k, same, m)
  PROVE  /\ Listed(c)' = Listed(c) \cup {e}
         /\ \A d : d # c => Listed(d)' = Listed(d) /\ ShardsOf(d)' = ShardsOf(d)
         /\ Cardinality(ShardsOf(c)) \in Nat
         /\ Cardinality(ShardsOf(c)') = Cardinality(ShardsOf(c)) + m
<1>. DEFINE S == Listed(c) \cup {e}
            g == [x \in Entry |-> ShardForKey[entry'[x].key]]
<1>0. /\ e \in Entry /\ ~entry[e].listed /\ c \in Cache /\ entry'[e].cache = c /\ entry'[e].listed
      /\ \A x \in Entry : x # e => entry'[x] = entry[x]
      /\ entry'[e].key = k
      /\ \A x : x \in same <=> x \in Listed(c) /\ ShardForKey[entry[x].key] = ShardForKey[k]
      /\ m = IF same = {} THEN 1 ELSE 0
  BY DEF GainsEntry
<1>. USE <1>0
<1>1. Listed(c)' = S /\ e \notin Listed(c) BY DEF Listed
<1>2. \A d : d # c => Listed(d)' = Listed(d) BY DEF Listed
<1>3. \A d : \A x \in Listed(d) : x \in Entry /\ x # e /\ entry'[x].key = entry[x].key
  BY DEF Listed
<1>4. S \ {e} = Listed(c) /\ S \subseteq Entry /\ e \in S /\ IsFiniteSet(S)
  BY <1>1, EntriesFinite DEF Listed
<1>5. ShardsOf(c)' = {g[x] : x \in S}
  <2>1. ShardsOf(c)' = {ShardForKey[entry'[x].key] : x \in S} BY <1>1 DEF ShardsOf
  <2>2. \A x \in S : ShardForKey[entry'[x].key] = g[x] BY <1>4
  <2>. HIDE DEF S, g
  <2>. QED BY <2>1, <2>2
<1>6. ShardsOf(c) = {g[x] : x \in S \ {e}}
  <2>1. \A x \in Listed(c) : ShardForKey[entry[x].key] = g[x] BY <1>3
  <2>. HIDE DEF S, g
  <2>. QED BY <1>4, <2>1 DEF ShardsOf
<1>7. {x \in S : g[x] = g[e]} = {e} <=> same = {}
  <2>1. g[e] = ShardForKey[k] /\ \A x \in Listed(c) : ShardForKey[entry[x].key] = g[x] /\ x # e
    BY <1>3
  <2>. HIDE DEF g
  <2>. QED BY <2>1
<1>8. \A d : d # c => ShardsOf(d)' = ShardsOf(d) BY <1>2, <1>3 DEF ShardsOf
<1>11. Listed(c)' = Listed(c) \cup {e} BY <1>1
<1>m. m = IF same = {} THEN 1 ELSE 0 OBVIOUS
<1>. HIDE <1>0 DEF g, S
<1>9. /\ Cardinality(Image(g, S)) \in Nat /\ Cardinality(Image(g, S)) > 0
      /\ Cardinality(Image(g, S \ {e})) = Cardinality(Image(g, S)) - One(Alike(g, S, e) = {e})
  BY <1>4, ImageLess
<1>10. Image(g, S) = ShardsOf(c)' /\ Image(g, S \ {e}) = ShardsOf(c) /\ (Alike(g, S, e) = {e} <=> same = {})
  BY <1>5, <1>6, <1>7 DEF Image, Alike
<1>12. Cardinality(ShardsOf(c)') \in Nat /\ Cardinality(ShardsOf(c)') > 0
       /\ Cardinality(ShardsOf(c)) = Cardinality(ShardsOf(c)') - m /\ m \in {0, 1}
  BY <1>9, <1>10, <1>m DEF One
<1>. QED BY <1>2, <1>8, <1>11, <1>12

\* The bytes of an entry that counts from now on, or whose size changes.
LEMMA TotalMore ==
  ASSUME TypeOK, NEW e \in Entry, e \notin Counted, Counted' = Counted \cup {e},
         \A x \in Entry : entry'[x].bytes \in Nat,
         \A x \in Entry : x # e => entry'[x].bytes = entry[x].bytes
  PROVE  TotalBytes(Counted)' = TotalBytes(Counted) + entry'[e].bytes
<1>. DEFINE f == [x \in Entry |-> entry[x].bytes]
            h == [x \in Entry |-> entry'[x].bytes]
<1>1. f \in [Entry -> Nat] /\ h \in [Entry -> Nat] BY DEF TypeOK
<1>2. TotalBytes(Counted) = SumFunctionOnSet(f, Counted)
      /\ TotalBytes(Counted)' = SumFunctionOnSet(h, Counted \cup {e})
  BY DEF TotalBytes
<1>3. Counted \in SUBSET Entry /\ Counted \cup {e} \in SUBSET Entry /\ (Counted \cup {e}) \ {e} = Counted
  BY DEF Counted
<1>4. h[e] = entry'[e].bytes /\ \A x \in Counted : f[x] = h[x] BY <1>3
<1>. HIDE DEF f, h
<1>5. SumFunctionOnSet(f, Counted) = SumFunctionOnSet(h, Counted) BY <1>1, <1>3, <1>4, SumSame
<1>6. /\ SumFunctionOnSet(h, Counted \cup {e}) = h[e] + SumFunctionOnSet(h, (Counted \cup {e}) \ {e})
      /\ SumFunctionOnSet(h, Counted) \in Nat /\ h[e] \in Nat
  BY <1>1, <1>3, SumFacts
<1>7. SumFunctionOnSet(h, Counted \cup {e}) = h[e] + SumFunctionOnSet(h, Counted) BY <1>3, <1>6
<1>8. TotalBytes(Counted)' = h[e] + TotalBytes(Counted) /\ TotalBytes(Counted) \in Nat /\ h[e] \in Nat
  BY <1>2, <1>5, <1>6, <1>7
<1>. QED BY <1>4, <1>8

\* The total when a counted entry changes its size.
LEMMA TotalResized ==
  ASSUME TypeOK, NEW e \in Entry, e \in Counted, Counted' = Counted,
         \A x \in Entry : entry'[x].bytes \in Nat,
         \A x \in Entry : x # e => entry'[x].bytes = entry[x].bytes
  PROVE  /\ TotalBytes(Counted)' = TotalBytes(Counted) - entry[e].bytes + entry'[e].bytes
         /\ TotalBytes(Counted)' \in Nat
<1>. DEFINE f == [x \in Entry |-> entry[x].bytes]
            h == [x \in Entry |-> entry'[x].bytes]
<1>1. f \in [Entry -> Nat] /\ h \in [Entry -> Nat] BY DEF TypeOK
<1>2. TotalBytes(Counted) = SumFunctionOnSet(f, Counted)
      /\ TotalBytes(Counted)' = SumFunctionOnSet(h, Counted)
  BY DEF TotalBytes
<1>3. Counted \in SUBSET Entry /\ Counted \ {e} \in SUBSET Entry BY DEF Counted
<1>4. h[e] = entry'[e].bytes /\ f[e] = entry[e].bytes /\ \A x \in Counted \ {e} : f[x] = h[x]
  BY <1>3
<1>. HIDE DEF f, h
<1>5. SumFunctionOnSet(f, Counted \ {e}) = SumFunctionOnSet(h, Counted \ {e})
  BY <1>1, <1>3, <1>4, SumSame
<1>6. /\ SumFunctionOnSet(f, Counted) = f[e] + SumFunctionOnSet(f, Counted \ {e})
      /\ SumFunctionOnSet(h, Counted) = h[e] + SumFunctionOnSet(h, Counted \ {e})
      /\ SumFunctionOnSet(h, Counted) \in Nat /\ SumFunctionOnSet(f, Counted \ {e}) \in Nat /\ f[e] \in Nat /\ h[e] \in Nat
  BY <1>1, <1>3, SumFacts
<1>. QED BY <1>2, <1>4, <1>5, <1>6

\* The fields of a new entry, and of its cache.
LEMMA NewEntryFields ==
  ASSUME TypeOK, NEW e \in Entry, NEW c \in Cache, NEW k \in Key,
         entry' = [entry EXCEPT ![e] = [st |-> "live", cache |-> c, key |-> k, listed |-> TRUE,
                                        refs |-> 2, bytes |-> 0, init |-> "no"]]
  PROVE  /\ \A x \in Entry : x # e => entry'[x] = entry[x]
         /\ entry'[e].st = "live" /\ entry'[e].cache = c /\ entry'[e].key = k /\ entry'[e].listed
         /\ entry'[e].refs = 2 /\ entry'[e].bytes = 0 /\ entry'[e].init = "no"
         /\ entry' \in [Entry -> EntryRec]
<1>0. entry \in [Entry -> EntryRec] BY Types
<1>1. PICK r : r = [st |-> "live", cache |-> c, key |-> k, listed |-> TRUE, refs |-> 2, bytes |-> 0, init |-> "no"]
  OBVIOUS
<1>2. /\ r.st = "live" /\ r.cache = c /\ r.key = k /\ r.listed
      /\ r.refs = 2 /\ r.bytes = 0 /\ r.init = "no" /\ r \in EntryRec
  BY <1>1 DEF EntryRec, State
<1>3. entry' = [entry EXCEPT ![e] = r] BY <1>1
<1>4. entry'[e] = r /\ \A x \in Entry : x # e => entry'[x] = entry[x] BY <1>0, <1>3
<1>5. entry' \in [Entry -> EntryRec] BY <1>0, <1>2, <1>3
<1>. QED BY <1>2, <1>4, <1>5

\* The cache of the new entry.
LEMMA CacheBoth ==
  ASSUME TypeOK, NEW c \in Cache, NEW s \in Nat, NEW n \in Nat,
         NEW q, q = [cache[c] EXCEPT !.strong = s, !.shards = n], cache' = [cache EXCEPT ![c] = q]
  PROVE  /\ \A d \in Cache : d # c => cache'[d] = cache[d]
         /\ cache'[c].strong = s /\ cache'[c].shards = n
         /\ \A d \in Cache : /\ cache'[d].st = cache[d].st /\ cache'[d].ident = cache[d].ident
                             /\ cache'[d].bit = cache[d].bit
         /\ cache' \in [Cache -> CacheRec] /\ CachesKept
<1>0. cache \in [Cache -> CacheRec] BY Types
<1>1. \A r \in CacheRec : LET p == [r EXCEPT !.strong = s, !.shards = n] IN
         /\ p \in CacheRec /\ p.st = r.st /\ p.ident = r.ident /\ p.bit = r.bit
         /\ p.strong = s /\ p.shards = n
  BY DEF CacheRec
<1>2. PICK r \in CacheRec : r = cache[c] BY <1>0
<1>3. q = [r EXCEPT !.strong = s, !.shards = n] BY <1>2
<1>4. /\ q \in CacheRec /\ q.st = r.st /\ q.ident = r.ident /\ q.bit = r.bit
      /\ q.strong = s /\ q.shards = n
  BY <1>1, <1>3
<1>6. cache'[c] = q /\ (\A d \in Cache : d # c => cache'[d] = cache[d]) /\ cache' \in [Cache -> CacheRec]
  BY <1>0, <1>4
<1>. QED BY <1>2, <1>4, <1>6 DEF CachesKept

\* An entry is created.
LEMMA NewEntryKeeps ==
  ASSUME IInv, NEW t \in Thread, Idle(t), NEW c \in Cache, held[t].cache = c, held[t].entry = None,
         NEW e \in Entry, entry[e].st = "new", NEW k \in Key, NEW n \in Nat, NEW m \in Nat,
         \A z \in Entry : z # e => entry'[z] = entry[z], entry' \in [Entry -> EntryRec],
         entry'[e].st = "live", entry'[e].cache = c, entry'[e].key = k, entry'[e].listed,
         entry'[e].refs = 2, entry'[e].bytes = 0,
         \A z \in Cache : z # c => cache'[z] = cache[z], cache' \in [Cache -> CacheRec],
         cache'[c].strong = cache[c].strong + 1, cache'[c].shards = n, n = cache[c].shards + m, CachesKept,
         \A z \in Cache : /\ cache'[z].st = cache[z].st /\ cache'[z].ident = cache[z].ident
                          /\ cache'[z].bit = cache[z].bit,
         Cardinality(ShardsOf(c)') = Cardinality(ShardsOf(c)) + m,
         \A d : d # c => ShardsOf(d)' = ShardsOf(d),
         held' = [held EXCEPT ![t].entry = e], Start(t, << Step("init", e) >>),
         UNCHANGED << pool, caches, weak, queue, lru, victims >>
  PROVE  IInv'
<1>d. /\ Idle(t) /\ held[t].cache = c /\ held[t].entry = None
      /\ held' = [held EXCEPT ![t].entry = e] /\ Start(t, << Step("init", e) >>)
      /\ UNCHANGED << pool, caches, weak, queue, lru, victims >>
  OBVIOUS
<1>f. e \in Entry \cup {None} /\ "init" \notin Inner /\ Step("init", e) \in Steps
  BY IsStep DEF Inner
<1>h. /\ held' \in [Thread -> HeldRec] /\ held'[t].entry = e
      /\ held'[t].strong = held[t].strong /\ held'[t].weak = held[t].weak
      /\ held'[t].cache = held[t].cache /\ held'[t].weakentry = held[t].weakentry
      /\ \A u \in Thread : u # t => held'[u] = held[u]
  BY Parts, <1>d, <1>f, HeldFields
<1>e. OnlyTodo(t) /\ Alone(todo[t], "none", None) /\ Alone(todo'[t], "init", e)
  BY Parts, <1>d, <1>f, Starts, StepFields, StepEq, IsStep DEF Inner
<1>m. Moves(t) BY <1>d, <1>e, <1>h DEF Moves
<1>a. t \notin Users(e) /\ t \in Users(e)' /\ \A z \in Entry : z # e => Users(z)' = Users(z)
  <2>1. \A z \in Entry : None # z BY ConstantsAssumption DEF Entry, None
  <2>2. \A z \in Entry : \A u \in Thread : u # t => (u \in Users(z)' <=> u \in Users(z))
    BY <1>m DEF Moves, OnlyTodo, Users, Ends
  <2>3. \A z \in Entry : t \notin Users(z) /\ (t \in Users(z)' <=> z = e)
    BY <1>d, <1>e, <1>h, <2>1, StepEq DEF Users, Ends, Alone
  <2>. QED BY <2>2, <2>3 DEF Users
<1>o. cache[c].strong \in Nat /\ cache[c].strong > 0 BY <1>d, Referred DEF CachePtrs
<1>l. /\ cache[c].st = "live" /\ ~ShouldDelete(cache[c]) /\ ~IsPinned(c) /\ \A u \in Thread : c \notin Killed(u)
  BY <1>o, UsedCache
<1>b. /\ Users(e) = {} /\ ~Marked(e) /\ Cardinality(Users(e)') = 1 /\ Users(e)' # {}
      /\ entry[e].st = "new" /\ entry[e].st # "live" /\ entry[e].refs = 0 /\ ~entry[e].listed /\ entry[e].bytes = 0
      /\ weak[e].st = "new" /\ weak[e].n = 0 /\ ~weak[e].entry /\ weak[e].mutex = None
  <2>1. entry[e].st # "live" /\ entry[e].st = "new" OBVIOUS
  <2>2. entry[e].refs = 0 /\ ~entry[e].listed /\ entry[e].bytes = 0 BY <2>1, NoObject
  <2>3. Users(e) = {} /\ ~Marked(e) BY <2>2, Unreferenced
  <2>4. weak[e].st = "new" BY Parts, <2>1 DEF WeakInv
  <2>5. weak[e].n = 0 /\ ~weak[e].entry /\ weak[e].mutex = None BY <2>4, NoObject
  <2>6. Cardinality(Users(e)') = Cardinality(Users(e)) + One(t \in Users(e)') - One(t \in Users(e))
    BY <1>m, CountsAt
  <2>7. Cardinality(Users(e)) = 0 BY <2>3, Counts
  <2>8. Cardinality(Users(e)') = 1 BY <1>a, <2>6, <2>7 DEF One
  <2>9. Users(e)' # {} BY <1>a
  <2>. QED BY <2>1, <2>2, <2>3, <2>4, <2>5, <2>8, <2>9
<1>x. /\ \A z \in Entry : z # e => entry'[z] = entry[z]
      /\ entry'[e].st = "live" /\ entry'[e].cache = c /\ entry'[e].key = k /\ entry'[e].listed
      /\ entry'[e].refs = 2 /\ entry'[e].bytes = 0
      /\ entry' \in [Entry -> EntryRec]
  OBVIOUS
<1>i. /\ Cardinality(ShardsOf(c)') = Cardinality(ShardsOf(c)) + m
      /\ \A d : d # c => ShardsOf(d)' = ShardsOf(d)
  OBVIOUS
<1>j. n = cache[c].shards + m /\ cache[c].shards = Cardinality(ShardsOf(c))
  BY Parts, <1>l DEF ShardInv
<1>c. /\ \A z \in Cache : z # c => cache'[z] = cache[z]
      /\ cache'[c].strong = cache[c].strong + 1 /\ cache'[c].strong > 0 /\ cache'[c].shards = n
      /\ \A z \in Cache : /\ cache'[z].st = cache[z].st /\ cache'[z].ident = cache[z].ident
                          /\ cache'[z].bit = cache[z].bit
      /\ cache' \in [Cache -> CacheRec] /\ CachesKept
  BY <1>o
<1>g. \A u \in Thread : e \notin Removed(u) BY Parts, <1>b DEF RemoveInv
<1>k. CachesKept /\ UsedCaches' = UsedCaches /\ \A u \in Thread : \A z \in ChosenIn(victims[u]) : entry'[z].cache = entry[z].cache
  <2>1. UsedCaches' = UsedCaches BY <1>c, <1>o DEF UsedCaches
  <2>2. ASSUME NEW u \in Thread, NEW z \in ChosenIn(victims[u]) PROVE entry'[z].cache = entry[z].cache
    BY <1>g, <1>x, Parts, Chosen DEF Removed
  <2>. QED BY <1>c, <2>1, <2>2
<1>q. TodoInv' /\ LruInv' /\ \A d : IsPinned(d)' <=> IsPinned(d)
  BY <1>d, <1>e, <1>m, <1>k, QuietStep
<1>r. /\ \A u \in Thread : Removed(u)' = Removed(u) /\ Killed(u)' = Killed(u)
      /\ \A u \in Thread : Deletes(todo'[u]) \cap ChosenIn(victims'[u]) = {}
      /\ \A u \in Thread : Frees(todo[u])' \cap DoomedIn(victims[u])' = {}
      /\ \A u \in Thread : DoomedIn(victims[u])' = DoomedIn(victims[u])
  BY <1>d, <1>e, <1>m, <1>k, QuietStep
<1>s. /\ PoolUsers' = PoolUsers
      /\ PoolWeakPtrs' = PoolWeakPtrs
      /\ PoolWeakReleases' = PoolWeakReleases
      /\ Inserting' = Inserting
      /\ (\A cc : CachePtrs(cc)' = CachePtrs(cc))
      /\ (\A cc : CacheReleases(cc)' = CacheReleases(cc))
      /\ (\A ee : WeakUsers(ee)' = WeakUsers(ee))
      /\ (\A u \in Thread : \A ee : Unmarks(u, ee)' <=> Unmarks(u, ee))
      /\ (\A u \in Thread : \A ee : Marks(u, ee)' <=> Marks(u, ee))
  BY <1>e, <1>m, <1>d, <1>h, SameSets DEF NeverEnds, Alone
<1>v. \A ee \in Entry : Marked(ee)' <=> Marked(ee) BY <1>s, <1>d, MarkedKept
<1>u. /\ \A d : d # c => UsedEntries(d)' = UsedEntries(d)
      /\ Cardinality(UsedEntries(c)') = Cardinality(UsedEntries(c)) + One(Users(e) = {})
  BY <1>x, <1>a, <1>b, UsedMore
<1>1. HeldInv'
  <2>1. \A op, z : Ends(t, op, z)' <=> op = "init" /\ z = e BY <1>e, StepEq DEF Ends, Alone
  <2>2. \A z \in Entry : None # z BY ConstantsAssumption DEF Entry, None
  <2>3. HeldAt(t)' BY <1>h, <2>1, <2>2 DEF HeldAt, Holds, HasPool
  <2>. QED BY Parts, <1>m, <2>3, HeldKept
<1>2. PoolCount' BY Parts, <1>d, <1>k, <1>s, PoolKept
<1>3. CacheCount'
  <2>. SUFFICES ASSUME NEW d \in Cache
               PROVE  (cache[d].strong = Cardinality(CachePtrs(d)) + Cardinality(CacheReleases(d))
                                         + Cardinality(UsedEntries(d)))'
    BY DEF CacheCount
  <2>1. cache[d].strong = Cardinality(CachePtrs(d)) + Cardinality(CacheReleases(d))
                          + Cardinality(UsedEntries(d))
    BY Parts DEF CacheCount
  <2>2. /\ Cardinality(CachePtrs(d)) \in Nat /\ Cardinality(CacheReleases(d)) \in Nat
        /\ Cardinality(UsedEntries(d)) \in Nat
    BY Counts
  <2>3. CachePtrs(d)' = CachePtrs(d) /\ CacheReleases(d)' = CacheReleases(d) BY <1>s
  <2>5. CASE d = c
    <3>1. Cardinality(UsedEntries(d)') = Cardinality(UsedEntries(d)) + One(Users(e) = {})
      BY <1>u, <2>5
    <3>2. cache'[d].strong = cache[d].strong + One(Users(e) = {}) /\ One(Users(e) = {}) \in {0, 1}
      BY <1>b, <1>c, <2>5 DEF One
    <3>. QED BY <2>1, <2>2, <2>3, <3>1, <3>2
  <2>6. CASE d # c BY <1>c, <1>u, <2>1, <2>2, <2>3, <2>6
  <2>. QED BY <2>5, <2>6
<1>4. EntryCount'
  <2>1. One(Marked(e))' = 0 BY <1>b, <1>v DEF One
  <2>2. One(entry[e].listed /\ IsPinned(entry[e].cache))' = 0
    BY <1>l, <1>q, <1>x DEF One, IsPinned, Doing
  <2>3. entry'[e].refs = 2 * Cardinality(Users(e)') + One(Marked(e))'
                         + 2 * One(entry[e].listed /\ IsPinned(entry[e].cache))'
    BY <1>b, <1>x, <2>1, <2>2
  <2>4. \A z \in Entry : z # e => /\ entry'[z].refs = entry[z].refs /\ entry'[z].listed = entry[z].listed
                                  /\ entry'[z].cache = entry[z].cache
    BY <1>x
  <2>. QED BY Parts, <1>a, <1>q, <1>v, <2>3, <2>4, EntryChange
<1>5. WeakCount' BY Parts, <1>d, <1>s, WeakCountKept
<1>6. WeakInv'
  <2>1. \A z \in Entry : WeakAt(z) BY Parts, WeakParts
  <2>2. ASSUME NEW z \in Entry PROVE WeakAt(z)'
    <3>1. /\ \A u \in Thread : weak[z].mutex = u <=> Unmarks(u, z)
          /\ \A u, v \in Thread : Marks(u, z) /\ Marks(v, z) => u = v
      BY <2>1 DEF WeakAt
    <3>2. /\ \A u \in Thread : weak'[z].mutex = u <=> Unmarks(u, z)'
          /\ \A u, v \in Thread : Marks(u, z)' /\ Marks(v, z)' => u = v
      BY <1>d, <1>s, <3>1
    <3>3. CASE z # e BY <1>d, <1>x, <3>3, <2>1, <3>2 DEF WeakAt
    <3>4. CASE z = e BY <1>d, <1>x, <2>1, <1>b, <3>2, <3>4 DEF WeakAt
    <3>. QED BY <3>3, <3>4
  <2>. QED BY <2>2, WeakParts
<1>7. ObjectInv'
  <2>1. ASSUME NEW z \in Cache, cache'[z].st # "live" PROVE cache'[z] = [NoCache EXCEPT !.st = cache'[z].st]
    <3>1. cache'[z] = cache[z] BY <1>c, <1>l, <2>1
    <3>2. cache[z].st # "live" => cache[z] = [NoCache EXCEPT !.st = cache[z].st]
      BY Parts DEF ObjectInv
    <3>. QED BY <2>1, <3>1, <3>2
  <2>2. /\ \A z \in Entry : entry'[z].st # "live" => entry'[z] = [NoEntry EXCEPT !.st = entry'[z].st]
        /\ \A z \in Entry : entry'[z].st = "live" => entry'[z].cache \in Cache /\ entry'[z].key \in Key
    <3>1. ASSUME NEW z \in Entry
          PROVE  /\ entry'[z].st # "live" => entry'[z] = [NoEntry EXCEPT !.st = entry'[z].st]
                 /\ entry'[z].st = "live" => entry'[z].cache \in Cache /\ entry'[z].key \in Key
      <4>1. CASE z = e BY <1>x, <4>1
      <4>2. CASE z # e
        <5>1. entry'[z] = entry[z] BY <1>x, <4>2
        <5>2. /\ entry[z].st # "live" => entry[z] = [NoEntry EXCEPT !.st = entry[z].st]
              /\ entry[z].st = "live" => entry[z].cache \in Cache /\ entry[z].key \in Key
          BY Parts DEF ObjectInv
        <5>. QED BY <5>1, <5>2
      <4>. QED BY <4>1, <4>2
    <3>. QED BY <3>1
  <2>3. ASSUME NEW z \in Entry, entry'[z].listed
        PROVE  entry'[z].st = "live" /\ cache'[entry'[z].cache].st = "live"
    <3>1. CASE z = e BY <1>c, <1>l, <1>x, <3>1
    <3>2. CASE z # e
      <4>1. entry'[z] = entry[z] BY <1>x, <3>2
      <4>2. PICK d : d = entry[z].cache OBVIOUS
      <4>3. entry[z].st = "live" /\ d \in Cache /\ cache[d].st = "live"
        BY Parts, <2>3, <4>1, <4>2 DEF ObjectInv
      <4>4. cache'[d].st = "live" BY <1>c, <4>3
      <4>. QED BY <4>1, <4>2, <4>3, <4>4
    <3>. QED BY <3>1, <3>2
  <2>4. Cardinality(FreshCaches') >= Cardinality(Inserting')
    <3>1. FreshCaches' = FreshCaches BY <1>c DEF FreshCaches
    <3>. QED BY Parts, <1>s, <3>1 DEF ObjectInv
  <2>. QED BY <2>1, <2>2, <2>3, <2>4 DEF ObjectInv
<1>8. RemoveInv'
  <2>1. \A u, v \in Thread : u # v => Removed(u)' \cap Removed(v)' = {}
    BY Parts, <1>r DEF RemoveInv
  <2>2. \A z \in Entry : (entry'[z].st = "live" /\ ~entry'[z].listed) <=> \E u \in Thread : z \in Removed(u)'
    BY Parts, <1>g, <1>r, <1>x DEF RemoveInv
  <2>3. \A z \in Entry : entry'[z].st = "live" /\ ~entry'[z].listed => entry'[z].refs = 0
    BY Parts, <1>x DEF RemoveInv
  <2>. QED BY <1>r, <2>1, <2>2, <2>3 DEF RemoveInv
<1>9. ShardInv'
  <2>. SUFFICES ASSUME NEW d \in Cache, ~IsPinned(d)'
               PROVE  cache'[d].shards = Cardinality(ShardsOf(d)')
    BY DEF ShardInv
  <2>1. cache[d].shards = Cardinality(ShardsOf(d)) BY Parts, <1>q DEF ShardInv
  <2>2. CASE d = c BY <1>c, <1>i, <1>j, <2>2
  <2>3. CASE d # c BY <1>c, <1>i, <2>1, <2>3
  <2>. QED BY <2>2, <2>3
<1>10. QueueInv'
  <2>1. ASSUME NEW z \in Members(queue)'
        PROVE  entry'[z].listed /\ ~IsPinned(entry[z].cache)'
    <3>1. z \in Members(queue) /\ z \in Entry BY <1>d, Records, ElementOfSeq DEF Members
    <3>2. PICK d : d = entry[z].cache OBVIOUS
    <3>3. entry[z].listed /\ ~IsPinned(d) BY Parts, <3>1, <3>2 DEF QueueInv
    <3>4. z # e BY <1>b, <3>3
    <3>5. entry'[z] = entry[z] BY <1>x, <3>1, <3>4
    <3>6. ~IsPinned(d)' /\ entry'[z].cache = d BY <1>q, <3>2, <3>3, <3>5
    <3>. QED BY <3>3, <3>5, <3>6 DEF IsPinned, Doing
  <2>2. HasLruCache' => \A z \in Entry : entry'[z].listed /\ entry'[z].refs = 0 => z \in Members(queue)'
    BY <1>d, <1>x, Parts DEF HasLruCache, Members, QueueInv
  <2>3. Distinct(queue)' BY Parts, <1>d DEF QueueInv, Distinct
  <2>. QED BY <2>1, <2>2, <2>3 DEF QueueInv
<1>11. SizeInv'
  <2>1. e \notin Counted BY <1>b DEF Counted
  <2>2. Counted' = Counted \cup {e}
    <3>1. \A z \in Entry : z # e => (z \in Counted' <=> z \in Counted)
      <4>1. ASSUME NEW z \in Entry, z # e PROVE z \in Counted' <=> z \in Counted
        <5>1. entry'[z] = entry[z] BY <1>x, <4>1
        <5>2. PICK d : d = entry[z].cache OBVIOUS
        <5>3. IsPinned(entry[z].cache)' <=> IsPinned(d) BY <1>q, <5>1, <5>2 DEF IsPinned, Doing
        <5>. QED BY <5>1, <5>2, <5>3 DEF Counted
      <4>. QED BY <4>1
    <3>2. e \in Counted' BY <1>l, <1>q, <1>x DEF IsPinned, Doing, Counted
    <3>3. Counted \subseteq Entry /\ Counted' \subseteq Entry BY DEF Counted
    <3>. QED BY <3>1, <3>2, <3>3
  <2>3. \A z \in Entry : entry'[z].bytes \in Nat BY <1>x DEF EntryRec
  <2>4. TotalBytes(Counted)' = TotalBytes(Counted) + entry'[e].bytes
    BY Parts, <1>x, <2>1, <2>2, <2>3, TotalMore
  <2>5. TotalBytes(Counted) = pool.total /\ pool.total \in Nat
    BY Parts, Records DEF SizeInv, PoolRec
  <2>6. pool'.total = TotalBytes(Counted)' BY <1>d, <1>x, <2>4, <2>5
  <2>7. ~HasLruCache' => \A z \in Entry : entry'[z].bytes = 0
    BY Parts, <1>d, <1>x DEF SizeInv, HasLruCache
  <2>8. pool'.total <= pool'.limit \/ queue' = << >> \/ \E u \in Thread : Evicts(todo'[u])
    BY <1>e, <1>d, Parts DEF OnlyTodo, Alone, SizeInv
  <2>. QED BY <2>6, <2>7, <2>8 DEF SizeInv
<1>12. KillInv'
  <2>1. \A u \in Thread : \A z \in DoomedIn(victims[u])' : cache'[z].shards = 0
    <3>1. \A u \in Thread : \A z \in DoomedIn(victims[u]) : cache[z].shards = 0 /\ z \in Cache /\ z # c
      BY Parts, <1>l DEF KillInv, Killed, DoomedIn, LruInv, Buffer
    <3>. QED BY <1>c, <1>r, <3>1
  <2>2. \A z \in Cache : (cache'[z].st = "live" /\ ShouldDelete(cache'[z])) <=> (cache[z].st = "live" /\ ShouldDelete(cache[z]))
    BY <1>c, <1>l DEF ShouldDelete
  <2>. QED BY Parts, <1>r, <2>1, <2>2, KillSame
<1>13. TableInv'
  <2>1. \A z \in Cache : cache[z].st = "live" /\ ~ShouldDelete(cache'[z]) => ~ShouldDelete(cache[z])
    BY <1>c, <1>l
  <2>2. First(todo'[t]).op \notin {"pin", "free"} BY <1>e DEF Alone
  <2>3. \A z \in Cache : cache'[z].bit = cache[z].bit BY <1>c
  <2>4. \A u \in Thread : Killed(u) \subseteq Killed(u)' BY <1>r
  <2>5. caches' = caches /\ caches \subseteq Cache /\ (pool'.strong > 0 <=> pool.strong > 0)
    BY <1>d, Records
  <2>. QED BY Parts, <1>k, <1>m, <2>1, <2>2, <2>3, <2>4, <2>5, TableSame
<1>14. TypeOK' BY Records, <1>x, <1>d, <1>c, <1>h, TypesNext
<1>. QED
  BY <1>q, <1>1, <1>2, <1>3, <1>4, <1>5, <1>6, <1>7, <1>8, <1>9, <1>10, <1>11, <1>12, <1>13, <1>14 DEF IInv

\* The size of an entry changes, and the limit is enforced when it is exceeded.
LEMMA SizeChangeKeeps ==
  ASSUME IInv, NEW t \in Thread, NEW e \in Entry, Users(e) # {}, NEW n \in Nat, Moves(t),
         First(todo[t]).op \notin Inner, First(todo'[t]).op \notin {"pin", "free", "evict"},
         Frees(todo[t]) = {}, Deletes(todo[t]) = {}, ~Evicts(todo[t]),
         Frees(todo'[t]) = {}, Deletes(todo'[t]) = {},
         Final(todo[t]).op \in {"none", "init"}, Final(todo'[t]).op \in {"none", "initdone"}, HeldAt(t)',
         \A x \in Entry : x # e => entry'[x] = entry[x], entry'[e].bytes = n,
         \A x \in Entry : /\ entry'[x].st = entry[x].st /\ entry'[x].cache = entry[x].cache
                          /\ entry'[x].key = entry[x].key /\ entry'[x].listed = entry[x].listed
                          /\ entry'[x].refs = entry[x].refs,
         entry' \in [Entry -> EntryRec], EntriesKept, ListedKept,
         pool' \in PoolRec, pool'.strong = pool.strong, pool'.weak = pool.weak,
         pool'.live = pool.live, pool'.limit = pool.limit,
         pool'.total = pool.total - entry[e].bytes + n, HasLruCache \/ n = 0,
         n > entry[e].bytes /\ pool'.total > pool.limit => Evicts(todo'[t]),
         UNCHANGED << caches, cache, weak, queue, lru, victims, held >>
  PROVE  IInv'
<1>d. /\ UNCHANGED << caches, cache, weak, queue, lru, victims, held >>
      /\ pool' \in PoolRec /\ pool'.strong = pool.strong /\ pool'.weak = pool.weak
      /\ pool'.live = pool.live /\ pool'.limit = pool.limit
  OBVIOUS
<1>x. /\ \A x \in Entry : x # e => entry'[x] = entry[x]
      /\ entry'[e].bytes = n /\ entry' \in [Entry -> EntryRec]
      /\ \A x \in Entry : /\ entry'[x].st = entry[x].st /\ entry'[x].cache = entry[x].cache
                          /\ entry'[x].key = entry[x].key /\ entry'[x].listed = entry[x].listed
                          /\ entry'[x].refs = entry[x].refs
  OBVIOUS
<1>m. Moves(t) OBVIOUS
<1>e. /\ First(todo[t]).op \notin {"evict", "free", "pin"} /\ First(todo'[t]).op \notin {"evict", "free", "pin"}
      /\ Deletes(todo'[t]) = Deletes(todo[t]) /\ Frees(todo'[t]) = Frees(todo[t])
  BY DEF Inner
<1>k. EntriesKept /\ ListedKept /\ CachesKept /\ VictimsKept /\ UsedCaches' = UsedCaches
  BY Parts, <1>d, CacheSame, VictimsUnmoved
<1>q. TodoInv' /\ LruInv' /\ \A d : IsPinned(d)' <=> IsPinned(d)
  <2>1. TodoInv' BY Parts, <1>m, TodoKept
  <2>2. LruInv' BY Parts, <1>d, <1>e, <1>k, <1>m, LruKept
  <2>3. \A d : IsPinned(d)' <=> IsPinned(d) BY <1>e, <1>m, SameSets
  <2>. QED BY <2>1, <2>2, <2>3
<1>n. Final(todo[t]).op \in {"none", "init"} /\ Final(todo'[t]).op \in {"none", "initdone"}
  OBVIOUS
<1>s. /\ PoolUsers' = PoolUsers
      /\ PoolWeakPtrs' = PoolWeakPtrs
      /\ PoolWeakReleases' = PoolWeakReleases
      /\ Inserting' = Inserting
      /\ (\A c : CachePtrs(c)' = CachePtrs(c))
      /\ (\A c : CacheReleases(c)' = CacheReleases(c))
      /\ (\A ee : Users(ee)' = Users(ee))
      /\ (\A ee : WeakUsers(ee)' = WeakUsers(ee))
      /\ (\A u \in Thread : \A ee : Unmarks(u, ee)' <=> Unmarks(u, ee))
      /\ (\A u \in Thread : \A ee : Marks(u, ee)' <=> Marks(u, ee))
  BY <1>n, <1>m, <1>d, SameSets DEF NeverEnds
<1>u. \A c : UsedEntries(c)' = UsedEntries(c) BY <1>s, <1>x, UsedKept
<1>v. \A ee \in Entry : Marked(ee)' <=> Marked(ee) BY <1>s, <1>d, MarkedKept
<1>o. entry[e].listed /\ ~IsPinned(entry[e].cache) /\ entry[e].st = "live"
  BY UserCount, UsedEntry
<1>1. HeldInv' BY Parts, <1>m, HeldKept
<1>2. PoolCount' BY Parts, <1>d, <1>k, <1>s, PoolKept
<1>3. CacheCount' BY Parts, <1>d, <1>s, <1>u, CacheKept
<1>4. EntryCount' BY Parts, <1>x, <1>q, <1>s, <1>v, EntryKept
<1>5. WeakCount' BY Parts, <1>d, <1>s, WeakCountKept
<1>6. WeakInv' BY Parts, <1>d, <1>x, <1>s, WeakKept
<1>7. ObjectInv'
  <2>1. Cardinality(Inserting') <= Cardinality(Inserting) BY <1>s, InsertingCount
  <2>2. \A x \in Entry : entry[x].st # "live" => entry'[x] = entry[x] BY <1>o, <1>x
  <2>3. \A d \in Cache : cache[d].st # "live" => cache'[d] = cache[d] BY <1>d
  <2>4. \A x \in Entry : entry'[x].listed => entry[x].listed BY <1>x
  <2>. QED BY Parts, <1>k, <2>1, <2>2, <2>3, <2>4, ObjectKept
<1>8. RemoveInv' BY Parts, <1>e, <1>k, <1>m, <1>x, RemoveKept
<1>9. ShardInv' BY Parts, <1>d, <1>k, <1>q, ShardKept
<1>10. QueueInv' BY Parts, <1>d, <1>k, <1>q, <1>x, Records, QueueKept
<1>11. SizeInv'
  <2>1. e \in Counted BY <1>o DEF Counted
  <2>2. Counted' = Counted
    <3>1. \A z \in Entry : z \in Counted' <=> z \in Counted
      <4>1. ASSUME NEW z \in Entry PROVE z \in Counted' <=> z \in Counted
        <5>1. entry'[z].listed = entry[z].listed /\ entry'[z].cache = entry[z].cache BY <1>x
        <5>2. PICK d : d = entry[z].cache OBVIOUS
        <5>3. IsPinned(entry[z].cache)' <=> IsPinned(d) BY <1>q, <5>1, <5>2 DEF IsPinned, Doing
        <5>. QED BY <5>1, <5>2, <5>3 DEF Counted
      <4>. QED BY <4>1
    <3>2. Counted \subseteq Entry /\ Counted' \subseteq Entry BY DEF Counted
    <3>. QED BY <3>1, <3>2
  <2>3. \A z \in Entry : entry'[z].bytes \in Nat BY <1>x DEF EntryRec
  <2>4. /\ TotalBytes(Counted)' = TotalBytes(Counted) - entry[e].bytes + entry'[e].bytes
        /\ TotalBytes(Counted)' \in Nat
    BY Parts, <1>x, <2>1, <2>2, <2>3, TotalResized
  <2>5. TotalBytes(Counted) = pool.total /\ pool.total \in Nat /\ entry[e].bytes \in Nat /\ pool.limit \in Nat
    BY Parts, Fields DEF SizeInv
  <2>6. pool'.total = TotalBytes(Counted)' BY <1>x, <2>4, <2>5
  <2>7. ~HasLruCache' => \A z \in Entry : entry'[z].bytes = 0
    BY <1>d, <1>x, Parts DEF HasLruCache, SizeInv
  <2>8. pool'.total <= pool'.limit \/ queue' = << >> \/ \E u \in Thread : Evicts(todo'[u])
    <3>1. \A u \in Thread : u # t => todo'[u] = todo[u] BY <1>m DEF Moves, OnlyTodo
    <3>2. ~Evicts(todo[t]) /\ (n > entry[e].bytes /\ pool'.total > pool.limit => Evicts(todo'[t]))
      OBVIOUS
    <3>3. pool.total <= pool.limit \/ queue = << >> \/ \E u \in Thread : Evicts(todo[u])
      BY Parts DEF SizeInv
    <3>4. (\E u \in Thread : Evicts(todo[u])) => \E u \in Thread : Evicts(todo'[u])
      BY <3>1, <3>2
    <3>5. pool'.total \in Nat /\ pool'.total = pool.total - entry[e].bytes + n /\ pool'.limit = pool.limit
      BY <1>d, <1>x, <2>4, <2>6
    <3>6. pool.total <= pool.limit => pool'.total <= pool'.limit \/ n > entry[e].bytes
      BY <2>5, <3>5
    <3>7. pool'.total <= pool'.limit \/ pool'.total > pool.limit BY <2>5, <3>5
    <3>. QED BY <1>d, <3>2, <3>3, <3>4, <3>6, <3>7
  <2>. QED BY <2>6, <2>7, <2>8 DEF SizeInv
<1>12. KillInv' BY Parts, <1>d, <1>e, <1>k, <1>m, KillKept
<1>13. TableInv' BY Parts, <1>d, <1>e, <1>k, <1>m, Records, TableKept
<1>14. TypeOK' BY Records, <1>x, <1>d, TypesNext
<1>. QED
  BY <1>q, <1>1, <1>2, <1>3, <1>4, <1>5, <1>6, <1>7, <1>8, <1>9, <1>10, <1>11, <1>12, <1>13, <1>14 DEF IInv

\* No entry is larger than the total.
LEMMA TotalCovers ==
  ASSUME TypeOK, NEW e \in Counted
  PROVE  TotalBytes(Counted) >= entry[e].bytes /\ TotalBytes(Counted) \in Nat
<1>. DEFINE f == [x \in Entry |-> entry[x].bytes]
<1>1. f \in [Entry -> Nat] BY Fields
<1>2. TotalBytes(Counted) = SumFunctionOnSet(f, Counted) BY DEF TotalBytes
<1>3. Counted \in SUBSET Entry /\ Counted \ {e} \in SUBSET Entry /\ e \in Entry BY DEF Counted
<1>4. f[e] = entry[e].bytes BY <1>3
<1>. HIDE DEF f
<1>5. /\ SumFunctionOnSet(f, Counted) = f[e] + SumFunctionOnSet(f, Counted \ {e})
      /\ SumFunctionOnSet(f, Counted) \in Nat /\ SumFunctionOnSet(f, Counted \ {e}) \in Nat /\ f[e] \in Nat
  BY <1>1, <1>3, SumFacts
<1>. QED BY <1>2, <1>4, <1>5

\* The size of an entry.
LEMMA EntrySize ==
  ASSUME TypeOK, NEW e \in Entry, NEW n \in Nat, entry' = [entry EXCEPT ![e].bytes = n]
  PROVE  /\ \A x \in Entry : x # e => entry'[x] = entry[x]
         /\ entry'[e].bytes = n /\ entry'[e].init = entry[e].init
         /\ \A x \in Entry : /\ entry'[x].st = entry[x].st /\ entry'[x].cache = entry[x].cache
                             /\ entry'[x].key = entry[x].key /\ entry'[x].listed = entry[x].listed
                             /\ entry'[x].refs = entry[x].refs
         /\ entry' \in [Entry -> EntryRec] /\ EntriesKept /\ ListedKept
<1>1. \A r \in EntryRec : LET s == [r EXCEPT !.bytes = n] IN
         /\ s.st = r.st /\ s.cache = r.cache /\ s.key = r.key /\ s.listed = r.listed
         /\ s.bytes = n /\ s.refs = r.refs /\ s.init = r.init /\ s \in EntryRec
  BY DEF EntryRec
<1>2. entry \in [Entry -> EntryRec] BY Types
<1>3. /\ \A x \in Entry : x # e => entry'[x] = entry[x]
      /\ entry'[e] = [entry[e] EXCEPT !.bytes = n]
      /\ entry' = [x \in Entry |-> entry'[x]]
  BY <1>2
<1>4. /\ entry'[e].st = entry[e].st /\ entry'[e].cache = entry[e].cache
      /\ entry'[e].key = entry[e].key /\ entry'[e].listed = entry[e].listed
      /\ entry'[e].bytes = n /\ entry'[e].refs = entry[e].refs /\ entry'[e].init = entry[e].init
      /\ entry'[e] \in EntryRec
  <2>1. PICK r \in EntryRec : r = entry[e] BY <1>2
  <2>2. PICK s : s = [r EXCEPT !.bytes = n] OBVIOUS
  <2>3. /\ s.st = r.st /\ s.cache = r.cache /\ s.key = r.key /\ s.listed = r.listed
        /\ s.bytes = n /\ s.refs = r.refs /\ s.init = r.init /\ s \in EntryRec
    BY <1>1, <2>2
  <2>4. entry'[e] = s BY <1>3, <2>1, <2>2
  <2>. QED BY <2>1, <2>3, <2>4
<1>5. entry' \in [Entry -> EntryRec] BY <1>2, <1>3, <1>4
<1>6. \A x \in Entry : /\ entry'[x].st = entry[x].st /\ entry'[x].cache = entry[x].cache
                       /\ entry'[x].key = entry[x].key /\ entry'[x].listed = entry[x].listed
                       /\ entry'[x].refs = entry[x].refs
  BY <1>3, <1>4
<1>. QED BY <1>3, <1>4, <1>5, <1>6 DEF EntriesKept, ListedKept

\* What UpdateTotalBytes leaves to be done.
LEMMA EvictIfSteps ==
  ASSUME TypeOK, NEW m \in Int, NEW s, s = EvictIf(m)
  PROVE  /\ s \in Seq(Steps) /\ WellFormed(s) /\ AllInner(s) /\ Final(s) = NoStep
         /\ First(s).op \in {"none", "lru"} /\ Frees(s) = {} /\ Deletes(s) = {}
         /\ Evicts(s) <=> m > 0 /\ pool.total + m > pool.limit
         /\ s = << >> <=> ~Evicts(s)
<1>1. CASE m > 0 /\ pool.total + m > pool.limit
  <2>1. s = << Step("lru", None), Step("evict", None) >> BY <1>1 DEF EvictIf
  <2>2. /\ s \in Seq(Steps) /\ WellFormed(s) /\ AllInner(s) /\ s # << >>
        /\ First(s) = Step("lru", None) /\ Final(s) = NoStep
        /\ Frees(s) = {} /\ Deletes(s) = {} /\ Evicts(s)
    BY <2>1, EvictSteps
  <2>3. First(s).op = "lru" BY <2>2, StepEq
  <2>. QED BY <1>1, <2>2, <2>3
<1>2. CASE ~(m > 0 /\ pool.total + m > pool.limit)
  <2>1. s = << >> BY <1>2 DEF EvictIf
  <2>2. First(s).op = "none" /\ AllInner(s) BY <2>1, NoStepIs DEF First, AllInner
  <2>3. /\ s \in Seq(Steps) /\ WellFormed(s) /\ Final(s) = NoStep
        /\ Frees(s) = {} /\ Deletes(s) = {} /\ ~Evicts(s)
    BY <2>1, Empty
  <2>. QED BY <1>2, <2>1, <2>2, <2>3
<1>. QED BY <1>1, <1>2

\* CacheEntry::unlock after the size of the entry changed.
LEMMA ResizeKeeps ==
  ASSUME IInv, NEW t \in Thread, NEW n \in Size, Resize(t, n)
  PROVE  IInv'
<1>0. TypeOK /\ TodoInv /\ HeldInv BY Parts
<1>y. held \in [Thread -> HeldRec] /\ pool \in PoolRec BY <1>0, Types
<1>1. PICK e \in Entry : e = held[t].entry BY <1>y DEF Resize, HeldRec
<1>2. n \in Nat /\ e # None BY <1>1, ConstantsAssumption DEF Resize
<1>3. PICK m \in Int : m = n - entry[e].bytes BY <1>0, <1>2, Fields
<1>4. PICK s : s = EvictIf(m) OBVIOUS
<1>5. /\ Idle(t) /\ HasLruCache /\ entry' = [entry EXCEPT ![e].bytes = n]
      /\ pool' = [pool EXCEPT !.total = pool.total + m] /\ Start(t, s)
      /\ UNCHANGED << caches, cache, weak, queue, lru, victims, held >>
  BY <1>1, <1>3, <1>4 DEF Resize
<1>6. /\ s \in Seq(Steps) /\ WellFormed(s) /\ AllInner(s) /\ Final(s) = NoStep
      /\ First(s).op \in {"none", "lru"} /\ Frees(s) = {} /\ Deletes(s) = {}
      /\ Evicts(s) <=> m > 0 /\ pool.total + m > pool.limit
  BY <1>0, <1>4, EvictIfSteps
<1>7. /\ From(t, NoStep, NoStep, {}, {}, FALSE)
      /\ OnlyTodo(t) /\ todo'[t] = s /\ todo[t] = << >>
  BY <1>0, <1>5, <1>6, Started
<1>8. Moves(t) BY <1>5, <1>7, MovesOnly
<1>9. Users(e) # {} BY <1>1 DEF Users
<1>10. /\ First(todo[t]).op \notin Inner /\ Frees(todo[t]) = {} /\ Deletes(todo[t]) = {} /\ ~Evicts(todo[t])
       /\ Final(todo[t]).op \in {"none", "init"}
  BY <1>7, NoStepIs DEF From, Inner
<1>11. /\ First(todo'[t]).op \notin {"pin", "free", "evict"} /\ Frees(todo'[t]) = {} /\ Deletes(todo'[t]) = {}
       /\ Final(todo'[t]).op = "none"
  BY <1>6, <1>7, NoStepIs
<1>12. HeldAt(t)'
  <2>1. Holds(t)' BY <1>1, <1>2, <1>5 DEF Holds
  <2>. QED BY <1>0, <1>8, <1>11, <2>1, HeldOver DEF HeldInv
<1>13. /\ \A x \in Entry : x # e => entry'[x] = entry[x]
       /\ entry'[e].bytes = n
       /\ \A x \in Entry : /\ entry'[x].st = entry[x].st /\ entry'[x].cache = entry[x].cache
                           /\ entry'[x].key = entry[x].key /\ entry'[x].listed = entry[x].listed
                           /\ entry'[x].refs = entry[x].refs
       /\ entry' \in [Entry -> EntryRec] /\ EntriesKept /\ ListedKept
  BY <1>0, <1>2, <1>5, EntrySize
<1>14. PICK z \in Nat : z = pool.total + m
  <2>1. e \in Counted BY <1>9, UserCount, UsedEntry DEF Counted
  <2>2. /\ pool.total = TotalBytes(Counted) /\ entry[e].bytes \in Nat /\ pool.total >= entry[e].bytes
        /\ pool.total \in Nat
    BY <1>0, <2>1, Fields, TotalCovers, Parts DEF SizeInv
  <2>. QED BY <1>2, <1>3, <2>2
<1>15. /\ pool' \in PoolRec /\ pool'.strong = pool.strong /\ pool'.weak = pool.weak
       /\ pool'.live = pool.live /\ pool'.total = pool.total + m /\ pool'.limit = pool.limit
  BY <1>0, <1>5, <1>14, PoolIs
<1>16. pool'.total = pool.total - entry[e].bytes + n /\ (n > entry[e].bytes /\ pool'.total > pool.limit => Evicts(todo'[t]))
  <2>1. entry[e].bytes \in Nat /\ pool.total \in Nat /\ pool.limit \in Nat BY <1>0, Fields
  <2>2. n > entry[e].bytes => m > 0 BY <1>2, <1>3, <2>1
  <2>3. pool'.total = pool.total - entry[e].bytes + n BY <1>2, <1>3, <1>15, <2>1
  <2>. QED BY <1>6, <1>7, <1>15, <2>2, <2>3
<1>17. UNCHANGED << caches, cache, weak, queue, lru, victims, held >> /\ (HasLruCache \/ n = 0)
  BY <1>5
<1>. QED BY <1>2, <1>8, <1>9, <1>10, <1>11, <1>12, <1>13, <1>15, <1>16, <1>17, SizeChangeKeeps

\* The fields of an entry whose size was computed.
LEMMA EntryMeasured ==
  ASSUME TypeOK, NEW e \in Entry, NEW n \in Nat, NEW i, NEW s \in EntryRec,
         s = [entry[e] EXCEPT !.bytes = n, !.init = i], entry' = [entry EXCEPT ![e] = s]
  PROVE  /\ \A x \in Entry : x # e => entry'[x] = entry[x]
         /\ entry'[e].bytes = n
         /\ \A x \in Entry : /\ entry'[x].st = entry[x].st /\ entry'[x].cache = entry[x].cache
                             /\ entry'[x].key = entry[x].key /\ entry'[x].listed = entry[x].listed
                             /\ entry'[x].refs = entry[x].refs
         /\ entry' \in [Entry -> EntryRec] /\ EntriesKept /\ ListedKept
<1>1. \A r \in EntryRec : LET q == [r EXCEPT !.bytes = n, !.init = i] IN
         /\ q.st = r.st /\ q.cache = r.cache /\ q.key = r.key /\ q.listed = r.listed
         /\ q.bytes = n /\ q.refs = r.refs
  BY DEF EntryRec
<1>2. entry \in [Entry -> EntryRec] BY Types
<1>3. entry'[e] = s /\ (\A x \in Entry : x # e => entry'[x] = entry[x]) /\ entry' \in [Entry -> EntryRec]
  BY <1>2
<1>4. /\ s.st = entry[e].st /\ s.cache = entry[e].cache /\ s.key = entry[e].key /\ s.listed = entry[e].listed
      /\ s.bytes = n /\ s.refs = entry[e].refs
  <2>1. PICK r \in EntryRec : r = entry[e] BY <1>2
  <2>2. s = [r EXCEPT !.bytes = n, !.init = i] BY <2>1
  <2>. QED BY <1>1, <2>1, <2>2
<1>5. \A x \in Entry : /\ entry'[x].st = entry[x].st /\ entry'[x].cache = entry[x].cache
                       /\ entry'[x].key = entry[x].key /\ entry'[x].listed = entry[x].listed
                       /\ entry'[x].refs = entry[x].refs
  BY <1>3, <1>4
<1>. QED BY <1>3, <1>4, <1>5 DEF EntriesKept, ListedKept

\* call_once: the entry is measured.
LEMMA InitEntryKeeps ==
  ASSUME IInv, NEW t \in Thread, InitEntry(t), entry[Arg(t)].bytes = 0
  PROVE  IInv'
<1>0. TypeOK /\ TodoInv /\ HeldInv BY Parts
<1>y. held \in [Thread -> HeldRec] /\ pool \in PoolRec BY <1>0, Types
<1>a. At(t, "init") BY DEF InitEntry
<1>1. PICK e \in Entry : e = Arg(t) /\ First(todo[t]) = Step("init", e)
  BY <1>0, <1>a, AtFirst, StepFields
<1>2. PICK n \in Nat : n = IF HasLruCache THEN NewSize ELSE 0 BY ConstantsAssumption
<1>4. PICK u : u = EvictIf(n) OBVIOUS
<1>i. PICK i \in {"no", "running", "done"} : i = IF u = << >> THEN "done" ELSE "running" OBVIOUS
<1>v. PICK v : v = IF u = << >> THEN << >> ELSE << Step("initdone", e) >> OBVIOUS
<1>s. PICK s : s = u \o v OBVIOUS
<1>5. /\ entry' = [entry EXCEPT ![e].bytes = n, ![e].init = i]
      /\ pool' = [pool EXCEPT !.total = pool.total + n] /\ Goto(t, s)
      /\ UNCHANGED << caches, cache, weak, queue, lru, victims, held >>
  BY <1>1, <1>2, <1>4, <1>i, <1>v, <1>s DEF InitEntry
<1>6. /\ u \in Seq(Steps) /\ WellFormed(u) /\ AllInner(u) /\ Final(u) = NoStep
      /\ First(u).op \in {"none", "lru"} /\ Frees(u) = {} /\ Deletes(u) = {}
      /\ Evicts(u) <=> n > 0 /\ pool.total + n > pool.limit
      /\ u = << >> <=> ~Evicts(u)
  BY <1>0, <1>2, <1>4, EvictIfSteps
<1>7. /\ s \in Seq(Steps) /\ WellFormed(s) /\ First(s).op \in {"none", "lru"}
      /\ Frees(s) = {} /\ Deletes(s) = {} /\ (Evicts(s) <=> Evicts(u))
      /\ \/ s = << >> /\ Final(s) = NoStep
         \/ Final(s) = Step("initdone", e)
  <2>1. CASE u = << >> BY <1>v, <1>s, <2>1, <1>6
  <2>2. CASE u # << >>
    <3>1. v = << Step("initdone", e) >> BY <1>v, <2>2
    <3>2. Step("initdone", e) \in Steps /\ Step("initdone", e).op = "initdone" BY IsStep, StepEq
    <3>3. /\ v \in Seq(Steps) /\ WellFormed(v) /\ Final(v) = Step("initdone", e)
          /\ Frees(v) = {} /\ Deletes(v) = {} /\ ~Evicts(v) /\ Fresh(v)
      BY <3>1, <3>2, OneFinal DEF Inner
    <3>4. Final(v).op \in Follows /\ Frees(u) \cap Frees(v) = {} /\ Deletes(u) \cap Deletes(v) = {}
      BY <1>6, <3>2, <3>3 DEF Follows
    <3>5. /\ s \in Seq(Steps) /\ WellFormed(s) /\ First(s) = First(u) /\ Final(s) = Final(v)
          /\ Frees(s) = Frees(u) \cup Frees(v) /\ Deletes(s) = Deletes(u) \cup Deletes(v)
          /\ (Evicts(s) <=> Evicts(u) \/ Evicts(v))
      BY <1>6, <1>s, <2>2, <3>3, <3>4, Join
    <3>. QED BY <1>6, <3>3, <3>5
  <2>. QED BY <2>1, <2>2
<1>8. "init" \notin Inner BY DEF Inner
<1>9. /\ From(t, First(todo[t]), First(todo[t]), {}, {}, FALSE) /\ OnlyTodo(t) /\ todo'[t] = s /\ todo[t] # << >>
  BY <1>0, <1>1, <1>5, <1>7, <1>8, <1>a, Replaced
<1>m. Moves(t) BY <1>5, <1>9, MovesOnly
<1>h. held[t].entry = e /\ e # None
  <2>1. Ends(t, "init", e) BY <1>1, <1>9 DEF Ends, From
  <2>2. \A x \in Entry : x # None BY ConstantsAssumption DEF Entry, None
  <2>. QED BY <1>0, <2>1, <2>2 DEF HeldInv, HeldAt
<1>u. Users(e) # {} BY <1>h DEF Users
<1>10. /\ First(todo[t]).op \notin Inner /\ Frees(todo[t]) = {} /\ Deletes(todo[t]) = {} /\ ~Evicts(todo[t])
       /\ Final(todo[t]).op \in {"none", "init"}
  BY <1>1, <1>8, <1>9, StepEq DEF From
<1>11. /\ First(todo'[t]).op \notin {"pin", "free", "evict"} /\ Frees(todo'[t]) = {} /\ Deletes(todo'[t]) = {}
       /\ Final(todo'[t]).op \in {"none", "initdone"}
  BY <1>7, <1>9, NoStepIs, StepEq
<1>12. HeldAt(t)'
  <2>1. held'[t].entry = e /\ Holds(t)' BY <1>h, <1>5 DEF Holds
  <2>2. \A op, x : Ends(t, op, x)' => (op = "none" \/ (op = "initdone" /\ x = e))
    BY <1>7, <1>9, StepEq DEF Ends, NoStep
  <2>. QED BY <2>1, <2>2 DEF HeldAt
<1>13. /\ \A x \in Entry : x # e => entry'[x] = entry[x]
       /\ entry'[e].bytes = n
       /\ \A x \in Entry : /\ entry'[x].st = entry[x].st /\ entry'[x].cache = entry[x].cache
                           /\ entry'[x].key = entry[x].key /\ entry'[x].listed = entry[x].listed
                           /\ entry'[x].refs = entry[x].refs
       /\ entry' \in [Entry -> EntryRec] /\ EntriesKept /\ ListedKept
  <2>1. entry \in [Entry -> EntryRec] BY <1>0, Types
  <2>2. PICK r \in EntryRec : r = [entry[e] EXCEPT !.bytes = n, !.init = i]
    BY <1>2, <1>i, <2>1 DEF EntryRec
  <2>3. entry' = [entry EXCEPT ![e] = r] BY <1>5, <2>1, <2>2
  <2>. QED BY <1>0, <1>2, <2>2, <2>3, EntryMeasured
<1>14. PICK z \in Nat : z = pool.total + n BY <1>0, <1>2, Fields
<1>15. /\ pool' \in PoolRec /\ pool'.strong = pool.strong /\ pool'.weak = pool.weak
       /\ pool'.live = pool.live /\ pool'.total = pool.total + n /\ pool'.limit = pool.limit
  BY <1>0, <1>5, <1>14, PoolIs
<1>16. pool'.total = pool.total - entry[e].bytes + n /\ (n > entry[e].bytes /\ pool'.total > pool.limit => Evicts(todo'[t]))
  <2>1. entry[e].bytes = 0 /\ pool.total \in Nat /\ pool.limit \in Nat BY <1>0, <1>1, Fields
  <2>. QED BY <1>2, <1>6, <1>7, <1>9, <1>15, <2>1
<1>17. UNCHANGED << caches, cache, weak, queue, lru, victims, held >> /\ (HasLruCache \/ n = 0)
  BY <1>2, <1>5
<1>. QED BY <1>2, <1>m, <1>u, <1>10, <1>11, <1>12, <1>13, <1>15, <1>16, <1>17, SizeChangeKeeps

\* An entry is put at the end of a queue that it is not in.
LEMMA AppendQueue ==
  ASSUME NEW q \in Seq(Entry), Distinct(q), NEW e \in Entry, e \notin Members(q)
  PROVE  /\ Append(q, e) \in Seq(Entry) /\ Distinct(Append(q, e))
         /\ Members(Append(q, e)) = Members(q) \cup {e} /\ Append(q, e) # << >>
<1>. DEFINE p == Append(q, e)
            n == Len(q)
<1>1. /\ p \in Seq(Entry) /\ n \in Nat /\ Len(p) = n + 1 /\ p[n + 1] = e
      /\ \A i \in 1 .. n : p[i] = q[i]
  OBVIOUS
<1>2. 1 .. Len(p) = 1 .. n \cup {n + 1} /\ n + 1 \notin 1 .. n BY <1>1
<1>3. \A i \in 1 .. n : q[i] # e BY DEF Members
<1>. HIDE DEF p
<1>4. Distinct(p)
  <2>1. \A i, j \in 1 .. n : q[i] = q[j] => i = j BY DEF Distinct
  <2>. HIDE DEF n
  <2>. QED BY <1>1, <1>2, <1>3, <2>1 DEF Distinct
<1>5. Members(p) = Members(q) \cup {e}
  <2>1. Members(q) = {q[i] : i \in 1 .. n} BY DEF Members
  <2>. HIDE DEF n
  <2>2. Members(p) = {p[i] : i \in 1 .. n \cup {n + 1}} BY <1>2 DEF Members
  <2>. QED BY <1>1, <2>1, <2>2, ZenonT(60)
<1>6. p # << >> BY <1>1
<1>. QED BY <1>1, <1>4, <1>5, <1>6 DEF p

\* AddToEvictionQueue, with the lock that the evictions which follow keep.
LEMMA Enqueued ==
  ASSUME IInv, NEW t \in Thread, NEW e \in Entry, lru = None, lru' = t, queue' = AddToEvictionQueue(e),
         Moves(t), First(todo[t]).op \notin Inner, Frees(todo[t]) = {}, Deletes(todo[t]) = {}, ~Evicts(todo[t]),
         First(todo'[t]) = Step("evict", None), Frees(todo'[t]) = {}, Deletes(todo'[t]) = {}, Evicts(todo'[t]),
         EntriesKept, ListedKept, \A z \in Entry : entry'[z].bytes = entry[z].bytes,
         \A z \in Entry : z # e => entry'[z].refs = entry[z].refs,
         entry[e].st = "live", entry[e].listed, ~IsPinned(entry[e].cache), UNCHANGED << pool, caches, cache, victims >>
  PROVE  /\ TodoInv' /\ LruInv' /\ RemoveInv' /\ ShardInv' /\ QueueInv' /\ SizeInv' /\ KillInv' /\ TableInv'
         /\ queue' \in Seq(Entry) /\ \A d : IsPinned(d)' <=> IsPinned(d)
<1>0. /\ TypeOK /\ TodoInv /\ LruInv /\ RemoveInv /\ KillInv /\ TableInv /\ ShardInv /\ QueueInv /\ SizeInv
      /\ queue \in Seq(Entry) /\ caches \subseteq Cache
  BY Parts, Types
<1>d. /\ lru = None /\ lru' = t /\ Moves(t) /\ EntriesKept /\ ListedKept /\ UNCHANGED << pool, caches, cache, victims >>
      /\ Deletes(todo'[t]) = Deletes(todo[t]) /\ Frees(todo'[t]) = Frees(todo[t])
      /\ \A z \in Entry : entry'[z].bytes = entry[z].bytes
  OBVIOUS
<1>f. /\ First(todo[t]).op # "free" /\ First(todo'[t]).op = "evict" /\ First(todo[t]).op # "evict"
  BY StepEq DEF Inner
<1>k. CachesKept /\ VictimsKept BY <1>0, <1>d, CacheSame, VictimsUnmoved
<1>1. TodoInv' BY <1>0, <1>d, TodoKept
<1>2. LruInv'
  <2>1. \A u \in Thread : u # None BY ConstantsAssumption
  <2>2. \A u \in Thread : ~Doing(u, "evict", None) /\ victims[u] = << >> BY <1>0, <1>d, LruFree
  <2>3. \A u \in Thread : Buffer(victims[u])' BY <1>0, <1>k, VictimsSame
  <2>4. \A u \in Thread : u # t => todo'[u] = todo[u] BY <1>d DEF Moves, OnlyTodo
  <2>5. Doing(t, "evict", None)' BY DEF Doing
  <2>6. \A u \in Thread : lru' = u <=> Doing(u, "evict", None)'
    BY <1>d, <2>2, <2>4, <2>5 DEF Doing
  <2>7. victims' \in [Thread -> Seq(Victim)] /\ \A u \in Thread : victims'[u] = << >>
    BY <1>0, <1>d, <2>2 DEF LruInv
  <2>. QED BY <2>3, <2>6, <2>7 DEF LruInv
<1>3. \A d : IsPinned(d)' <=> IsPinned(d) BY <1>d, <1>f, SameSets
<1>4. RemoveInv' BY <1>d, <1>0, <1>k, RemoveKept DEF EntriesKept, ListedKept
<1>5. ShardInv' BY <1>0, <1>d, <1>3, ShardKept
<1>6. KillInv' /\ TableInv' BY <1>f, <1>0, <1>d, <1>k, KillKept, TableKept
<1>7. PICK q : q = Unlinked({e}) OBVIOUS
<1>8. q \in Seq(Entry) /\ Distinct(q) /\ Members(q) = Members(queue) \ {e}
  BY <1>0, <1>7, UnlinkedQueue DEF QueueInv
<1>9. queue' = Append(q, e) BY <1>7 DEF AddToEvictionQueue
<1>10. queue' \in Seq(Entry) /\ Distinct(queue') /\ Members(queue') = Members(q) \cup {e}
  BY <1>8, <1>9, AppendQueue
<1>11. Members(queue') = Members(queue) \cup {e} BY <1>8, <1>10
<1>12. QueueInv'
  <2>1. ASSUME NEW z \in Members(queue')
        PROVE  entry'[z].listed /\ ~IsPinned(entry[z].cache)'
    <3>1. z \in Entry BY <1>10, ElementOfSeq DEF Members
    <3>2. entry[z].listed /\ ~IsPinned(entry[z].cache) BY <1>0, <1>11 DEF QueueInv
    <3>3. PICK d : d = entry[z].cache OBVIOUS
    <3>4. entry'[z].listed = entry[z].listed /\ entry'[z].cache = d
      BY <1>d, <3>1, <3>2, <3>3 DEF EntriesKept, ListedKept
    <3>5. ~IsPinned(d)' BY <1>3, <3>2, <3>3
    <3>. QED BY <3>2, <3>4, <3>5 DEF IsPinned, Doing
  <2>2. HasLruCache' => \A z \in Entry : entry'[z].listed /\ entry'[z].refs = 0 => z \in Members(queue')
    BY <1>d, <1>0, <1>11 DEF HasLruCache, ListedKept, QueueInv
  <2>. QED BY <1>10, <2>1, <2>2 DEF QueueInv, Distinct, Members
<1>13. SizeInv' BY <1>0, <1>d, <1>3, TotalKept DEF SizeInv
<1>. QED BY <1>1, <1>2, <1>3, <1>4, <1>5, <1>6, <1>10, <1>12, <1>13

\* The last weak reference was the last reference: the entry may be evicted.
LEMMA UnmarkLruKeeps ==
  ASSUME IInv, NEW t \in Thread, At(t, "unmarklock"), NEW e \in Entry, e = Arg(t), lru = None,
         entry[e].refs = 1, entry' = [entry EXCEPT ![e].refs = 0],
         weak' = [weak EXCEPT ![e].mutex = None], lru' = t, queue' = AddToEvictionQueue(e),
         Goto(t, << Step("evict", None) >>), UNCHANGED << pool, caches, cache, victims, held >>
  PROVE  IInv'
<1>d. /\ At(t, "unmarklock") /\ Goto(t, << Step("evict", None) >>) /\ e = Arg(t) /\ entry[e].refs = 1
      /\ lru = None /\ lru' = t /\ queue' = AddToEvictionQueue(e)
      /\ entry' = [entry EXCEPT ![e].refs = 0] /\ weak' = [weak EXCEPT ![e].mutex = None]
      /\ UNCHANGED << pool, caches, cache, victims, held >>
  OBVIOUS
<1>e. /\ OnlyTodo(t) /\ Alone(todo[t], "unmarklock", e)
      /\ First(todo'[t]) = Step("evict", None) /\ Frees(todo'[t]) = {} /\ Deletes(todo'[t]) = {} /\ Evicts(todo'[t])
      /\ Final(todo'[t]) = NoStep
  <2>1. Step("evict", None) \in Steps /\ Step("evict", None).op = "evict" BY IsStep, StepEq
  <2>2. PICK s : s = << Step("evict", None) >> OBVIOUS
  <2>3. /\ s \in Seq(Steps) /\ WellFormed(s) /\ First(s) = Step("evict", None) /\ Final(s) = NoStep
        /\ Frees(s) = {} /\ Deletes(s) = {} /\ Evicts(s)
    BY <2>1, <2>2, Single DEF Inner
  <2>4. "unmarklock" \notin Inner /\ Goto(t, s) BY <1>d, <2>2 DEF Inner
  <2>5. /\ From(t, Step("unmarklock", e), Step("unmarklock", e), {}, {}, FALSE) /\ todo[t] # << >>
        /\ OnlyTodo(t) /\ todo'[t] = s
    BY Parts, <1>d, <2>3, <2>4, Replaced
  <2>6. Alone(todo[t], "unmarklock", e) BY <2>4, <2>5, StepEq DEF Alone, From
  <2>. QED BY <2>3, <2>5, <2>6
<1>m. Moves(t) BY <1>d, <1>e, MovesOnly
<1>f. Unmarks(t, e) BY <1>e DEF Unmarks, Ends, Alone
<1>g. entry[e].st = "live" /\ entry[e].listed /\ Marked(e) BY <1>f, UnmarkFacts
<1>b. ~IsPinned(entry[e].cache) /\ Cardinality(Users(e)) = 0
  <2>1. entry[e].refs = 2 * Cardinality(Users(e)) + One(Marked(e))
                        + 2 * One(entry[e].listed /\ IsPinned(entry[e].cache))
    BY Parts DEF EntryCount
  <2>2. One(Marked(e)) = 1 /\ One(entry[e].listed /\ IsPinned(entry[e].cache)) \in {0, 1}
    BY <1>g DEF One
  <2>3. Cardinality(Users(e)) \in Nat BY Counts
  <2>4. One(entry[e].listed /\ IsPinned(entry[e].cache)) = 0 /\ Cardinality(Users(e)) = 0
    BY <1>d, <2>1, <2>2, <2>3
  <2>. QED BY <1>g, <2>4 DEF One
<1>x. /\ \A z \in Entry : z # e => entry'[z] = entry[z]
      /\ entry'[e].refs = 0
      /\ \A z \in Entry : /\ entry'[z].st = entry[z].st /\ entry'[z].cache = entry[z].cache
                          /\ entry'[z].key = entry[z].key /\ entry'[z].listed = entry[z].listed
                          /\ entry'[z].bytes = entry[z].bytes
      /\ entry' \in [Entry -> EntryRec] /\ EntriesKept /\ ListedKept
  BY Parts, <1>d, EntryRefs
<1>k. CachesKept /\ VictimsKept /\ UsedCaches' = UsedCaches
  BY Parts, <1>d, <1>x, CacheSame, VictimsUnmoved
<1>z. /\ TodoInv' /\ LruInv' /\ RemoveInv' /\ ShardInv' /\ QueueInv' /\ SizeInv' /\ KillInv' /\ TableInv'
      /\ queue' \in Seq(Entry) /\ \A d : IsPinned(d)' <=> IsPinned(d)
  <2>1. First(todo[t]).op \notin Inner /\ Frees(todo[t]) = {} /\ Deletes(todo[t]) = {} /\ ~Evicts(todo[t])
    BY <1>e DEF Alone
  <2>2. /\ First(todo'[t]) = Step("evict", None) /\ Frees(todo'[t]) = {} /\ Deletes(todo'[t]) = {} /\ Evicts(todo'[t])
    BY <1>e
  <2>3. /\ EntriesKept /\ ListedKept /\ (\A z \in Entry : entry'[z].bytes = entry[z].bytes)
        /\ \A z \in Entry : z # e => entry'[z].refs = entry[z].refs
    BY <1>x
  <2>4. entry[e].st = "live" /\ entry[e].listed /\ ~IsPinned(entry[e].cache) BY <1>g, <1>b
  <2>. QED BY <1>d, <1>m, <2>1, <2>2, <2>3, <2>4, Enqueued
<1>q. TodoInv' /\ LruInv' /\ \A d : IsPinned(d)' <=> IsPinned(d) BY <1>z
<1>l. Final(todo[t]).op = "unmarklock" /\ Final(todo'[t]).op = "none"
  BY <1>e, StepEq, NoStepIs DEF Alone
<1>s. /\ PoolUsers' = PoolUsers
      /\ PoolWeakPtrs' = PoolWeakPtrs
      /\ PoolWeakReleases' = PoolWeakReleases
      /\ Inserting' = Inserting
      /\ (\A c : CachePtrs(c)' = CachePtrs(c))
      /\ (\A c : CacheReleases(c)' = CacheReleases(c))
      /\ (\A ee : Users(ee)' = Users(ee))
      /\ (\A ee : WeakUsers(ee)' = WeakUsers(ee))
      /\ (\A u \in Thread : \A ee : Marks(u, ee)' <=> Marks(u, ee))
  BY <1>l, <1>m, <1>d, SameSets DEF NeverEnds
<1>u. \A c : UsedEntries(c)' = UsedEntries(c) BY <1>x, <1>s, UsedKept
<1>v. /\ WeakInv' /\ ~Marked(e)' /\ weak' \in [Entry -> WeakRec]
      /\ (\A z \in Entry : z # e => (Marked(z)' <=> Marked(z)))
      /\ \A z \in Entry : weak'[z].n = weak[z].n
  BY <1>x, <1>d, <1>l, <1>f, <1>m, UnmarkAfter
<1>1. HeldInv'
  <2>1. Holds(t)' BY Parts, <1>d, <1>f DEF HeldInv, HeldAt, Unmarks, Holds, HasPool
  <2>. QED BY Parts, <1>l, <1>m, <2>1, HeldOver
<1>2. PoolCount' BY Parts, <1>d, <1>k, <1>s, PoolKept
<1>3. CacheCount' BY Parts, <1>d, <1>s, <1>u, CacheKept
<1>4. EntryCount'
  <2>1. One(Marked(e))' = 0 BY <1>v DEF One
  <2>2. One(entry[e].listed /\ IsPinned(entry[e].cache))' = 0
    BY <1>b, <1>q, <1>x DEF One, IsPinned, Doing
  <2>6. Users(e)' = Users(e) BY <1>s
  <2>3. entry'[e].refs = 2 * Cardinality(Users(e)') + One(Marked(e))'
                         + 2 * One(entry[e].listed /\ IsPinned(entry[e].cache))'
    BY <1>b, <1>x, <2>1, <2>2, <2>6
  <2>4. \A z \in Entry : z # e => /\ entry'[z].refs = entry[z].refs /\ entry'[z].listed = entry[z].listed
                                  /\ entry'[z].cache = entry[z].cache
    BY <1>x
  <2>. QED BY Parts, <1>s, <1>q, <1>v, <2>3, <2>4, EntryChange
<1>5. WeakCount' BY <1>s, <1>v, Parts, WeakCountKept
<1>6. WeakInv' BY <1>v
<1>7. ObjectInv'
  <2>1. Cardinality(Inserting') <= Cardinality(Inserting) BY <1>s, InsertingCount
  <2>. QED BY Parts, <1>d, <1>g, <1>x, <1>k, <2>1, ObjectKept
<1>8. RemoveInv' BY <1>z
<1>9. ShardInv' BY <1>z
<1>10. QueueInv' BY <1>z
<1>11. SizeInv' BY <1>z
<1>12. KillInv' BY <1>z
<1>13. TableInv' BY <1>z
<1>14. TypeOK' BY Records, <1>x, <1>v, <1>d, <1>z, TypesNext
<1>. QED
  BY <1>q, <1>1, <1>2, <1>3, <1>4, <1>5, <1>6, <1>7, <1>8, <1>9, <1>10, <1>11, <1>12, <1>13, <1>14 DEF IInv

\* The steps of the thread that releases the last reference to an entry.
LEMMA EvictThenRelease ==
  ASSUME NEW c \in Cache
  PROVE  \A s : s = << Step("evict", None) >> \o << Step("cachedec", c) >> =>
             /\ s \in Seq(Steps) /\ WellFormed(s) /\ First(s) = Step("evict", None)
             /\ Final(s) = Step("cachedec", c) /\ Frees(s) = {} /\ Deletes(s) = {} /\ Evicts(s)
<1>1. /\ Step("evict", None) \in Steps /\ Step("evict", None).op = "evict"
      /\ Step("cachedec", c) \in Steps /\ Step("cachedec", c).op = "cachedec"
  BY IsStep, StepEq
<1>2. PICK u : u = << Step("evict", None) >> OBVIOUS
<1>3. PICK v : v = << Step("cachedec", c) >> OBVIOUS
<1>4. /\ u \in Seq(Steps) /\ WellFormed(u) /\ First(u) = Step("evict", None) /\ AllInner(u) /\ u # << >>
      /\ Frees(u) = {} /\ Deletes(u) = {} /\ Evicts(u)
  BY <1>1, <1>2, Single DEF Inner
<1>5. /\ v \in Seq(Steps) /\ WellFormed(v) /\ Final(v) = Step("cachedec", c) /\ Fresh(v)
      /\ Frees(v) = {} /\ Deletes(v) = {} /\ ~Evicts(v)
  BY <1>1, <1>3, OneFinal DEF Inner
<1>6. Final(v).op \in Follows /\ Frees(u) \cap Frees(v) = {} /\ Deletes(u) \cap Deletes(v) = {}
  BY <1>1, <1>4, <1>5 DEF Follows
<1>7. PICK w : w = u \o v OBVIOUS
<1>8. /\ w \in Seq(Steps) /\ WellFormed(w) /\ First(w) = First(u) /\ Final(w) = Final(v)
      /\ Frees(w) = Frees(u) \cup Frees(v) /\ Deletes(w) = Deletes(u) \cup Deletes(v)
      /\ (Evicts(w) <=> Evicts(u) \/ Evicts(v))
  BY <1>4, <1>5, <1>6, <1>7, Join
<1>9. w = << Step("evict", None) >> \o << Step("cachedec", c) >> BY <1>2, <1>3, <1>7
<1>. QED BY <1>4, <1>5, <1>8, <1>9

\* The last reference to an entry is released: the entry may be evicted.
LEMMA LastReferenceLruKeeps ==
  ASSUME IInv, NEW t \in Thread, At(t, "entrylock"), NEW e \in Entry, e = Arg(t),
         NEW c, c = entry[e].cache, lru = None, entry[e].refs = 2, entry' = [entry EXCEPT ![e].refs = 0],
         lru' = t, queue' = AddToEvictionQueue(e),
         NEW s, s = << Step("evict", None) >> \o << Step("cachedec", c) >>, Goto(t, s),
         UNCHANGED << pool, caches, cache, weak, victims, held >>
  PROVE  IInv'
<1>f. t \in Users(e) /\ Users(e) # {} /\ c \in Cache /\ entry[e].st = "live" /\ entry[e].listed
  BY Parts, AtFirst, Pop, UsedEntry DEF Inner, Users, Ends
<1>d. /\ At(t, "entrylock") /\ Goto(t, s) /\ e = Arg(t) /\ c = entry[e].cache
      /\ lru = None /\ lru' = t /\ queue' = AddToEvictionQueue(e)
      /\ entry' = [entry EXCEPT ![e].refs = 0] /\ entry[e].refs = 2
      /\ UNCHANGED << pool, caches, cache, weak, victims, held >>
  OBVIOUS
<1>e. /\ OnlyTodo(t) /\ Alone(todo[t], "entrylock", e)
      /\ First(todo'[t]) = Step("evict", None) /\ Frees(todo'[t]) = {} /\ Deletes(todo'[t]) = {} /\ Evicts(todo'[t])
      /\ Final(todo'[t]) = Step("cachedec", c)
  <2>7. /\ s \in Seq(Steps) /\ WellFormed(s) /\ First(s) = Step("evict", None) /\ Final(s) = Step("cachedec", c)
        /\ Frees(s) = {} /\ Deletes(s) = {} /\ Evicts(s)
    BY <1>f, EvictThenRelease
  <2>8. "entrylock" \notin Inner BY DEF Inner
  <2>9. /\ From(t, Step("entrylock", e), Step("entrylock", e), {}, {}, FALSE) /\ todo[t] # << >>
        /\ OnlyTodo(t) /\ todo'[t] = s
    BY Parts, <1>d, <2>7, <2>8, Replaced
  <2>10. Alone(todo[t], "entrylock", e) BY <2>8, <2>9, StepEq DEF Alone, From
  <2>. QED BY <2>7, <2>9, <2>10
<1>m. Moves(t) BY <1>d, <1>e, MovesOnly
<1>a. t \notin Users(e)' /\ \A z \in Entry : z # e => Users(z)' = Users(z)
  <2>1. Ends(t, "entrylock", e) BY <1>e DEF Ends, Alone
  <2>2. held[t].entry = None /\ \A z \in Entry : None # z
    BY Parts, <2>1, ConstantsAssumption DEF HeldInv, HeldAt, Entry, None
  <2>3. \A z \in Entry : \A u \in Thread : u # t => (u \in Users(z)' <=> u \in Users(z))
    BY <1>m DEF Moves, OnlyTodo, Users, Ends
  <2>4. \A z \in Entry : t \notin Users(z)' /\ (t \in Users(z) <=> z = e)
    BY <1>d, <1>e, <2>2, StepEq DEF Users, Ends, Alone
  <2>. QED BY <2>3, <2>4 DEF Users
<1>b. ~Marked(e) /\ ~IsPinned(entry[e].cache) /\ Users(e)' = {} /\ Cardinality(Users(e)') = 0
  <2>1. /\ Cardinality(Users(e)) \in Nat /\ Cardinality(Users(e)) > 0 /\ One(Marked(e)) \in {0, 1}
        /\ One(Marked(e)) = 1 <=> Marked(e)
        /\ ~IsPinned(entry[e].cache) /\ entry[e].refs = 2 * Cardinality(Users(e)) + One(Marked(e))
    BY <1>f, UserCount
  <2>2. Cardinality(Users(e)) = 1 /\ One(Marked(e)) = 0 BY <1>d, <2>1
  <2>3. Cardinality(Users(e)') = Cardinality(Users(e)) + One(t \in Users(e)') - One(t \in Users(e))
    BY <1>m, CountsAt
  <2>4. Cardinality(Users(e)') = 0 BY <1>a, <1>f, <2>2, <2>3 DEF One
  <2>5. Users(e)' \in SUBSET Thread BY DEF Users
  <2>6. Users(e)' = {} BY <2>4, <2>5, ThreadsFinite
  <2>. QED BY <2>1, <2>2, <2>4, <2>6
<1>x. /\ \A z \in Entry : z # e => entry'[z] = entry[z]
      /\ entry'[e].refs = 0
      /\ \A z \in Entry : /\ entry'[z].st = entry[z].st /\ entry'[z].cache = entry[z].cache
                          /\ entry'[z].key = entry[z].key /\ entry'[z].listed = entry[z].listed
                          /\ entry'[z].bytes = entry[z].bytes
      /\ entry' \in [Entry -> EntryRec] /\ EntriesKept /\ ListedKept
  BY Parts, <1>d, EntryRefs
<1>g. entry[e].st = "live" /\ entry[e].listed BY <1>f
<1>k. CachesKept /\ VictimsKept /\ UsedCaches' = UsedCaches
  BY Parts, <1>d, <1>x, CacheSame, VictimsUnmoved
<1>z. /\ TodoInv' /\ LruInv' /\ RemoveInv' /\ ShardInv' /\ QueueInv' /\ SizeInv' /\ KillInv' /\ TableInv'
      /\ queue' \in Seq(Entry) /\ \A d : IsPinned(d)' <=> IsPinned(d)
  <2>1. First(todo[t]).op \notin Inner /\ Frees(todo[t]) = {} /\ Deletes(todo[t]) = {} /\ ~Evicts(todo[t])
    BY <1>e DEF Alone
  <2>2. /\ First(todo'[t]) = Step("evict", None) /\ Frees(todo'[t]) = {} /\ Deletes(todo'[t]) = {} /\ Evicts(todo'[t])
    BY <1>e
  <2>3. /\ EntriesKept /\ ListedKept /\ (\A z \in Entry : entry'[z].bytes = entry[z].bytes)
        /\ \A z \in Entry : z # e => entry'[z].refs = entry[z].refs
    BY <1>x
  <2>4. entry[e].st = "live" /\ entry[e].listed /\ ~IsPinned(entry[e].cache) BY <1>g, <1>b
  <2>. QED BY <1>d, <1>m, <2>1, <2>2, <2>3, <2>4, Enqueued
<1>q. TodoInv' /\ LruInv' /\ \A d : IsPinned(d)' <=> IsPinned(d) BY <1>z
<1>l. Final(todo[t]).op = "entrylock" /\ Final(todo'[t]).op = "cachedec"
  BY <1>e, StepEq, NoStepIs DEF Alone
<1>s. /\ PoolUsers' = PoolUsers
      /\ PoolWeakPtrs' = PoolWeakPtrs
      /\ PoolWeakReleases' = PoolWeakReleases
      /\ Inserting' = Inserting
      /\ (\A cc : CachePtrs(cc)' = CachePtrs(cc))
      /\ (\A ee : WeakUsers(ee)' = WeakUsers(ee))
      /\ (\A u \in Thread : \A ee : Unmarks(u, ee)' <=> Unmarks(u, ee))
      /\ (\A u \in Thread : \A ee : Marks(u, ee)' <=> Marks(u, ee))
  BY <1>l, <1>m, <1>d, SameSets DEF NeverEnds
<1>u. /\ \A d : d # c => UsedEntries(d)' = UsedEntries(d)
      /\ Cardinality(UsedEntries(c)') = Cardinality(UsedEntries(c)) - 1
  BY <1>x, <1>a, <1>b, <1>f, UsedLess
<1>v. \A ee \in Entry : Marked(ee)' <=> Marked(ee) BY <1>s, <1>d, MarkedKept
<1>1. HeldInv' BY Parts, <1>l, <1>m, HeldPlain
<1>2. PoolCount' BY Parts, <1>d, <1>k, <1>s, PoolKept
<1>3. CacheCount'
  <2>. SUFFICES ASSUME NEW d \in Cache
               PROVE  (cache[d].strong = Cardinality(CachePtrs(d)) + Cardinality(CacheReleases(d))
                                         + Cardinality(UsedEntries(d)))'
    BY DEF CacheCount
  <2>1. cache[d].strong = Cardinality(CachePtrs(d)) + Cardinality(CacheReleases(d))
                          + Cardinality(UsedEntries(d))
    BY Parts DEF CacheCount
  <2>2. /\ Cardinality(CachePtrs(d)) \in Nat /\ Cardinality(CacheReleases(d)) \in Nat
        /\ Cardinality(UsedEntries(d)) \in Nat
    BY Counts
  <2>3. Cardinality(CacheReleases(d)') = Cardinality(CacheReleases(d))
           + One("cachedec" = "cachedec" /\ c = d) - One("entrylock" = "cachedec" /\ e = d)
    BY <1>e, <1>m, CountsEnds DEF Alone
  <2>4. One("entrylock" = "cachedec" /\ e = d) = 0 BY DEF One
  <2>5. CASE d = c
    <3>1. One("cachedec" = "cachedec" /\ c = d) = 1 BY <2>5 DEF One
    <3>2. Cardinality(UsedEntries(d)') = Cardinality(UsedEntries(d)) - 1 BY <1>u, <2>5
    <3>. QED BY <1>d, <1>s, <2>1, <2>2, <2>3, <2>4, <3>1, <3>2
  <2>6. CASE d # c
    <3>1. One("cachedec" = "cachedec" /\ c = d) = 0 BY <2>6 DEF One
    <3>. QED BY <1>d, <1>s, <1>u, <2>1, <2>2, <2>3, <2>4, <2>6, <3>1
  <2>. QED BY <2>5, <2>6
<1>4. EntryCount'
  <2>1. One(Marked(e))' = 0 BY <1>b, <1>v DEF One
  <2>2. One(entry[e].listed /\ IsPinned(entry[e].cache))' = 0
    BY <1>b, <1>q, <1>x DEF One, IsPinned, Doing
  <2>3. entry'[e].refs = 2 * Cardinality(Users(e)') + One(Marked(e))'
                         + 2 * One(entry[e].listed /\ IsPinned(entry[e].cache))'
    BY <1>b, <1>x, <2>1, <2>2
  <2>4. \A z \in Entry : z # e => /\ entry'[z].refs = entry[z].refs /\ entry'[z].listed = entry[z].listed
                                  /\ entry'[z].cache = entry[z].cache
    BY <1>x
  <2>. QED BY Parts, <1>a, <1>q, <1>v, <2>3, <2>4, EntryChange
<1>5. WeakCount' BY Parts, <1>d, <1>s, WeakCountKept
<1>6. WeakInv' BY Parts, <1>x, <1>d, <1>s, WeakKept
<1>7. ObjectInv'
  <2>1. Cardinality(Inserting') <= Cardinality(Inserting) BY <1>s, InsertingCount
  <2>. QED BY Parts, <1>d, <1>g, <1>x, <1>k, <2>1, ObjectKept
<1>8. RemoveInv' BY <1>z
<1>9. ShardInv' BY <1>z
<1>10. QueueInv' BY <1>z
<1>11. SizeInv' BY <1>z
<1>12. KillInv' BY <1>z
<1>13. TableInv' BY <1>z
<1>14. TypeOK' BY Records, <1>x, <1>d, <1>z, TypesNext
<1>. QED
  BY <1>q, <1>1, <1>2, <1>3, <1>4, <1>5, <1>6, <1>7, <1>8, <1>9, <1>10, <1>11, <1>12, <1>13, <1>14 DEF IInv

\* An entry leaves its cache when nothing refers to it any more: without an LRU cache it is destroyed
\* at once, and with it a cache that this makes deletable.
LEMMA Dropped ==
  ASSUME IInv, NEW t \in Thread, NEW e \in Entry, NEW c \in Cache, c = entry[e].cache, NEW D,
         NEW new, new = WithoutEntry(e), NEW del \in BOOLEAN,
         del <=> (~ShouldDelete(cache[c]) /\ ShouldDelete(new)), D = IF del THEN {c} ELSE {},
         ~HasLruCache, queue = << >>, UNCHANGED << pool, caches, queue, lru, victims >>,
         Moves(t), First(todo[t]).op \notin Inner, Frees(todo[t]) = {}, Deletes(todo[t]) = {},
         First(todo'[t]).op = "delete", Frees(todo'[t]) = D, Deletes(todo'[t]) = {e},
         EntriesKept, \A z \in Entry : z # e => entry'[z] = entry[z],
         ~entry'[e].listed, entry'[e].refs = 0, entry'[e].bytes = entry[e].bytes,
         entry[e].st = "live", entry[e].listed, ~IsPinned(c), \A z \in Entry : entry'[z].bytes \in Nat,
         \A d \in Cache : d # c => cache'[d] = cache[d], cache'[c] = new, DOMAIN cache' = Cache,
         cache' = [d \in Cache |-> cache'[d]]
  PROVE  /\ TodoInv' /\ LruInv' /\ RemoveInv' /\ ShardInv' /\ QueueInv' /\ SizeInv' /\ KillInv' /\ TableInv'
         /\ cache' \in [Cache -> CacheRec] /\ CachesKept /\ UsedCaches' = UsedCaches
         /\ \A d \in Cache : cache'[d].strong = cache[d].strong
         /\ \A d \in Cache : cache[d].st # "live" => cache'[d] = cache[d]
         /\ \A d : IsPinned(d)' <=> IsPinned(d)
<1>0. /\ TypeOK /\ TodoInv /\ LruInv /\ RemoveInv /\ KillInv /\ TableInv /\ ShardInv /\ QueueInv /\ SizeInv
      /\ ObjectInv /\ queue \in Seq(Entry) /\ caches \subseteq Cache /\ cache \in [Cache -> CacheRec]
  BY Parts, Types
<1>a. cache[c].st = "live" /\ \A u \in Thread : e \notin Removed(u)
  BY <1>0 DEF ObjectInv, RemoveInv
<1>n. /\ cache[c].shards > 0 /\ new \in CacheRec
      /\ ShouldDelete(cache[c]) => ShouldDelete(new)
      /\ del => \A u \in Thread : c \notin Killed(u)
      /\ \A u \in Thread : c \notin DoomedIn(victims[u])
      /\ new.st = "live" /\ new.ident = cache[c].ident /\ new.strong = cache[c].strong
      /\ new.bit = cache[c].bit /\ new.shards = cache[c].shards - One(ShardOf(e) = {e})
  BY <1>0, <1>a, ErasedCache, WithoutFields DEF BecomesDeletable
<1>f. First(todo[t]).op \notin {"free", "evict"} /\ First(todo'[t]).op \notin {"pin", "free", "evict"}
  BY DEF Inner
<1>z. cache' \in [Cache -> CacheRec] BY <1>0, <1>n
<1>k. /\ VictimsKept /\ CachesKept /\ UsedCaches' = UsedCaches
      /\ \A d \in Cache : cache'[d].strong = cache[d].strong /\ cache'[d].bit = cache[d].bit
  <2>1. VictimsKept BY <1>0, VictimsUnmoved
  <2>2. CachesKept BY <1>n, <1>a DEF CachesKept
  <2>3. \A d \in Cache : cache'[d].strong = cache[d].strong /\ cache'[d].bit = cache[d].bit
    BY <1>n
  <2>. QED BY <2>1, <2>2, <2>3 DEF UsedCaches
<1>1. TodoInv' BY <1>0, TodoKept
<1>2. LruInv' BY <1>0, <1>f, <1>k, LruKept
<1>3. \A d : IsPinned(d)' <=> IsPinned(d) BY <1>f, SameSets
<1>r. /\ \A u \in Thread : u # t => Removed(u)' = Removed(u) /\ Killed(u)' = Killed(u)
      /\ \A u \in Thread : u # t => Deletes(todo[u])' = Deletes(todo[u]) /\ Frees(todo[u])' = Frees(todo[u])
      /\ Removed(t)' = {e} \cup Removed(t) /\ Killed(t)' = D \cup Killed(t)
      /\ \A u \in Thread : DoomedIn(victims[u])' = DoomedIn(victims[u])
      /\ \A u \in Thread : ChosenIn(victims[u])' = ChosenIn(victims[u])
  <2>1. /\ Removed(t)' = Deletes(todo'[t]) \cup ChosenIn(victims[t])
        /\ Killed(t)' = Frees(todo'[t]) \cup DoomedIn(victims[t])
        /\ \A u \in Thread : u # t => Removed(u)' = Removed(u) /\ Killed(u)' = Killed(u)
        /\ \A u \in Thread : u # t => Deletes(todo[u])' = Deletes(todo[u]) /\ Frees(todo[u])' = Frees(todo[u])
    BY <1>0, <1>k, RemovedAt
  <2>2. Removed(t) = ChosenIn(victims[t]) /\ Killed(t) = DoomedIn(victims[t])
    BY DEF Removed, Killed
  <2>3. \A u \in Thread : /\ DoomedIn(victims[u])' = DoomedIn(victims[u])
                          /\ ChosenIn(victims[u])' = ChosenIn(victims[u])
    BY <1>0, <1>k, VictimsSame
  <2>. QED BY <2>1, <2>2, <2>3
<1>4. RemoveInv'
  <2>1. \A u, v \in Thread : u # v => Removed(u)' \cap Removed(v)' = {}
    BY <1>0, <1>r, <1>a DEF RemoveInv
  <2>2. \A x \in Entry : (entry'[x].st = "live" /\ ~entry'[x].listed) <=> \E u \in Thread : x \in Removed(u)'
    BY <1>r, <1>0 DEF EntriesKept, RemoveInv
  <2>3. \A x \in Entry : entry'[x].st = "live" /\ ~entry'[x].listed => entry'[x].refs = 0
    BY <1>0 DEF RemoveInv
  <2>4. \A u \in Thread : Deletes(todo[u])' \cap ChosenIn(victims[u])' = {}
    BY <1>0, <1>r, <1>a DEF RemoveInv, Removed
  <2>. QED BY <2>1, <2>2, <2>3, <2>4 DEF RemoveInv
<1>5. KillInv'
  <2>1. \A u, v \in Thread : u # v => Killed(u)' \cap Killed(v)' = {}
    BY <1>0, <1>r, <1>n DEF KillInv
  <2>2. \A d \in Cache : (cache'[d].st = "live" /\ ShouldDelete(cache'[d]))
                            <=> \E u \in Thread : d \in Killed(u)'
    BY <1>r, <1>0, <1>n, <1>a DEF KillInv
  <2>3. \A u \in Thread : Frees(todo[u])' \cap DoomedIn(victims[u])' = {}
    BY <1>0, <1>r, <1>n DEF KillInv
  <2>4. \A u \in Thread : \A d \in DoomedIn(victims[u])' : cache'[d].shards = 0
    <3>1. ASSUME NEW u \in Thread, NEW d \in DoomedIn(victims[u]) PROVE cache'[d].shards = 0
      BY <1>0, <1>n DEF KillInv, LruInv, Buffer, DoomedIn
    <3>. QED BY <1>r, <3>1
  <2>. QED BY <2>1, <2>2, <2>3, <2>4 DEF KillInv
<1>6. TableInv' BY <1>n, <1>k, <1>0, <1>f, TableKept
<1>7. ShardInv'
  <2>1. /\ \A d : d # c => ShardsOf(d)' = ShardsOf(d)
        /\ Cardinality(ShardsOf(c)) \in Nat \ {0}
        /\ Cardinality(ShardsOf(c)') = Cardinality(ShardsOf(c)) - One(ShardOf(e) = {e})
    BY <1>0, ShardLess
  <2>2. cache[c].shards = Cardinality(ShardsOf(c)) BY <1>0 DEF ShardInv
  <2>3. cache'[c].shards = Cardinality(ShardsOf(c)') BY <1>n, <2>1, <2>2
  <2>4. ASSUME NEW d \in Cache, d # c, ~IsPinned(d)' PROVE cache'[d].shards = Cardinality(ShardsOf(d)')
    BY <1>0, <1>3, <2>4, <2>1 DEF ShardInv
  <2>. QED BY <2>3, <2>4 DEF ShardInv
<1>8. QueueInv' BY DEF Members, Distinct, QueueInv, HasLruCache
<1>9. SizeInv'
  <2>1. Counted' = Counted \ {e} /\ e \in Counted
    <3>1. \A x \in Entry : x # e => (x \in Counted' <=> x \in Counted)
      BY <1>3 DEF Counted, IsPinned, Doing
    <3>2. e \in Counted /\ e \notin Counted' BY DEF Counted
    <3>3. Counted \subseteq Entry /\ Counted' \subseteq Entry BY DEF Counted
    <3>. QED BY <3>1, <3>2, <3>3
  <2>2. \A x \in Entry : entry[x].bytes = 0 /\ entry'[x].bytes = 0 BY <1>0 DEF SizeInv
  <2>3. TotalBytes(Counted)' = TotalBytes(Counted) - entry[e].bytes /\ TotalBytes(Counted)' \in Nat
    BY <1>0, <2>1, <2>2, TotalLess
  <2>4. pool'.total = TotalBytes(Counted)' BY <1>0, <2>2, <2>3, Fields DEF SizeInv
  <2>. QED BY <2>2, <2>4 DEF SizeInv
<1>10. \A d \in Cache : cache[d].st # "live" => cache'[d] = cache[d] BY <1>a
<1>. QED BY <1>z, <1>k, <1>1, <1>2, <1>3, <1>4, <1>5, <1>6, <1>7, <1>8, <1>9, <1>10

-----------------------------------------------------------------------------
(* Entries that are destroyed with their last reference: no LRU cache.     *)

\* The last reference to e goes, and e leaves its cache c.
DropsEntry(e) ==
    /\ \A z \in Entry : z # e => entry'[z] = entry[z]
    /\ ~entry'[e].listed /\ entry'[e].refs = 0 /\ entry'[e].st = entry[e].st
    /\ entry'[e].cache = entry[e].cache /\ entry'[e].key = entry[e].key
    /\ entry'[e].bytes = entry[e].bytes /\ entry'[e].init = entry[e].init
    /\ entry' \in [Entry -> EntryRec]

ErasesEntry(e, c) ==
    /\ \A d \in Cache : d # c => cache'[d] = cache[d]
    /\ cache'[c] = WithoutEntry(e) /\ DOMAIN cache' = Cache /\ cache' = [d \in Cache |-> cache'[d]]

\* What a deletion puts in front of the other steps.
LEMMA DeleteThen ==
  ASSUME NEW e \in Entry, NEW v \in Seq(Steps), WellFormed(v), Fresh(v), Final(v).op \in Follows,
         Deletes(v) = {}, ~Evicts(v), NEW s, s = << Step("delete", e) >> \o v
  PROVE  /\ s \in Seq(Steps) /\ WellFormed(s) /\ First(s) = Step("delete", e) /\ First(s).op = "delete"
         /\ Final(s) = Final(v) /\ Frees(s) = Frees(v) /\ Deletes(s) = {e} /\ ~Evicts(s) /\ s # << >>
<1>1. /\ Step("delete", e) \in Steps /\ Step("delete", e).op = "delete" /\ Step("delete", e).x = e
  BY IsStep, StepEq
<1>2. PICK u : u = << Step("delete", e) >> OBVIOUS
<1>4. /\ u \in Seq(Steps) /\ WellFormed(u) /\ First(u) = Step("delete", e) /\ AllInner(u) /\ u # << >>
      /\ Frees(u) = {} /\ Deletes(u) = {e} /\ ~Evicts(u)
  BY <1>1, <1>2, Single DEF Inner
<1>5. Frees(u) \cap Frees(v) = {} /\ Deletes(u) \cap Deletes(v) = {} BY <1>4
<1>6. PICK w : w = u \o v OBVIOUS
<1>7. /\ w \in Seq(Steps) /\ WellFormed(w) /\ First(w) = First(u) /\ Final(w) = Final(v)
      /\ Frees(w) = Frees(u) \cup Frees(v) /\ Deletes(w) = Deletes(u) \cup Deletes(v)
      /\ (Evicts(w) <=> Evicts(u) \/ Evicts(v)) /\ w # << >>
  BY <1>4, <1>5, <1>6, Join
<1>8. w = s BY <1>2, <1>6
<1>. QED BY <1>1, <1>4, <1>7, <1>8

\* What DropsEntry changes, for the counts.
LEMMA DroppedEntry ==
  ASSUME NEW e \in Entry, DropsEntry(e)
  PROVE  /\ \A z \in Entry : z # e => entry'[z] = entry[z]
         /\ ~entry'[e].listed /\ entry'[e].refs = 0 /\ entry'[e].bytes = entry[e].bytes
         /\ \A z \in Entry : /\ entry'[z].st = entry[z].st /\ entry'[z].cache = entry[z].cache
                             /\ entry'[z].key = entry[z].key /\ (entry'[z].listed => entry[z].listed)
         /\ entry' \in [Entry -> EntryRec] /\ EntriesKept
         /\ \A z \in Entry : entry'[z].bytes \in Nat
<1>1. \A z \in Entry : /\ entry'[z].st = entry[z].st /\ entry'[z].cache = entry[z].cache
                       /\ entry'[z].key = entry[z].key /\ (entry'[z].listed => entry[z].listed)
  BY DEF DropsEntry
<1>2. entry' \in [Entry -> EntryRec] BY DEF DropsEntry
<1>3. \A z \in Entry : entry'[z].bytes \in Nat BY <1>2 DEF EntryRec
<1>. QED BY <1>1, <1>2, <1>3 DEF DropsEntry, EntriesKept

\* The last reference to an entry is released: without an LRU cache, the entry is destroyed.
LEMMA DropLastReferenceKeeps ==
  ASSUME IInv, NEW t \in Thread, At(t, "entrylock"), NEW e \in Entry, e = Arg(t),
         NEW c, c = entry[e].cache, ~HasLruCache, queue = << >>, entry[e].refs = 2, DropsEntry(e), ErasesEntry(e, c),
         NEW s \in Seq(Steps), WellFormed(s), First(s).op = "delete", Final(s) = Step("cachedec", c),
         Frees(s) = {}, Deletes(s) = {e}, Goto(t, s),
         UNCHANGED << pool, caches, weak, queue, lru, victims, held >>
  PROVE  IInv'
<1>f. t \in Users(e) /\ Users(e) # {} /\ c \in Cache /\ entry[e].st = "live" /\ entry[e].listed
  BY Parts, AtFirst, Pop, UsedEntry DEF Inner, Users, Ends
<1>d. /\ At(t, "entrylock") /\ Goto(t, s) /\ e = Arg(t) /\ c = entry[e].cache
      /\ ~HasLruCache /\ queue = << >> /\ entry[e].refs = 2 /\ DropsEntry(e) /\ ErasesEntry(e, c)
      /\ UNCHANGED << pool, caches, queue, lru, victims, held, weak >>
  OBVIOUS
<1>e. /\ OnlyTodo(t) /\ Alone(todo[t], "entrylock", e)
      /\ First(todo'[t]).op = "delete" /\ Frees(todo'[t]) = {} /\ Deletes(todo'[t]) = {e}
      /\ Final(todo'[t]) = Step("cachedec", c)
  <2>1. "entrylock" \notin Inner BY DEF Inner
  <2>2. /\ From(t, Step("entrylock", e), Step("entrylock", e), {}, {}, FALSE) /\ todo[t] # << >>
        /\ OnlyTodo(t) /\ todo'[t] = s
    BY Parts, <1>d, <2>1, Replaced
  <2>3. Alone(todo[t], "entrylock", e) BY <2>1, <2>2, StepEq DEF Alone, From
  <2>. QED BY <2>2, <2>3
<1>m. Moves(t) BY <1>d, <1>e, MovesOnly
<1>a. t \notin Users(e)' /\ \A z \in Entry : z # e => Users(z)' = Users(z)
  <2>1. Ends(t, "entrylock", e) BY <1>e DEF Ends, Alone
  <2>2. held[t].entry = None /\ \A z \in Entry : None # z
    BY Parts, <2>1, ConstantsAssumption DEF HeldInv, HeldAt, Entry, None
  <2>3. \A z \in Entry : \A u \in Thread : u # t => (u \in Users(z)' <=> u \in Users(z))
    BY <1>m DEF Moves, OnlyTodo, Users, Ends
  <2>4. \A z \in Entry : t \notin Users(z)' /\ (t \in Users(z) <=> z = e)
    BY <1>d, <1>e, <2>2, StepEq DEF Users, Ends, Alone
  <2>. QED BY <2>3, <2>4 DEF Users
<1>b. ~Marked(e) /\ ~IsPinned(entry[e].cache) /\ Users(e)' = {} /\ Cardinality(Users(e)') = 0
  <2>1. /\ Cardinality(Users(e)) \in Nat /\ Cardinality(Users(e)) > 0 /\ One(Marked(e)) \in {0, 1}
        /\ One(Marked(e)) = 1 <=> Marked(e)
        /\ ~IsPinned(entry[e].cache) /\ entry[e].refs = 2 * Cardinality(Users(e)) + One(Marked(e))
    BY <1>f, UserCount
  <2>2. Cardinality(Users(e)) = 1 /\ One(Marked(e)) = 0 BY <1>d, <2>1
  <2>3. Cardinality(Users(e)') = Cardinality(Users(e)) + One(t \in Users(e)') - One(t \in Users(e))
    BY <1>m, CountsAt
  <2>4. Cardinality(Users(e)') = 0 BY <1>a, <1>f, <2>2, <2>3 DEF One
  <2>5. Users(e)' \in SUBSET Thread BY DEF Users
  <2>6. Users(e)' = {} BY <2>4, <2>5, ThreadsFinite
  <2>. QED BY <2>1, <2>2, <2>4, <2>6
<1>x. /\ \A z \in Entry : z # e => entry'[z] = entry[z]
      /\ ~entry'[e].listed /\ entry'[e].refs = 0 /\ entry'[e].bytes = entry[e].bytes
      /\ \A z \in Entry : /\ entry'[z].st = entry[z].st /\ entry'[z].cache = entry[z].cache
                          /\ entry'[z].key = entry[z].key /\ (entry'[z].listed => entry[z].listed)
      /\ entry' \in [Entry -> EntryRec] /\ EntriesKept
      /\ \A z \in Entry : entry'[z].bytes \in Nat
  BY <1>d, DroppedEntry
<1>g. entry[e].st = "live" /\ entry[e].listed BY <1>f
<1>z. /\ TodoInv' /\ LruInv' /\ RemoveInv' /\ ShardInv' /\ QueueInv' /\ SizeInv' /\ KillInv' /\ TableInv'
      /\ cache' \in [Cache -> CacheRec] /\ CachesKept /\ UsedCaches' = UsedCaches
      /\ (\A d \in Cache : cache'[d].strong = cache[d].strong)
      /\ (\A d \in Cache : cache[d].st # "live" => cache'[d] = cache[d])
      /\ \A d : IsPinned(d)' <=> IsPinned(d)
  <2>1. First(todo[t]).op \notin Inner /\ Frees(todo[t]) = {} /\ Deletes(todo[t]) = {}
    BY <1>e DEF Alone
  <2>2. PICK new : new = WithoutEntry(e) OBVIOUS
  <2>3. /\ \A d \in Cache : d # c => cache'[d] = cache[d]
        /\ cache'[c] = new /\ DOMAIN cache' = Cache /\ cache' = [d \in Cache |-> cache'[d]]
    BY <1>d, <2>2 DEF ErasesEntry
  <2>4. FALSE <=> (~ShouldDelete(cache[c]) /\ ShouldDelete(new))
    BY <1>d, <1>f, <2>2, Parts, UsedEntry, WithoutFields DEF ShouldDelete
  <2>5. entry[e].st = "live" /\ entry[e].listed /\ ~IsPinned(c) /\ c \in Cache
    BY <1>f, <1>g, <1>b, <1>d
  <2>6. UNCHANGED << pool, caches, queue, lru, victims >> /\ ~HasLruCache /\ queue = << >> /\ c = entry[e].cache
    BY <1>d
  <2>7. /\ EntriesKept /\ \A z \in Entry : z # e => entry'[z] = entry[z]
        /\ ~entry'[e].listed /\ entry'[e].refs = 0 /\ entry'[e].bytes = entry[e].bytes
        /\ \A z \in Entry : entry'[z].bytes \in Nat
    BY <1>x
  <2>. QED BY <1>e, <1>m, <2>1, <2>2, <2>3, <2>4, <2>5, <2>6, <2>7, Dropped
<1>q. TodoInv' /\ LruInv' /\ \A d : IsPinned(d)' <=> IsPinned(d) BY <1>z
<1>l. Final(todo[t]).op = "entrylock" /\ Final(todo'[t]).op = "cachedec"
  BY <1>e, StepEq, NoStepIs DEF Alone
<1>s. /\ PoolUsers' = PoolUsers
      /\ PoolWeakPtrs' = PoolWeakPtrs
      /\ PoolWeakReleases' = PoolWeakReleases
      /\ Inserting' = Inserting
      /\ (\A cc : CachePtrs(cc)' = CachePtrs(cc))
      /\ (\A ee : WeakUsers(ee)' = WeakUsers(ee))
      /\ (\A u \in Thread : \A ee : Unmarks(u, ee)' <=> Unmarks(u, ee))
      /\ (\A u \in Thread : \A ee : Marks(u, ee)' <=> Marks(u, ee))
  BY <1>l, <1>m, <1>d, SameSets DEF NeverEnds
<1>u. /\ \A d : d # c => UsedEntries(d)' = UsedEntries(d)
      /\ Cardinality(UsedEntries(c)') = Cardinality(UsedEntries(c)) - 1
  BY <1>x, <1>a, <1>b, <1>f, UsedLess
<1>v. \A ee \in Entry : Marked(ee)' <=> Marked(ee) BY <1>s, <1>d, MarkedKept
<1>1. HeldInv' BY Parts, <1>l, <1>m, HeldPlain
<1>2. PoolCount' BY Parts, <1>d, <1>z, <1>s, PoolKept
<1>3. CacheCount'
  <2>. SUFFICES ASSUME NEW d \in Cache
               PROVE  (cache[d].strong = Cardinality(CachePtrs(d)) + Cardinality(CacheReleases(d))
                                         + Cardinality(UsedEntries(d)))'
    BY DEF CacheCount
  <2>1. cache[d].strong = Cardinality(CachePtrs(d)) + Cardinality(CacheReleases(d))
                          + Cardinality(UsedEntries(d))
    BY Parts DEF CacheCount
  <2>2. /\ Cardinality(CachePtrs(d)) \in Nat /\ Cardinality(CacheReleases(d)) \in Nat
        /\ Cardinality(UsedEntries(d)) \in Nat
    BY Counts
  <2>3. Cardinality(CacheReleases(d)') = Cardinality(CacheReleases(d))
           + One("cachedec" = "cachedec" /\ c = d) - One("entrylock" = "cachedec" /\ e = d)
    BY <1>e, <1>m, CountsEnds DEF Alone
  <2>4. One("entrylock" = "cachedec" /\ e = d) = 0 BY DEF One
  <2>5. CASE d = c
    <3>1. One("cachedec" = "cachedec" /\ c = d) = 1 BY <2>5 DEF One
    <3>2. Cardinality(UsedEntries(d)') = Cardinality(UsedEntries(d)) - 1 BY <1>u, <2>5
    <3>. QED BY <1>z, <1>s, <2>1, <2>2, <2>3, <2>4, <3>1, <3>2
  <2>6. CASE d # c
    <3>1. One("cachedec" = "cachedec" /\ c = d) = 0 BY <2>6 DEF One
    <3>. QED BY <1>z, <1>s, <1>u, <2>1, <2>2, <2>3, <2>4, <2>6, <3>1
  <2>. QED BY <2>5, <2>6
<1>4. EntryCount'
  <2>1. One(Marked(e))' = 0 BY <1>b, <1>v DEF One
  <2>2. One(entry[e].listed /\ IsPinned(entry[e].cache))' = 0 BY <1>x DEF One
  <2>3. entry'[e].refs = 2 * Cardinality(Users(e)') + One(Marked(e))'
                         + 2 * One(entry[e].listed /\ IsPinned(entry[e].cache))'
    BY <1>b, <1>x, <2>1, <2>2
  <2>4. \A z \in Entry : z # e => /\ entry'[z].refs = entry[z].refs /\ entry'[z].listed = entry[z].listed
                                  /\ entry'[z].cache = entry[z].cache
    BY <1>x
  <2>. QED BY Parts, <1>a, <1>q, <1>v, <2>3, <2>4, EntryChange
<1>5. WeakCount' BY Parts, <1>d, <1>s, WeakCountKept
<1>6. WeakInv' BY Parts, <1>x, <1>d, <1>s, WeakKept
<1>7. ObjectInv'
  <2>1. Cardinality(Inserting') <= Cardinality(Inserting) BY <1>s, InsertingCount
  <2>2. \A z \in Entry : entry[z].st # "live" => entry'[z] = entry[z] BY <1>x, <1>g
  <2>3. \A z \in Entry : entry'[z].listed => entry[z].listed BY <1>x
  <2>. QED BY Parts, <1>x, <1>z, <2>1, <2>2, <2>3, ObjectKept
<1>8. RemoveInv' BY <1>z
<1>9. ShardInv' BY <1>z
<1>10. QueueInv' BY <1>z
<1>11. SizeInv' BY <1>z
<1>12. KillInv' BY <1>z
<1>13. TableInv' BY <1>z
<1>14. TypeOK' BY Records, <1>x, <1>d, <1>z, TypesNext
<1>. QED
  BY <1>q, <1>1, <1>2, <1>3, <1>4, <1>5, <1>6, <1>7, <1>8, <1>9, <1>10, <1>11, <1>12, <1>13, <1>14 DEF IInv

\* The last weak reference was the last reference: without an LRU cache, the entry is destroyed.
LEMMA DropUnmarkedKeeps ==
  ASSUME IInv, NEW t \in Thread, At(t, "unmarklock"), NEW e \in Entry, e = Arg(t),
         NEW c, c = entry[e].cache, ~HasLruCache, queue = << >>, entry[e].refs = 1, DropsEntry(e), ErasesEntry(e, c),
         NEW del \in BOOLEAN, del <=> BecomesDeletable(cache[c], WithoutEntry(e)),
         NEW s \in Seq(Steps), WellFormed(s), First(s).op = "delete", Final(s) = NoStep,
         Frees(s) = IF del THEN {c} ELSE {}, Deletes(s) = {e}, Goto(t, s),
         weak' = [weak EXCEPT ![e].mutex = None],
         UNCHANGED << pool, caches, queue, lru, victims, held >>
  PROVE  IInv'
<1>d. /\ At(t, "unmarklock") /\ Goto(t, s) /\ e = Arg(t) /\ c = entry[e].cache
      /\ ~HasLruCache /\ queue = << >> /\ entry[e].refs = 1 /\ DropsEntry(e) /\ ErasesEntry(e, c)
      /\ UNCHANGED << pool, caches, queue, lru, victims, held >>
  OBVIOUS
<1>w. weak' = [weak EXCEPT ![e].mutex = None] OBVIOUS
<1>e. /\ OnlyTodo(t) /\ Alone(todo[t], "unmarklock", e)
      /\ First(todo'[t]).op = "delete" /\ Frees(todo'[t]) = Frees(s) /\ Deletes(todo'[t]) = {e}
      /\ Final(todo'[t]) = NoStep
  <2>1. "unmarklock" \notin Inner BY DEF Inner
  <2>2. /\ From(t, Step("unmarklock", e), Step("unmarklock", e), {}, {}, FALSE) /\ todo[t] # << >>
        /\ OnlyTodo(t) /\ todo'[t] = s
    BY Parts, <1>d, <2>1, Replaced
  <2>3. Alone(todo[t], "unmarklock", e) BY <2>1, <2>2, StepEq DEF Alone, From
  <2>. QED BY <2>2, <2>3
<1>m. Moves(t) BY <1>d, <1>e, MovesOnly
<1>f. Unmarks(t, e) /\ c \in Cache /\ entry[e].st = "live" /\ entry[e].listed /\ Marked(e)
  BY <1>e, <1>d, UnmarkFacts DEF Unmarks, Ends, Alone
<1>g. entry[e].st = "live" /\ entry[e].listed /\ Marked(e) BY <1>f
<1>b. ~IsPinned(entry[e].cache) /\ Cardinality(Users(e)) = 0
  <2>1. entry[e].refs = 2 * Cardinality(Users(e)) + One(Marked(e))
                        + 2 * One(entry[e].listed /\ IsPinned(entry[e].cache))
    BY Parts DEF EntryCount
  <2>2. One(Marked(e)) = 1 /\ One(entry[e].listed /\ IsPinned(entry[e].cache)) \in {0, 1}
    BY <1>g DEF One
  <2>3. Cardinality(Users(e)) \in Nat BY Counts
  <2>4. One(entry[e].listed /\ IsPinned(entry[e].cache)) = 0 /\ Cardinality(Users(e)) = 0
    BY <1>d, <2>1, <2>2, <2>3
  <2>. QED BY <1>g, <2>4 DEF One
<1>x. /\ \A z \in Entry : z # e => entry'[z] = entry[z]
      /\ ~entry'[e].listed /\ entry'[e].refs = 0 /\ entry'[e].bytes = entry[e].bytes
      /\ \A z \in Entry : /\ entry'[z].st = entry[z].st /\ entry'[z].cache = entry[z].cache
                          /\ entry'[z].key = entry[z].key /\ (entry'[z].listed => entry[z].listed)
      /\ entry' \in [Entry -> EntryRec] /\ EntriesKept
      /\ \A z \in Entry : entry'[z].bytes \in Nat
  BY <1>d, DroppedEntry
<1>z. /\ TodoInv' /\ LruInv' /\ RemoveInv' /\ ShardInv' /\ QueueInv' /\ SizeInv' /\ KillInv' /\ TableInv'
      /\ cache' \in [Cache -> CacheRec] /\ CachesKept /\ UsedCaches' = UsedCaches
      /\ (\A d \in Cache : cache'[d].strong = cache[d].strong)
      /\ (\A d \in Cache : cache[d].st # "live" => cache'[d] = cache[d])
      /\ \A d : IsPinned(d)' <=> IsPinned(d)
  <2>1. First(todo[t]).op \notin Inner /\ Frees(todo[t]) = {} /\ Deletes(todo[t]) = {}
    BY <1>e DEF Alone
  <2>2. PICK new : new = WithoutEntry(e) OBVIOUS
  <2>3. /\ \A d \in Cache : d # c => cache'[d] = cache[d]
        /\ cache'[c] = new /\ DOMAIN cache' = Cache /\ cache' = [d \in Cache |-> cache'[d]]
    BY <1>d, <2>2 DEF ErasesEntry
  <2>4. (del <=> (~ShouldDelete(cache[c]) /\ ShouldDelete(new))) /\ Frees(s) = IF del THEN {c} ELSE {}
    BY <2>2 DEF BecomesDeletable
  <2>5. entry[e].st = "live" /\ entry[e].listed /\ ~IsPinned(c) /\ c \in Cache
    BY <1>f, <1>g, <1>b, <1>d
  <2>6. UNCHANGED << pool, caches, queue, lru, victims >> /\ ~HasLruCache /\ queue = << >> /\ c = entry[e].cache
    BY <1>d
  <2>7. /\ EntriesKept /\ \A z \in Entry : z # e => entry'[z] = entry[z]
        /\ ~entry'[e].listed /\ entry'[e].refs = 0 /\ entry'[e].bytes = entry[e].bytes
        /\ \A z \in Entry : entry'[z].bytes \in Nat
    BY <1>x
  <2>. QED BY <1>e, <1>m, <2>1, <2>2, <2>3, <2>4, <2>5, <2>6, <2>7, Dropped
<1>q. TodoInv' /\ LruInv' /\ \A d : IsPinned(d)' <=> IsPinned(d) BY <1>z
<1>l. Final(todo[t]).op = "unmarklock" /\ Final(todo'[t]).op = "none"
  BY <1>e, StepEq, NoStepIs DEF Alone
<1>s. /\ PoolUsers' = PoolUsers
      /\ PoolWeakPtrs' = PoolWeakPtrs
      /\ PoolWeakReleases' = PoolWeakReleases
      /\ Inserting' = Inserting
      /\ (\A cc : CachePtrs(cc)' = CachePtrs(cc))
      /\ (\A cc : CacheReleases(cc)' = CacheReleases(cc))
      /\ (\A ee : Users(ee)' = Users(ee))
      /\ (\A ee : WeakUsers(ee)' = WeakUsers(ee))
      /\ (\A u \in Thread : \A ee : Marks(u, ee)' <=> Marks(u, ee))
  BY <1>l, <1>m, <1>d, SameSets DEF NeverEnds
<1>u. \A cc : UsedEntries(cc)' = UsedEntries(cc) BY <1>x, <1>s, UsedKept
<1>v. /\ WeakInv' /\ ~Marked(e)' /\ weak' \in [Entry -> WeakRec]
      /\ (\A z \in Entry : z # e => (Marked(z)' <=> Marked(z)))
      /\ \A z \in Entry : weak'[z].n = weak[z].n
  BY <1>x, <1>w, <1>l, <1>f, <1>m, UnmarkAfter
<1>1. HeldInv'
  <2>1. Holds(t)' BY Parts, <1>d, <1>f DEF HeldInv, HeldAt, Unmarks, Holds, HasPool
  <2>. QED BY Parts, <1>l, <1>m, <2>1, HeldOver
<1>2. PoolCount' BY Parts, <1>d, <1>z, <1>s, PoolKept
<1>3. CacheCount' BY Parts, <1>z, <1>s, <1>u, CacheKept
<1>4. EntryCount'
  <2>1. One(Marked(e))' = 0 BY <1>v DEF One
  <2>2. One(entry[e].listed /\ IsPinned(entry[e].cache))' = 0 BY <1>x DEF One
  <2>6. Users(e)' = Users(e) BY <1>s
  <2>3. entry'[e].refs = 2 * Cardinality(Users(e)') + One(Marked(e))'
                         + 2 * One(entry[e].listed /\ IsPinned(entry[e].cache))'
    BY <1>b, <1>x, <2>1, <2>2, <2>6
  <2>4. \A z \in Entry : z # e => /\ entry'[z].refs = entry[z].refs /\ entry'[z].listed = entry[z].listed
                                  /\ entry'[z].cache = entry[z].cache
    BY <1>x
  <2>. QED BY Parts, <1>s, <1>q, <1>v, <2>3, <2>4, EntryChange
<1>5. WeakCount' BY <1>s, <1>v, Parts, WeakCountKept
<1>6. WeakInv' BY <1>v
<1>7. ObjectInv'
  <2>1. Cardinality(Inserting') <= Cardinality(Inserting) BY <1>s, InsertingCount
  <2>2. \A z \in Entry : entry[z].st # "live" => entry'[z] = entry[z] BY <1>x, <1>g
  <2>3. \A z \in Entry : entry'[z].listed => entry[z].listed BY <1>x
  <2>. QED BY Parts, <1>x, <1>z, <2>1, <2>2, <2>3, ObjectKept
<1>8. RemoveInv' BY <1>z
<1>9. ShardInv' BY <1>z
<1>10. QueueInv' BY <1>z
<1>11. SizeInv' BY <1>z
<1>12. KillInv' BY <1>z
<1>13. TableInv' BY <1>z
<1>14. TypeOK' BY Records, <1>x, <1>v, <1>d, <1>z, TypesNext
<1>. QED
  BY <1>q, <1>1, <1>2, <1>3, <1>4, <1>5, <1>6, <1>7, <1>8, <1>9, <1>10, <1>11, <1>12, <1>13, <1>14 DEF IInv

-----------------------------------------------------------------------------
(* Every action keeps the invariant.                                       *)

\* The argument of the step that a thread executes.
LEMMA ArgIs ==
  ASSUME IInv, NEW t \in Thread
  PROVE  /\ TypeOK /\ TodoInv
         /\ \A op \in {"entrylock", "weaklock", "unmark", "unmarklock", "init"} : At(t, op) => Arg(t) \in Entry
         /\ At(t, "cachedec") => Arg(t) \in Cache
         /\ At(t, "poolzero") => Arg(t) = None
         /\ At(t, "insert") => Arg(t) \in Ident /\ HasPool(t) /\ held[t].cache = None
<1>1. TypeOK /\ TodoInv /\ HeldInv BY Parts
<1>2. ASSUME NEW op, At(t, op)
      PROVE  /\ op \in {"entrylock", "weaklock", "unmark", "unmarklock", "init"} => Arg(t) \in Entry
             /\ op = "cachedec" => Arg(t) \in Cache
             /\ op = "poolzero" => Arg(t) = None
             /\ op = "insert" => Arg(t) \in Ident
  BY <1>1, <1>2, AtFirst, StepFields
<1>3. ASSUME At(t, "insert")
      PROVE  HasPool(t) /\ held[t].cache = None
  <2>1. Arg(t) \in Ident BY <1>2, <1>3
  <2>2. todo[t] # << >> /\ First(todo[t]) = Step("insert", Arg(t)) /\ First(todo[t]).op = "insert"
        /\ todo[t] \in Seq(Steps) /\ WellFormed(todo[t])
    BY <1>1, <1>3, AtFirst
  <2>3. Ends(t, "insert", Arg(t)) BY <2>2, Pop DEF Inner, Ends
  <2>. QED BY <1>1, <2>1, <2>3 DEF HeldInv, HeldAt
<1>. QED BY <1>1, <1>2, <1>3

\* The destructors of a WeakPtr and of a CachePtr.
LEMMA ReleaseKeeps ==
  ASSUME IInv, NEW t \in Thread, Release(t)
  PROVE  IInv'
<1>1. Idle(t) /\ UNCHANGED << pool, caches, cache, entry, weak, queue, lru, victims >>
  BY DEF Release
<1>2. CASE held[t].weak /\ Start(t, << Step("poolweak", None) >>) /\ held' = [held EXCEPT ![t].weak = FALSE]
  BY <1>1, <1>2, ReleaseWeakPtrKeeps
<1>3. CASE /\ held[t].cache # None /\ Start(t, << Step("cachedec", held[t].cache) >>)
           /\ held' = [held EXCEPT ![t].cache = None]
  BY <1>1, <1>3, ReleaseCachePtrKeeps
<1>. QED BY <1>2, <1>3 DEF Release

\* Copies of the pool's pointers.
LEMMA CopyPoolKeeps ==
  ASSUME IInv, NEW t \in Thread, CopyPool(t)
  PROVE  IInv'
<1>1. Idle(t) /\ UNCHANGED << caches, cache, entry, weak, queue, lru, victims, todo >>
  BY DEF CopyPool
<1>2. CASE /\ held[t].strong /\ ~held[t].weak /\ pool' = [pool EXCEPT !.weak = pool.weak + 1]
           /\ held' = [held EXCEPT ![t].weak = TRUE]
  BY <1>1, <1>2, MakeWeakPtrKeeps
<1>3. CASE /\ ~HasPool(t) /\ (\E v \in Thread : held[v].strong) /\ pool' = [pool EXCEPT !.strong = pool.strong + 1]
           /\ held' = [held EXCEPT ![t].strong = TRUE]
  BY <1>1, <1>3, CopyStrongPtrKeeps
<1>. QED BY <1>2, <1>3 DEF CopyPool

\* A weak reference to an entry; no other one is being released.
LEMMA AcquireWeakEntryKeeps ==
  ASSUME IInv, NEW t \in Thread, CalmWeak(t)
  PROVE  IInv'
<1>0. TypeOK BY Parts
<1>1. PICK e \in Entry : e = held[t].entry BY <1>0, Fields DEF CalmWeak, AcquireWeakEntry
<1>2. /\ Idle(t) /\ held[t].weakentry = None /\ weak[e].mutex = None
      /\ weak' = [weak EXCEPT ![e].n = @ + 1, ![e].st = "live", ![e].entry = TRUE]
      /\ held' = [held EXCEPT ![t].weakentry = e]
      /\ Start(t, IF weak[e].n = 0 THEN << Step("weakmark", e) >> ELSE << >>)
      /\ UNCHANGED << pool, caches, cache, entry, queue, lru, victims >>
  BY <1>1 DEF CalmWeak, AcquireWeakEntry
<1>3. CASE weak[e].n = 0 BY <1>1, <1>2, <1>3, AcquireFirstWeakKeeps
<1>4. CASE weak[e].n # 0 BY <1>1, <1>2, <1>4, AcquireWeakKeeps
<1>. QED BY <1>3, <1>4

\* The release of an entry: without a lock, or on to the mutex.
LEMMA DecrementEntryKeeps ==
  ASSUME IInv, NEW t \in Thread, DecrementEntry(t)
  PROVE  IInv'
<1>0. TypeOK /\ TodoInv BY Parts
<1>1. PICK e \in Entry : e = held[t].entry BY <1>0, Fields DEF DecrementEntry
<1>2. /\ Idle(t) /\ held[t].entry # None /\ held' = [held EXCEPT ![t].entry = None]
      /\ UNCHANGED << pool, caches, cache, weak, queue, lru, victims >>
  BY DEF DecrementEntry
<1>3. CASE entry[e].refs > 3
  <2>1. entry' = [entry EXCEPT ![e].refs = entry[e].refs - 2] /\ UNCHANGED todo
    BY <1>1, <1>3 DEF DecrementEntry, LockThreshold
  <2>2. OnlyTodo(t) /\ Alone(todo[t], "none", None) /\ Alone(todo'[t], "none", None)
    BY <1>0, <1>2, <2>1, StaysIdle
  <2>3. /\ held' \in [Thread -> HeldRec] /\ held'[t].entry = None
        /\ held'[t].strong = held[t].strong /\ held'[t].weak = held[t].weak
        /\ held'[t].cache = held[t].cache /\ held'[t].weakentry = held[t].weakentry
        /\ \A u \in Thread : u # t => held'[u] = held[u]
    BY <1>0, <1>2, HeldFields
  <2>4. Moves(t) BY <1>2, <2>2, <2>3 DEF Moves
  <2>5. entry[e].refs >= 4 BY <1>0, <1>3, Fields
  <2>. QED BY <1>1, <1>2, <2>1, <2>2, <2>3, <2>4, <2>5, UserLeavesKeeps
<1>4. CASE ~(entry[e].refs > 3)
  <2>1. Start(t, << Step("entrylock", held[t].entry) >>) /\ UNCHANGED entry
    BY <1>1, <1>4 DEF DecrementEntry, LockThreshold
  <2>. QED BY <1>2, <2>1, DecrementEntryStarts
<1>. QED BY <1>3, <1>4

\* The release of a weak reference by a client that holds something else.
LEMMA DecrementWeakKeeps ==
  ASSUME IInv, NEW t \in Thread, PinnedRelease(t)
  PROVE  IInv'
<1>0. TypeOK /\ TodoInv /\ WeakInv BY Parts
<1>1. PICK e \in Entry : e = held[t].weakentry BY <1>0, Fields DEF PinnedRelease, DecrementWeak
<1>2. /\ Idle(t) /\ held[t].weakentry # None /\ held' = [held EXCEPT ![t].weakentry = None] /\ Holds(t)
      /\ UNCHANGED << pool, caches, cache, entry, queue, lru, victims >>
  BY DEF PinnedRelease, DecrementWeak, Holds
<1>3. CASE weak[e].n > 1
  <2>1. weak' = [weak EXCEPT ![e].n = @ - 1] /\ UNCHANGED todo BY <1>1, <1>3 DEF PinnedRelease, DecrementWeak
  <2>2. OnlyTodo(t) /\ Alone(todo[t], "none", None) /\ Alone(todo'[t], "none", None)
    BY <1>0, <1>2, <2>1, StaysIdle
  <2>3. /\ held' \in [Thread -> HeldRec] /\ held'[t].weakentry = None
        /\ held'[t].strong = held[t].strong /\ held'[t].weak = held[t].weak
        /\ held'[t].cache = held[t].cache /\ held'[t].entry = held[t].entry
        /\ \A u \in Thread : u # t => held'[u] = held[u]
    BY <1>0, <1>2, HeldFields
  <2>4. Moves(t) BY <1>2, <2>2, <2>3 DEF Moves
  <2>5. weak[e].mutex = None
    <3>1. weak[e].n # 0 BY <1>0, <1>3, Fields
    <3>2. weak[e].mutex # None => weak[e].n = 0 BY <1>0 DEF WeakInv
    <3>. QED BY <3>1, <3>2
  <2>6. weak' = [weak EXCEPT ![e] = [weak[e] EXCEPT !.n = @ - 1, !.mutex = None]]
    <3>1. weak \in [Entry -> WeakRec] BY <1>0, Types
    <3>2. \A r \in WeakRec : r.mutex = None => [r EXCEPT !.n = @ - 1, !.mutex = None] = [r EXCEPT !.n = @ - 1]
      BY DEF WeakRec
    <3>3. [weak[e] EXCEPT !.n = @ - 1, !.mutex = None] = [weak[e] EXCEPT !.n = @ - 1]
      BY <2>5, <3>1, <3>2
    <3>. QED BY <2>1, <3>3
  <2>. QED BY <1>1, <1>2, <1>3, <2>2, <2>3, <2>4, <2>5, <2>6, WeakUserLeavesKeeps
<1>4. CASE ~(weak[e].n > 1)
  BY <1>1, <1>4, <1>2, DecrementWeakStarts DEF PinnedRelease, DecrementWeak
<1>. QED BY <1>3, <1>4

\* The release of a StrongPtr: without a lock, or on to caches_mutex_.
LEMMA DecrementPoolKeeps ==
  ASSUME IInv, NEW t \in Thread, DecrementPool(t)
  PROVE  IInv'
<1>0. TypeOK /\ TodoInv BY Parts
<1>2. /\ Idle(t) /\ held[t].strong /\ held' = [held EXCEPT ![t].strong = FALSE]
      /\ UNCHANGED << caches, cache, entry, weak, queue, lru, victims >>
  BY DEF DecrementPool
<1>3. CASE pool.strong > 1
  <2>1. pool' = [pool EXCEPT !.strong = pool.strong - 1] /\ UNCHANGED todo
    BY <1>3 DEF DecrementPool
  <2>2. OnlyTodo(t) /\ Alone(todo[t], "none", None) /\ Alone(todo'[t], "none", None)
    BY <1>0, <1>2, <2>1, StaysIdle
  <2>3. /\ held' \in [Thread -> HeldRec] /\ held'[t].strong = FALSE
        /\ held'[t].entry = held[t].entry /\ held'[t].weak = held[t].weak
        /\ held'[t].cache = held[t].cache /\ held'[t].weakentry = held[t].weakentry
        /\ \A u \in Thread : u # t => held'[u] = held[u]
    BY <1>0, <1>2, HeldFields
  <2>4. Moves(t) BY <1>2, <2>2, <2>3 DEF Moves
  <2>5. pool.strong # 1 BY <1>0, <1>3, Fields
  <2>. QED BY <1>2, <2>1, <2>2, <2>3, <2>4, <2>5, PoolUserLeavesKeeps
<1>4. CASE ~(pool.strong > 1) BY <1>4, <1>2, DecrementPoolStarts DEF DecrementPool
<1>. QED BY <1>3, <1>4

\* The last StrongPtr: the caches that nobody uses are destroyed.
LEMMA DecrementPoolLockedKeeps ==
  ASSUME IInv, NEW t \in Thread, DecrementPoolLocked(t)
  PROVE  IInv'
<1>0. TypeOK /\ TodoInv /\ HeldInv BY Parts
<1>2. /\ At(t, "poolzero") /\ pool' = [pool EXCEPT !.strong = pool.strong - 1]
      /\ UNCHANGED << caches, entry, weak, queue, lru, victims, held >>
  BY DEF DecrementPoolLocked
<1>3. CASE pool.strong # 1
  <2>1. Return(t) /\ UNCHANGED cache BY <1>3 DEF DecrementPoolLocked
  <2>2. /\ OnlyTodo(t) /\ Alone(todo[t], "poolzero", Arg(t)) /\ Alone(todo'[t], "none", None) /\ Arg(t) = None
    BY <1>0, <1>2, <2>1, Returns, ArgIs DEF Inner
  <2>3. held' \in [Thread -> HeldRec] /\ ~held[t].strong /\ held' = held
    <3>1. held \in [Thread -> HeldRec] BY <1>0, Types
    <3>2. Ends(t, "poolzero", None) BY <2>2 DEF Alone, Ends
    <3>. QED BY <1>0, <1>2, <3>1, <3>2 DEF HeldInv, HeldAt
  <2>4. Moves(t) BY <1>2, <2>2, MovesOnly
  <2>. QED BY <1>2, <1>3, <2>1, <2>2, <2>3, <2>4, PoolUserLeavesKeeps
<1>4. CASE pool.strong = 1
  <2>1. PICK D : D = {c \in caches : BecomesDeletable(cache[c], WithBit(cache[c], 0))} OBVIOUS
  <2>2. /\ cache' = [c \in Cache |-> IF c \in caches THEN WithBit(cache[c], 0) ELSE cache[c]]
        /\ Goto(t, FlattenSeq([i \in 1 .. Cardinality(D) |-> DestroyCache(SetToSeq(D)[i])])
                   \o << Step("poolweak", None) >>)
    BY <1>4, <2>1 DEF DecrementPoolLocked
  <2>. QED BY <1>2, <1>4, <2>1, <2>2, PoolZeroKeeps
<1>. QED BY <1>3, <1>4

\* A thread that releases a reference has one.
LEMMA EntryLockFacts ==
  ASSUME IInv, NEW t \in Thread, At(t, "entrylock"), NEW e, e = Arg(t)
  PROVE  /\ e \in Entry /\ Users(e) # {} /\ entry[e].refs \in Nat /\ entry[e].refs >= 2 /\ entry[e].listed
         /\ entry[e].cache \in Cache /\ held[t].entry = None
<1>0. TypeOK /\ TodoInv /\ HeldInv BY Parts
<1>1. e \in Entry BY ArgIs
<1>2. todo[t] # << >> /\ First(todo[t]) = Step("entrylock", e) /\ First(todo[t]).op = "entrylock"
      /\ todo[t] \in Seq(Steps) /\ WellFormed(todo[t])
  BY <1>0, AtFirst
<1>3. Ends(t, "entrylock", e) BY <1>2, Pop DEF Inner, Ends
<1>4. Users(e) # {} /\ held[t].entry = None BY <1>0, <1>1, <1>3 DEF Users, HeldInv, HeldAt
<1>. QED BY <1>0, <1>1, <1>4, UsedEntry, Fields

\* A thread that releases the last weak reference.
LEMMA WeakLockFacts ==
  ASSUME IInv, NEW t \in Thread, At(t, "weaklock"), NEW e, e = Arg(t)
  PROVE  /\ e \in Entry /\ weak[e].n \in Nat /\ weak[e].n >= 1 /\ held[t].weakentry = None
<1>0. TypeOK /\ TodoInv /\ HeldInv /\ WeakCount BY Parts
<1>1. e \in Entry BY ArgIs
<1>2. todo[t] # << >> /\ First(todo[t]) = Step("weaklock", e) /\ First(todo[t]).op = "weaklock"
      /\ todo[t] \in Seq(Steps) /\ WellFormed(todo[t])
  BY <1>0, AtFirst
<1>3. Ends(t, "weaklock", e) BY <1>2, Pop DEF Inner, Ends
<1>4. WeakUsers(e) # {} /\ held[t].weakentry = None
  BY <1>0, <1>1, <1>3 DEF WeakUsers, HeldInv, HeldAt
<1>5. weak[e].n = Cardinality(WeakUsers(e)) /\ Cardinality(WeakUsers(e)) \in Nat
      /\ (Cardinality(WeakUsers(e)) = 0 <=> WeakUsers(e) = {})
  BY <1>0, <1>1, Counts DEF WeakCount
<1>. QED BY <1>1, <1>4, <1>5

\* A thread that tells an entry that no weak reference is left.
LEMMA UnmarkLockFacts ==
  ASSUME IInv, NEW t \in Thread, NEW op \in {"unmark", "unmarklock"}, At(t, op), NEW e, e = Arg(t)
  PROVE  e \in Entry /\ entry[e].refs \in Nat /\ entry[e].refs > 0 /\ entry[e].listed /\ entry[e].cache \in Cache
<1>0. TypeOK /\ TodoInv BY Parts
<1>1. e \in Entry BY ArgIs
<1>2. todo[t] # << >> /\ First(todo[t]) = Step(op, e) /\ First(todo[t]).op = op
      /\ todo[t] \in Seq(Steps) /\ WellFormed(todo[t])
  BY <1>0, AtFirst
<1>3. Unmarks(t, e) BY <1>2, Pop DEF Inner, Ends, Unmarks
<1>. QED BY <1>1, <1>3, UnmarkFacts

\* No steps in front of others.
LEMMA NoSteps ==
  /\ << >> \o << >> = << >>
  /\ \A op, x : << >> \o << Step(op, x) >> = << Step(op, x) >>
OBVIOUS

\* The count of an entry that leaves its cache when the count is zero.
LEMMA RefsListed ==
  ASSUME TypeOK, NEW e \in Entry, entry[e].listed, NEW n \in Nat,
         entry' = [entry EXCEPT ![e].refs = n, ![e].listed = @ /\ n # 0]
  PROVE  /\ n = 0 => DropsEntry(e)
         /\ n # 0 => entry' = [entry EXCEPT ![e].refs = n]
<1>1. entry \in [Entry -> EntryRec] /\ entry[e] \in EntryRec BY Types
<1>2. PICK b \in BOOLEAN : b <=> n # 0 OBVIOUS
<1>3. \A r \in EntryRec : r.listed => LET q == [r EXCEPT !.refs = n, !.listed = b] IN
         /\ q \in EntryRec /\ q.refs = n /\ q.listed = b /\ q.st = r.st /\ q.cache = r.cache /\ q.key = r.key
         /\ q.bytes = r.bytes /\ q.init = r.init /\ (b => q = [r EXCEPT !.refs = n])
  BY DEF EntryRec
<1>4. PICK q : q = [entry[e] EXCEPT !.refs = n, !.listed = b] OBVIOUS
<1>5. entry' = [entry EXCEPT ![e] = q] BY <1>2, <1>1, <1>4
<1>6. /\ q \in EntryRec /\ q.refs = n /\ q.listed = b /\ q.st = entry[e].st /\ q.cache = entry[e].cache
      /\ q.key = entry[e].key /\ q.bytes = entry[e].bytes /\ q.init = entry[e].init
      /\ b => q = [entry[e] EXCEPT !.refs = n]
  BY <1>1, <1>3, <1>4
<1>7. entry'[e] = q /\ entry' \in [Entry -> EntryRec] /\ \A z \in Entry : z # e => entry'[z] = entry[z]
  BY <1>1, <1>5, <1>6, ZenonT(60)
<1>8. n = 0 => DropsEntry(e) BY <1>2, <1>6, <1>7 DEF DropsEntry
<1>9. n # 0 => entry' = [entry EXCEPT ![e].refs = n] BY <1>1, <1>2, <1>5, <1>6
<1>. QED BY <1>8, <1>9

\* The cache of an entry that left its shard.
LEMMA Erased ==
  ASSUME TypeOK, NEW e \in Entry, NEW c \in Cache, cache' = [cache EXCEPT ![c] = WithoutEntry(e)]
  PROVE  ErasesEntry(e, c)
<1>1. cache \in [Cache -> CacheRec] BY Types
<1>. QED BY <1>1 DEF ErasesEntry

\* The release of a CachePtr.
LEMMA DecrementCacheKeeps ==
  ASSUME IInv, NEW t \in Thread, DecrementCache(t)
  PROVE  IInv'
<1>0. TypeOK /\ cache \in [Cache -> CacheRec] BY Parts, Types
<1>1. PICK c \in Cache : c = Arg(t) BY ArgIs DEF DecrementCache
<1>2. PICK new : new = [cache[c] EXCEPT !.strong = @ - 1] OBVIOUS
<1>3. /\ At(t, "cachedec") /\ cache' = [cache EXCEPT ![c] = new]
      /\ Goto(t, DestroyIf(BecomesDeletable(cache[c], new), c)
                 \o (IF new.strong = 0 THEN << Step("poolweak", None) >> ELSE << >>))
      /\ UNCHANGED << pool, caches, entry, weak, queue, lru, victims, held >>
  BY <1>1, <1>2 DEF DecrementCache
<1>4. new.strong = cache[c].strong - 1 /\ cache[c].strong \in Nat BY <1>0, <1>2 DEF CacheRec
<1>5. cache' = [cache EXCEPT ![c].strong = cache[c].strong - 1] /\ cache'[c] = new
  BY <1>0, <1>2, <1>3
<1>6. CASE cache[c].strong # 1
  <2>1. new.strong # 0 BY <1>4, <1>6
  <2>2. ~BecomesDeletable(cache[c], new) BY <2>1 DEF BecomesDeletable, ShouldDelete
  <2>3. Return(t) BY <1>3, <2>1, <2>2, NoSteps DEF DestroyIf, Return
  <2>. QED BY <1>1, <1>3, <1>5, <1>6, <2>3, CacheUserLeavesKeeps
<1>7. CASE cache[c].strong = 1 /\ ShouldDelete(new)
  <2>1. new.strong = 0 BY <1>4, <1>7
  <2>2. BecomesDeletable(cache[c], new) BY <1>7 DEF BecomesDeletable, ShouldDelete
  <2>3. Goto(t, DestroyCache(c) \o << Step("poolweak", None) >>)
    BY <1>3, <2>1, <2>2 DEF DestroyIf
  <2>4. ShouldDelete(cache'[c]) BY <1>5, <1>7
  <2>. QED BY <1>1, <1>3, <1>5, <1>7, <2>3, <2>4, DoomedCacheKeeps
<1>8. CASE cache[c].strong = 1 /\ ~ShouldDelete(new)
  <2>1. new.strong = 0 BY <1>4, <1>8
  <2>2. ~BecomesDeletable(cache[c], new) BY <1>8 DEF BecomesDeletable
  <2>3. Goto(t, << Step("poolweak", None) >>) BY <1>3, <2>1, <2>2, NoSteps DEF DestroyIf
  <2>4. ~ShouldDelete(cache'[c]) BY <1>5, <1>8
  <2>. QED BY <1>1, <1>3, <1>5, <1>8, <2>3, <2>4, LastCacheUserKeeps
<1>. QED BY <1>6, <1>7, <1>8

\* The last weak reference, with the mutex of the weak state.
LEMMA DecrementWeakLockedKeeps ==
  ASSUME IInv, NEW t \in Thread, DecrementWeakLocked(t)
  PROVE  IInv'
<1>0. TypeOK /\ TodoInv BY Parts
<1>1. PICK e : e = Arg(t) OBVIOUS
<1>2. At(t, "weaklock") /\ weak[e].mutex = None /\ UNCHANGED << pool, caches, cache, entry, queue, lru, victims, held >>
  BY <1>1 DEF DecrementWeakLocked
<1>3. e \in Entry /\ weak[e].n \in Nat /\ weak[e].n >= 1 /\ held[t].weakentry = None
  BY <1>1, <1>2, WeakLockFacts
<1>4. CASE weak[e].n = 1 /\ ~weak[e].entry
  BY <1>1, <1>4, <1>2, <1>3, WeakStateGoesKeeps DEF DecrementWeakLocked, Return
<1>5. CASE weak[e].n = 1 /\ weak[e].entry
  BY <1>1, <1>5, <1>2, <1>3, LastWeakKeeps DEF DecrementWeakLocked
<1>6. CASE weak[e].n # 1
  <2>1. weak' = [weak EXCEPT ![e] = [weak[e] EXCEPT !.n = @ - 1, !.mutex = None]] /\ Return(t)
    BY <1>1, <1>6 DEF DecrementWeakLocked, Return
  <2>2. weak[e].n > 1 BY <1>3, <1>6
  <2>3. OnlyTodo(t) /\ Alone(todo[t], "weaklock", e) /\ Alone(todo'[t], "none", None)
    BY <1>0, <1>1, <1>2, <2>1, Returns DEF Inner
  <2>4. held' \in [Thread -> HeldRec] /\ held' = held BY <1>0, <1>2, Types
  <2>5. Moves(t) BY <1>2, <2>3, MovesOnly
  <2>. QED BY <1>2, <1>3, <2>1, <2>2, <2>3, <2>4, <2>5, WeakUserLeavesKeeps
<1>. QED BY <1>4, <1>5, <1>6

\* The entry loses the weak reference, or the mutex is needed for that.
LEMMA UnmarkEntryKeeps ==
  ASSUME IInv, NEW t \in Thread, UnmarkEntry(t)
  PROVE  IInv'
<1>1. PICK e : e = Arg(t) OBVIOUS
<1>2. At(t, "unmark") /\ UNCHANGED << pool, caches, cache, queue, lru, victims, held >>
  BY DEF UnmarkEntry
<1>3. e \in Entry BY <1>1, <1>2, UnmarkLockFacts
<1>4. CASE entry[e].refs > 1 BY <1>1, <1>4, <1>2, <1>3, UnmarkKeeps DEF UnmarkEntry
<1>5. CASE ~(entry[e].refs > 1) BY <1>1, <1>5, <1>2, UnmarkWaits DEF UnmarkEntry
<1>. QED BY <1>4, <1>5

\* The same with lru_mutex_.
LEMMA UnmarkEntryLruKeeps ==
  ASSUME IInv, NEW t \in Thread, UnmarkEntryLru(t)
  PROVE  IInv'
<1>1. PICK e : e = Arg(t) OBVIOUS
<1>2. /\ At(t, "unmarklock") /\ lru = None /\ entry' = [entry EXCEPT ![e].refs = entry[e].refs - 1]
      /\ weak' = [weak EXCEPT ![e].mutex = None] /\ UNCHANGED << pool, caches, cache, victims, held >>
  BY <1>1 DEF UnmarkEntryLru
<1>3. e \in Entry /\ entry[e].refs \in Nat /\ entry[e].refs > 0 BY <1>1, <1>2, UnmarkLockFacts
<1>4. CASE entry[e].refs = 1
  <2>1. entry[e].refs - 1 = 0 BY <1>4
  <2>2. /\ entry' = [entry EXCEPT ![e].refs = 0] /\ lru' = t /\ queue' = AddToEvictionQueue(e)
        /\ Goto(t, << Step("evict", None) >>)
    BY <1>1, <1>2, <2>1 DEF UnmarkEntryLru
  <2>. QED BY <1>1, <1>2, <1>3, <1>4, <2>2, UnmarkLruKeeps
<1>5. CASE entry[e].refs # 1
  <2>1. entry[e].refs - 1 # 0 /\ entry[e].refs > 1 BY <1>3, <1>5
  <2>2. UNCHANGED << lru, queue >> /\ Return(t) BY <1>1, <2>1 DEF UnmarkEntryLru, Return
  <2>. QED BY <1>1, <1>2, <1>3, <2>1, <2>2, UnmarkKeeps
<1>. QED BY <1>4, <1>5

\* The same with the mutex of the shard: an unreferenced entry is destroyed.
LEMMA UnmarkEntryShardKeeps ==
  ASSUME IInv, NEW t \in Thread, UnmarkEntryShard(t), queue = << >>
  PROVE  IInv'
<1>0. TypeOK BY Parts
<1>1. PICK e : e = Arg(t) OBVIOUS
<1>2. PICK n : n = entry[e].refs - 1 OBVIOUS
<1>3. PICK c : c = entry[e].cache OBVIOUS
<1>4. /\ At(t, "unmarklock") /\ ~HasLruCache /\ entry' = [entry EXCEPT ![e].refs = n, ![e].listed = @ /\ n # 0]
      /\ weak' = [weak EXCEPT ![e].mutex = None]
      /\ cache' = IF n = 0 THEN [cache EXCEPT ![c] = WithoutEntry(e)] ELSE cache
      /\ UNCHANGED << pool, caches, queue, lru, victims, held >>
  BY <1>1, <1>2, <1>3 DEF UnmarkEntryShard
<1>5. e \in Entry /\ entry[e].refs \in Nat /\ entry[e].refs > 0 /\ entry[e].listed /\ c \in Cache
  BY <1>1, <1>3, <1>4, UnmarkLockFacts
<1>6. n \in Nat /\ (n = 0 <=> entry[e].refs = 1) BY <1>2, <1>5
<1>7. (n = 0 => DropsEntry(e)) /\ (n # 0 => entry' = [entry EXCEPT ![e].refs = n])
  BY <1>0, <1>4, <1>5, <1>6, RefsListed
<1>8. CASE n = 0
  <2>1. PICK del \in BOOLEAN : del <=> (ShardOf(e) = {e} /\ BecomesDeletable(cache[c], WithoutEntry(e)))
    OBVIOUS
  <2>2. PICK v : v = DestroyIf(del, c) OBVIOUS
  <2>3. Goto(t, << Step("delete", e) >> \o v)
    BY <2>1, <1>1, <1>2, <1>3, <1>8, <2>2 DEF UnmarkEntryShard
  <2>4. /\ v \in Seq(Steps) /\ WellFormed(v) /\ Fresh(v) /\ Final(v) = NoStep /\ Deletes(v) = {} /\ ~Evicts(v)
        /\ Frees(v) = IF del THEN {c} ELSE {}
    BY <1>5, <2>2, DestroyCacheSteps, Empty DEF DestroyIf
  <2>5. PICK s : s = << Step("delete", e) >> \o v OBVIOUS
  <2>6. Final(v).op \in Follows BY <2>4, NoStepIs DEF Follows
  <2>7. /\ s \in Seq(Steps) /\ WellFormed(s) /\ First(s).op = "delete" /\ Final(s) = NoStep
        /\ Frees(s) = (IF del THEN {c} ELSE {}) /\ Deletes(s) = {e}
    BY <1>5, <2>4, <2>5, <2>6, DeleteThen, ZenonT(60)
  <2>8. ~IsPinned(c)
    <3>1. entry[e].refs = 2 * Cardinality(Users(e)) + One(Marked(e))
                          + 2 * One(entry[e].listed /\ IsPinned(entry[e].cache))
      BY <1>5 DEF IInv, EntryCount
    <3>2. /\ One(Marked(e)) \in {0, 1} /\ One(entry[e].listed /\ IsPinned(entry[e].cache)) \in {0, 1}
          /\ Cardinality(Users(e)) \in Nat
      BY Counts DEF One
    <3>3. One(entry[e].listed /\ IsPinned(entry[e].cache)) = 0 BY <1>6, <1>8, <3>1, <3>2
    <3>. QED BY <1>3, <1>5, <3>3 DEF One
  <2>9. del <=> BecomesDeletable(cache[c], WithoutEntry(e))
    BY <1>3, <1>5, <2>1, <2>8, ErasedCache
  <2>10. ErasesEntry(e, c) BY <1>0, <1>4, <1>5, <1>8, Erased
  <2>11. Goto(t, s) BY <2>3, <2>5
  <2>12. entry[e].refs = 1 /\ DropsEntry(e) BY <1>6, <1>7, <1>8
  <2>13. At(t, "unmarklock") /\ ~HasLruCache /\ weak' = [weak EXCEPT ![e].mutex = None] /\ UNCHANGED << pool, caches, queue, lru, victims, held >>
    BY <1>4
  <2>. QED BY <1>1, <1>3, <1>5, <2>7, <2>9, <2>10, <2>11, <2>12, <2>13, DropUnmarkedKeeps
<1>9. CASE n # 0
  <2>1. Return(t) /\ UNCHANGED cache BY <1>1, <1>2, <1>9 DEF UnmarkEntryShard, Return
  <2>2. entry[e].refs > 1 /\ entry' = [entry EXCEPT ![e].refs = entry[e].refs - 1]
    BY <1>2, <1>5, <1>6, <1>7, <1>9
  <2>3. At(t, "unmarklock") /\ weak' = [weak EXCEPT ![e].mutex = None] /\ UNCHANGED << pool, caches, queue, lru, victims, held >>
    BY <1>4
  <2>. QED BY <1>1, <1>5, <2>1, <2>2, <2>3, UnmarkKeeps
<1>. QED BY <1>8, <1>9

\* A reference that is not the last strong one is released with a lock held.
LEMMA LockedUserLeaves ==
  ASSUME IInv, NEW t \in Thread, At(t, "entrylock"), NEW e, e = Arg(t), entry[e].refs >= 4, Return(t),
         entry' = [entry EXCEPT ![e].refs = entry[e].refs - 2],
         UNCHANGED << pool, caches, cache, weak, queue, lru, victims, held >>
  PROVE  IInv'
<1>0. TypeOK /\ TodoInv BY Parts
<1>1. e \in Entry /\ held[t].entry = None BY EntryLockFacts
<1>2. OnlyTodo(t) /\ Alone(todo[t], "entrylock", e) /\ Alone(todo'[t], "none", None)
  BY <1>0, Returns DEF Inner
<1>3. held' \in [Thread -> HeldRec] /\ held' = held BY <1>0, Types
<1>4. Moves(t) BY <1>2, MovesOnly
<1>5. /\ held'[t].entry = None /\ held'[t].strong = held[t].strong /\ held'[t].weak = held[t].weak
      /\ held'[t].cache = held[t].cache /\ held'[t].weakentry = held[t].weakentry
  BY <1>1, <1>3
<1>. QED BY <1>1, <1>2, <1>3, <1>4, <1>5, UserLeavesKeeps

\* An entry's last strong reference with lru_mutex_: the entry is queued.
LEMMA DecrementEntryLruKeeps ==
  ASSUME IInv, NEW t \in Thread, DecrementEntryLru(t)
  PROVE  IInv'
<1>1. PICK e : e = Arg(t) OBVIOUS
<1>2. PICK n : n = entry[e].refs - 2 OBVIOUS
<1>3. PICK c : c = entry[e].cache OBVIOUS
<1>4. /\ At(t, "entrylock") /\ lru = None /\ entry' = [entry EXCEPT ![e].refs = n]
      /\ UNCHANGED << pool, caches, cache, weak, victims, held >>
  BY <1>1, <1>2 DEF DecrementEntryLru
<1>g. Goto(t, (IF n = 0 THEN << Step("evict", None) >> ELSE << >>)
              \o (IF n <= 1 THEN << Step("cachedec", c) >> ELSE << >>))
  BY <1>1, <1>2, <1>3 DEF DecrementEntryLru, LockThreshold
<1>h. IF n = 0 THEN lru' = t /\ queue' = AddToEvictionQueue(e) ELSE UNCHANGED << lru, queue >>
  BY <1>1, <1>2 DEF DecrementEntryLru, LockThreshold
<1>5. e \in Entry /\ entry[e].refs \in Nat /\ entry[e].refs >= 2 BY <1>1, <1>4, EntryLockFacts
<1>6. CASE n = 0
  <2>1. PICK s : s = << Step("evict", None) >> \o << Step("cachedec", c) >> OBVIOUS
  <2>a. lru' = t /\ queue' = AddToEvictionQueue(e) BY <1>h, <1>6
  <2>b. n <= 1 BY <1>6
  <2>d. s = (IF n = 0 THEN << Step("evict", None) >> ELSE << >>)
            \o (IF n <= 1 THEN << Step("cachedec", c) >> ELSE << >>)
    BY <1>6, <2>1, <2>b, Zenon
  <2>e. Goto(t, s) BY <1>g, <2>d, Zenon
  <2>2. lru' = t /\ queue' = AddToEvictionQueue(e) /\ Goto(t, s) BY <2>a, <2>e
  <2>3. entry[e].refs = 2 /\ entry' = [entry EXCEPT ![e].refs = 0]
    <3>1. entry[e].refs = 2 BY <1>2, <1>5, <1>6
    <3>2. entry' = [entry EXCEPT ![e].refs = 0] BY <1>4, <1>6, Zenon
    <3>. QED BY <3>1, <3>2
  <2>. QED BY <1>1, <1>3, <1>4, <1>5, <2>1, <2>2, <2>3, LastReferenceLruKeeps, Zenon
<1>7. CASE n = 1
  <2>a. n <= 1 /\ n # 0 BY <1>7
  <2>b. UNCHANGED << lru, queue >> BY <1>h, <2>a
  <2>1. UNCHANGED << lru, queue >> /\ Goto(t, << >> \o << Step("cachedec", c) >>)
    BY <1>g, <2>a, <2>b, Zenon
  <2>2. Goto(t, << Step("cachedec", c) >>) BY <2>1, NoSteps, Zenon
  <2>3. entry[e].refs = 3 /\ entry' = [entry EXCEPT ![e].refs = 1]
    <3>1. entry[e].refs = 3 BY <1>2, <1>5, <1>7
    <3>2. entry' = [entry EXCEPT ![e].refs = 1] BY <1>4, <1>7, Zenon
    <3>. QED BY <3>1, <3>2
  <2>. QED BY <1>1, <1>3, <1>4, <1>5, <2>1, <2>2, <2>3, LastUserKeeps
<1>8. CASE n # 0 /\ n # 1
  <2>1. entry[e].refs >= 4 /\ ~(n <= 1) BY <1>2, <1>5, <1>8
  <2>2. UNCHANGED << lru, queue >> /\ Goto(t, << >> \o << >>) BY <1>g, <1>h, <1>8, <2>1
  <2>3. Return(t) BY <2>2, NoSteps DEF Return
  <2>. QED BY <1>1, <1>2, <1>4, <2>1, <2>2, <2>3, LockedUserLeaves
<1>. QED BY <1>6, <1>7, <1>8

\* An entry's last strong reference with the mutex of the shard.
LEMMA DecrementEntryShardKeeps ==
  ASSUME IInv, NEW t \in Thread, DecrementEntryShard(t), queue = << >>
  PROVE  IInv'
<1>0. TypeOK BY Parts
<1>1. PICK e : e = Arg(t) OBVIOUS
<1>2. PICK n : n = entry[e].refs - 2 OBVIOUS
<1>3. PICK c : c = entry[e].cache OBVIOUS
<1>4. /\ At(t, "entrylock") /\ ~HasLruCache /\ entry' = [entry EXCEPT ![e].refs = n, ![e].listed = @ /\ n # 0]
      /\ cache' = IF n = 0 THEN [cache EXCEPT ![c] = WithoutEntry(e)] ELSE cache
      /\ UNCHANGED << pool, caches, weak, queue, lru, victims, held >>
  BY <1>1, <1>2, <1>3 DEF DecrementEntryShard
<1>g. Goto(t, (IF n = 0 THEN << Step("delete", e) >> ELSE << >>)
              \o (IF n <= 1 THEN << Step("cachedec", c) >> ELSE << >>))
  BY <1>1, <1>2, <1>3 DEF DecrementEntryShard, LockThreshold
<1>5. e \in Entry /\ entry[e].refs \in Nat /\ entry[e].refs >= 2 /\ entry[e].listed /\ c \in Cache
  BY <1>1, <1>3, <1>4, EntryLockFacts
<1>6. n \in Nat BY <1>2, <1>5
<1>7. (n = 0 => DropsEntry(e)) /\ (n # 0 => entry' = [entry EXCEPT ![e].refs = n])
  BY <1>0, <1>4, <1>5, <1>6, RefsListed
<1>8. At(t, "entrylock") /\ ~HasLruCache /\ UNCHANGED << pool, caches, weak, queue, lru, victims, held >>
  BY <1>4
<1>9. CASE n = 0
  <2>1. PICK v : v = << Step("cachedec", c) >> OBVIOUS
  <2>2. PICK s : s = << Step("delete", e) >> \o v OBVIOUS
  <2>3. Goto(t, s) BY <1>g, <1>9, <2>1, <2>2
  <2>4. /\ v \in Seq(Steps) /\ WellFormed(v) /\ Fresh(v) /\ Final(v) = Step("cachedec", c) /\ Deletes(v) = {}
        /\ ~Evicts(v) /\ Frees(v) = {}
    BY <1>5, <2>1, IsStep, StepEq, OneFinal DEF Inner
  <2>5. Final(v).op \in Follows BY <2>4, StepEq DEF Follows
  <2>6. /\ s \in Seq(Steps) /\ WellFormed(s) /\ First(s).op = "delete" /\ Final(s) = Step("cachedec", c)
        /\ Frees(s) = {} /\ Deletes(s) = {e}
    <3>1. /\ s \in Seq(Steps) /\ WellFormed(s) /\ First(s).op = "delete" /\ Final(s) = Final(v)
          /\ Frees(s) = Frees(v) /\ Deletes(s) = {e}
      <4>1. /\ v \in Seq(Steps) /\ WellFormed(v) /\ Fresh(v) /\ Final(v).op \in Follows
            /\ Deletes(v) = {} /\ ~Evicts(v)
        BY <2>4, <2>5
      <4>. QED BY <1>5, <2>2, <4>1, DeleteThen, Zenon
    <3>. QED BY <2>4, <3>1
  <2>7. ErasesEntry(e, c) BY <1>0, <1>4, <1>5, <1>9, Erased
  <2>8. entry[e].refs = 2 /\ DropsEntry(e) BY <1>2, <1>5, <1>7, <1>9
  <2>. QED BY <1>1, <1>3, <1>5, <1>8, <2>3, <2>6, <2>7, <2>8, DropLastReferenceKeeps
<1>10. CASE n = 1
  <2>1. UNCHANGED cache /\ Goto(t, << >> \o << Step("cachedec", c) >>) BY <1>4, <1>g, <1>10
  <2>2. Goto(t, << Step("cachedec", c) >>) BY <2>1, NoSteps
  <2>3. entry[e].refs = 3 /\ entry' = [entry EXCEPT ![e].refs = 1] BY <1>2, <1>5, <1>7, <1>10
  <2>. QED BY <1>1, <1>3, <1>5, <1>8, <2>1, <2>2, <2>3, LastUserKeeps
<1>11. CASE n # 0 /\ n # 1
  <2>1. entry[e].refs >= 4 /\ ~(n <= 1) BY <1>2, <1>5, <1>11
  <2>2. UNCHANGED cache /\ Goto(t, << >> \o << >>) BY <1>4, <1>g, <1>11, <2>1
  <2>3. Return(t) BY <2>2, NoSteps DEF Return
  <2>4. entry' = [entry EXCEPT ![e].refs = entry[e].refs - 2] BY <1>2, <1>7, <1>11
  <2>. QED BY <1>1, <1>8, <2>1, <2>2, <2>3, <2>4, LockedUserLeaves
<1>. QED BY <1>9, <1>10, <1>11

\* The number of caches that threads are inserting, and those not created.
LEMMA InsertCounts ==
  /\ Cardinality(Inserting) \in Nat /\ Cardinality(FreshCaches) \in Nat
  /\ FreshCaches \subseteq Nat /\ FreshCaches \subseteq Cache /\ FreshEntries \subseteq Nat /\ FreshEntries \subseteq Entry
  /\ Cardinality({}) = 0
<1>1. Inserting \in SUBSET Thread /\ FreshCaches \in SUBSET Cache /\ FreshEntries \in SUBSET Entry
  BY DEF Inserting, FreshCaches, FreshEntries
<1>2. Cardinality(Inserting) \in Nat /\ Cardinality(FreshCaches) \in Nat
  BY <1>1, ThreadsFinite, CachesFinite
<1>3. Cache \subseteq Nat /\ Entry \subseteq Nat BY ConstantsAssumption DEF Cache, Entry
<1>. QED BY <1>1, <1>2, <1>3, FS_EmptySet

\* FindCache keeps the invariant: the cache of the table is acquired, or the
\* thread goes on to create one.
LEMMA FindCacheKeeps ==
  ASSUME IInv, NEW t \in Thread, NEW i \in Ident, FindCache(t, i)
  PROVE  IInv'
<1>1. /\ Idle(t) /\ HasPool(t) /\ held[t].cache = None /\ TodoInv
      /\ UNCHANGED << entry, weak, queue, lru, victims >>
  BY Parts DEF FindCache
<1>2. CASE \E c \in InTable(i) : /\ TryToAcquireCacheStrongReference(c)
                                 /\ AcquireCache(t, c) /\ UNCHANGED << caches, todo >>
  <2>1. PICK c \in InTable(i) : /\ TryToAcquireCacheStrongReference(c)
                                /\ AcquireCache(t, c) /\ UNCHANGED << caches, todo >>
    BY <1>2
  <2>2. c \in caches /\ ~ShouldDelete(cache[c])
    BY <2>1 DEF InTable, TryToAcquireCacheStrongReference
  <2>3. OnlyTodo(t) /\ Alone(todo[t], "none", None) /\ Alone(todo'[t], "none", None)
    BY <1>1, <2>1, StaysIdle
  <2>4. /\ cache' = [cache EXCEPT ![c].strong = cache[c].strong + 1]
        /\ pool' = [pool EXCEPT !.weak = IF cache[c].strong = 0 THEN pool.weak + 1 ELSE pool.weak]
        /\ held' = [held EXCEPT ![t].cache = c]
    BY <2>1 DEF AcquireCache
  <2>5. UNCHANGED << caches, entry, weak, queue, lru, victims >> BY <1>1, <2>1
  <2>6. "none" \in {"none", "insert"} OBVIOUS
  <2>. QED BY <1>1, <2>2, <2>3, <2>4, <2>5, <2>6, AcquireCacheKeeps, Zenon
<1>3. CASE /\ \A c \in InTable(i) : ~TryToAcquireCacheStrongReference(c)
           /\ RoomForCache /\ caches' = caches \ InTable(i) /\ Start(t, << Step("insert", i) >>)
           /\ UNCHANGED << pool, cache, held >>
  <2>1. \A c \in InTable(i) : ShouldDelete(cache[c])
    BY <1>3 DEF TryToAcquireCacheStrongReference
  <2>2. UNCHANGED << pool, cache, entry, weak, queue, lru, victims, held >> BY <1>1, <1>3
  <2>. QED BY <1>1, <1>3, <2>1, <2>2, StartInsertKeeps, Zenon
<1>. QED BY <1>2, <1>3 DEF FindCache

\* InsertCache keeps the invariant.
LEMMA InsertCacheKeeps ==
  ASSUME IInv, NEW t \in Thread, InsertCache(t)
  PROVE  IInv'
<1>1. At(t, "insert") /\ Return(t) /\ UNCHANGED << entry, weak, queue, lru, victims >>
  BY DEF InsertCache
<1>2. TypeOK /\ TodoInv /\ Arg(t) \in Ident /\ HasPool(t) /\ held[t].cache = None BY <1>1, ArgIs
<1>3. OnlyTodo(t) /\ Alone(todo[t], "insert", Arg(t)) /\ Alone(todo'[t], "none", None)
  BY <1>1, <1>2, Returns DEF Inner
<1>4. "insert" \in {"none", "insert"} OBVIOUS
<1>5. PICK i : i = Arg(t) OBVIOUS
<1>6. CASE \E c \in InTable(i) : /\ TryToAcquireCacheStrongReference(c)
                                 /\ AcquireCache(t, c) /\ UNCHANGED caches
  <2>1. PICK c \in InTable(i) : /\ TryToAcquireCacheStrongReference(c)
                                /\ AcquireCache(t, c) /\ UNCHANGED caches
    BY <1>6
  <2>2. c \in caches /\ ~ShouldDelete(cache[c])
    BY <2>1 DEF InTable, TryToAcquireCacheStrongReference
  <2>4. /\ cache' = [cache EXCEPT ![c].strong = cache[c].strong + 1]
        /\ pool' = [pool EXCEPT !.weak = IF cache[c].strong = 0 THEN pool.weak + 1 ELSE pool.weak]
        /\ held' = [held EXCEPT ![t].cache = c]
    BY <2>1 DEF AcquireCache
  <2>5. UNCHANGED << caches, entry, weak, queue, lru, victims >> BY <1>1, <2>1
  <2>. QED BY <1>2, <1>3, <1>4, <1>5, <2>2, <2>4, <2>5, AcquireCacheKeeps, Zenon
<1>7. CASE \A c \in InTable(i) : ~TryToAcquireCacheStrongReference(c)
  <2>1. \A c \in InTable(i) : ShouldDelete(cache[c])
    BY <1>7 DEF TryToAcquireCacheStrongReference
  <2>2. PICK n : n = Min(FreshCaches) OBVIOUS
  <2>3. PICK b : b = IF pool.strong # 0 THEN 1 ELSE 0 OBVIOUS
  <2>4. /\ caches' = (caches \ InTable(i)) \cup {n} /\ cache' = [cache EXCEPT ![n] = NewCache(i, b)]
        /\ held' = [held EXCEPT ![t].cache = n] /\ pool' = [pool EXCEPT !.weak = pool.weak + 1]
    BY <1>5, <1>7, <2>2, <2>3 DEF InsertCache
  <2>5. b = One(pool.strong > 0) /\ b \in 0 .. 1 BY <1>2, <2>3, Types DEF PoolRec, One
  <2>6. Cardinality(Inserting) \in Nat /\ Cardinality(Inserting) > 0 /\ Cardinality(Inserting') = Cardinality(Inserting) - 1
    <3>1. Moves(t) BY <1>2, <2>4, <1>1, <1>3, Types DEF Moves
    <3>2. t \in Inserting /\ t \notin Inserting' BY <1>3 DEF Inserting, Alone
    <3>3. Cardinality(Inserting') = Cardinality(Inserting) + One(t \in Inserting') - One(t \in Inserting)
      BY <3>1, CountsAt
    <3>4. Inserting \in SUBSET Thread /\ Inserting' \in SUBSET Thread BY DEF Inserting
    <3>5. Cardinality(Inserting) \in Nat /\ Cardinality(Inserting') \in Nat
      BY <3>4, ThreadsFinite
    <3>6. One(t \in Inserting) = 1 /\ One(t \in Inserting') = 0 BY <3>2 DEF One
    <3>. QED BY <3>3, <3>5, <3>6
  <2>7. Cardinality(FreshCaches) \in Nat /\ Cardinality(FreshCaches) >= Cardinality(Inserting)
    BY Parts, InsertCounts DEF ObjectInv
  <2>8. FreshCaches # {} /\ Cardinality(FreshCaches) > Cardinality(Inserting')
    <3>1. Cardinality(FreshCaches) > Cardinality(Inserting') /\ Cardinality(FreshCaches) # 0
      BY <2>6, <2>7
    <3>. QED BY <3>1, InsertCounts
  <2>9. n \in FreshCaches BY <2>2, <2>8, InsertCounts, MinIn
  <2>10. n \in Cache /\ cache[n].st = "new" BY <2>9 DEF FreshCaches
  <2>11. i \in Ident /\ i \in Ident \cup {Anonymous} BY <1>2, <1>5
  <2>12. /\ HasPool(t) /\ held[t].cache = None /\ Alone(todo[t], "insert", i) /\ Alone(todo'[t], "none", None)
         /\ OnlyTodo(t)
    BY <1>2, <1>3, <1>5
  <2>. QED BY <1>1, <1>4, <2>1, <2>4, <2>5, <2>8, <2>10, <2>11, <2>12, NewCacheKeeps, Zenon
<1>. QED BY <1>5, <1>6, <1>7 DEF InsertCache

\* MakeAnonymousCache keeps the invariant.
LEMMA MakeAnonymousCacheKeeps ==
  ASSUME IInv, NEW t \in Thread, MakeAnonymousCache(t)
  PROVE  IInv'
<1>1. /\ Idle(t) /\ HasPool(t) /\ held[t].cache = None /\ RoomForCache /\ TodoInv /\ TypeOK
      /\ UNCHANGED << caches, entry, weak, queue, lru, victims, todo >>
  BY Parts DEF MakeAnonymousCache
<1>2. PICK n : n = Min(FreshCaches) OBVIOUS
<1>3. /\ cache' = [cache EXCEPT ![n] = NewCache(Anonymous, 0)]
      /\ held' = [held EXCEPT ![t].cache = n] /\ pool' = [pool EXCEPT !.weak = pool.weak + 1]
  BY <1>2 DEF MakeAnonymousCache
<1>4. OnlyTodo(t) /\ Alone(todo[t], "none", None) /\ Alone(todo'[t], "none", None)
  BY <1>1, StaysIdle
<1>5. Inserting' = Inserting BY <1>1 DEF Inserting
<1>6. FreshCaches # {} /\ Cardinality(FreshCaches) > Cardinality(Inserting')
  BY <1>1, <1>5, InsertingIs, InsertCounts DEF RoomForCache
<1>7. n \in FreshCaches BY <1>2, <1>6, InsertCounts, MinIn
<1>8. n \in Cache /\ cache[n].st = "new" BY <1>7 DEF FreshCaches
<1>9. "none" \in {"none", "insert"} /\ Anonymous \in Ident \cup {Anonymous} /\ 0 \in 0 .. 1 /\ Anonymous = Anonymous /\ 0 = 0
  OBVIOUS
<1>10. caches' = caches /\ UNCHANGED << entry, weak, queue, lru, victims >> BY <1>1
<1>. QED BY <1>1, <1>3, <1>4, <1>6, <1>8, <1>9, <1>10, NewCacheKeeps, Zenon

\* GetEntry keeps the invariant, whether the entry is found or created.
LEMMA GetEntryKeeps ==
  ASSUME IInv, NEW t \in Thread, NEW k \in Key, GetEntry(t, k)
  PROVE  IInv'
<1>0. TypeOK /\ ObjectInv /\ ShardInv BY Parts
<1>1. PICK c : c = held[t].cache OBVIOUS
<1>2. PICK hit : hit = {x \in Listed(c) : entry[x].key = k} OBVIOUS
<1>3. PICK e : e = IF hit # {} THEN Min(hit) ELSE Min(FreshEntries) OBVIOUS
<1>4. /\ Idle(t) /\ c # None /\ held[t].entry = None /\ (hit # {} \/ FreshEntries # {})
      /\ held' = [held EXCEPT ![t].entry = e] /\ Start(t, << Step("init", e) >>)
      /\ UNCHANGED << pool, caches, weak, queue, lru, victims >>
  BY <1>1, <1>2, <1>3 DEF GetEntry
<1>5. c \in Cache BY <1>0, <1>1, <1>4, Types DEF HeldRec
<1>6. Listed(c) \subseteq Entry /\ Entry \subseteq Nat BY ConstantsAssumption DEF Listed, Entry
<1>7. CASE hit # {}
  <2>1. e \in hit BY <1>2, <1>3, <1>6, <1>7, MinIn
  <2>2. e \in Entry /\ entry[e].listed /\ entry[e].cache = c BY <1>2, <2>1 DEF Listed
  <2>3. PICK n : n = IF entry[e].refs <= 1 THEN cache[c].strong + 1 ELSE cache[c].strong OBVIOUS
  <2>4. n \in Nat BY <1>0, <1>5, <2>3, Types DEF CacheRec
  <2>5. entry' = [entry EXCEPT ![e].refs = entry[e].refs + 2] /\ cache' = [cache EXCEPT ![c].strong = n]
    BY <1>1, <1>2, <1>3, <1>7, <2>3 DEF GetEntry
  <2>. QED BY <1>1, <1>4, <1>5, <2>2, <2>3, <2>4, <2>5, HitKeeps, Zenon
<1>8. CASE hit = {}
  <2>1. e \in FreshEntries BY <1>3, <1>4, <1>8, InsertCounts, MinIn
  <2>2. e \in Entry /\ entry[e].st = "new" /\ ~entry[e].listed
    BY <2>1, <1>0 DEF FreshEntries, ObjectInv, NoEntry
  <2>3. PICK same : same = {x \in Listed(c) : ShardForKey[entry[x].key] = ShardForKey[k]}
    OBVIOUS
  <2>4. PICK m : m = IF same = {} THEN 1 ELSE 0 OBVIOUS
  <2>5. cache[c].strong \in Nat /\ cache[c].shards \in Nat BY <1>0, <1>5, Types DEF CacheRec
  <2>6. PICK s : s = cache[c].strong + 1 OBVIOUS
  <2>7. PICK n : n = cache[c].shards + m OBVIOUS
  <2>8. s \in Nat /\ n \in Nat /\ m \in Nat BY <2>4, <2>5, <2>6, <2>7
  <2>9. PICK q : q = [cache[c] EXCEPT !.strong = s, !.shards = n] OBVIOUS
  <2>10. /\ entry' = [entry EXCEPT ![e] = [st |-> "live", cache |-> c, key |-> k, listed |-> TRUE,
                                           refs |-> 2, bytes |-> 0, init |-> "no"]]
         /\ cache' = [cache EXCEPT ![c].strong = @ + 1, ![c].shards = IF same = {} THEN @ + 1 ELSE @]
    BY <1>1, <1>2, <1>3, <1>8, <2>3 DEF GetEntry
  <2>11. cache' = [cache EXCEPT ![c] = q]
    <3>1. (IF same = {} THEN cache[c].shards + 1 ELSE cache[c].shards) = n BY <2>4, <2>5, <2>7
    <3>2. cache' = [cache EXCEPT ![c].strong = s, ![c].shards = n] BY <2>6, <2>10, <3>1
    <3>3. cache \in [Cache -> CacheRec] BY <1>0, Types
    <3>. QED BY <1>5, <2>8, <2>9, <3>2, <3>3 DEF CacheRec
  <2>12. /\ \A x \in Entry : x # e => entry'[x] = entry[x]
         /\ entry'[e].st = "live" /\ entry'[e].cache = c /\ entry'[e].key = k /\ entry'[e].listed
         /\ entry'[e].refs = 2 /\ entry'[e].bytes = 0 /\ entry' \in [Entry -> EntryRec]
    BY <1>0, <1>5, <2>2, <2>10, NewEntryFields
  <2>13. /\ \A d \in Cache : d # c => cache'[d] = cache[d]
         /\ cache'[c].strong = s /\ cache'[c].shards = n
         /\ \A d \in Cache : /\ cache'[d].st = cache[d].st /\ cache'[d].ident = cache[d].ident
                             /\ cache'[d].bit = cache[d].bit
         /\ cache' \in [Cache -> CacheRec] /\ CachesKept
    BY <1>0, <1>5, <2>8, <2>9, <2>11, CacheBoth, Zenon
  <2>14. \A x : x \in same <=> x \in Listed(c) /\ ShardForKey[entry[x].key] = ShardForKey[k]
    BY <2>3
  <2>15. /\ \A d : d # c => Listed(d)' = Listed(d) /\ ShardsOf(d)' = ShardsOf(d)
         /\ Cardinality(ShardsOf(c)') = Cardinality(ShardsOf(c)) + m
    <3>1. /\ e \in Entry /\ ~entry[e].listed /\ c \in Cache /\ entry'[e].cache = c /\ entry'[e].listed
          /\ \A x \in Entry : x # e => entry'[x] = entry[x]
      BY <1>5, <2>2, <2>12
    <3>2. entry'[e].key = k BY <2>12
    <3>3. GainsEntry(e, c, k, same, m) BY <2>4, <2>14, <3>1, <3>2 DEF GainsEntry
    <3>. QED BY <3>3, ShardMore
  <2>16. \A d : d # c => ShardsOf(d)' = ShardsOf(d) BY <2>15
  <2>17. cache'[c].strong = cache[c].strong + 1 BY <2>6, <2>13
  <2>. QED
    BY <1>1, <1>4, <1>5, <2>2, <2>7, <2>8, <2>12, <2>13, <2>15, <2>16, <2>17, NewEntryKeeps, ZenonT(60)
<1>. QED BY <1>7, <1>8

-----------------------------------------------------------------------------
(* Two further invariants.                                                 *)

\* Without an LRU cache nothing is ever queued for eviction.
NoQueue == ~HasLruCache => queue = << >>

\* An entry that is not initialized has no size yet, and whoever holds it is
\* about to initialize it.
InitInv ==
    \A e \in Entry : entry[e].st = "live" /\ entry[e].init = "no" =>
        entry[e].bytes = 0 /\ \A t \in Thread : held[t].entry = e => At(t, "init")

\* A step of t that initializes no entry and that needs no eviction queue.
Quiet(t) ==
    /\ ~At(t, "init")
    /\ \A u \in Thread : u # t => todo'[u] = todo[u]
    /\ \A u \in Thread : held'[u].entry \in {held[u].entry, None}
    /\ \A e \in Entry : entry'[e].st = "live" /\ entry'[e].init = "no" =>
          /\ entry[e].st = "live" /\ entry[e].init = "no"
          /\ entry'[e].bytes = entry[e].bytes \/ held[t].entry = e
    /\ pool'.limit = pool.limit
    /\ HasLruCache \/ queue' = queue

\* Such a step keeps both.
LEMMA QuietKeeps ==
  ASSUME NoQueue, InitInv, NEW t \in Thread, Quiet(t)
  PROVE  NoQueue' /\ InitInv'
<1>1. NoQueue' BY DEF NoQueue, Quiet, HasLruCache
<1>2. ASSUME NEW e \in Entry, entry'[e].st = "live", entry'[e].init = "no"
      PROVE  entry'[e].bytes = 0 /\ \A u \in Thread : held'[u].entry = e => At(u, "init")'
  <2>1. /\ entry[e].bytes = 0 /\ (entry'[e].bytes = entry[e].bytes \/ held[t].entry = e)
        /\ \A u \in Thread : held[u].entry = e => At(u, "init")
    BY <1>2 DEF Quiet, InitInv
  <2>2. held[t].entry # e BY <2>1 DEF Quiet
  <2>3. e # None BY ConstantsAssumption DEF Entry, None
  <2>4. ASSUME NEW u \in Thread, held'[u].entry = e PROVE At(u, "init")'
    <3>1. held[u].entry = e BY <2>3, <2>4 DEF Quiet
    <3>2. u # t BY <2>2, <3>1
    <3>3. todo'[u] = todo[u] BY <3>2 DEF Quiet
    <3>. QED BY <2>1, <3>1, <3>3 DEF At
  <2>. QED BY <2>1, <2>2, <2>4
<1>. QED BY <1>1, <1>2 DEF InitInv

\* A sequence without members is empty.
LEMMA MembersEmpty ==
  ASSUME NEW S, NEW s \in Seq(S), Members(s) = {}
  PROVE  s = << >>
<1>1. Len(s) \in Nat OBVIOUS
<1>2. 1 \notin 1 .. Len(s) BY DEF Members
<1>3. Len(s) = 0 BY <1>1, <1>2
<1>. QED BY <1>3

\* An idle thread, or one whose next step is another one, initializes nothing.
LEMMA NotInit ==
  ASSUME NEW t, NEW op, op # "init", At(t, op) \/ Idle(t)
  PROVE  ~At(t, "init")
BY DEF At, Idle

\* The shape of the state before such a step.
LEMMA QuietShape ==
  ASSUME IInv
  PROVE  /\ pool \in PoolRec /\ entry \in [Entry -> EntryRec] /\ held \in [Thread -> HeldRec]
         /\ todo \in [Thread -> Seq(Steps)] /\ queue \in Seq(Entry) /\ Distinct(queue)
BY Parts, Types DEF TodoInv, QueueInv

\* EvictDone initializes nothing and needs no queue.
LEMMA EvictDoneQuiet ==
  ASSUME IInv, NoQueue, NEW t \in Thread, EvictDone(t)
  PROVE  Quiet(t)
BY QuietShape, NotInit DEF Quiet, EvictDone, Goto, Return, Start, HeldRec, EntryRec, PoolRec,
   NoQueue

\* EvictSkip initializes nothing and needs no queue.
LEMMA EvictSkipQuiet ==
  ASSUME IInv, NoQueue, NEW t \in Thread, EvictSkip(t)
  PROVE  Quiet(t)
BY QuietShape, NotInit DEF Quiet, EvictSkip, Goto, Return, Start, HeldRec, EntryRec, PoolRec,
   NoQueue

\* EvictEntry initializes nothing and needs no queue.
LEMMA EvictEntryQuiet ==
  ASSUME IInv, NoQueue, NEW t \in Thread, EvictEntry(t)
  PROVE  Quiet(t)
<1>1. ~At(t, "init") BY NotInit DEF EvictEntry
<1>2. \A u \in Thread : u # t => todo'[u] = todo[u]
  BY QuietShape DEF EvictEntry, Goto, Return, Start
<1>3. \A u \in Thread : held'[u].entry \in {held[u].entry, None}
  BY QuietShape DEF EvictEntry, HeldRec
<1>4. \A e \in Entry : entry'[e].st = "live" /\ entry'[e].init = "no" =>
         /\ entry[e].st = "live" /\ entry[e].init = "no"
         /\ entry'[e].bytes = entry[e].bytes \/ held[t].entry = e
  BY QuietShape DEF EvictEntry, EntryRec
<1>5. pool'.limit = pool.limit BY QuietShape DEF EvictEntry, PoolRec
<1>6. HasLruCache \/ queue' = queue BY DEF EvictEntry, NoQueue
<1>. QED BY <1>1, <1>2, <1>3, <1>4, <1>5, <1>6 DEF Quiet

\* LockLru initializes nothing and needs no queue.
LEMMA LockLruQuiet ==
  ASSUME IInv, NoQueue, NEW t \in Thread, LockLru(t)
  PROVE  Quiet(t)
BY QuietShape, NotInit DEF Quiet, LockLru, Goto, Return, Start, HeldRec, EntryRec, PoolRec,
   NoQueue

\* Relock initializes nothing and needs no queue.
LEMMA RelockQuiet ==
  ASSUME IInv, NoQueue, NEW t \in Thread, Relock(t)
  PROVE  Quiet(t)
BY QuietShape, NotInit DEF Quiet, Relock, Goto, Return, Start, HeldRec, EntryRec, PoolRec, NoQueue

\* DeleteEntry initializes nothing and needs no queue.
LEMMA DeleteEntryQuiet ==
  ASSUME IInv, NoQueue, NEW t \in Thread, DeleteEntry(t)
  PROVE  Quiet(t)
BY QuietShape, NotInit DEF Quiet, DeleteEntry, Goto, Return, Start, HeldRec, EntryRec, Deleted,
   NoEntry, PoolRec, NoQueue

\* UnlistCache initializes nothing and needs no queue.
LEMMA UnlistCacheQuiet ==
  ASSUME IInv, NoQueue, NEW t \in Thread, UnlistCache(t)
  PROVE  Quiet(t)
BY QuietShape, NotInit DEF Quiet, UnlistCache, Goto, Return, Start, HeldRec, EntryRec, PoolRec,
   NoQueue

\* PinEntries initializes nothing and needs no queue.
LEMMA PinEntriesQuiet ==
  ASSUME IInv, NoQueue, NEW t \in Thread, PinEntries(t)
  PROVE  Quiet(t)
<1>1. ~At(t, "init") BY NotInit DEF PinEntries
<1>2. \A u \in Thread : u # t => todo'[u] = todo[u]
  BY QuietShape DEF PinEntries, Goto, Return, Start
<1>3. \A u \in Thread : held'[u].entry \in {held[u].entry, None}
  BY QuietShape DEF PinEntries, HeldRec
<1>4. \A e \in Entry : entry'[e].st = "live" /\ entry'[e].init = "no" =>
         /\ entry[e].st = "live" /\ entry[e].init = "no"
         /\ entry'[e].bytes = entry[e].bytes \/ held[t].entry = e
  BY QuietShape DEF PinEntries, EntryRec
<1>5. pool'.limit = pool.limit BY QuietShape DEF PinEntries, PoolRec
<1>6. HasLruCache \/ queue' = queue
  <2>1. SUFFICES ASSUME ~HasLruCache PROVE queue' = queue OBVIOUS
  <2>2. queue = << >> BY <2>1 DEF NoQueue
  <2>3. queue' = Unlinked(Listed(Arg(t))) BY DEF PinEntries
  <2>4. Unlinked(Listed(Arg(t))) \in Seq(Entry) /\ Members(Unlinked(Listed(Arg(t)))) = Members(queue) \ Listed(Arg(t))
    BY QuietShape, UnlinkedQueue
  <2>5. Members(Unlinked(Listed(Arg(t)))) = {} BY <2>2, <2>4 DEF Members
  <2>. QED BY <2>2, <2>3, <2>4, <2>5, MembersEmpty
<1>. QED BY <1>1, <1>2, <1>3, <1>4, <1>5, <1>6 DEF Quiet

\* FreeEntry initializes nothing and needs no queue.
LEMMA FreeEntryQuiet ==
  ASSUME IInv, NoQueue, NEW t \in Thread, FreeEntry(t)
  PROVE  Quiet(t)
BY QuietShape, NotInit DEF Quiet, FreeEntry, Goto, Return, Start, HeldRec, EntryRec, Deleted,
   NoEntry, PoolRec, NoQueue

\* FreeCache initializes nothing and needs no queue.
LEMMA FreeCacheQuiet ==
  ASSUME IInv, NoQueue, NEW t \in Thread, FreeCache(t)
  PROVE  Quiet(t)
BY QuietShape, NotInit DEF Quiet, FreeCache, Goto, Return, Start, HeldRec, EntryRec, PoolRec,
   NoQueue

\* DecrementCache initializes nothing and needs no queue.
LEMMA DecrementCacheQuiet ==
  ASSUME IInv, NoQueue, NEW t \in Thread, DecrementCache(t)
  PROVE  Quiet(t)
BY QuietShape, NotInit DEF Quiet, DecrementCache, Goto, Return, Start, HeldRec, EntryRec,
   PoolRec, NoQueue

\* ReleaseWeakReference initializes nothing and needs no queue.
LEMMA ReleaseWeakReferenceQuiet ==
  ASSUME IInv, NoQueue, NEW t \in Thread, ReleaseWeakReference(t)
  PROVE  Quiet(t)
BY QuietShape, NotInit DEF Quiet, ReleaseWeakReference, Goto, Return, Start, HeldRec, EntryRec,
   PoolRec, NoQueue

\* DecrementEntryLru initializes nothing and needs no queue.
LEMMA DecrementEntryLruQuiet ==
  ASSUME IInv, NoQueue, NEW t \in Thread, DecrementEntryLru(t)
  PROVE  Quiet(t)
BY QuietShape, NotInit DEF Quiet, DecrementEntryLru, Goto, Return, Start, HeldRec, EntryRec,
   PoolRec, NoQueue

\* DecrementEntryShard initializes nothing and needs no queue.
LEMMA DecrementEntryShardQuiet ==
  ASSUME IInv, NoQueue, NEW t \in Thread, DecrementEntryShard(t)
  PROVE  Quiet(t)
BY QuietShape, NotInit DEF Quiet, DecrementEntryShard, Goto, Return, Start, HeldRec, EntryRec,
   PoolRec, NoQueue

\* MarkWeakEntry initializes nothing and needs no queue.
LEMMA MarkWeakEntryQuiet ==
  ASSUME IInv, NoQueue, NEW t \in Thread, MarkWeakEntry(t)
  PROVE  Quiet(t)
BY QuietShape, NotInit DEF Quiet, MarkWeakEntry, Goto, Return, Start, HeldRec, EntryRec,
   PoolRec, NoQueue

\* DecrementWeakLocked initializes nothing and needs no queue.
LEMMA DecrementWeakLockedQuiet ==
  ASSUME IInv, NoQueue, NEW t \in Thread, DecrementWeakLocked(t)
  PROVE  Quiet(t)
BY QuietShape, NotInit DEF Quiet, DecrementWeakLocked, Goto, Return, Start, HeldRec, EntryRec,
   PoolRec, NoQueue

\* UnmarkEntry initializes nothing and needs no queue.
LEMMA UnmarkEntryQuiet ==
  ASSUME IInv, NoQueue, NEW t \in Thread, UnmarkEntry(t)
  PROVE  Quiet(t)
<1>1. ~At(t, "init") BY NotInit DEF UnmarkEntry
<1>2. \A u \in Thread : u # t => todo'[u] = todo[u]
  BY QuietShape DEF UnmarkEntry, Goto, Return, Start
<1>3. \A u \in Thread : held'[u].entry \in {held[u].entry, None}
  BY QuietShape DEF UnmarkEntry, HeldRec
<1>4. \A e \in Entry : entry'[e].st = "live" /\ entry'[e].init = "no" =>
         /\ entry[e].st = "live" /\ entry[e].init = "no"
         /\ entry'[e].bytes = entry[e].bytes \/ held[t].entry = e
  <2>1. UNCHANGED entry \/ \E x, r : entry' = [entry EXCEPT ![x].refs = r] BY DEF UnmarkEntry
  <2>2. CASE UNCHANGED entry BY <2>2
  <2>3. CASE \E x, r : entry' = [entry EXCEPT ![x].refs = r] BY QuietShape, <2>3 DEF EntryRec
  <2>. QED BY <2>1, <2>2, <2>3
<1>5. pool'.limit = pool.limit BY QuietShape DEF UnmarkEntry, PoolRec
<1>6. HasLruCache \/ queue' = queue BY DEF UnmarkEntry, NoQueue
<1>. QED BY <1>1, <1>2, <1>3, <1>4, <1>5, <1>6 DEF Quiet

\* UnmarkEntryLru initializes nothing and needs no queue.
LEMMA UnmarkEntryLruQuiet ==
  ASSUME IInv, NoQueue, NEW t \in Thread, UnmarkEntryLru(t)
  PROVE  Quiet(t)
BY QuietShape, NotInit DEF Quiet, UnmarkEntryLru, Goto, Return, Start, HeldRec, EntryRec,
   PoolRec, NoQueue

\* UnmarkEntryShard initializes nothing and needs no queue.
LEMMA UnmarkEntryShardQuiet ==
  ASSUME IInv, NoQueue, NEW t \in Thread, UnmarkEntryShard(t)
  PROVE  Quiet(t)
BY QuietShape, NotInit DEF Quiet, UnmarkEntryShard, Goto, Return, Start, HeldRec, EntryRec,
   PoolRec, NoQueue

\* DecrementPoolLocked initializes nothing and needs no queue.
LEMMA DecrementPoolLockedQuiet ==
  ASSUME IInv, NoQueue, NEW t \in Thread, DecrementPoolLocked(t)
  PROVE  Quiet(t)
BY QuietShape, NotInit DEF Quiet, DecrementPoolLocked, Goto, Return, Start, HeldRec, EntryRec,
   PoolRec, NoQueue

\* MakeCacheFails initializes nothing and needs no queue.
LEMMA MakeCacheFailsQuiet ==
  ASSUME IInv, NoQueue, NEW t \in Thread, MakeCacheFails(t)
  PROVE  Quiet(t)
BY QuietShape, NotInit DEF Quiet, MakeCacheFails, Goto, Return, Start, HeldRec, EntryRec,
   PoolRec, NoQueue

\* InsertCache initializes nothing and needs no queue.
LEMMA InsertCacheQuiet ==
  ASSUME IInv, NoQueue, NEW t \in Thread, InsertCache(t)
  PROVE  Quiet(t)
<1>1. ~At(t, "init") BY NotInit DEF InsertCache
<1>2. \A u \in Thread : u # t => todo'[u] = todo[u]
  BY QuietShape DEF InsertCache, Goto, Return, Start
<1>3. \A u \in Thread : held'[u].entry \in {held[u].entry, None}
  <2>1. \E c : held' = [held EXCEPT ![t].cache = c] BY DEF InsertCache, AcquireCache
  <2>. QED BY QuietShape, <2>1 DEF HeldRec
<1>4. \A e \in Entry : entry'[e].st = "live" /\ entry'[e].init = "no" =>
         /\ entry[e].st = "live" /\ entry[e].init = "no"
         /\ entry'[e].bytes = entry[e].bytes \/ held[t].entry = e
  BY QuietShape DEF InsertCache, EntryRec
<1>5. pool'.limit = pool.limit BY QuietShape DEF InsertCache, PoolRec, AcquireCache
<1>6. HasLruCache \/ queue' = queue BY DEF InsertCache, NoQueue
<1>. QED BY <1>1, <1>2, <1>3, <1>4, <1>5, <1>6 DEF Quiet

\* EntryInitialized initializes nothing and needs no queue.
LEMMA EntryInitializedQuiet ==
  ASSUME IInv, NoQueue, NEW t \in Thread, EntryInitialized(t)
  PROVE  Quiet(t)
BY QuietShape, NotInit DEF Quiet, EntryInitialized, Goto, Return, Start, HeldRec, EntryRec,
   PoolRec, NoQueue

\* CopyPool initializes nothing and needs no queue.
LEMMA CopyPoolQuiet ==
  ASSUME IInv, NoQueue, NEW t \in Thread, CopyPool(t)
  PROVE  Quiet(t)
<1>1. ~At(t, "init") BY NotInit DEF CopyPool
<1>2. \A u \in Thread : u # t => todo'[u] = todo[u]
  BY QuietShape DEF CopyPool, Goto, Return, Start
<1>3. \A u \in Thread : held'[u].entry \in {held[u].entry, None}
  <2>1. held' = [held EXCEPT ![t].weak = TRUE] \/ held' = [held EXCEPT ![t].strong = TRUE]
    BY DEF CopyPool
  <2>2. CASE held' = [held EXCEPT ![t].weak = TRUE] BY QuietShape, <2>2 DEF HeldRec
  <2>3. CASE held' = [held EXCEPT ![t].strong = TRUE] BY QuietShape, <2>3 DEF HeldRec
  <2>. QED BY <2>1, <2>2, <2>3
<1>4. \A e \in Entry : entry'[e].st = "live" /\ entry'[e].init = "no" =>
         /\ entry[e].st = "live" /\ entry[e].init = "no"
         /\ entry'[e].bytes = entry[e].bytes \/ held[t].entry = e
  BY QuietShape DEF CopyPool, EntryRec
<1>5. pool'.limit = pool.limit BY QuietShape DEF CopyPool, PoolRec
<1>6. HasLruCache \/ queue' = queue BY DEF CopyPool, NoQueue
<1>. QED BY <1>1, <1>2, <1>3, <1>4, <1>5, <1>6 DEF Quiet

\* RevivePool initializes nothing and needs no queue.
LEMMA RevivePoolQuiet ==
  ASSUME IInv, NoQueue, NEW t \in Thread, RevivePool(t)
  PROVE  Quiet(t)
BY QuietShape, NotInit DEF Quiet, RevivePool, Goto, Return, Start, HeldRec, EntryRec, PoolRec,
   NoQueue

\* FindCache initializes nothing and needs no queue.
LEMMA FindCacheQuiet ==
  ASSUME IInv, NoQueue, NEW t \in Thread, NEW i, FindCache(t, i)
  PROVE  Quiet(t)
<1>1. ~At(t, "init") BY NotInit DEF FindCache
<1>2. \A u \in Thread : u # t => todo'[u] = todo[u]
  BY QuietShape DEF FindCache, Goto, Return, Start
<1>3. \A u \in Thread : held'[u].entry \in {held[u].entry, None}
  <2>1. UNCHANGED held \/ \E c : held' = [held EXCEPT ![t].cache = c]
    BY DEF FindCache, AcquireCache
  <2>2. CASE UNCHANGED held BY <2>2
  <2>3. CASE \E c : held' = [held EXCEPT ![t].cache = c] BY QuietShape, <2>3 DEF HeldRec
  <2>. QED BY <2>1, <2>2, <2>3
<1>4. \A e \in Entry : entry'[e].st = "live" /\ entry'[e].init = "no" =>
         /\ entry[e].st = "live" /\ entry[e].init = "no"
         /\ entry'[e].bytes = entry[e].bytes \/ held[t].entry = e
  BY QuietShape DEF FindCache, EntryRec
<1>5. pool'.limit = pool.limit BY QuietShape DEF FindCache, PoolRec, AcquireCache
<1>6. HasLruCache \/ queue' = queue BY DEF FindCache, NoQueue
<1>. QED BY <1>1, <1>2, <1>3, <1>4, <1>5, <1>6 DEF Quiet

\* MakeAnonymousCache initializes nothing and needs no queue.
LEMMA MakeAnonymousCacheQuiet ==
  ASSUME IInv, NoQueue, NEW t \in Thread, MakeAnonymousCache(t)
  PROVE  Quiet(t)
<1>1. ~At(t, "init") BY NotInit DEF MakeAnonymousCache
<1>2. \A u \in Thread : u # t => todo'[u] = todo[u]
  BY QuietShape DEF MakeAnonymousCache, Goto, Return, Start
<1>3. \A u \in Thread : held'[u].entry \in {held[u].entry, None}
  BY QuietShape DEF MakeAnonymousCache, HeldRec
<1>4. \A e \in Entry : entry'[e].st = "live" /\ entry'[e].init = "no" =>
         /\ entry[e].st = "live" /\ entry[e].init = "no"
         /\ entry'[e].bytes = entry[e].bytes \/ held[t].entry = e
  BY QuietShape DEF MakeAnonymousCache, EntryRec
<1>5. pool'.limit = pool.limit BY QuietShape DEF MakeAnonymousCache, PoolRec
<1>6. HasLruCache \/ queue' = queue BY DEF MakeAnonymousCache, NoQueue
<1>. QED BY <1>1, <1>2, <1>3, <1>4, <1>5, <1>6 DEF Quiet

\* Resize initializes nothing and needs no queue.
LEMMA ResizeQuiet ==
  ASSUME IInv, NoQueue, NEW t \in Thread, NEW n \in Size, InitInv, Resize(t, n)
  PROVE  Quiet(t)
BY QuietShape, NotInit, ZenonT(60) DEF Quiet, Resize, Goto, Return, Start, HeldRec, EntryRec, PoolRec, NoQueue

\* AcquireWeakEntry initializes nothing and needs no queue.
LEMMA AcquireWeakEntryQuiet ==
  ASSUME IInv, NoQueue, NEW t \in Thread, AcquireWeakEntry(t)
  PROVE  Quiet(t)
BY QuietShape, NotInit, ZenonT(60) DEF Quiet, AcquireWeakEntry, Goto, Return, Start, HeldRec, EntryRec,
   PoolRec, NoQueue

\* DecrementEntry initializes nothing and needs no queue.
LEMMA DecrementEntryQuiet ==
  ASSUME IInv, NoQueue, NEW t \in Thread, DecrementEntry(t)
  PROVE  Quiet(t)
<1>1. ~At(t, "init") BY NotInit DEF DecrementEntry
<1>2. \A u \in Thread : u # t => todo'[u] = todo[u]
  BY QuietShape DEF DecrementEntry, Goto, Return, Start
<1>3. \A u \in Thread : held'[u].entry \in {held[u].entry, None}
  BY QuietShape DEF DecrementEntry, HeldRec
<1>4. \A e \in Entry : entry'[e].st = "live" /\ entry'[e].init = "no" =>
         /\ entry[e].st = "live" /\ entry[e].init = "no"
         /\ entry'[e].bytes = entry[e].bytes \/ held[t].entry = e
  <2>1. UNCHANGED entry \/ \E x, r : entry' = [entry EXCEPT ![x].refs = r] BY DEF DecrementEntry
  <2>2. CASE UNCHANGED entry BY <2>2
  <2>3. CASE \E x, r : entry' = [entry EXCEPT ![x].refs = r] BY QuietShape, <2>3 DEF EntryRec
  <2>. QED BY <2>1, <2>2, <2>3
<1>5. pool'.limit = pool.limit BY QuietShape DEF DecrementEntry, PoolRec
<1>6. HasLruCache \/ queue' = queue BY DEF DecrementEntry, NoQueue
<1>. QED BY <1>1, <1>2, <1>3, <1>4, <1>5, <1>6 DEF Quiet

\* DecrementWeak initializes nothing and needs no queue.
LEMMA DecrementWeakQuiet ==
  ASSUME IInv, NoQueue, NEW t \in Thread, DecrementWeak(t)
  PROVE  Quiet(t)
BY QuietShape, NotInit DEF Quiet, DecrementWeak, Goto, Return, Start, HeldRec, EntryRec,
   PoolRec, NoQueue

\* DecrementPool initializes nothing and needs no queue.
LEMMA DecrementPoolQuiet ==
  ASSUME IInv, NoQueue, NEW t \in Thread, DecrementPool(t)
  PROVE  Quiet(t)
BY QuietShape, NotInit DEF Quiet, DecrementPool, Goto, Return, Start, HeldRec, EntryRec,
   PoolRec, NoQueue

\* Release initializes nothing and needs no queue.
LEMMA ReleaseQuiet ==
  ASSUME IInv, NoQueue, NEW t \in Thread, Release(t)
  PROVE  Quiet(t)
<1>1. ~At(t, "init") BY NotInit DEF Release
<1>2. \A u \in Thread : u # t => todo'[u] = todo[u]
  BY QuietShape DEF Release, Goto, Return, Start
<1>3. \A u \in Thread : held'[u].entry \in {held[u].entry, None}
  <2>1. held' = [held EXCEPT ![t].weak = FALSE] \/ held' = [held EXCEPT ![t].cache = None]
    BY DEF Release
  <2>2. CASE held' = [held EXCEPT ![t].weak = FALSE] BY QuietShape, <2>2 DEF HeldRec
  <2>3. CASE held' = [held EXCEPT ![t].cache = None] BY QuietShape, <2>3 DEF HeldRec
  <2>. QED BY <2>1, <2>2, <2>3
<1>4. \A e \in Entry : entry'[e].st = "live" /\ entry'[e].init = "no" =>
         /\ entry[e].st = "live" /\ entry[e].init = "no"
         /\ entry'[e].bytes = entry[e].bytes \/ held[t].entry = e
  BY QuietShape DEF Release, EntryRec
<1>5. pool'.limit = pool.limit BY QuietShape DEF Release, PoolRec
<1>6. HasLruCache \/ queue' = queue BY DEF Release, NoQueue
<1>. QED BY <1>1, <1>2, <1>3, <1>4, <1>5, <1>6 DEF Quiet

\* A thread that initializes an entry holds it, and the entry is alive.
LEMMA InitHolder ==
  ASSUME IInv, NEW t \in Thread, At(t, "init")
  PROVE  Arg(t) \in Entry /\ held[t].entry = Arg(t) /\ entry[Arg(t)].st = "live"
<1>1. TodoInv /\ HeldInv /\ Arg(t) \in Entry BY Parts, ArgIs
<1>2. todo[t] \in Seq(Steps) /\ todo[t] # << >> /\ WellFormed(todo[t]) /\ First(todo[t]) = Step("init", Arg(t))
  BY <1>1, AtFirst
<1>3. First(todo[t]).op \notin Inner BY <1>2, StepEq DEF Inner
<1>4. Final(todo[t]) = Step("init", Arg(t)) BY <1>2, <1>3, Pop
<1>5. held[t].entry = Arg(t) BY <1>1, <1>4 DEF HeldInv, HeldAt, Ends
<1>6. Users(Arg(t)) # {} BY <1>5 DEF Users
<1>. QED BY <1>1, <1>5, <1>6, UsedEntry

\* The first initialization sets a size that was zero.
LEMMA InitEntryQuiet ==
  ASSUME IInv, NoQueue, InitInv, NEW t \in Thread, InitEntry(t)
  PROVE  entry[Arg(t)].bytes = 0 /\ NoQueue' /\ InitInv'
<1>0. /\ pool \in PoolRec /\ entry \in [Entry -> EntryRec] /\ todo \in [Thread -> Seq(Steps)]
  BY Parts, Types DEF TodoInv
<1>1. At(t, "init") /\ entry[Arg(t)].init = "no" /\ UNCHANGED << queue, held >> BY DEF InitEntry
<1>2. PICK x : x = Arg(t) OBVIOUS
<1>3. x \in Entry /\ held[t].entry = x /\ entry[x].st = "live" BY <1>1, <1>2, InitHolder
<1>4. entry[x].bytes = 0 BY <1>1, <1>2, <1>3 DEF InitInv
<1>5. \E n, b : b \in {"done", "running"} /\ entry' = [entry EXCEPT ![x].bytes = n, ![x].init = b]
  BY <1>2 DEF InitEntry
<1>6. (\A y \in Entry : y # x => entry'[y] = entry[y]) /\ entry'[x].init # "no"
  BY <1>0, <1>3, <1>5 DEF EntryRec
<1>7. pool'.limit = pool.limit BY <1>0 DEF InitEntry, PoolRec
<1>8. \A u \in Thread : u # t => todo'[u] = todo[u] BY <1>0 DEF InitEntry, Goto
<1>9. NoQueue' BY <1>1, <1>7 DEF NoQueue, HasLruCache
<1>10. InitInv'
  <2>1. ASSUME NEW y \in Entry, entry'[y].st = "live", entry'[y].init = "no"
        PROVE  entry'[y].bytes = 0 /\ \A u \in Thread : held'[u].entry = y => At(u, "init")'
    <3>1. y # x /\ entry[y].st = "live" /\ entry[y].init = "no" /\ entry'[y].bytes = entry[y].bytes
      BY <1>6, <2>1
    <3>2. entry[y].bytes = 0 /\ \A u \in Thread : held[u].entry = y => At(u, "init")
      BY <3>1 DEF InitInv
    <3>3. ASSUME NEW u \in Thread, held'[u].entry = y PROVE At(u, "init")'
      BY <1>1, <1>3, <3>1, <3>3, <1>8, <3>2 DEF At
    <3>. QED BY <3>1, <3>2, <3>3
  <2>. QED BY <2>1 DEF InitInv
<1>. QED BY <1>2, <1>4, <1>9, <1>10

\* The thread that has waited for the initialization.
LEMMA AwaitInitQuiet ==
  ASSUME IInv, NoQueue, InitInv, NEW t \in Thread, AwaitInit(t)
  PROVE  NoQueue' /\ InitInv'
<1>0. todo \in [Thread -> Seq(Steps)] BY Parts DEF TodoInv
<1>1. At(t, "init") /\ entry[Arg(t)].init = "done" /\ UNCHANGED << pool, entry, queue, held >>
  BY DEF AwaitInit
<1>2. held[t].entry = Arg(t) BY <1>1, InitHolder
<1>8. \A u \in Thread : u # t => todo'[u] = todo[u] BY <1>0 DEF AwaitInit, Return, Goto
<1>9. NoQueue' BY <1>1 DEF NoQueue, HasLruCache
<1>10. ASSUME NEW y \in Entry, entry'[y].st = "live", entry'[y].init = "no"
       PROVE  entry'[y].bytes = 0 /\ \A u \in Thread : held'[u].entry = y => At(u, "init")'
  <2>1. entry[y].bytes = 0 /\ \A u \in Thread : held[u].entry = y => At(u, "init")
    BY <1>1, <1>10 DEF InitInv
  <2>2. y # Arg(t) BY <1>1, <1>10
  <2>3. ASSUME NEW u \in Thread, held'[u].entry = y PROVE At(u, "init")'
    BY <1>1, <1>2, <1>8, <2>1, <2>2, <2>3 DEF At
  <2>. QED BY <1>1, <2>1, <2>3
<1>. QED BY <1>9, <1>10 DEF InitInv

\* Whoever gets an entry is about to initialize it, or to wait for that.
LEMMA GetEntryQuiet ==
  ASSUME IInv, NoQueue, InitInv, NEW t \in Thread, NEW k \in Key, GetEntry(t, k)
  PROVE  NoQueue' /\ InitInv'
<1>0. /\ entry \in [Entry -> EntryRec] /\ todo \in [Thread -> Seq(Steps)] /\ held \in [Thread -> HeldRec]
  BY Parts, Types DEF TodoInv
<1>1. PICK e : /\ held' = [held EXCEPT ![t].entry = e] /\ Start(t, << Step("init", e) >>)
               /\ \/ \E r : entry' = [entry EXCEPT ![e].refs = r]
                  \/ /\ e = Min(FreshEntries) /\ FreshEntries # {}
                     /\ entry' = [entry EXCEPT ![e] =
                            [st |-> "live", cache |-> held[t].cache, key |-> k, listed |-> TRUE,
                             refs |-> 2, bytes |-> 0, init |-> "no"]]
  BY DEF GetEntry
<1>2. Idle(t) /\ UNCHANGED << pool, queue >> BY DEF GetEntry
<1>3. NoQueue' BY <1>2 DEF NoQueue, HasLruCache
<1>4. \A u \in Thread : u # t => todo'[u] = todo[u] /\ held'[u] = held[u]
  BY <1>0, <1>1 DEF Start
<1>5. At(t, "init")' BY <1>0, <1>1, StepEq DEF Start, At
<1>6. ASSUME NEW y \in Entry, entry'[y].st = "live", entry'[y].init = "no"
      PROVE  /\ entry'[y].bytes = 0
             /\ \/ entry[y].st = "live" /\ entry[y].init = "no"
                \/ entry[y].st = "new"
  <2>1. CASE \E r : entry' = [entry EXCEPT ![e].refs = r]
    BY <1>0, <2>1, <1>6 DEF EntryRec, InitInv
  <2>2. CASE /\ e = Min(FreshEntries) /\ FreshEntries # {}
             /\ entry' = [entry EXCEPT ![e] =
                            [st |-> "live", cache |-> held[t].cache, key |-> k, listed |-> TRUE,
                             refs |-> 2, bytes |-> 0, init |-> "no"]]
    <3>1. e \in FreshEntries BY <2>2, InsertCounts, MinIn
    <3>2. e \in Entry /\ entry[e].st = "new" BY <3>1 DEF FreshEntries
    <3>3. entry'[e].bytes = 0 /\ (y # e => entry'[y] = entry[y]) BY <1>0, <2>2, <3>2
    <3>. QED BY <1>6, <3>2, <3>3 DEF InitInv
  <2>. QED BY <1>1, <2>1, <2>2
<1>7. ASSUME NEW y \in Entry, entry'[y].st = "live", entry'[y].init = "no", NEW u \in Thread, held'[u].entry = y
      PROVE  At(u, "init")'
  <2>1. CASE u = t BY <1>5, <2>1
  <2>2. CASE u # t
    <3>1. held[u].entry = y /\ todo'[u] = todo[u] BY <1>4, <1>7, <2>2
    <3>2. Users(y) # {} BY <3>1 DEF Users
    <3>3. entry[y].st = "live" BY <3>2, UsedEntry
    <3>4. entry[y].init = "no" BY <1>6, <1>7, <3>3
    <3>5. At(u, "init") BY <3>1, <3>3, <3>4 DEF InitInv
    <3>. QED BY <3>1, <3>5 DEF At
  <2>. QED BY <2>1, <2>2
<1>8. InitInv' BY <1>6, <1>7 DEF InitInv
<1>. QED BY <1>3, <1>8

-----------------------------------------------------------------------------
(* The inductive invariant holds initially and is kept by every step.      *)

PoolInv == IInv /\ NoQueue /\ InitInv

\* The steps of a running operation keep the invariant.
LEMMA ExecuteKeeps ==
  ASSUME PoolInv, NEW t \in Thread, Execute(t)
  PROVE  PoolInv'
<1>0. IInv /\ NoQueue /\ InitInv BY DEF PoolInv
<1>q. ASSUME IInv', Quiet(t) PROVE PoolInv' BY <1>0, <1>q, QuietKeeps DEF PoolInv
<1>1. CASE EvictDone(t) BY <1>0, <1>1, <1>q, EvictDoneKeeps, EvictDoneQuiet
<1>2. CASE EvictSkip(t) BY <1>0, <1>2, <1>q, EvictSkipKeeps, EvictSkipQuiet
<1>3. CASE EvictEntry(t) BY <1>0, <1>3, <1>q, EvictEntryKeeps, EvictEntryQuiet
<1>4. CASE LockLru(t) BY <1>0, <1>4, <1>q, LockLruKeeps, LockLruQuiet
<1>5. CASE Relock(t) BY <1>0, <1>5, <1>q, RelockKeeps, RelockQuiet
<1>6. CASE DeleteEntry(t) BY <1>0, <1>6, <1>q, DeleteEntryKeeps, DeleteEntryQuiet
<1>7. CASE UnlistCache(t) BY <1>0, <1>7, <1>q, UnlistCacheKeeps, UnlistCacheQuiet
<1>8. CASE PinEntries(t) BY <1>0, <1>8, <1>q, PinEntriesKeeps, PinEntriesQuiet
<1>9. CASE FreeEntry(t) BY <1>0, <1>9, <1>q, FreeEntryKeeps, FreeEntryQuiet
<1>10. CASE FreeCache(t) BY <1>0, <1>10, <1>q, FreeCacheKeeps, FreeCacheQuiet
<1>11. CASE DecrementCache(t) BY <1>0, <1>11, <1>q, DecrementCacheKeeps, DecrementCacheQuiet
<1>12. CASE ReleaseWeakReference(t)
  BY <1>0, <1>12, <1>q, ReleaseWeakReferenceKeeps, ReleaseWeakReferenceQuiet
<1>13. CASE DecrementEntryLru(t)
  BY <1>0, <1>13, <1>q, DecrementEntryLruKeeps, DecrementEntryLruQuiet
<1>14. CASE DecrementEntryShard(t)
  BY <1>0, <1>14, <1>q, DecrementEntryShardKeeps, DecrementEntryShardQuiet DEF
     DecrementEntryShard, NoQueue
<1>15. CASE MarkWeakEntry(t) BY <1>0, <1>15, <1>q, MarkWeakEntryKeeps, MarkWeakEntryQuiet
<1>16. CASE DecrementWeakLocked(t)
  BY <1>0, <1>16, <1>q, DecrementWeakLockedKeeps, DecrementWeakLockedQuiet
<1>17. CASE UnmarkEntry(t) BY <1>0, <1>17, <1>q, UnmarkEntryKeeps, UnmarkEntryQuiet
<1>18. CASE UnmarkEntryLru(t) BY <1>0, <1>18, <1>q, UnmarkEntryLruKeeps, UnmarkEntryLruQuiet
<1>19. CASE UnmarkEntryShard(t)
  BY <1>0, <1>19, <1>q, UnmarkEntryShardKeeps, UnmarkEntryShardQuiet DEF UnmarkEntryShard,
     NoQueue
<1>20. CASE DecrementPoolLocked(t)
  BY <1>0, <1>20, <1>q, DecrementPoolLockedKeeps, DecrementPoolLockedQuiet
<1>21. CASE MakeCacheFails(t) BY <1>0, <1>21, <1>q, MakeCacheFailsKeeps, MakeCacheFailsQuiet
<1>22. CASE InsertCache(t) BY <1>0, <1>22, <1>q, InsertCacheKeeps, InsertCacheQuiet
<1>23. CASE EntryInitialized(t)
  BY <1>0, <1>23, <1>q, EntryInitializedKeeps, EntryInitializedQuiet
<1>24. CASE InitEntry(t) BY <1>0, <1>24, InitEntryQuiet, InitEntryKeeps DEF PoolInv
<1>25. CASE AwaitInit(t) BY <1>0, <1>25, AwaitInitQuiet, AwaitInitKeeps DEF PoolInv
<1>. QED
  BY <1>1, <1>2, <1>3, <1>4, <1>5, <1>6, <1>7, <1>8, <1>9, <1>10, <1>11, <1>12, <1>13, <1>14, <1>15, <1>16, <1>17, <1>18, <1>19, <1>20, <1>21, <1>22, <1>23, <1>24, <1>25 DEF Execute

\* What a calm client starts keeps the invariant.
LEMMA RequestKeeps ==
  ASSUME PoolInv, NEW t \in Thread, CalmRequest(t)
  PROVE  PoolInv'
<1>0. IInv /\ NoQueue /\ InitInv BY DEF PoolInv
<1>q. ASSUME IInv', Quiet(t) PROVE PoolInv' BY <1>0, <1>q, QuietKeeps DEF PoolInv
<1>1. CASE CopyPool(t) BY <1>0, <1>1, <1>q, CopyPoolKeeps, CopyPoolQuiet
<1>2. CASE CalmRevival(t) BY <1>2, <1>0, <1>q, RevivePoolKeeps, RevivePoolQuiet DEF CalmRevival
<1>3. CASE \E i \in pool.idents \ {Anonymous} : FindCache(t, i)
  <2>1. PICK i \in pool.idents \ {Anonymous} : FindCache(t, i) BY <1>3
  <2>4. i \in Ident BY <1>0, Parts, Fields, ConstantsAssumption
  <2>. QED BY <1>0, <2>1, <2>4, <1>q, FindCacheKeeps, FindCacheQuiet
<1>4. CASE MakeAnonymousCache(t)
  BY <1>0, <1>4, <1>q, MakeAnonymousCacheKeeps, MakeAnonymousCacheQuiet
<1>5. CASE \E n \in Size : Resize(t, n)
  <2>1. PICK n \in Size : Resize(t, n) BY <1>5
  <2>. QED BY <1>0, <2>1, <1>q, ResizeKeeps, ResizeQuiet
<1>6. CASE CalmWeak(t)
  BY <1>6, <1>0, <1>q, AcquireWeakEntryKeeps, AcquireWeakEntryQuiet DEF CalmWeak
<1>7. CASE DecrementEntry(t) BY <1>0, <1>7, <1>q, DecrementEntryKeeps, DecrementEntryQuiet
<1>8. CASE PinnedRelease(t)
  BY <1>8, <1>0, <1>q, DecrementWeakKeeps, DecrementWeakQuiet DEF PinnedRelease
<1>9. CASE DecrementPool(t) BY <1>0, <1>9, <1>q, DecrementPoolKeeps, DecrementPoolQuiet
<1>10. CASE Release(t) BY <1>0, <1>10, <1>q, ReleaseKeeps, ReleaseQuiet
<1>11. CASE \E k \in Key : GetEntry(t, k)
  <2>1. PICK k \in Key : GetEntry(t, k) BY <1>11
  <2>2. IInv' BY <1>0, <2>1, GetEntryKeeps
  <2>3. NoQueue' /\ InitInv' BY <1>0, <2>1, GetEntryQuiet
  <2>. QED BY <2>2, <2>3 DEF PoolInv
<1>. QED BY <1>1, <1>2, <1>3, <1>4, <1>5, <1>6, <1>7, <1>8, <1>9, <1>10, <1>11 DEF CalmRequest, Plain

\* A step that changes nothing keeps the invariant.
LEMMA StutterKeeps ==
  ASSUME PoolInv, UNCHANGED vars
  PROVE  PoolInv'
<1>1. UNCHANGED << pool, caches, cache, entry, weak, queue, lru, victims, todo, held >>
  BY DEF vars
<1>2. TypeOK' /\ TodoInv' BY <1>1 DEF PoolInv, IInv, TypeOK, TodoInv
<1>3. LruInv' BY <1>1 DEF PoolInv, IInv, LruInv, Doing, Buffer
<1>4. HeldInv' BY <1>1 DEF PoolInv, IInv, HeldInv, HeldAt, Ends, Holds, HasPool
<1>5. PoolCount'
  BY <1>1 DEF PoolInv, IInv, PoolCount, PoolUsers, PoolWeakPtrs, PoolWeakReleases, UsedCaches, Ends
<1>6. CacheCount'
  BY <1>1 DEF PoolInv, IInv, CacheCount, CachePtrs, CacheReleases, UsedEntries, Users, Ends
<1>7. EntryCount'
  BY <1>1 DEF PoolInv, IInv, EntryCount, Users, Marked, Marks, Unmarks, IsPinned, Doing, Ends
<1>8. WeakCount' /\ WeakInv'
  BY <1>1 DEF PoolInv, IInv, WeakCount, WeakInv, WeakUsers, Unmarks, Marks, Ends
<1>9. RemoveInv' BY <1>1 DEF PoolInv, IInv, RemoveInv, Removed
<1>10. KillInv'
  <2>1. \A u \in Thread : DoomedIn(victims[u])' = DoomedIn(victims[u]) /\ Frees(todo[u])' = Frees(todo[u])
    BY <1>1 DEF DoomedIn
  <2>2. \A u \in Thread : Killed(u)' = Killed(u) BY <2>1 DEF Killed
  <2>. QED BY <1>1, <2>1, <2>2 DEF PoolInv, IInv, KillInv
<1>11. ObjectInv' BY <1>1 DEF PoolInv, IInv, ObjectInv, FreshCaches, Inserting
<1>12. TableInv' BY <1>1 DEF PoolInv, IInv, TableInv, Doing, Killed, DoomedIn
<1>13. ShardInv' BY <1>1 DEF PoolInv, IInv, ShardInv, ShardsOf, Listed, IsPinned, Doing
<1>14. QueueInv' BY <1>1 DEF PoolInv, IInv, QueueInv, HasLruCache, IsPinned, Doing
<1>15. SizeInv'
  BY <1>1 DEF PoolInv, IInv, SizeInv, HasLruCache, TotalBytes, Counted, IsPinned, Doing
<1>16. NoQueue' /\ InitInv' BY <1>1 DEF PoolInv, NoQueue, InitInv, HasLruCache, At
<1>. QED
  BY <1>2, <1>3, <1>4, <1>5, <1>6, <1>7, <1>8, <1>9, <1>10, <1>11, <1>12, <1>13, <1>14, <1>15,
     <1>16 DEF PoolInv, IInv

\* Every step with calm clients keeps the invariant.
LEMMA NextKeeps ==
  ASSUME PoolInv, [CalmNext]_vars
  PROVE  PoolInv'
<1>1. CASE UNCHANGED vars BY <1>1, StutterKeeps
<1>2. ASSUME NEW t \in Thread, Execute(t) PROVE PoolInv' BY <1>2, ExecuteKeeps
<1>3. ASSUME NEW t \in Thread, CalmRequest(t) PROVE PoolInv' BY <1>3, RequestKeeps
<1>4. CASE Rest BY <1>1, <1>4 DEF Rest
<1>. QED BY <1>1, <1>2, <1>3, <1>4 DEF CalmNext

\* The initial states satisfy the invariant.
LEMMA InitHolds ==
  ASSUME Init
  PROVE  PoolInv
<1>1. PICK n \in Limits, ids \in IdentSets :
         pool = [live |-> TRUE, strong |-> 1, weak |-> 1, total |-> 0, limit |-> n, idents |-> ids]
  BY DEF Init
<1>2. PICK z \in Thread : held = [[u \in Thread |-> NoPointers] EXCEPT ![z].strong = TRUE]
  BY DEF Init
<1>3. /\ caches = {} /\ cache = [c \in Cache |-> NoCache] /\ entry = [e \in Entry |-> NoEntry]
      /\ weak = [e \in Entry |-> NoWeakState] /\ queue = << >> /\ lru = None
      /\ victims = [t \in Thread |-> << >>] /\ todo = [t \in Thread |-> << >>]
  BY DEF Init
<1>4. n \in Nat /\ (\A t \in Thread : t # None) /\ None \notin Cache /\ None \notin Entry
  BY ConstantsAssumption DEF Cache, Entry, None
<1>5. \A t \in Thread : /\ held[t].weak = FALSE /\ held[t].cache = None /\ held[t].entry = None
                        /\ held[t].weakentry = None /\ (held[t].strong <=> t = z)
  BY <1>2 DEF NoPointers
<1>6. \A t \in Thread : todo[t] = << >> /\ victims[t] = << >> BY <1>3
<1>7. \A t \in Thread : /\ First(todo[t]) = Step("none", None) /\ Final(todo[t]) = Step("none", None)
                        /\ Frees(todo[t]) = {} /\ Deletes(todo[t]) = {} /\ ~Evicts(todo[t])
                        /\ WellFormed(todo[t]) /\ ChosenIn(victims[t]) = {} /\ DoomedIn(victims[t]) = {}
                        /\ Buffer(victims[t])
  BY <1>6, Empty, NoVictims DEF NoStep
<1>8. \A t \in Thread : \A op, x : op # "none" => ~Ends(t, op, x) /\ ~Doing(t, op, x)
  BY <1>7, StepEq DEF Ends, Doing
<1>9. \A c \in Cache : /\ cache[c] = NoCache /\ cache[c].st = "new" /\ cache[c].strong = 0 /\ cache[c].shards = 0
                       /\ cache[c].ident = Anonymous /\ cache[c].bit = 0
  BY <1>3 DEF NoCache
<1>10. \A e \in Entry : /\ entry[e] = NoEntry /\ entry[e].st = "new" /\ entry[e].cache = None /\ ~entry[e].listed
                        /\ entry[e].refs = 0 /\ entry[e].bytes = 0
  BY <1>3 DEF NoEntry
<1>11. \A e \in Entry : /\ weak[e] = NoWeakState /\ weak[e].st = "new" /\ weak[e].n = 0 /\ ~weak[e].entry
                        /\ weak[e].mutex = None
  BY <1>3 DEF NoWeakState
<1>12. /\ pool.live = TRUE /\ pool.strong = 1 /\ pool.weak = 1 /\ pool.total = 0 /\ pool.limit = n
  BY <1>1
<1>13. TypeOK
  <2>1. pool \in PoolRec BY <1>1 DEF PoolRec
  <2>2. NoCache \in CacheRec /\ NoEntry \in EntryRec /\ NoWeakState \in WeakRec /\ NoPointers \in HeldRec
    BY DEF NoCache, NoEntry, NoWeakState, NoPointers, CacheRec, EntryRec, WeakRec, HeldRec, State
  <2>3. /\ cache \in [Cache -> CacheRec] /\ entry \in [Entry -> EntryRec] /\ weak \in [Entry -> WeakRec]
    BY <1>3, <2>2
  <2>4. held \in [Thread -> HeldRec] BY <1>2, <2>2 DEF HeldRec
  <2>. QED BY <1>3, <2>1, <2>3, <2>4 DEF TypeOK, PoolRec, CacheRec, EntryRec, WeakRec, HeldRec
<1>14. TodoInv BY <1>3, <1>7, Empty DEF TodoInv
<1>15. LruInv BY <1>3, <1>4, <1>6, <1>7, <1>8 DEF LruInv
<1>16. HeldInv BY <1>6, <1>8 DEF HeldInv, HeldAt
<1>17. PoolCount
  <2>1. PoolUsers = {z} /\ PoolWeakPtrs = {} /\ PoolWeakReleases = {} /\ UsedCaches = {}
    BY <1>5, <1>8, <1>9 DEF PoolUsers, PoolWeakPtrs, PoolWeakReleases, UsedCaches
  <2>2. Cardinality(PoolUsers) = 1 /\ Cardinality(PoolWeakPtrs) = 0
        /\ Cardinality(PoolWeakReleases) = 0 /\ Cardinality(UsedCaches) = 0
    BY <2>1, FS_EmptySet, FS_Singleton
  <2>. QED BY <1>12, <2>2 DEF PoolCount, One
<1>18. \A x : (x # None => CachePtrs(x) = {} /\ Users(x) = {} /\ WeakUsers(x) = {})
              /\ CacheReleases(x) = {}
  BY <1>5, <1>8 DEF CachePtrs, Users, WeakUsers, CacheReleases
<1>19. Cardinality({}) = 0 BY FS_EmptySet
<1>20. CacheCount
  <2>1. \A c \in Cache : UsedEntries(c) = {} /\ CachePtrs(c) = {} /\ CacheReleases(c) = {}
    BY <1>4, <1>10, <1>18 DEF UsedEntries
  <2>. QED BY <1>9, <1>19, <2>1 DEF CacheCount
<1>21. EntryCount
  <2>1. \A e \in Entry : ~Marked(e) /\ ~entry[e].listed /\ Cardinality(Users(e)) = 0 /\ entry[e].refs = 0
    BY <1>4, <1>8, <1>10, <1>11, <1>18, <1>19 DEF Marked, Unmarks
  <2>. QED BY <2>1 DEF EntryCount, One
<1>22. WeakCount BY <1>4, <1>18, <1>11, <1>19 DEF WeakCount
<1>23. WeakInv
  <2>1. \A e \in Entry : weak[e] = [NoWeakState EXCEPT !.st = weak[e].st]
    BY <1>11 DEF NoWeakState
  <2>. QED BY <1>4, <1>8, <1>10, <1>11, <2>1 DEF WeakInv, Unmarks, Marks
<1>24. RemoveInv BY <1>7, <1>10 DEF RemoveInv, Removed
<1>25. KillInv BY <1>7, <1>9 DEF KillInv, Killed
<1>26. ObjectInv
  <2>1. \A c \in Cache : cache[c] = [NoCache EXCEPT !.st = cache[c].st] BY <1>9 DEF NoCache
  <2>2. \A e \in Entry : entry[e] = [NoEntry EXCEPT !.st = entry[e].st] BY <1>10 DEF NoEntry
  <2>3. Inserting = {} /\ Cardinality(FreshCaches) \in Nat
    BY <1>7, StepEq, InsertCounts DEF Inserting
  <2>. QED BY <1>10, <1>19, <2>1, <2>2, <2>3 DEF ObjectInv
<1>27. TableInv BY <1>3, <1>9 DEF TableInv, One
<1>28. ShardInv BY <1>10, <1>9, <1>19 DEF ShardsOf, Listed, ShardInv
<1>29. Members(queue) = {} /\ Distinct(queue) BY <1>3 DEF Members, Distinct
<1>30. QueueInv BY <1>10, <1>12, <1>13, <1>29 DEF QueueInv
<1>31. SizeInv
  <2>1. Counted = {} BY <1>10 DEF Counted
  <2>2. [e \in Entry |-> entry[e].bytes] \in [Entry -> Nat] BY <1>10
  <2>3. TotalBytes(Counted) = 0 BY <2>1, <2>2, SumFacts DEF TotalBytes
  <2>. QED BY <1>3, <1>10, <1>12, <2>3 DEF SizeInv
<1>32. NoQueue /\ InitInv BY <1>3, <1>10 DEF NoQueue, InitInv
<1>. QED
  BY <1>13, <1>14, <1>15, <1>16, <1>17, <1>20, <1>21, <1>22, <1>23, <1>24, <1>25, <1>26, <1>27, <1>28,
     <1>30, <1>31, <1>32 DEF PoolInv, IInv

-----------------------------------------------------------------------------
(* What the invariant implies.                                             *)

\* The last step of a thread that executes no other one.
LEMMA OnlyStep ==
  ASSUME IInv, NEW t \in Thread, NEW op, op \notin Inner, At(t, op)
  PROVE  Ends(t, op, Arg(t)) /\ Step(op, Arg(t)) \in Steps
<1>1. TodoInv BY Parts
<1>2. /\ todo[t] \in Seq(Steps) /\ todo[t] # << >> /\ WellFormed(todo[t])
      /\ First(todo[t]) = Step(op, Arg(t)) /\ First(todo[t]) \in Steps /\ First(todo[t]).op = op
  BY <1>1, AtFirst
<1>3. Final(todo[t]) = First(todo[t]) BY <1>2, Pop
<1>. QED BY <1>2, <1>3 DEF Ends

\* What the steps of DestroyCache and of destroy_entries are about to destroy.
LEMMA DestroyStep ==
  ASSUME IInv, NEW t \in Thread, NEW op, At(t, op)
  PROVE  /\ op \in {"unlist", "pin", "free"} =>
               Arg(t) \in Cache /\ Arg(t) \in Killed(t) /\ cache[Arg(t)].st = "live"
         /\ op = "delete" =>
               Arg(t) \in Entry /\ Arg(t) \in Removed(t) /\ entry[Arg(t)].st = "live"
<1>1. TodoInv /\ KillInv /\ RemoveInv BY Parts
<1>2. /\ todo[t] \in Seq(Steps) /\ todo[t] # << >> /\ WellFormed(todo[t])
      /\ First(todo[t]) = Step(op, Arg(t)) /\ First(todo[t]) \in Steps
      /\ First(todo[t]).op = op /\ First(todo[t]).x = Arg(t)
  BY <1>1, AtFirst
<1>3. CASE op \in {"unlist", "pin", "free"}
  <2>1. Arg(t) \in Frees(todo[t]) BY <1>2, <1>3, Pop
  <2>2. Arg(t) \in Cache BY <1>2, <1>3, StepFields
  <2>3. Arg(t) \in Killed(t) BY <2>1 DEF Killed
  <2>. QED BY <1>1, <1>3, <2>2, <2>3 DEF KillInv
<1>4. CASE op = "delete"
  <2>1. Arg(t) \in Deletes(todo[t]) BY <1>2, <1>4, Pop
  <2>2. Arg(t) \in Entry BY <1>2, <1>4, StepFields
  <2>3. Arg(t) \in Removed(t) BY <2>1 DEF Removed
  <2>. QED BY <1>1, <1>4, <2>2, <2>3 DEF RemoveInv
<1>. QED BY <1>3, <1>4

\* An entry that an operation uses, its cache, and its weak state.
LEMMA StepEntry ==
  ASSUME IInv, NEW t \in Thread, NEW op, At(t, op),
         op \in {"entrylock", "unmark", "unmarklock", "init", "initdone", "weakmark"}
  PROVE  /\ Arg(t) \in Entry /\ entry[Arg(t)].st = "live" /\ cache[entry[Arg(t)].cache].st = "live"
         /\ op \in {"unmark", "unmarklock"} => weak[Arg(t)].st = "live"
<1>0. HeldInv /\ ObjectInv BY Parts
<1>1. op \notin Inner BY DEF Inner
<1>2. Ends(t, op, Arg(t)) /\ Step(op, Arg(t)) \in Steps BY <1>1, OnlyStep
<1>3. Arg(t) \in Entry BY <1>2, StepEq, StepFields
<1>4. CASE op \in {"unmark", "unmarklock"} BY <1>2, <1>4, <1>3, UnmarkFacts DEF Unmarks
<1>5. CASE op \in {"entrylock", "init", "initdone", "weakmark"}
  <2>1. op # "entrylock" => held[t].entry = Arg(t) BY <1>0, <1>2, <1>3, <1>5 DEF HeldInv, HeldAt
  <2>2. Users(Arg(t)) # {} BY <1>2, <2>1 DEF Users
  <2>3. entry[Arg(t)].st = "live" /\ entry[Arg(t)].listed BY <1>3, <2>2, UsedEntry
  <2>. QED BY <1>0, <1>3, <1>5, <2>3 DEF ObjectInv
<1>. QED BY <1>3, <1>4, <1>5

\* No operation and no client uses what has been destroyed.
LEMMA UseFollows ==
  ASSUME IInv
  PROVE  NoUseAfterFree
<1>0. /\ ObjectInv /\ QueueInv /\ TodoInv /\ WeakCount /\ WeakInv /\ CacheCount
      /\ pool \in PoolRec /\ queue \in Seq(Entry) /\ held \in [Thread -> HeldRec]
  BY Parts, Types
<1>1. ASSUME NEW t \in Thread, todo[t] # << >>
      PROVE  /\ UsesPool(t) => pool.live
             /\ \A e \in EntriesUsed(t) : entry[e].st = "live"
             /\ \A c \in CachesUsed(t) : cache[c].st = "live"
             /\ Head(todo[t]).op \in {"weaklock", "unmark", "unmarklock"} => weak[Arg(t)].st = "live"
  <2>1. pool.live BY <1>1, PoolLives
  <2>2. PICK op : op = Head(todo[t]).op OBVIOUS
  <2>3. At(t, op) BY <1>1, <2>2 DEF At
  <2>4. \A e \in ToSet(queue) : e \in Entry /\ entry[e].st = "live" /\ cache[entry[e].cache].st = "live"
    BY <1>0 DEF ToSet, Members, QueueInv, ObjectInv
  <2>5. \A x : \A e \in Listed(x) : entry[e].st = "live" BY <1>0 DEF Listed, ObjectInv
  <2>6. ASSUME NEW e \in EntriesUsed(t) PROVE entry[e].st = "live"
    <3>1. \/ op \in {"entrylock", "unmark", "unmarklock", "delete", "init", "initdone", "weakmark"} /\ e = Arg(t)
          \/ op = "pin" /\ e \in Listed(Arg(t))
          \/ op = "evict" /\ e \in ToSet(queue)
      BY <2>2, <2>6 DEF EntriesUsed
    <3>2. CASE op = "delete" /\ e = Arg(t) BY <2>3, <3>2, DestroyStep
    <3>3. CASE op \in {"entrylock", "unmark", "unmarklock", "init", "initdone", "weakmark"} /\ e = Arg(t)
      BY <2>3, <3>3, StepEntry
    <3>. QED BY <2>4, <2>5, <3>1, <3>2, <3>3
  <2>7. ASSUME NEW c \in CachesUsed(t) PROVE cache[c].st = "live"
    <3>1. \/ op \in {"unlist", "pin", "free", "cachedec"} /\ c = Arg(t)
          \/ op \in {"entrylock", "unmark", "unmarklock", "init", "initdone"} /\ c = entry[Arg(t)].cache
          \/ op = "evict" /\ c \in {entry[e].cache : e \in ToSet(queue)}
      BY <2>2, <2>7 DEF CachesUsed
    <3>2. CASE op \in {"unlist", "pin", "free"} /\ c = Arg(t) BY <2>3, <3>2, DestroyStep
    <3>3. CASE op = "cachedec" /\ c = Arg(t)
      <4>1. At(t, "cachedec") /\ "cachedec" \notin Inner BY <2>3, <3>3 DEF Inner
      <4>2. c \in Cache /\ Ends(t, "cachedec", c) BY <3>3, <4>1, ArgIs, OnlyStep
      <4>3. CacheReleases(c) # {} BY <4>2 DEF CacheReleases
      <4>4. cache[c].strong > 0 BY <4>2, <4>3, Referred
      <4>. QED BY <4>2, <4>4, UsedCache
    <3>4. CASE op \in {"entrylock", "unmark", "unmarklock", "init", "initdone"} /\ c = entry[Arg(t)].cache
      BY <2>3, <3>4, StepEntry
    <3>5. CASE op = "evict" /\ c \in {entry[e].cache : e \in ToSet(queue)} BY <2>4, <3>5
    <3>. QED BY <3>1, <3>2, <3>3, <3>4, <3>5
  <2>8. ASSUME op \in {"weaklock", "unmark", "unmarklock"} PROVE weak[Arg(t)].st = "live"
    BY <2>3, <2>8, WeakLockFacts, NoObject, StepEntry
  <2>. QED BY <2>1, <2>2, <2>6, <2>7, <2>8
<1>2. ASSUME NEW t \in Thread
      PROVE  /\ HasPool(t) => pool.live
             /\ held[t].cache # None => cache[held[t].cache].st = "live" /\ pool.live
             /\ held[t].entry # None => entry[held[t].entry].st = "live"
             /\ held[t].weakentry # None => weak[held[t].weakentry].st = "live"
  <2>1. /\ held[t].cache \in Cache \cup {None} /\ held[t].entry \in Entry \cup {None}
        /\ held[t].weakentry \in Entry \cup {None}
    BY <1>0 DEF HeldRec
  <2>2. HasPool(t) \/ held[t].cache # None => pool.live BY PoolLives
  <2>3. ASSUME held[t].cache # None PROVE cache[held[t].cache].st = "live"
    <3>1. PICK c \in Cache : c = held[t].cache BY <2>1, <2>3
    <3>2. CachePtrs(c) # {} BY <3>1 DEF CachePtrs
    <3>3. cache[c].strong > 0 BY <3>2, Referred
    <3>. QED BY <3>1, <3>3, UsedCache
  <2>4. ASSUME held[t].entry # None PROVE entry[held[t].entry].st = "live"
    <3>1. PICK e \in Entry : e = held[t].entry BY <2>1, <2>4
    <3>2. Users(e) # {} BY <3>1 DEF Users
    <3>. QED BY <3>1, <3>2, UsedEntry
  <2>5. ASSUME held[t].weakentry # None PROVE weak[held[t].weakentry].st = "live"
    <3>1. PICK e \in Entry : e = held[t].weakentry BY <2>1, <2>5
    <3>2. WeakUsers(e) # {} BY <3>1 DEF WeakUsers
    <3>3. Cardinality(WeakUsers(e)) # 0 BY <3>2, Counts
    <3>4. weak[e].n # 0 BY <1>0, <3>3 DEF WeakCount
    <3>. QED BY <3>1, <3>4, NoObject
  <2>. QED BY <2>2, <2>3, <2>4, <2>5
<1>. QED BY <1>1, <1>2 DEF NoUseAfterFree

\* A set without two different members.
LEMMA AtMostOne ==
  ASSUME NEW S, \A a, b \in S : a = b
  PROVE  Cardinality(S) \in {0, 1} /\ (S = {} => Cardinality(S) = 0)
<1>1. CASE S = {} BY <1>1, FS_EmptySet
<1>2. CASE S # {}
  <2>1. PICK a : S = {a} BY <1>2
  <2>. QED BY <1>2, <2>1, FS_Singleton
<1>. QED BY <1>1, <1>2

\* The steps that destroy a cache or an entry, wherever they are pending.
PendingAt(op, x) ==
    UNION {{<< t, i >> : i \in {j \in DOMAIN todo[t] : todo[t][j] = Step(op, x)}} : t \in Thread}
ChoosersOf(e) == {t \in Thread : \E i \in DOMAIN victims[t] : victims[t][i].e = e}

\* A pending step has a thread and a position.
LEMMA PendingIs ==
  ASSUME IInv, NEW op \in {"free", "delete"}, NEW x
  PROVE  \A a \in PendingAt(op, x) : \E t \in Thread : \E i \in 1 .. Len(todo[t]) :
             a = << t, i >> /\ todo[t][i] = Step(op, x)
<1>0. TodoInv BY Parts
<1>1. \A t \in Thread : DOMAIN todo[t] = 1 .. Len(todo[t]) BY <1>0 DEF TodoInv
<1>. QED BY <1>1 DEF PendingAt

\* No two threads destroy the same cache, and none does so twice.
LEMMA FreedOnce ==
  ASSUME IInv, NEW c \in Cache
  PROVE  Cardinality(PendingAt("free", c)) <= IF cache[c].st = "live" THEN 1 ELSE 0
<1>0. TodoInv /\ KillInv BY Parts
<1>1. \A a \in PendingAt("free", c) : \E t \in Thread : \E i \in 1 .. Len(todo[t]) :
         a = << t, i >> /\ todo[t][i] = Step("free", c)
  BY PendingIs
<1>2. \A t \in Thread : \A i \in 1 .. Len(todo[t]) : todo[t][i] = Step("free", c) => c \in Killed(t)
  BY StepEq DEF Frees, Killed
<1>3. ASSUME NEW a \in PendingAt("free", c), NEW b \in PendingAt("free", c) PROVE a = b
  <2>1. PICK t \in Thread : \E i \in 1 .. Len(todo[t]) : a = << t, i >> /\ todo[t][i] = Step("free", c)
    BY <1>1
  <2>2. PICK i \in 1 .. Len(todo[t]) : a = << t, i >> /\ todo[t][i] = Step("free", c) BY <2>1
  <2>3. PICK u \in Thread : \E j \in 1 .. Len(todo[u]) : b = << u, j >> /\ todo[u][j] = Step("free", c)
    BY <1>1
  <2>4. PICK j \in 1 .. Len(todo[u]) : b = << u, j >> /\ todo[u][j] = Step("free", c) BY <2>3
  <2>5. t = u BY <1>0, <1>2, <2>2, <2>4 DEF KillInv
  <2>6. Once(todo[t]) BY <1>0 DEF TodoInv, WellFormed
  <2>7. i = j BY <2>2, <2>4, <2>5, <2>6, StepEq DEF Once
  <2>. QED BY <2>2, <2>4, <2>5, <2>7
<1>4. PendingAt("free", c) # {} => cache[c].st = "live" BY <1>0, <1>1, <1>2 DEF KillInv
<1>5. Cardinality(PendingAt("free", c)) \in {0, 1} /\ (PendingAt("free", c) = {} => Cardinality(PendingAt("free", c)) = 0)
  BY <1>3, AtMostOne
<1>. QED BY <1>4, <1>5

\* No two threads destroy the same entry, and none does so twice.
LEMMA DeletedOnce ==
  ASSUME IInv, NEW e \in Entry
  PROVE  Cardinality(PendingAt("delete", e)) + Cardinality(ChoosersOf(e))
             <= IF entry[e].st = "live" /\ ~entry[e].listed THEN 1 ELSE 0
<1>0. TodoInv /\ RemoveInv /\ LruInv BY Parts
<1>1. \A a \in PendingAt("delete", e) : \E t \in Thread : \E i \in 1 .. Len(todo[t]) :
         a = << t, i >> /\ todo[t][i] = Step("delete", e)
  BY PendingIs
<1>2. \A t \in Thread : \A i \in 1 .. Len(todo[t]) : todo[t][i] = Step("delete", e) => e \in Deletes(todo[t])
  BY StepEq DEF Deletes
<1>3. \A t \in ChoosersOf(e) : t \in Thread /\ e \in ChosenIn(victims[t])
  BY <1>0 DEF LruInv, ChoosersOf, ChosenIn
<1>4. ASSUME NEW a \in PendingAt("delete", e), NEW b \in PendingAt("delete", e) PROVE a = b
  <2>1. PICK t \in Thread : \E i \in 1 .. Len(todo[t]) : a = << t, i >> /\ todo[t][i] = Step("delete", e)
    BY <1>1
  <2>2. PICK i \in 1 .. Len(todo[t]) : a = << t, i >> /\ todo[t][i] = Step("delete", e) BY <2>1
  <2>3. PICK u \in Thread : \E j \in 1 .. Len(todo[u]) : b = << u, j >> /\ todo[u][j] = Step("delete", e)
    BY <1>1
  <2>4. PICK j \in 1 .. Len(todo[u]) : b = << u, j >> /\ todo[u][j] = Step("delete", e) BY <2>3
  <2>5. t = u BY <1>0, <1>2, <2>2, <2>4 DEF RemoveInv, Removed
  <2>6. Once(todo[t]) BY <1>0 DEF TodoInv, WellFormed
  <2>7. i = j BY <2>2, <2>4, <2>5, <2>6, StepEq DEF Once
  <2>. QED BY <2>2, <2>4, <2>5, <2>7
<1>5. \A t, u \in ChoosersOf(e) : t = u BY <1>0, <1>3 DEF RemoveInv, Removed
<1>6. PendingAt("delete", e) = {} \/ ChoosersOf(e) = {}
  BY <1>0, <1>1, <1>2, <1>3 DEF RemoveInv, Removed
<1>7. PendingAt("delete", e) # {} \/ ChoosersOf(e) # {} => entry[e].st = "live" /\ ~entry[e].listed
  BY <1>0, <1>1, <1>2, <1>3 DEF RemoveInv, Removed
<1>8. Cardinality(PendingAt("delete", e)) \in {0, 1} /\ (PendingAt("delete", e) = {} => Cardinality(PendingAt("delete", e)) = 0)
  BY <1>4, AtMostOne
<1>9. Cardinality(ChoosersOf(e)) \in {0, 1} /\ (ChoosersOf(e) = {} => Cardinality(ChoosersOf(e)) = 0)
  BY <1>5, AtMostOne
<1>. QED BY <1>6, <1>7, <1>8, <1>9

\* Everything is destroyed once.
LEMMA OnceFollows ==
  ASSUME IInv
  PROVE  DestroyedOnce
BY FreedOnce, DeletedOnce DEF DestroyedOnce, PendingAt, ChoosersOf

\* One cache per identifier.
LEMMA TableFollows ==
  ASSUME IInv
  PROVE  OneCachePerIdentifier
BY Parts DEF TableInv, OneCachePerIdentifier

\* What is under way when every thread is idle.
LEMMA AllIdle ==
  ASSUME IInv, \A t \in Thread : Idle(t)
  PROVE  /\ \A t \in Thread : /\ Killed(t) = {} /\ Removed(t) = {} /\ ~Evicts(todo[t])
         /\ \A t \in Thread : \A op, x : op # "none" => ~Ends(t, op, x) /\ ~Doing(t, op, x)
         /\ PoolUsers = {t \in Thread : held[t].strong} /\ PoolWeakReleases = {}
         /\ UsedCaches = {c \in Cache : cache[c].st = "live" /\ cache[c].strong > 0}
         /\ \A c : CacheReleases(c) = {} /\ UsedEntries(c) = StrongEntries(c) /\ ~IsPinned(c)
         /\ \A e : /\ Users(e) = {t \in Thread : held[t].entry = e}
                   /\ WeakUsers(e) = {t \in Thread : held[t].weakentry = e}
         /\ \A e \in Entry : Marked(e) <=> weak[e].n > 0 /\ weak[e].entry
<1>1. \A t \in Thread : todo[t] = << >> BY DEF Idle
<1>2. \A t \in Thread : /\ First(todo[t]) = Step("none", None) /\ Final(todo[t]) = Step("none", None)
                        /\ Frees(todo[t]) = {} /\ Deletes(todo[t]) = {} /\ ~Evicts(todo[t])
  BY <1>1, Empty DEF NoStep
<1>3. \A t \in Thread : \A op, x : op # "none" => ~Ends(t, op, x) /\ ~Doing(t, op, x)
  BY <1>2, StepEq DEF Ends, Doing
<1>4. \A t \in Thread : victims[t] = << >> BY <1>3, Parts DEF LruInv
<1>5. \A t \in Thread : Killed(t) = {} /\ Removed(t) = {}
  BY <1>2, <1>4, NoVictims DEF Killed, Removed
<1>6. PoolUsers = {t \in Thread : held[t].strong} /\ PoolWeakReleases = {}
  BY <1>3 DEF PoolUsers, PoolWeakReleases
<1>7. UsedCaches = {c \in Cache : cache[c].st = "live" /\ cache[c].strong > 0}
  BY UsedCache DEF UsedCaches
<1>8. \A e : /\ Users(e) = {t \in Thread : held[t].entry = e}
             /\ WeakUsers(e) = {t \in Thread : held[t].weakentry = e}
  BY <1>3 DEF Users, WeakUsers
<1>9. \A c : CacheReleases(c) = {} /\ ~IsPinned(c) BY <1>3 DEF CacheReleases, IsPinned
<1>10. \A c : UsedEntries(c) = StrongEntries(c) BY <1>8 DEF UsedEntries, StrongEntries
<1>11. \A e \in Entry : Marked(e) <=> weak[e].n > 0 /\ weak[e].entry
  BY <1>3 DEF Marked, Marks, Unmarks
<1>. QED BY <1>2, <1>3, <1>5, <1>6, <1>7, <1>8, <1>9, <1>10, <1>11

\* The counts are what the comments say.
LEMMA CountsFollow ==
  ASSUME IInv
  PROVE  CountsMatchPointers
<1>0. SUFFICES ASSUME \A t \in Thread : Idle(t)
      PROVE  /\ \A c \in Cache : cache[c].st = "live" =>
                   /\ cache[c].strong = Cardinality({t \in Thread : held[t].cache = c})
                                        + Cardinality(StrongEntries(c))
                   /\ cache[c].shards = Cardinality({ShardForKey[entry[e].key] : e \in Listed(c)})
                   /\ cache[c].bit = IF c \in caches /\ pool.strong > 0 THEN 1 ELSE 0
             /\ \A e \in Entry : entry[e].st = "live" =>
                   entry[e].refs = 2 * Cardinality({t \in Thread : held[t].entry = e})
                                   + IF \E t \in Thread : held[t].weakentry = e THEN 1 ELSE 0
             /\ pool.strong = Cardinality({t \in Thread : held[t].strong})
             /\ pool.weak = Cardinality({t \in Thread : held[t].weak})
                            + (IF pool.strong > 0 THEN 1 ELSE 0)
                            + Cardinality({c \in Cache : cache[c].st = "live" /\ cache[c].strong > 0})
  BY DEF CountsMatchPointers
<1>1. /\ PoolCount /\ CacheCount /\ EntryCount /\ WeakCount /\ WeakInv /\ ShardInv /\ TableInv
  BY Parts
<1>2. Cardinality({}) = 0 BY FS_EmptySet
<1>3. ASSUME NEW c \in Cache, cache[c].st = "live"
      PROVE  /\ cache[c].strong = Cardinality(CachePtrs(c)) + Cardinality(StrongEntries(c))
             /\ cache[c].shards = Cardinality(ShardsOf(c))
             /\ cache[c].bit = One(c \in caches /\ pool.strong > 0)
  <2>1. CacheReleases(c) = {} /\ UsedEntries(c) = StrongEntries(c) /\ ~IsPinned(c)
    BY <1>0, AllIdle
  <2>2. Cardinality(CachePtrs(c)) \in Nat /\ Cardinality(UsedEntries(c)) \in Nat BY Counts
  <2>3. cache[c].strong = Cardinality(CachePtrs(c)) + Cardinality(CacheReleases(c)) + Cardinality(UsedEntries(c))
    BY <1>1 DEF CacheCount
  <2>4. cache[c].strong = Cardinality(CachePtrs(c)) + Cardinality(StrongEntries(c))
    BY <1>2, <2>1, <2>2, <2>3
  <2>5. cache[c].shards = Cardinality(ShardsOf(c)) BY <1>1, <2>1 DEF ShardInv
  <2>6. \A t \in Thread : c \notin Killed(t) BY <1>0, AllIdle
  <2>7. cache[c].bit = One(c \in caches /\ pool.strong > 0) BY <1>1, <1>3, <2>6 DEF TableInv
  <2>. QED BY <2>4, <2>5, <2>7
<1>4. ASSUME NEW e \in Entry, entry[e].st = "live"
      PROVE  entry[e].refs = 2 * Cardinality(Users(e)) + One(\E t \in Thread : held[t].weakentry = e)
  <2>1. /\ Users(e) = {t \in Thread : held[t].entry = e}
        /\ WeakUsers(e) = {t \in Thread : held[t].weakentry = e}
        /\ Marked(e) <=> weak[e].n > 0 /\ weak[e].entry
    BY <1>0, AllIdle
  <2>2. ~IsPinned(entry[e].cache) BY <1>0, AllIdle
  <2>3. entry[e].refs = 2 * Cardinality(Users(e)) + One(Marked(e)) + 2 * One(entry[e].listed /\ IsPinned(entry[e].cache))
    BY <1>1 DEF EntryCount
  <2>4. Cardinality(WeakUsers(e)) \in Nat /\ (Cardinality(WeakUsers(e)) = 0 <=> WeakUsers(e) = {}) /\ weak[e].n = Cardinality(WeakUsers(e))
    BY <1>1, Counts DEF WeakCount
  <2>5. weak[e].n > 0 <=> \E t \in Thread : held[t].weakentry = e BY <2>4, <2>1
  <2>6. weak[e].n > 0 => weak[e].entry
    <3>1. weak[e].st # "live" => weak[e].n = 0 BY NoObject
    <3>2. weak[e].st = "live" => weak[e].entry BY <1>1, <1>4 DEF WeakInv
    <3>. QED BY <3>1, <3>2
  <2>7. Marked(e) <=> \E t \in Thread : held[t].weakentry = e BY <2>1, <2>5, <2>6
  <2>8. One(Marked(e)) = One(\E t \in Thread : held[t].weakentry = e) /\ One(Marked(e)) \in Nat
    BY <2>7 DEF One
  <2>9. One(entry[e].listed /\ IsPinned(entry[e].cache)) = 0 BY <2>2 DEF One
  <2>10. Cardinality(Users(e)) \in Nat BY Counts
  <2>11. One(Marked(e)) \in Nat BY <2>8
  <2>12. entry[e].refs = 2 * Cardinality(Users(e)) + One(Marked(e)) BY <2>3, <2>9, <2>10, <2>11
  <2>. QED BY <2>8, <2>12, Zenon
<1>5. pool.strong = Cardinality(PoolUsers) /\ PoolUsers = {t \in Thread : held[t].strong}
  BY <1>0, <1>1, AllIdle DEF PoolCount
<1>6. pool.weak = Cardinality(PoolWeakPtrs) + One(pool.strong > 0) + Cardinality(UsedCaches)
  <2>1. Cardinality(PoolWeakPtrs) \in Nat /\ Cardinality(UsedCaches) \in Nat BY Counts
  <2>2. PoolWeakReleases = {} BY <1>0, AllIdle
  <2>3. One(pool.strong > 0) \in Nat BY DEF One
  <2>4. pool.weak = Cardinality(PoolWeakPtrs) + Cardinality(PoolWeakReleases)
                    + One(pool.strong > 0) + Cardinality(UsedCaches)
    BY <1>1 DEF PoolCount
  <2>. QED BY <1>2, <2>1, <2>2, <2>3, <2>4
<1>7. UsedCaches = {c \in Cache : cache[c].st = "live" /\ cache[c].strong > 0} BY <1>0, AllIdle
<1>8. \A e : Users(e) = {t \in Thread : held[t].entry = e} BY <1>0, AllIdle
<1>. QED BY <1>3, <1>4, <1>5, <1>6, <1>7, <1>8 DEF One, CachePtrs, ShardsOf, PoolWeakPtrs

\* The eviction queue and the limit.
LEMMA EvictionFollows ==
  ASSUME IInv
  PROVE  EvictionKeepsUp
<1>0. QueueInv /\ SizeInv /\ TypeOK /\ queue \in Seq(Entry) BY Parts, Types
<1>1. ToSet(queue) = Members(queue) BY <1>0 DEF ToSet, Members
<1>2. ASSUME \A t \in Thread : Idle(t), HasLruCache
      PROVE  /\ pool.total = TotalBytes({e \in Entry : entry[e].listed})
             /\ pool.total <= pool.limit \/ \A e \in Entry : entry[e].listed => entry[e].refs > 0
  <2>1. \A c : ~IsPinned(c) BY <1>2, AllIdle
  <2>2. Counted = {e \in Entry : entry[e].listed} BY <2>1 DEF Counted
  <2>3. \A t \in Thread : ~Evicts(todo[t]) BY <1>2, AllIdle
  <2>4. pool.total <= pool.limit \/ queue = << >> BY <1>0, <2>3 DEF SizeInv
  <2>5. ASSUME queue = << >>, NEW e \in Entry, entry[e].listed PROVE entry[e].refs > 0
    <3>1. Members(queue) = {} BY <2>5 DEF Members
    <3>2. entry[e].refs # 0 BY <1>0, <1>2, <2>5, <3>1 DEF QueueInv
    <3>3. entry[e].refs \in Nat BY <1>0, Fields
    <3>. QED BY <3>2, <3>3
  <2>. QED BY <1>0, <2>2, <2>4, <2>5 DEF SizeInv
<1>. QED BY <1>0, <1>1, <1>2 DEF EvictionKeepsUp, QueueInv

\* Nothing is left when every pointer was released.
LEMMA LeaksFollow ==
  ASSUME IInv
  PROVE  NothingLeaks
<1>0. SUFFICES ASSUME \A t \in Thread : Idle(t) /\ held[t] = NoPointers
      PROVE  /\ ~pool.live
             /\ \A c \in Cache : cache[c].st # "live"
             /\ \A e \in Entry : entry[e].st # "live" /\ weak[e].st # "live"
  BY DEF NothingLeaks
<1>1. /\ PoolCount /\ CacheCount /\ WeakCount /\ WeakInv /\ TableInv /\ KillInv /\ RemoveInv /\ ObjectInv
      /\ CountsMatchPointers
  BY Parts, CountsFollow
<1>2. \A t \in Thread : /\ ~held[t].strong /\ ~held[t].weak /\ held[t].cache = None /\ held[t].entry = None
                        /\ held[t].weakentry = None
  BY <1>0 DEF NoPointers
<1>3. Cardinality({}) = 0 /\ None \notin Cache /\ None \notin Entry
  BY FS_EmptySet DEF Cache, Entry, None
<1>4. PoolUsers = {} /\ PoolWeakPtrs = {} /\ PoolWeakReleases = {} /\ \A t \in Thread : Killed(t) = {} /\ Removed(t) = {}
  BY <1>0, <1>2, AllIdle DEF PoolWeakPtrs
<1>5. \A c \in Cache : cache[c].strong = 0
  <2>1. ASSUME NEW c \in Cache PROVE CachePtrs(c) = {} /\ CacheReleases(c) = {} /\ UsedEntries(c) = {}
    <3>1. CachePtrs(c) = {} BY <1>2, <1>3 DEF CachePtrs
    <3>2. CacheReleases(c) = {} /\ UsedEntries(c) = StrongEntries(c) BY <1>0, AllIdle
    <3>3. StrongEntries(c) = {} BY <1>2, <1>3 DEF StrongEntries
    <3>. QED BY <3>1, <3>2, <3>3
  <2>. QED BY <1>1, <1>3, <2>1 DEF CacheCount
<1>6. pool.strong = 0 BY <1>1, <1>3, <1>4 DEF PoolCount
<1>7. ~pool.live
  <2>1. UsedCaches = {} BY <1>5 DEF UsedCaches
  <2>2. pool.weak = 0 BY <1>1, <1>3, <1>4, <1>6, <2>1 DEF PoolCount, One
  <2>. QED BY <1>1, <2>2 DEF PoolCount
<1>8. ASSUME NEW c \in Cache PROVE cache[c].st # "live"
  <2>1. SUFFICES ASSUME cache[c].st = "live" PROVE FALSE OBVIOUS
  <2>2. cache[c].bit = 0 BY <1>1, <1>4, <1>6, <2>1 DEF TableInv, One
  <2>3. ShouldDelete(cache[c]) BY <1>5, <2>2 DEF ShouldDelete
  <2>. QED BY <1>1, <1>4, <2>1, <2>3 DEF KillInv
<1>9. ASSUME NEW e \in Entry PROVE entry[e].st # "live"
  BY <1>1, <1>4, <1>8 DEF RemoveInv, ObjectInv
<1>10. ASSUME NEW e \in Entry PROVE weak[e].st # "live"
  <2>1. WeakUsers(e) = {} BY <1>0, <1>2, <1>3, AllIdle
  <2>2. weak[e].n = 0 BY <1>1, <1>3, <2>1 DEF WeakCount
  <2>. QED
    <3>1. ~(weak[e].n > 0) BY <2>2
    <3>2. ~weak[e].entry BY <1>1, <1>9 DEF WeakInv
    <3>. QED BY <1>1, <3>1, <3>2 DEF WeakInv
<1>. QED BY <1>7, <1>8, <1>9, <1>10

\* The inductive invariant: the counts are the numbers of pointers and pending
\* releases, every destruction has one owner, the table has one cache for an
\* identifier, and the queue and total_bytes_ are those of the listed entries.
\* This and what follows from it is a theorem of CalmSpec, not of Spec: it leaves
\* out a StrongPtr made from a WeakPtr while a cache is being destroyed, a weak
\* reference to an entry taken while the last one is being released, and one
\* released by a thread that holds nothing else of the pool.
THEOREM PoolInvariant == CalmSpec => []PoolInv
<1>1. Init => PoolInv BY InitHolds
<1>2. PoolInv /\ [CalmNext]_vars => PoolInv' BY NextKeeps
<1>. QED BY <1>1, <1>2, PTL DEF CalmSpec

\* With calm clients, the state keeps its type; no count of cache.cc becomes
\* negative.
THEOREM PoolTypeOK == CalmSpec => []TypeOK
<1>1. PoolInv => TypeOK BY Parts DEF PoolInv
<1>2. CalmSpec => []PoolInv BY PoolInvariant
<1>. QED BY <1>1, <1>2, PTL

\* For any number of threads, caches, entries, shards and limits, no operation
\* of the pool and no calm client uses an object that has been destroyed.  A
\* client that releases a weak reference to an entry and holds nothing else can
\* use a destroyed pool: the run cache_pool_release.
THEOREM NoUseAfterFreeHolds == CalmSpec => []NoUseAfterFree
<1>1. PoolInv => NoUseAfterFree BY UseFollows DEF PoolInv
<1>2. CalmSpec => []PoolInv BY PoolInvariant
<1>. QED BY <1>1, <1>2, PTL

\* With calm clients, DestroyCache is started once for a cache, and an entry is
\* deleted by one of the threads that evict it, release it or destroy its cache.
\* Twice, if the pool is revived meanwhile: the run cache_pool_races.
THEOREM DestroyedOnceHolds == CalmSpec => []DestroyedOnce
<1>1. PoolInv => DestroyedOnce BY OnceFollows DEF PoolInv
<1>2. CalmSpec => []PoolInv BY PoolInvariant
<1>. QED BY <1>1, <1>2, PTL

\* With calm clients, at rest the reference counts of the pool, the caches and the
\* entries are what the comments of cache_impl.h say.  The run cache_pool_races
\* shows a count that is wrong after a weak reference was taken during the
\* release of the last one.
THEOREM CountsMatchPointersHolds == CalmSpec => []CountsMatchPointers
<1>1. PoolInv => CountsMatchPointers BY CountsFollow DEF PoolInv
<1>2. CalmSpec => []PoolInv BY PoolInvariant
<1>. QED BY <1>1, <1>2, PTL

\* With calm clients, GetCache never makes two usable caches for one identifier.
THEOREM OneCachePerIdentifierHolds == CalmSpec => []OneCachePerIdentifier
<1>1. PoolInv => OneCachePerIdentifier BY TableFollows DEF PoolInv
<1>2. CalmSpec => []PoolInv BY PoolInvariant
<1>. QED BY <1>1, <1>2, PTL

\* With calm clients, an unreferenced entry can be evicted, and at rest
\* total_bytes_ is exact and above the limit only if every entry is referenced.
THEOREM EvictionKeepsUpHolds == CalmSpec => []EvictionKeepsUp
<1>1. PoolInv => EvictionKeepsUp BY EvictionFollows DEF PoolInv
<1>2. CalmSpec => []PoolInv BY PoolInvariant
<1>. QED BY <1>1, <1>2, PTL

\* With calm clients, nothing is left once every pointer has been released.  After
\* the weak reference race of cache_pool_races the cache would be left.
THEOREM NothingLeaksHolds == CalmSpec => []NothingLeaks
<1>1. PoolInv => NothingLeaks BY LeaksFollow DEF PoolInv
<1>2. CalmSpec => []PoolInv BY PoolInvariant
<1>. QED BY <1>1, <1>2, PTL

=============================================================================
