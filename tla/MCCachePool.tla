---------------------------- MODULE MCCachePool ----------------------------
(***************************************************************************)
(* Instances of CachePool: two threads, one or two cache identifiers.      *)
(***************************************************************************)
EXTENDS CachePool

CONSTANTS t1, t2, i1, i2, k1

MCThread == {t1, t2}
MCIdent == {i1, i2}
MCIdentSets == {{i1}, {Anonymous}}
MCKey == {k1}
MCShardForKey == [k \in {k1} |-> 1]
MCSize == {2}
MCLimits == {0, 1}
Symmetry == Permutations(MCThread)

-----------------------------------------------------------------------------
(* Any clients, with two caches in use, up to the first use of an object   *)
(* that was destroyed.                                                     *)

TwoIdents == {MCIdent}
SymmetryOfTwo == Permutations(MCThread) \cup Permutations(MCIdent)

DefinedSpec == Init /\ [][NoUseAfterFree /\ Next]_vars

\* The steps that have to do with cache c or its entries are over.
Settled(c) ==
    \A t \in Thread : \A s \in ToSet(todo[t]) :
        /\ s.op \in {"unlist", "pin", "free", "cachedec"} => s.x # c
        /\ s.op \in {"entrylock", "delete", "init", "initdone",
                     "weakmark", "weaklock", "unmark", "unmarklock"} => entry[s.x].cache # c
        /\ s.op # "evict"

\* A cache that nobody is working on is counted as its clients hold it: one
\* strong reference for each pointer to it and one for each of its entries
\* with a pointer (the comments of cache_impl.h, and cache.h on weak references).
StrongCounted(c) ==
    cache[c].st = "live" /\ Settled(c) =>
        cache[c].strong = Cardinality({t \in Thread : held[t].cache = c})
                          + Cardinality(StrongEntries(c))

\* Whatever the clients do at the same time, one of these is left: no cache has
\* two destroyers, or every cache is counted right.
RacesLeaveOne == DestroyedOnce \/ \A c \in Cache : StrongCounted(c)

=============================================================================
