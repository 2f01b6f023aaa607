------------------------- MODULE CachePoolInvariant -------------------------
(***************************************************************************)
(* The inductive invariant of CachePool, and the first half of the proof   *)
(* that every action keeps it: what sequences of pending steps, eviction   *)
(* queues and sums of sizes satisfy, the effect of a step on each part of  *)
(* the invariant, the actions that evict and destroy, and those that move  *)
(* a reference to an entry or to a weak state.                             *)
(***************************************************************************)
EXTENDS CachePool, FiniteSetTheorems, SequenceTheorems, WellFoundedInduction, TLAPS

-----------------------------------------------------------------------------
(* Numbers and finite sets.                                                *)

\* A non-empty set of naturals has a smallest element.
LEMMA Smallest ==
  ASSUME NEW T \in SUBSET Nat, T # {}
  PROVE  \E m \in T : \A n \in T : m <= n
<1>1. PICK m \in T : \A n \in T : ~ (<< n, m >> \in OpToRel(<, Nat))
  BY NatLessThanWellFounded, WFMin
<1>2. \A n \in T : ~ (n < m) /\ m \in Nat /\ n \in Nat BY <1>1 DEF OpToRel
<1>. QED BY <1>2

\* The object that an allocation takes is one of the unused ones.
LEMMA MinIn ==
  ASSUME NEW T \in SUBSET Nat, T # {}
  PROVE  Min(T) \in T
<1>1. \E m \in T : \A n \in T : m =< n BY Smallest
<1>. QED BY <1>1 DEF Min

\* Induction over the positions of a sequence.
LEMMA Induction ==
  ASSUME NEW n \in Nat, NEW Q, n >= 1 => 1 \in Q,
         \A i \in 1 .. n - 1 : i \in Q => i + 1 \in Q
  PROVE  \A i \in 1 .. n : i \in Q
<1>. DEFINE T == {i \in 1 .. n : i \notin Q}
<1>. SUFFICES ASSUME T # {} PROVE FALSE OBVIOUS
<1>1. T \in SUBSET Nat OBVIOUS
<1>2. PICK m \in T : \A k \in T : m <= k
  <2>. HIDE DEF T
  <2>. QED BY <1>1, Smallest
<1>3. m # 1 /\ m \in 1 .. n /\ m \notin Q OBVIOUS
<1>4. m - 1 \in 1 .. n - 1 /\ m - 1 \notin T BY <1>2, <1>3
<1>5. m - 1 \in Q BY <1>4
<1>. QED BY <1>3, <1>4, <1>5

\* The sets of threads, caches and entries that are counted.
LEMMA ThreadsFinite ==
  ASSUME NEW S \in SUBSET Thread
  PROVE  IsFiniteSet(S) /\ Cardinality(S) \in Nat /\ (Cardinality(S) = 0 <=> S = {})
BY ConstantsAssumption, FS_Subset, FS_CardinalityType, FS_EmptySet

\* The sets of caches are finite.
LEMMA CachesFinite ==
  ASSUME NEW S \in SUBSET Cache
  PROVE  IsFiniteSet(S) /\ Cardinality(S) \in Nat /\ (Cardinality(S) = 0 <=> S = {})
<1>1. IsFiniteSet(Cache) BY ConstantsAssumption, FS_Interval DEF Cache
<1>. QED BY <1>1, FS_Subset, FS_CardinalityType, FS_EmptySet

\* The sets of entries are finite.
LEMMA EntriesFinite ==
  ASSUME NEW S \in SUBSET Entry
  PROVE  IsFiniteSet(S) /\ Cardinality(S) \in Nat /\ (Cardinality(S) = 0 <=> S = {})
<1>1. IsFiniteSet(Entry) BY ConstantsAssumption, FS_Interval DEF Entry
<1>. QED BY <1>1, FS_Subset, FS_CardinalityType, FS_EmptySet

\* One more, and one less.
LEMMA OneMore ==
  ASSUME NEW S, NEW T, IsFiniteSet(S), NEW x, x \notin S, T = S \cup {x}
  PROVE  Cardinality(T) = Cardinality(S) + 1
BY FS_AddElement

\* A set that loses a member.
LEMMA OneLess ==
  ASSUME NEW S, NEW T, IsFiniteSet(S), NEW x \in S, T = S \ {x}
  PROVE  Cardinality(T) = Cardinality(S) - 1
BY FS_RemoveElement

-----------------------------------------------------------------------------
(* Concatenating a sequence of sequences.                                  *)

\* f[i] is the concatenation of the first i sequences of ss.
Flattens(S, n, ss, f) ==
    /\ f \in [1 .. n -> Seq(S)]
    /\ f[1] = ss[1]
    /\ \A i \in 1 .. n - 1 : f[i + 1] = f[i] \o ss[i + 1]
    /\ FlattenSeq(ss) = f[n]

\* What the recursion of FlattenSeq computes.
LEMMA FlattenUnfolds ==
  ASSUME NEW S, NEW n \in Nat, n # 0, NEW ss, ss \in [1 .. n -> Seq(S)]
  PROVE  \E f : Flattens(S, n, ss, f)
<1>. DEFINE Good(m, f) == /\ f \in [1 .. m -> Seq(S)]
                          /\ f[1] = ss[1]
                          /\ \A i \in 1 .. m - 1 : f[i + 1] = f[i] \o ss[i + 1]
            Q == {m \in 1 .. n : \E f : Good(m, f)}
<1>1. Len(ss) = n /\ DOMAIN ss = 1 .. n OBVIOUS
<1>2. 1 \in Q
  <2>1. Good(1, [i \in 1 .. 1 |-> ss[1]]) OBVIOUS
  <2>. HIDE DEF Good
  <2>. QED BY <2>1
<1>3. ASSUME NEW m \in 1 .. n - 1, m \in Q PROVE m + 1 \in Q
  <2>1. PICK f : Good(m, f) BY <1>3
  <2>. DEFINE g == [i \in 1 .. m + 1 |-> IF i = m + 1 THEN f[m] \o ss[m + 1] ELSE f[i]]
  <2>2. f[m] \o ss[m + 1] \in Seq(S)
    <3>1. f[m] \in Seq(S) /\ ss[m + 1] \in Seq(S) BY <2>1
    <3>. QED BY <3>1, ConcatProperties
  <2>3. g \in [1 .. m + 1 -> Seq(S)] /\ g[1] = ss[1] BY <2>1, <2>2
  <2>4. ASSUME NEW i \in 1 .. m PROVE g[i + 1] = g[i] \o ss[i + 1]
    <3>1. CASE i = m
      <4>0. m \in 1 .. m + 1 /\ m # m + 1 /\ m + 1 \in 1 .. m + 1 OBVIOUS
      <4>1. g[m + 1] = f[m] \o ss[m + 1] /\ g[m] = f[m] BY <4>0
      <4>. QED BY <3>1, <4>1
    <3>2. CASE i # m
      <4>1. i \in 1 .. m - 1 BY <3>2
      <4>2. f[i + 1] = f[i] \o ss[i + 1] BY <2>1, <4>1
      <4>3. g[i + 1] = f[i + 1] /\ g[i] = f[i] BY <4>1
      <4>. QED BY <4>2, <4>3
    <3>. QED BY <3>1, <3>2
  <2>5. Good(m + 1, g)
    <3>. HIDE DEF g
    <3>1. 1 .. (m + 1) - 1 = 1 .. m OBVIOUS
    <3>. QED BY <2>3, <2>4, <3>1
  <2>6. m + 1 \in 1 .. n OBVIOUS
  <2>. HIDE DEF Good, g
  <2>. QED BY <2>5, <2>6
<1>4. n \in Q
  <2>. HIDE DEF Q
  <2>1. \A i \in 1 .. n : i \in Q BY <1>2, <1>3, Induction
  <2>. QED BY <2>1
<1>5. PICK g : Good(n, g) BY <1>4
<1>6. g = [i \in 1 .. Len(ss) |-> IF i = 1 THEN ss[i] ELSE g[i - 1] \o ss[i]]
  <2>1. ASSUME NEW i \in 1 .. n PROVE g[i] = IF i = 1 THEN ss[i] ELSE g[i - 1] \o ss[i]
    <3>1. CASE i = 1 BY <1>5, <3>1
    <3>2. CASE i # 1
      <4>1. i - 1 \in 1 .. n - 1 /\ (i - 1) + 1 = i BY <3>2
      <4>2. g[(i - 1) + 1] = g[i - 1] \o ss[(i - 1) + 1] BY <1>5, <4>1
      <4>. QED BY <3>2, <4>1, <4>2
    <3>. QED BY <3>1, <3>2
  <2>. QED BY <1>1, <1>5, <2>1
<1>7. PICK f : /\ f = [i \in 1 .. Len(ss) |-> IF i = 1 THEN ss[i] ELSE f[i - 1] \o ss[i]]
               /\ FlattenSeq(ss) = f[Len(ss)]
  <2>1. Len(ss) # 0 BY <1>1
  <2>. QED BY <1>6, <2>1 DEF FlattenSeq
<1>8. \A i \in 1 .. n : f[i] = IF i = 1 THEN ss[i] ELSE f[i - 1] \o ss[i] BY <1>1, <1>7
<1>9. f[1] = ss[1] /\ \A i \in 1 .. n - 1 : f[i + 1] = f[i] \o ss[i + 1]
  <2>1. ASSUME NEW i \in 1 .. n - 1 PROVE f[i + 1] = f[i] \o ss[i + 1]
    <3>1. i + 1 \in 1 .. n /\ i + 1 # 1 /\ (i + 1) - 1 = i OBVIOUS
    <3>2. f[i + 1] = f[(i + 1) - 1] \o ss[i + 1] BY <1>8, <3>1
    <3>. QED BY <3>1, <3>2
  <2>2. f[1] = ss[1] BY <1>8
  <2>. QED BY <2>1, <2>2
<1>10. \A i \in 1 .. n : i \in {k \in 1 .. n : f[k] = g[k]}
  <2>. DEFINE R == {k \in 1 .. n : f[k] = g[k]}
  <2>1. 1 \in R BY <1>5, <1>9
  <2>2. ASSUME NEW i \in 1 .. n - 1, i \in R PROVE i + 1 \in R
    <3>1. f[i] = g[i] /\ i + 1 \in 1 .. n BY <2>2
    <3>2. f[i + 1] = f[i] \o ss[i + 1] /\ g[i + 1] = g[i] \o ss[i + 1] BY <1>5, <1>9
    <3>. QED BY <3>1, <3>2
  <2>. HIDE DEF R
  <2>. QED BY <2>1, <2>2, Induction DEF R
<1>11. f \in [1 .. n -> Seq(S)]
  <2>1. \A i \in 1 .. n : f[i] \in Seq(S) BY <1>5, <1>10
  <2>2. f = [i \in 1 .. n |-> IF i = 1 THEN ss[i] ELSE f[i - 1] \o ss[i]] BY <1>1, <1>7
  <2>. QED BY <2>1, <2>2
<1>. QED BY <1>1, <1>7, <1>9, <1>11 DEF Flattens

-----------------------------------------------------------------------------
(* The steps that a thread has to execute.                                 *)

Inner == {"unlist", "pin", "free", "delete", "lru", "evict", "relock"}

StepsOn(ops, S) == {Step(op, x) : op \in ops, x \in S}

Steps ==
    StepsOn({"lru", "evict", "relock", "poolweak", "poolzero"}, {None})
    \cup StepsOn({"unlist", "pin", "free", "cachedec"}, Cache)
    \cup StepsOn({"delete", "entrylock", "weakmark", "weaklock", "unmark", "unmarklock", "init",
                  "initdone"}, Entry)
    \cup StepsOn({"insert"}, Ident)

NoStep == Step("none", None)

\* The step that is executed next.
First(s) == IF s = << >> THEN NoStep ELSE s[1]

\* The step that ends the operation, unless it ends with a destruction.
Final(s) == IF s = << >> THEN NoStep ELSE IF s[Len(s)].op \in Inner THEN NoStep ELSE s[Len(s)]

\* What is destroyed, and whether the limit will be enforced.
Frees(s) == {s[i].x : i \in {j \in 1 .. Len(s) : s[j].op = "free"}}
Deletes(s) == {s[i].x : i \in {j \in 1 .. Len(s) : s[j].op = "delete"}}
Evicts(s) == \E i \in 1 .. Len(s) : s[i].op = "evict"

\* Steps that follow each other.
Chained(s) ==
    \A i \in 1 .. Len(s) :
        /\ s[i].op = "unlist" => i < Len(s) /\ s[i + 1] = Step("pin", s[i].x)
        /\ s[i].op = "pin" => i < Len(s) /\ s[i + 1] = Step("free", s[i].x)
        /\ s[i].op = "lru" => i < Len(s) /\ s[i + 1] = Step("evict", None)
        /\ i > 1 /\ s[i].op = "pin" => s[i - 1] = Step("unlist", s[i].x)
        /\ i > 1 /\ s[i].op = "free" => s[i - 1] = Step("pin", s[i].x)
        /\ i > 1 /\ s[i].op = "evict" => s[i - 1] = Step("lru", None)

\* Only the last step ends an operation, and few of them follow another step.
InnerFirst(s) == \A i \in 1 .. Len(s) - 1 : s[i].op \in Inner
Follows == {"none", "cachedec", "poolweak", "initdone"}

\* Nothing is destroyed twice.
Once(s) ==
    \A i, j \in 1 .. Len(s) : s[i] = s[j] /\ s[i].op \in {"free", "delete"} => i = j

WellFormed(s) ==
    /\ Chained(s) /\ InnerFirst(s) /\ Once(s)
    /\ Len(s) > 1 => Final(s).op \in Follows

\* Steps that do not continue what was begun before them.
Fresh(s) == First(s).op \notin {"pin", "free", "evict"}

AllInner(s) == \A i \in 1 .. Len(s) : s[i].op \in Inner

\* The fields of a step, and when two steps are equal.
LEMMA StepEq ==
  ASSUME NEW o, NEW y, NEW op, NEW x
  PROVE  /\ Step(o, y).op = o /\ Step(o, y).x = y
         /\ Step(o, y) = Step(op, x) <=> o = op /\ y = x
BY DEF Step

\* What a step is about.
LEMMA StepFields ==
  ASSUME NEW a \in Steps
  PROVE  /\ a = Step(a.op, a.x)
         /\ a.op \in {"lru", "evict", "relock", "poolweak", "poolzero"} => a.x = None
         /\ a.op \in {"unlist", "pin", "free", "cachedec"} => a.x \in Cache
         /\ a.op \in {"delete", "entrylock", "weakmark", "weaklock", "unmark", "unmarklock",
                      "init", "initdone"} => a.x \in Entry
         /\ a.op = "insert" => a.x \in Ident
<1>1. PICK op, x : a = Step(op, x) /\
         \/ op \in {"lru", "evict", "relock", "poolweak", "poolzero"} /\ x = None
         \/ op \in {"unlist", "pin", "free", "cachedec"} /\ x \in Cache
         \/ op \in {"delete", "entrylock", "weakmark", "weaklock", "unmark", "unmarklock",
                      "init", "initdone"} /\ x \in Entry
         \/ op = "insert" /\ x \in Ident
  BY DEF Steps, StepsOn
<1>2. a.op = op /\ a.x = x BY <1>1 DEF Step
<1>. QED BY <1>1, <1>2

\* The steps that operations execute.
LEMMA IsStep ==
  /\ \A op \in {"lru", "evict", "relock", "poolweak", "poolzero"} : Step(op, None) \in Steps
  /\ \A op \in {"unlist", "pin", "free", "cachedec"} : \A c \in Cache : Step(op, c) \in Steps
  /\ \A op \in {"delete", "entrylock", "weakmark", "weaklock", "unmark", "unmarklock", "init",
                "initdone"} : \A e \in Entry : Step(op, e) \in Steps
  /\ \A i \in Ident : Step("insert", i) \in Steps
BY DEF Steps, StepsOn

\* Where the steps of a sequence come from.
LEMMA ConcatStep ==
  ASSUME NEW u \in Seq(Steps), NEW v \in Seq(Steps)
  PROVE  /\ u \o v \in Seq(Steps) /\ Len(u) \in Nat /\ Len(v) \in Nat
         /\ Len(u \o v) = Len(u) + Len(v)
         /\ \A i \in 1 .. Len(u) : (u \o v)[i] = u[i]
         /\ \A i \in Len(u) + 1 .. Len(u) + Len(v) : (u \o v)[i] = v[i - Len(u)]
         /\ \A i \in 1 .. Len(v) : (u \o v)[Len(u) + i] = v[i]
         /\ u = << >> <=> Len(u) = 0
         /\ v = << >> <=> Len(v) = 0
         /\ u \o v = << >> <=> u = << >> /\ v = << >>
<1>1. /\ u \o v \in Seq(Steps) /\ Len(u) \in Nat /\ Len(v) \in Nat
      /\ Len(u \o v) = Len(u) + Len(v)
      /\ \A i \in 1 .. Len(u) + Len(v) : (u \o v)[i] = IF i <= Len(u) THEN u[i] ELSE v[i - Len(u)]
  BY ConcatProperties
<1>2. \A i \in 1 .. Len(v) : (u \o v)[Len(u) + i] = v[i]
  <2>1. ASSUME NEW i \in 1 .. Len(v) PROVE (u \o v)[Len(u) + i] = v[i]
    <3>1. Len(u) + i \in 1 .. Len(u) + Len(v) /\ ~(Len(u) + i <= Len(u)) /\ (Len(u) + i) - Len(u) = i
      BY <1>1
    <3>. QED BY <1>1, <3>1
  <2>. QED BY <2>1
<1>3. u = << >> <=> Len(u) = 0 OBVIOUS
<1>4. v = << >> <=> Len(v) = 0 OBVIOUS
<1>5. u \o v = << >> <=> Len(u \o v) = 0 BY <1>1
<1>. QED BY <1>1, <1>2, <1>3, <1>4, <1>5

\* What a sequence made of two ends with, begins with and destroys.
LEMMA Concat ==
  ASSUME NEW u \in Seq(Steps), NEW v \in Seq(Steps)
  PROVE  /\ u \o v \in Seq(Steps)
         /\ u \o v = << >> <=> u = << >> /\ v = << >>
         /\ First(u \o v) = IF u = << >> THEN First(v) ELSE First(u)
         /\ AllInner(u) => Final(u \o v) = Final(v)
         /\ AllInner(u) /\ AllInner(v) => AllInner(u \o v)
         /\ Frees(u \o v) = Frees(u) \cup Frees(v)
         /\ Deletes(u \o v) = Deletes(u) \cup Deletes(v)
         /\ Evicts(u \o v) <=> Evicts(u) \/ Evicts(v)
<1>. DEFINE w == u \o v
<1>1. /\ Len(u) \in Nat /\ Len(v) \in Nat /\ w \in Seq(Steps)
      /\ Len(w) = Len(u) + Len(v)
      /\ \A i \in 1 .. Len(u) : w[i] = u[i]
      /\ \A i \in Len(u) + 1 .. Len(u) + Len(v) : w[i] = v[i - Len(u)]
      /\ \A i \in 1 .. Len(v) : w[Len(u) + i] = v[i]
      /\ u = << >> <=> Len(u) = 0
      /\ v = << >> <=> Len(v) = 0
      /\ w = << >> <=> u = << >> /\ v = << >>
  BY ConcatStep
<1>. HIDE DEF w
<1>2. ASSUME NEW i \in 1 .. Len(w)
      PROVE  \/ i \in 1 .. Len(u) /\ w[i] = u[i]
             \/ \E j \in 1 .. Len(v) : w[i] = v[j]
  <2>1. CASE i <= Len(u) BY <1>1, <2>1
  <2>2. CASE i > Len(u)
    <3>1. i - Len(u) \in 1 .. Len(v) /\ w[i] = v[i - Len(u)] BY <1>1, <2>2
    <3>. QED BY <3>1
  <2>. QED BY <1>1, <2>1, <2>2
<1>3. \A i \in 1 .. Len(u) : i \in 1 .. Len(w) /\ w[i] = u[i] BY <1>1
<1>4. \A i \in 1 .. Len(v) : Len(u) + i \in 1 .. Len(w) /\ w[Len(u) + i] = v[i] BY <1>1
<1>5. First(w) = IF u = << >> THEN First(v) ELSE First(u)
  <2>1. CASE u = << >>
    <3>1. v # << >> => 1 \in 1 .. Len(v) /\ Len(u) + 1 = 1 BY <1>1, <2>1
    <3>. QED BY <1>1, <2>1, <3>1 DEF First
  <2>2. CASE u # << >>
    <3>1. 1 \in 1 .. Len(u) BY <1>1, <2>2
    <3>. QED BY <1>1, <2>2, <3>1 DEF First
  <2>. QED BY <2>1, <2>2
<1>6. ASSUME AllInner(u) PROVE Final(w) = Final(v)
  <2>1. CASE v = << >> /\ u = << >> BY <1>1, <2>1 DEF Final
  <2>2. CASE v = << >> /\ u # << >>
    <3>1. Len(u) \in 1 .. Len(u) /\ Len(w) = Len(u) BY <1>1, <2>2
    <3>2. w[Len(w)].op \in Inner BY <1>1, <1>6, <3>1 DEF AllInner
    <3>. QED BY <1>1, <2>2, <3>2 DEF Final
  <2>3. CASE v # << >>
    <3>1. Len(v) \in 1 .. Len(v) BY <1>1, <2>3
    <3>2. w[Len(w)] = v[Len(v)] BY <1>1, <3>1
    <3>. QED BY <1>1, <2>3, <3>2 DEF Final
  <2>. QED BY <2>1, <2>2, <2>3
<1>7. AllInner(u) /\ AllInner(v) => AllInner(w) BY <1>2 DEF AllInner
<1>8. Frees(w) = Frees(u) \cup Frees(v)
  <2>1. Frees(w) \subseteq Frees(u) \cup Frees(v) BY <1>2 DEF Frees
  <2>2. Frees(u) \subseteq Frees(w) BY <1>3 DEF Frees
  <2>3. Frees(v) \subseteq Frees(w) BY <1>4 DEF Frees
  <2>. QED BY <2>1, <2>2, <2>3
<1>9. Deletes(w) = Deletes(u) \cup Deletes(v)
  <2>1. Deletes(w) \subseteq Deletes(u) \cup Deletes(v) BY <1>2 DEF Deletes
  <2>2. Deletes(u) \subseteq Deletes(w) BY <1>3 DEF Deletes
  <2>3. Deletes(v) \subseteq Deletes(w) BY <1>4 DEF Deletes
  <2>. QED BY <2>1, <2>2, <2>3
<1>10. Evicts(w) <=> Evicts(u) \/ Evicts(v) BY <1>2, <1>3, <1>4, ZenonT(60) DEF Evicts
<1>. QED BY <1>1, <1>5, <1>6, <1>7, <1>8, <1>9, <1>10 DEF w

\* Whole pieces of work one after the other.
LEMMA ConcatWellFormed ==
  ASSUME NEW u \in Seq(Steps), NEW v \in Seq(Steps), WellFormed(u), WellFormed(v),
         Fresh(v), AllInner(u), Final(v).op \in Follows,
         Frees(u) \cap Frees(v) = {}, Deletes(u) \cap Deletes(v) = {}
  PROVE  WellFormed(u \o v)
<1>. DEFINE w == u \o v
            n == Len(u)
            m == Len(v)
<1>1. /\ n \in Nat /\ m \in Nat /\ w \in Seq(Steps)
      /\ Len(w) = n + m
      /\ \A i \in 1 .. n : w[i] = u[i]
      /\ \A i \in n + 1 .. n + m : w[i] = v[i - n]
      /\ \A i \in 1 .. m : w[n + i] = v[i]
      /\ u = << >> <=> n = 0
      /\ v = << >> <=> m = 0
  BY ConcatStep
<1>2. \A i \in 1 .. n : u[i] \in Steps BY ElementOfSeq
<1>3. \A i \in 1 .. m : v[i] \in Steps BY ElementOfSeq
<1>. HIDE DEF w, n, m
<1>4. Chained(w)
  <2>1. ASSUME NEW i \in 1 .. n, i < n
        PROVE  /\ w[i] = u[i] /\ w[i + 1] = u[i + 1] /\ i < n + m
               /\ i > 1 => w[i - 1] = u[i - 1]
    BY <1>1, <2>1
  <2>2. ASSUME NEW i \in 1 .. n, i = n
        PROVE  w[i] = u[i] /\ (i > 1 => w[i - 1] = u[i - 1])
    BY <1>1, <2>2
  <2>3. ASSUME NEW i \in n + 1 .. n + m
        PROVE  LET j == i - n IN
               /\ j \in 1 .. m /\ w[i] = v[j]
               /\ i < n + m <=> j < m
               /\ j < m => w[i + 1] = v[j + 1]
               /\ j > 1 => w[i - 1] = v[j - 1]
    <3>. DEFINE j == i - n
    <3>1. j \in 1 .. m /\ i = n + j BY <1>1
    <3>2. j < m => j + 1 \in 1 .. m /\ i + 1 = n + (j + 1) BY <1>1, <3>1
    <3>3. j > 1 => j - 1 \in 1 .. m /\ i - 1 = n + (j - 1) BY <1>1, <3>1
    <3>. QED BY <1>1, <3>1, <3>2, <3>3
  <2>4. ASSUME NEW i \in 1 .. n
        PROVE  /\ w[i].op = "unlist" => i < n + m /\ w[i + 1] = Step("pin", w[i].x)
               /\ w[i].op = "pin" => i < n + m /\ w[i + 1] = Step("free", w[i].x)
               /\ w[i].op = "lru" => i < n + m /\ w[i + 1] = Step("evict", None)
               /\ i > 1 /\ w[i].op = "pin" => w[i - 1] = Step("unlist", w[i].x)
               /\ i > 1 /\ w[i].op = "free" => w[i - 1] = Step("pin", w[i].x)
               /\ i > 1 /\ w[i].op = "evict" => w[i - 1] = Step("lru", None)
    <3>0. /\ u[i].op = "unlist" => i < n /\ u[i + 1] = Step("pin", u[i].x)
          /\ u[i].op = "pin" => i < n /\ u[i + 1] = Step("free", u[i].x)
          /\ u[i].op = "lru" => i < n /\ u[i + 1] = Step("evict", None)
          /\ i > 1 /\ u[i].op = "pin" => u[i - 1] = Step("unlist", u[i].x)
          /\ i > 1 /\ u[i].op = "free" => u[i - 1] = Step("pin", u[i].x)
          /\ i > 1 /\ u[i].op = "evict" => u[i - 1] = Step("lru", None)
      BY DEF WellFormed, Chained, n
    <3>1. CASE i < n BY <2>1, <3>0, <3>1
    <3>2. CASE i = n BY <2>2, <3>0, <3>2
    <3>. QED BY <1>1, <3>1, <3>2
  <2>5. ASSUME NEW i \in n + 1 .. n + m
        PROVE  /\ w[i].op = "unlist" => i < n + m /\ w[i + 1] = Step("pin", w[i].x)
               /\ w[i].op = "pin" => i < n + m /\ w[i + 1] = Step("free", w[i].x)
               /\ w[i].op = "lru" => i < n + m /\ w[i + 1] = Step("evict", None)
               /\ i > 1 /\ w[i].op = "pin" => w[i - 1] = Step("unlist", w[i].x)
               /\ i > 1 /\ w[i].op = "free" => w[i - 1] = Step("pin", w[i].x)
               /\ i > 1 /\ w[i].op = "evict" => w[i - 1] = Step("lru", None)
    <3>. DEFINE j == i - n
    <3>0. /\ j \in 1 .. m /\ w[i] = v[j]
          /\ i < n + m <=> j < m
          /\ j < m => w[i + 1] = v[j + 1]
          /\ j > 1 => w[i - 1] = v[j - 1]
      BY <2>3
    <3>. HIDE DEF j
    <3>1. CASE j = 1
      <4>1. v # << >> /\ v[1].op \notin {"pin", "free", "evict"}
        BY <1>1, <3>0, <3>1 DEF Fresh, First
      <4>2. ~(i > 1 /\ w[i].op \in {"pin", "free", "evict"}) BY <3>0, <3>1, <4>1
      <4>3. /\ v[j].op = "unlist" => j < m /\ v[j + 1] = Step("pin", v[j].x)
            /\ v[j].op = "pin" => j < m /\ v[j + 1] = Step("free", v[j].x)
            /\ v[j].op = "lru" => j < m /\ v[j + 1] = Step("evict", None)
        BY <3>0 DEF WellFormed, Chained, m
      <4>. QED BY <3>0, <4>2, <4>3
    <3>2. CASE j > 1 BY <3>0, <3>2 DEF WellFormed, Chained, m
    <3>. QED BY <1>1, <3>0, <3>1, <3>2
  <2>. QED BY <1>1, <2>4, <2>5 DEF Chained
<1>5. InnerFirst(w)
  <2>1. ASSUME NEW i \in 1 .. Len(w) - 1 PROVE w[i].op \in Inner
    <3>1. CASE i <= n /\ m = 0
      <4>1. i \in 1 .. n - 1 /\ w[i] = u[i] BY <1>1, <3>1
      <4>. QED BY <4>1 DEF WellFormed, InnerFirst, n
    <3>2. CASE i <= n /\ m # 0
      <4>1. i \in 1 .. n /\ w[i] = u[i] /\ v # << >> BY <1>1, <3>2
      <4>. QED BY <4>1 DEF AllInner, n
    <3>3. CASE i > n
      <4>1. i - n \in 1 .. m - 1 /\ w[i] = v[i - n] BY <1>1, <3>3
      <4>. QED BY <4>1 DEF WellFormed, InnerFirst, m
    <3>. QED BY <1>1, <3>1, <3>2, <3>3
  <2>. QED BY <2>1 DEF InnerFirst
<1>6. Once(w)
  <2>. SUFFICES ASSUME NEW i \in 1 .. Len(w), NEW j \in 1 .. Len(w), w[i] = w[j],
                       w[i].op \in {"free", "delete"}, i <= j
                PROVE  i = j
    BY <1>1 DEF Once
  <2>1. CASE j <= n
    <3>1. i \in 1 .. n /\ j \in 1 .. n /\ w[i] = u[i] /\ w[j] = u[j] BY <1>1, <2>1
    <3>. QED BY <3>1 DEF WellFormed, Once, n
  <2>2. CASE i > n
    <3>1. i - n \in 1 .. m /\ j - n \in 1 .. m /\ w[i] = v[i - n] /\ w[j] = v[j - n]
      BY <1>1, <2>2
    <3>2. i - n = j - n BY <3>1 DEF WellFormed, Once, m
    <3>. QED BY <1>1, <3>2
  <2>3. CASE i <= n /\ j > n
    <3>0. i \in 1 .. n /\ j \in n + 1 .. n + m /\ j - n \in 1 .. m BY <1>1, <2>3, SMTT(60)
    <3>1. i \in 1 .. n /\ j - n \in 1 .. m /\ w[i] = u[i] /\ w[j] = v[j - n] BY <1>1, <3>0, ZenonT(60)
    <3>2. u[i] = Step(u[i].op, u[i].x) BY <1>2, <3>1, StepFields
    <3>3. CASE u[i].op = "free" BY <3>1, <3>3 DEF Frees, n, m
    <3>4. CASE u[i].op = "delete" BY <3>1, <3>4 DEF Deletes, n, m
    <3>. QED BY <3>1, <3>3, <3>4
  <2>. QED BY <1>1, <2>1, <2>2, <2>3
<1>7. Final(w).op \in Follows BY Concat DEF w
<1>. QED BY <1>4, <1>5, <1>6, <1>7 DEF WellFormed, w

\* A count that has grown.
LEMMA Positive == \A i \in Nat : i + 1 > 0
OBVIOUS

\* Nothing to execute.
LEMMA Empty ==
  /\ << >> \in Seq(Steps) /\ WellFormed(<< >>) /\ AllInner(<< >>) /\ Fresh(<< >>)
  /\ First(<< >>) = NoStep /\ Final(<< >>) = NoStep
  /\ Frees(<< >>) = {} /\ Deletes(<< >>) = {} /\ ~Evicts(<< >>)
BY DEF WellFormed, Chained, InnerFirst, Once, AllInner, Fresh, First, Final, Frees, Deletes, Evicts,
       NoStep, Step, Follows

\* One step to execute.
LEMMA Single ==
  ASSUME NEW a \in Steps, a.op \notin {"unlist", "pin", "lru"}
  PROVE  /\ << a >> \in Seq(Steps) /\ WellFormed(<< a >>) /\ << a >> # << >>
         /\ First(<< a >>) = a /\ Final(<< a >>) = IF a.op \in Inner THEN NoStep ELSE a
         /\ a.op \in Inner => AllInner(<< a >>)
         /\ Frees(<< a >>) = IF a.op = "free" THEN {a.x} ELSE {}
         /\ Deletes(<< a >>) = IF a.op = "delete" THEN {a.x} ELSE {}
         /\ Evicts(<< a >>) <=> a.op = "evict"
<1>. DEFINE s == << a >>
<1>1. s \in Seq(Steps) /\ Len(s) = 1 /\ s[1] = a /\ s # << >> /\ \A i \in 1 .. Len(s) : i = 1
  OBVIOUS
<1>. HIDE DEF s
<1>2. First(s) = a /\ Final(s) = IF a.op \in Inner THEN NoStep ELSE a BY <1>1 DEF First, Final
<1>3. WellFormed(s) BY <1>1 DEF WellFormed, Chained, InnerFirst, Once
<1>4. a.op \in Inner => AllInner(s) BY <1>1 DEF AllInner
<1>5. Frees(s) = IF a.op = "free" THEN {a.x} ELSE {} BY <1>1 DEF Frees
<1>6. Deletes(s) = IF a.op = "delete" THEN {a.x} ELSE {} BY <1>1 DEF Deletes
<1>7. Evicts(s) <=> a.op = "evict" BY <1>1 DEF Evicts
<1>. QED BY <1>1, <1>2, <1>3, <1>4, <1>5, <1>6, <1>7 DEF s

\* The steps that run MaybeEvictEntries.
LEMMA EvictSteps ==
  LET s == << Step("lru", None), Step("evict", None) >>
  IN  /\ s \in Seq(Steps) /\ WellFormed(s) /\ AllInner(s) /\ s # << >>
      /\ First(s) = Step("lru", None) /\ Final(s) = NoStep
      /\ Frees(s) = {} /\ Deletes(s) = {} /\ Evicts(s)
<1>. DEFINE a == Step("lru", None)
            b == Step("evict", None)
            s == << a, b >>
<1>1. a \in Steps /\ b \in Steps BY IsStep
<1>2. a.op = "lru" /\ b.op = "evict" /\ a # b BY StepEq
<1>. HIDE DEF a, b
<1>3. /\ s \in Seq(Steps) /\ Len(s) = 2 /\ s[1] = a /\ s[2] = b /\ s # << >>
      /\ 1 .. Len(s) = {1, 2} /\ 1 .. Len(s) - 1 = {1}
  BY <1>1
<1>. HIDE DEF s
<1>4. First(s) = a /\ Final(s) = NoStep BY <1>2, <1>3 DEF First, Final, Inner
<1>5. AllInner(s) /\ InnerFirst(s) BY <1>2, <1>3 DEF AllInner, InnerFirst, Inner
<1>6. Chained(s) BY <1>2, <1>3 DEF Chained, a, b
<1>7. Once(s) BY <1>2, <1>3 DEF Once
<1>8. Frees(s) = {} /\ Deletes(s) = {} /\ Evicts(s) BY <1>2, <1>3 DEF Frees, Deletes, Evicts
<1>9. NoStep.op = "none" BY StepEq DEF NoStep
<1>. QED BY <1>3, <1>4, <1>5, <1>6, <1>7, <1>8, <1>9 DEF WellFormed, Follows, a, b, s

\* The steps of DestroyCache.
LEMMA DestroyCacheSteps ==
  ASSUME NEW c \in Cache
  PROVE  LET s == DestroyCache(c)
         IN  /\ s \in Seq(Steps) /\ WellFormed(s) /\ AllInner(s) /\ s # << >> /\ Fresh(s)
             /\ First(s) = Step("unlist", c) /\ Final(s) = NoStep
             /\ Frees(s) = {c} /\ Deletes(s) = {} /\ ~Evicts(s)
<1>. DEFINE a == Step("unlist", c)
            b == Step("pin", c)
            d == Step("free", c)
            s == << a, b, d >>
<1>1. a \in Steps /\ b \in Steps /\ d \in Steps BY IsStep
<1>2. /\ a.op = "unlist" /\ b.op = "pin" /\ d.op = "free" /\ a # b /\ a # d /\ b # d
      /\ a.x = c /\ b.x = c /\ d.x = c
  BY StepEq
<1>. HIDE DEF a, b, d
<1>3. /\ s \in Seq(Steps) /\ Len(s) = 3 /\ s[1] = a /\ s[2] = b /\ s[3] = d /\ s # << >>
      /\ 1 .. Len(s) = {1, 2, 3} /\ 1 .. Len(s) - 1 = {1, 2}
  BY <1>1
<1>. HIDE DEF s
<1>4. First(s) = a /\ Final(s) = NoStep /\ Fresh(s) BY <1>2, <1>3 DEF First, Final, Inner, Fresh
<1>5. AllInner(s) /\ InnerFirst(s) BY <1>2, <1>3 DEF AllInner, InnerFirst, Inner
<1>6. Chained(s) BY <1>2, <1>3 DEF Chained, a, b, d
<1>7. Once(s) BY <1>2, <1>3 DEF Once
<1>8. Frees(s) = {c} /\ Deletes(s) = {} /\ ~Evicts(s) BY <1>2, <1>3 DEF Frees, Deletes, Evicts
<1>9. NoStep.op = "none" BY StepEq DEF NoStep
<1>10. DestroyCache(c) = s BY DEF DestroyCache, s, a, b, d
<1>. QED BY <1>3, <1>4, <1>5, <1>6, <1>7, <1>8, <1>9, <1>10 DEF WellFormed, Follows, a

\* What remains when the next step has been executed.
LEMMA Pop ==
  ASSUME NEW s \in Seq(Steps), s # << >>, WellFormed(s)
  PROVE  LET a == First(s)
             r == Tail(s)
         IN  /\ a \in Steps /\ r \in Seq(Steps) /\ WellFormed(r)
             /\ a.op \in Inner => Final(r) = Final(s) /\ Final(r).op \in Follows
             /\ a.op \notin Inner => r = << >> /\ s = << a >> /\ Final(s) = a
             /\ Frees(r) = IF a.op = "free" THEN Frees(s) \ {a.x} ELSE Frees(s)
             /\ Deletes(r) = IF a.op = "delete" THEN Deletes(s) \ {a.x} ELSE Deletes(s)
             /\ a.op # "evict" => (Evicts(r) <=> Evicts(s))
             /\ a.op \notin {"unlist", "pin", "lru"} => Fresh(r)
             /\ a.op = "unlist" => First(r) = Step("pin", a.x) /\ a.x \in Frees(s)
             /\ a.op = "pin" => First(r) = Step("free", a.x) /\ a.x \in Frees(s)
             /\ a.op = "free" => a.x \in Frees(s)
             /\ a.op = "delete" => a.x \in Deletes(s)
             /\ a.op = "lru" => First(r) = Step("evict", None)
             /\ a.op \in {"lru", "evict"} => Evicts(s)
<1>. DEFINE n == Len(s)
            r == Tail(s)
            a == s[1]
<1>1. /\ n \in Nat \ {0} /\ r \in Seq(Steps) /\ Len(r) = n - 1
      /\ First(s) = a
  BY DEF First
<1>0. r \in Seq(Steps) /\ Len(r) = n - 1 /\ \A i \in 1 .. n - 1 : r[i] = s[i + 1]
  BY HeadTailProperties
<1>2. \A i \in 1 .. n - 1 : r[i] = s[i + 1] /\ i + 1 \in 1 .. n BY <1>0, <1>1
<1>3. \A i \in 1 .. n : i # 1 => i - 1 \in 1 .. n - 1 /\ s[i] = r[i - 1]
  <2>1. ASSUME NEW i \in 1 .. n, i # 1 PROVE i - 1 \in 1 .. n - 1 /\ s[i] = r[i - 1]
    <3>1. i - 1 \in 1 .. n - 1 /\ (i - 1) + 1 = i BY <1>1, <2>1
    <3>2. r[i - 1] = s[(i - 1) + 1] BY <1>2, <3>1
    <3>. QED BY <3>1, <3>2
  <2>. QED BY <2>1
<1>4. \A i \in 1 .. n : s[i] \in Steps BY ElementOfSeq
<1>. HIDE DEF r, n, a
<1>5. r = << >> <=> n = 1
  <2>1. r = << >> <=> Len(r) = 0 BY <1>1
  <2>. QED BY <1>1, <2>1
<1>6. 1 \in 1 .. n /\ a = s[1] /\ n \in 1 .. n BY <1>1 DEF a
<1>7. a \in Steps BY <1>4, <1>6
<1>8. Chained(r)
  <2>1. SUFFICES ASSUME NEW i \in 1 .. n - 1
        PROVE
          /\ r[i].op = "unlist" => i < n - 1 /\ r[i + 1] = Step("pin", r[i].x)
          /\ r[i].op = "pin" => i < n - 1 /\ r[i + 1] = Step("free", r[i].x)
          /\ r[i].op = "lru" => i < n - 1 /\ r[i + 1] = Step("evict", None)
          /\ i > 1 /\ r[i].op = "pin" => r[i - 1] = Step("unlist", r[i].x)
          /\ i > 1 /\ r[i].op = "free" => r[i - 1] = Step("pin", r[i].x)
          /\ i > 1 /\ r[i].op = "evict" => r[i - 1] = Step("lru", None)
    BY <1>1 DEF Chained
  <2>. DEFINE j == i + 1
  <2>2. j \in 1 .. n /\ r[i] = s[j] /\ (j < n <=> i < n - 1) /\ j > 1 BY <1>1, <1>2
  <2>3. i < n - 1 => r[i + 1] = s[j + 1] BY <1>1, <1>2
  <2>4. i > 1 => r[i - 1] = s[j - 1]
    <3>1. i > 1 => i - 1 \in 1 .. n - 1 /\ (i - 1) + 1 = j - 1 BY <1>1
    <3>. QED BY <1>2, <3>1
  <2>. HIDE DEF j
  <2>5. /\ s[j].op = "unlist" => j < n /\ s[j + 1] = Step("pin", s[j].x)
        /\ s[j].op = "pin" => j < n /\ s[j + 1] = Step("free", s[j].x)
        /\ s[j].op = "lru" => j < n /\ s[j + 1] = Step("evict", None)
        /\ s[j].op = "pin" => s[j - 1] = Step("unlist", s[j].x)
        /\ s[j].op = "free" => s[j - 1] = Step("pin", s[j].x)
        /\ s[j].op = "evict" => s[j - 1] = Step("lru", None)
    BY <2>2 DEF WellFormed, Chained, n
  <2>. QED BY <2>2, <2>3, <2>4, <2>5
<1>9. InnerFirst(r)
  <2>1. ASSUME NEW i \in 1 .. (n - 1) - 1 PROVE r[i].op \in Inner
    <3>1. i + 1 \in 1 .. n - 1 /\ i \in 1 .. n - 1 BY <1>1
    <3>. QED BY <1>2, <3>1 DEF WellFormed, InnerFirst, n
  <2>. QED BY <1>1, <2>1 DEF InnerFirst
<1>10. Once(r)
  <2>1. ASSUME NEW i \in 1 .. n - 1, NEW j \in 1 .. n - 1, r[i] = r[j], r[i].op \in {"free", "delete"}
        PROVE  i = j
    <3>1. i + 1 = j + 1 BY <1>2, <2>1 DEF WellFormed, Once, n
    <3>. QED BY <3>1
  <2>. QED BY <1>1, <2>1 DEF Once
<1>11. NoStep.op = "none" BY StepEq DEF NoStep
<1>12. Final(s).op \in Follows \/ n = 1 BY <1>1 DEF WellFormed, n
<1>13. n > 1 => Final(r) = Final(s)
  <2>1. n > 1 => n - 1 \in 1 .. n - 1 /\ (n - 1) + 1 = n /\ r # << >> BY <1>1, <1>5
  <2>2. n > 1 => r[Len(r)] = s[Len(s)] BY <1>1, <1>2, <2>1 DEF n
  <2>. QED BY <2>1, <2>2 DEF Final
<1>14. n = 1 => Final(r) = NoStep /\ Final(s) = IF a.op \in Inner THEN NoStep ELSE a
  BY <1>5, <1>6 DEF Final, n
<1>15. WellFormed(r)
  BY <1>1, <1>8, <1>9, <1>10, <1>11, <1>12, <1>13, <1>14 DEF WellFormed, Follows
<1>16. a.op \in Inner => Final(r) = Final(s) /\ Final(r).op \in Follows
  BY <1>1, <1>11, <1>12, <1>13, <1>14 DEF Follows
<1>17. a.op \notin Inner => n = 1 BY <1>1, <1>6 DEF WellFormed, InnerFirst, n
<1>18. n = 1 => s = << a >> BY <1>6 DEF n
<1>19. Frees(s) = Frees(r) \cup (IF a.op = "free" THEN {a.x} ELSE {})
  <2>1. Frees(r) \subseteq Frees(s) BY <1>1, <1>2 DEF Frees, n
  <2>2. a.op = "free" => a.x \in Frees(s) BY <1>6 DEF Frees, n
  <2>3. ASSUME NEW x \in Frees(s) PROVE x \in Frees(r) \/ (a.op = "free" /\ x = a.x)
    <3>1. PICK i \in 1 .. n : s[i].op = "free" /\ s[i].x = x BY DEF Frees, n
    <3>2. CASE i = 1 BY <1>6, <3>1, <3>2
    <3>3. CASE i # 1 BY <1>1, <1>3, <3>1, <3>3 DEF Frees
    <3>. QED BY <3>2, <3>3
  <2>. QED BY <2>1, <2>2, <2>3
<1>20. Deletes(s) = Deletes(r) \cup (IF a.op = "delete" THEN {a.x} ELSE {})
  <2>1. Deletes(r) \subseteq Deletes(s) BY <1>1, <1>2 DEF Deletes, n
  <2>2. a.op = "delete" => a.x \in Deletes(s) BY <1>6 DEF Deletes, n
  <2>3. ASSUME NEW x \in Deletes(s) PROVE x \in Deletes(r) \/ (a.op = "delete" /\ x = a.x)
    <3>1. PICK i \in 1 .. n : s[i].op = "delete" /\ s[i].x = x BY DEF Deletes, n
    <3>2. CASE i = 1 BY <1>6, <3>1, <3>2
    <3>3. CASE i # 1 BY <1>1, <1>3, <3>1, <3>3 DEF Deletes
    <3>. QED BY <3>2, <3>3
  <2>. QED BY <2>1, <2>2, <2>3
<1>21. ASSUME NEW i \in 1 .. n - 1, r[i].op = a.op, r[i].x = a.x, a.op \in {"free", "delete"}
       PROVE  FALSE
  <2>1. i + 1 \in 1 .. n /\ i + 1 # 1 /\ r[i] = s[i + 1] /\ s[i + 1] \in Steps
    BY <1>1, <1>2, <1>4
  <2>2. s[i + 1] = Step(a.op, a.x) /\ a = Step(a.op, a.x) BY <1>7, <1>21, <2>1, StepFields
  <2>. QED BY <1>6, <1>21, <2>1, <2>2 DEF WellFormed, Once, n
<1>22. a.op = "free" => a.x \notin Frees(r) BY <1>1, <1>21 DEF Frees
<1>23. a.op = "delete" => a.x \notin Deletes(r) BY <1>1, <1>21 DEF Deletes
<1>24. a.op # "evict" => (Evicts(r) <=> Evicts(s))
  <2>1. Evicts(r) => Evicts(s) BY <1>1, <1>2 DEF Evicts, n
  <2>2. ASSUME Evicts(s), a.op # "evict" PROVE Evicts(r)
    <3>1. PICK i \in 1 .. n : s[i].op = "evict" BY <2>2 DEF Evicts, n
    <3>2. i # 1 BY <1>6, <2>2, <3>1
    <3>. QED BY <1>1, <1>3, <3>1, <3>2 DEF Evicts
  <2>. QED BY <2>1, <2>2
<1>25. n > 1 => First(r) = s[2] /\ 2 \in 1 .. n
  <2>1. n > 1 => 1 \in 1 .. n - 1 /\ r # << >> /\ 2 \in 1 .. n BY <1>1, <1>5
  <2>2. n > 1 => r[1] = s[1 + 1] BY <1>2, <2>1
  <2>. QED BY <2>1, <2>2 DEF First
<1>26. a.op \notin {"unlist", "pin", "lru"} => Fresh(r)
  <2>1. CASE n = 1 BY <1>5, <1>11, <2>1 DEF Fresh, First
  <2>2. CASE n > 1
    <3>1. /\ s[2].op = "pin" => s[2 - 1] = Step("unlist", s[2].x)
          /\ s[2].op = "free" => s[2 - 1] = Step("pin", s[2].x)
          /\ s[2].op = "evict" => s[2 - 1] = Step("lru", None)
      BY <1>25, <2>2 DEF WellFormed, Chained, n
    <3>2. /\ s[2].op = "pin" => a.op = "unlist"
          /\ s[2].op = "free" => a.op = "pin"
          /\ s[2].op = "evict" => a.op = "lru"
      BY <1>6, <3>1, StepEq
    <3>. QED BY <1>25, <2>2, <3>2 DEF Fresh
  <2>. QED BY <1>1, <2>1, <2>2
<1>27. /\ a.op = "unlist" => n > 1 /\ s[2] = Step("pin", a.x)
       /\ a.op = "pin" => n > 1 /\ s[2] = Step("free", a.x)
       /\ a.op = "lru" => n > 1 /\ s[2] = Step("evict", None)
  <2>1. 1 + 1 = 2 OBVIOUS
  <2>. QED BY <1>6, <2>1 DEF WellFormed, Chained, n
<1>28. a.op = "pin" => a.x \in Frees(s)
  <2>1. ASSUME a.op = "pin" PROVE a.x \in Frees(s)
    <3>1. 2 \in 1 .. n /\ s[2] = Step("free", a.x) /\ s[2].op = "free" /\ s[2].x = a.x
      BY <1>25, <1>27, <2>1, StepEq
    <3>. QED BY <3>1 DEF Frees, n
  <2>. QED BY <2>1
<1>29. a.op = "unlist" => a.x \in Frees(s)
  <2>1. ASSUME a.op = "unlist" PROVE a.x \in Frees(s)
    <3>1. 2 \in 1 .. n /\ s[2] = Step("pin", a.x) /\ s[2].op = "pin" /\ s[2].x = a.x
      BY <1>25, <1>27, <2>1, StepEq
    <3>2. 2 < n /\ s[2 + 1] = Step("free", a.x) BY <3>1 DEF WellFormed, Chained, n
    <3>3. 2 + 1 \in 1 .. n /\ s[2 + 1].op = "free" /\ s[2 + 1].x = a.x BY <1>1, <3>2, StepEq
    <3>. QED BY <3>3 DEF Frees, n
  <2>. QED BY <2>1
<1>30. a.op \in {"lru", "evict"} => Evicts(s)
  <2>1. a.op = "evict" => Evicts(s) BY <1>6 DEF Evicts, n
  <2>2. a.op = "lru" => s[2].op = "evict" BY <1>27, StepEq
  <2>3. a.op = "lru" => Evicts(s) BY <1>25, <1>27, <2>2 DEF Evicts, n
  <2>. QED BY <2>1, <2>3
<1>31. Frees(r) = IF a.op = "free" THEN Frees(s) \ {a.x} ELSE Frees(s) BY <1>19, <1>22
<1>32. Deletes(r) = IF a.op = "delete" THEN Deletes(s) \ {a.x} ELSE Deletes(s) BY <1>20, <1>23
<1>33. a.op = "free" => a.x \in Frees(s) BY <1>19
<1>34. a.op = "delete" => a.x \in Deletes(s) BY <1>20
<1>35. a.op \notin Inner => r = << >> /\ s = << a >> /\ Final(s) = a
  BY <1>5, <1>14, <1>17, <1>18
<1>36. /\ a.op = "unlist" => First(r) = Step("pin", a.x)
       /\ a.op = "pin" => First(r) = Step("free", a.x)
       /\ a.op = "lru" => First(r) = Step("evict", None)
  BY <1>25, <1>27
<1>37. Tail(s) = r /\ First(s) = a /\ r \in Seq(Steps) BY <1>1 DEF r
<1>. QED
  BY <1>7, <1>15, <1>16, <1>24, <1>26, <1>28, <1>29, <1>30, <1>31, <1>32, <1>33, <1>34, <1>35,
     <1>36, <1>37

\* Steps of callees only: nothing follows them.
LEMMA InnerFinal ==
  ASSUME NEW s \in Seq(Steps), AllInner(s)
  PROVE  Final(s) = NoStep
<1>1. CASE s = << >> BY <1>1 DEF Final
<1>2. CASE s # << >>
  <2>1. Len(s) \in 1 .. Len(s) BY <1>2
  <2>. QED BY <1>2, <2>1 DEF AllInner, Final
<1>. QED BY <1>1, <1>2

\* Pieces of work that destroy different objects, one after the other.
LEMMA FlattenSteps ==
  ASSUME NEW n \in Nat, NEW ss \in [1 .. n -> Seq(Steps)],
         \A i \in 1 .. n : /\ WellFormed(ss[i]) /\ AllInner(ss[i]) /\ ss[i] # << >>
                           /\ Fresh(ss[i]) /\ ~Evicts(ss[i]),
         \A i, j \in 1 .. n : i # j => /\ Frees(ss[i]) \cap Frees(ss[j]) = {}
                                       /\ Deletes(ss[i]) \cap Deletes(ss[j]) = {}
  PROVE  LET s == FlattenSeq(ss)
         IN  /\ s \in Seq(Steps) /\ WellFormed(s) /\ AllInner(s) /\ Fresh(s) /\ ~Evicts(s)
             /\ Final(s) = NoStep
             /\ \A x : x \in Frees(s) <=> \E i \in 1 .. n : x \in Frees(ss[i])
             /\ \A x : x \in Deletes(s) <=> \E i \in 1 .. n : x \in Deletes(ss[i])
<1>1. CASE n = 0
  <2>1. ss = << >> BY <1>1
  <2>2. FlattenSeq(ss) = << >> BY <2>1 DEF FlattenSeq
  <2>3. 1 .. n = {} BY <1>1
  <2>. QED BY <2>2, <2>3, Empty
<1>2. CASE n # 0
  <2>0. PICK f : Flattens(Steps, n, ss, f) BY <1>2, FlattenUnfolds
  <2>1. /\ f \in [1 .. n -> Seq(Steps)] /\ f[1] = ss[1]
        /\ \A i \in 1 .. n - 1 : f[i + 1] = f[i] \o ss[i + 1]
        /\ FlattenSeq(ss) = f[n]
    BY <2>0 DEF Flattens
  <2>. DEFINE Good(i) == /\ WellFormed(f[i]) /\ AllInner(f[i]) /\ Fresh(f[i]) /\ ~Evicts(f[i])
                         /\ f[i] # << >>
                         /\ \A x : x \in Frees(f[i]) <=> \E j \in 1 .. i : x \in Frees(ss[j])
                         /\ \A x : x \in Deletes(f[i]) <=> \E j \in 1 .. i : x \in Deletes(ss[j])
              Q == {i \in 1 .. n : Good(i)}
  <2>2. 1 \in Q
    <3>1. 1 .. 1 = {1} /\ 1 \in 1 .. n BY <1>2
    <3>2. Good(1) BY <2>1, <3>1
    <3>. HIDE DEF Good
    <3>. QED BY <3>1, <3>2
  <2>3. ASSUME NEW i \in 1 .. n - 1, i \in Q PROVE i + 1 \in Q
    <3>1. i + 1 \in 1 .. n /\ i \in 1 .. n /\ Good(i) BY <2>3
    <3>. DEFINE u == f[i]
                v == ss[i + 1]
    <3>2. u \in Seq(Steps) /\ v \in Seq(Steps) /\ f[i + 1] = u \o v BY <2>1, <3>1
    <3>3. /\ WellFormed(v) /\ AllInner(v) /\ v # << >> /\ Fresh(v) /\ ~Evicts(v)
          /\ WellFormed(u) /\ AllInner(u) /\ u # << >> /\ Fresh(u) /\ ~Evicts(u)
      BY <3>1
    <3>4. /\ \A x : x \in Frees(u) <=> \E j \in 1 .. i : x \in Frees(ss[j])
          /\ \A x : x \in Deletes(u) <=> \E j \in 1 .. i : x \in Deletes(ss[j])
      BY <3>1
    <3>5. \A j \in 1 .. i : j \in 1 .. n /\ j # i + 1 BY <3>1
    <3>6. Frees(u) \cap Frees(v) = {} /\ Deletes(u) \cap Deletes(v) = {} BY <3>1, <3>4, <3>5
    <3>7. 1 .. i + 1 = 1 .. i \cup {i + 1} BY <3>1
    <3>8. /\ \A x : (\E j \in 1 .. i + 1 : x \in Frees(ss[j]))
                      <=> (\E j \in 1 .. i : x \in Frees(ss[j])) \/ x \in Frees(v)
          /\ \A x : (\E j \in 1 .. i + 1 : x \in Deletes(ss[j]))
                      <=> (\E j \in 1 .. i : x \in Deletes(ss[j])) \/ x \in Deletes(v)
      BY <3>7
    <3>. HIDE DEF u, v
    <3>9. Final(v).op \in Follows BY <3>2, <3>3, InnerFinal, StepEq DEF NoStep, Follows
    <3>10. WellFormed(u \o v) BY <3>2, <3>3, <3>6, <3>9, ConcatWellFormed
    <3>11. /\ AllInner(u \o v) /\ ~Evicts(u \o v) /\ u \o v # << >>
           /\ First(u \o v) = First(u)
           /\ Frees(u \o v) = Frees(u) \cup Frees(v)
           /\ Deletes(u \o v) = Deletes(u) \cup Deletes(v)
      BY <3>2, <3>3, Concat
    <3>12. Fresh(u \o v) BY <3>3, <3>11 DEF Fresh
    <3>13. Good(i + 1) BY <3>2, <3>4, <3>8, <3>10, <3>11, <3>12
    <3>. HIDE DEF Good
    <3>. QED BY <3>1, <3>13
  <2>4. n \in Q
    <3>. HIDE DEF Q
    <3>1. \A i \in 1 .. n : i \in Q BY <2>2, <2>3, Induction
    <3>. QED BY <1>2, <3>1
  <2>5. Good(n) /\ f[n] \in Seq(Steps) BY <1>2, <2>1, <2>4
  <2>6. Final(f[n]) = NoStep BY <2>5, InnerFinal
  <2>. QED BY <2>1, <2>5, <2>6
<1>. QED BY <1>1, <1>2

Victim == [e : Entry, del : BOOLEAN]

\* The entries of a buffer of victims, and the caches that go with them.
ChosenIn(vs) == {vs[i].e : i \in 1 .. Len(vs)}
DoomedIn(vs) == {entry[vs[i].e].cache : i \in {j \in 1 .. Len(vs) : vs[j].del}}

Buffer(vs) ==
    /\ vs \in Seq(Victim)
    /\ \A i \in 1 .. Len(vs) : entry[vs[i].e].cache \in Cache
    /\ \A i, j \in 1 .. Len(vs) : vs[i].e = vs[j].e => i = j
    /\ \A i, j \in 1 .. Len(vs) : vs[i].del /\ vs[j].del
          /\ entry[vs[i].e].cache = entry[vs[j].e].cache => i = j

\* The steps that destroy_entries leaves: a deletion for each victim, and a DestroyCache
\* for each cache that lost its last shard.
LEMMA DestroyEntriesSteps ==
  ASSUME NEW vs, Buffer(vs)
  PROVE  LET s == DestroyEntries(vs)
         IN  /\ s \in Seq(Steps) /\ WellFormed(s) /\ AllInner(s) /\ Fresh(s) /\ ~Evicts(s)
             /\ Final(s) = NoStep
             /\ Frees(s) = DoomedIn(vs)
             /\ Deletes(s) = ChosenIn(vs)
<1>. DEFINE n == Len(vs)
            C(i) == entry[vs[i].e].cache
            ss == [i \in 1 .. n |-> DestroyIf(vs[i].del, C(i)) \o << Step("delete", vs[i].e) >>]
<1>1. n \in Nat /\ \A i \in 1 .. n : vs[i] \in Victim /\ vs[i].e \in Entry /\ C(i) \in Cache
  <2>1. n \in Nat /\ \A i \in 1 .. n : vs[i] \in Victim BY ElementOfSeq DEF Buffer
  <2>. QED BY <2>1 DEF Buffer, Victim
<1>2. ASSUME NEW i \in 1 .. n
      PROVE  /\ ss[i] \in Seq(Steps) /\ WellFormed(ss[i]) /\ AllInner(ss[i]) /\ ss[i] # << >>
             /\ Fresh(ss[i]) /\ ~Evicts(ss[i])
             /\ Frees(ss[i]) = IF vs[i].del THEN {C(i)} ELSE {}
             /\ Deletes(ss[i]) = {vs[i].e}
  <2>. DEFINE u == DestroyIf(vs[i].del, C(i))
              a == Step("delete", vs[i].e)
  <2>1. C(i) \in Cache /\ vs[i].e \in Entry /\ ss[i] = u \o << a >> BY <1>1
  <2>2. /\ u \in Seq(Steps) /\ WellFormed(u) /\ AllInner(u) /\ Fresh(u) /\ ~Evicts(u)
        /\ Frees(u) = IF vs[i].del THEN {C(i)} ELSE {}
        /\ Deletes(u) = {}
    <3>1. CASE vs[i].del BY <2>1, <3>1, DestroyCacheSteps DEF DestroyIf
    <3>2. CASE ~vs[i].del BY <3>2, Empty DEF DestroyIf
    <3>. QED BY <3>1, <3>2
  <2>3. a \in Steps /\ a.op = "delete" /\ a.x = vs[i].e BY <2>1, IsStep, StepEq
  <2>. HIDE DEF u, a
  <2>4. /\ << a >> \in Seq(Steps) /\ WellFormed(<< a >>) /\ << a >> # << >>
        /\ First(<< a >>) = a /\ Final(<< a >>) = NoStep /\ AllInner(<< a >>)
        /\ Frees(<< a >>) = {} /\ Deletes(<< a >>) = {vs[i].e} /\ ~Evicts(<< a >>)
    BY <2>3, Single DEF Inner
  <2>5. Fresh(<< a >>) /\ Final(<< a >>).op \in Follows
    BY <2>3, <2>4, StepEq DEF Fresh, NoStep, Follows
  <2>6. WellFormed(u \o << a >>) BY <2>2, <2>4, <2>5, ConcatWellFormed
  <2>7. /\ u \o << a >> \in Seq(Steps) /\ AllInner(u \o << a >>) /\ ~Evicts(u \o << a >>)
        /\ u \o << a >> # << >>
        /\ First(u \o << a >>) = IF u = << >> THEN First(<< a >>) ELSE First(u)
        /\ Frees(u \o << a >>) = Frees(u) \cup Frees(<< a >>)
        /\ Deletes(u \o << a >>) = Deletes(u) \cup Deletes(<< a >>)
    BY <2>2, <2>4, Concat
  <2>8. Fresh(u \o << a >>) BY <2>2, <2>5, <2>7 DEF Fresh
  <2>9. Frees(u \o << a >>) = Frees(u) /\ Deletes(u \o << a >>) = {vs[i].e} BY <2>2, <2>4, <2>7
  <2>. QED BY <2>1, <2>2, <2>6, <2>7, <2>8, <2>9
<1>3. ss \in [1 .. n -> Seq(Steps)] BY <1>2
<1>4. DestroyEntries(vs) = FlattenSeq(ss) BY DEF DestroyEntries
<1>. HIDE DEF ss
<1>5. ASSUME NEW i \in 1 .. n, NEW j \in 1 .. n, i # j
      PROVE  Frees(ss[i]) \cap Frees(ss[j]) = {} /\ Deletes(ss[i]) \cap Deletes(ss[j]) = {}
  <2>1. vs[i].e # vs[j].e BY <1>5 DEF Buffer
  <2>2. vs[i].del /\ vs[j].del => C(i) # C(j) BY <1>5 DEF Buffer
  <2>. QED BY <1>2, <2>1, <2>2
<1>. DEFINE s == FlattenSeq(ss)
<1>6. /\ s \in Seq(Steps) /\ WellFormed(s) /\ AllInner(s) /\ Fresh(s) /\ ~Evicts(s)
      /\ Final(s) = NoStep
      /\ \A x : x \in Frees(s) <=> \E i \in 1 .. n : x \in Frees(ss[i])
      /\ \A x : x \in Deletes(s) <=> \E i \in 1 .. n : x \in Deletes(ss[i])
  <2>. HIDE DEF n
  <2>. QED BY <1>1, <1>2, <1>3, <1>5, FlattenSteps
<1>7. Frees(s) = DoomedIn(vs)
  <2>1. \A x : x \in DoomedIn(vs) <=> \E i \in 1 .. n : vs[i].del /\ x = C(i) BY DEF DoomedIn
  <2>2. \A i \in 1 .. n : \A x : x \in Frees(ss[i]) <=> vs[i].del /\ x = C(i) BY <1>2
  <2>. HIDE DEF n, C, s
  <2>. QED BY <1>6, <2>1, <2>2
<1>8. Deletes(s) = ChosenIn(vs)
  <2>1. \A x : x \in ChosenIn(vs) <=> \E i \in 1 .. n : x = vs[i].e BY DEF ChosenIn
  <2>2. \A i \in 1 .. n : \A x : x \in Deletes(ss[i]) <=> x = vs[i].e BY <1>2
  <2>. HIDE DEF n, C, s
  <2>. QED BY <1>6, <2>1, <2>2, ZenonT(60)
<1>. QED BY <1>4, <1>6, <1>7, <1>8

\* SetToSeq lists every element once.
LEMMA SetToSeqLists ==
  ASSUME NEW S, IsFiniteSet(S)
  PROVE  LET f == SetToSeq(S)
             n == Cardinality(S)
         IN  /\ n \in Nat /\ f \in [1 .. n -> S]
             /\ \A i, j \in 1 .. n : f[i] = f[j] => i = j
             /\ S = {f[i] : i \in 1 .. n}
<1>. DEFINE f == SetToSeq(S)
            n == Cardinality(S)
<1>1. n \in Nat /\ ExistsBijection(1 .. n, S) BY FS_CardinalityType
<1>. HIDE DEF n
<1>2. PICK g : g \in Bijection(1 .. n, S) BY <1>1 DEF ExistsBijection
<1>3. g \in [1 .. n -> S] /\ IsInjective(g) BY <1>2 DEF Bijection, Injection, IsInjective
<1>4. f \in [1 .. n -> S] /\ IsInjective(f) BY <1>3 DEF SetToSeq, n
<1>. HIDE DEF f
<1>5. \A i, j \in 1 .. n : f[i] = f[j] => i = j BY <1>4 DEF IsInjective
<1>6. f \in Injection(1 .. n, S) BY <1>4, <1>5 DEF Injection
<1>7. Cardinality(1 .. n) = n BY <1>1, FS_Interval
<1>8. f \in Surjection(1 .. n, S) BY <1>6, <1>7, FS_Injection DEF n
<1>9. S = {f[i] : i \in 1 .. n} BY <1>8 DEF Surjection
<1>. QED BY <1>1, <1>4, <1>5, <1>9 DEF f, n

\* The steps that destroy the caches the pool no longer references.
LEMMA DestroyCachesSteps ==
  ASSUME NEW doomed \in SUBSET Cache
  PROVE  LET s == FlattenSeq([i \in 1 .. Cardinality(doomed) |-> DestroyCache(SetToSeq(doomed)[i])])
         IN  /\ s \in Seq(Steps) /\ WellFormed(s) /\ AllInner(s) /\ Fresh(s) /\ ~Evicts(s)
             /\ Final(s) = NoStep
             /\ Frees(s) = doomed
             /\ Deletes(s) = {}
<1>. DEFINE f == SetToSeq(doomed)
            n == Cardinality(doomed)
            ss == [i \in 1 .. n |-> DestroyCache(f[i])]
<1>1. /\ n \in Nat /\ f \in [1 .. n -> doomed]
      /\ \A i, j \in 1 .. n : f[i] = f[j] => i = j
      /\ doomed = {f[i] : i \in 1 .. n}
  BY CachesFinite, SetToSeqLists
<1>. HIDE DEF f, n
<1>2. ASSUME NEW i \in 1 .. n
      PROVE  /\ ss[i] \in Seq(Steps) /\ WellFormed(ss[i]) /\ AllInner(ss[i]) /\ ss[i] # << >>
             /\ Fresh(ss[i]) /\ ~Evicts(ss[i]) /\ Frees(ss[i]) = {f[i]} /\ Deletes(ss[i]) = {}
  <2>1. f[i] \in Cache /\ ss[i] = DestroyCache(f[i]) BY <1>1
  <2>. QED BY <2>1, DestroyCacheSteps
<1>3. ss \in [1 .. n -> Seq(Steps)] BY <1>2
<1>. HIDE DEF ss
<1>. DEFINE s == FlattenSeq(ss)
<1>4. /\ s \in Seq(Steps) /\ WellFormed(s) /\ AllInner(s) /\ Fresh(s) /\ ~Evicts(s)
      /\ Final(s) = NoStep
      /\ \A x : x \in Frees(s) <=> \E i \in 1 .. n : x \in Frees(ss[i])
      /\ \A x : x \in Deletes(s) <=> \E i \in 1 .. n : x \in Deletes(ss[i])
  <2>1. \A i, j \in 1 .. n : i # j => /\ Frees(ss[i]) \cap Frees(ss[j]) = {}
                                    /\ Deletes(ss[i]) \cap Deletes(ss[j]) = {}
    BY <1>1, <1>2
  <2>. QED BY <1>1, <1>2, <1>3, <2>1, FlattenSteps
<1>. HIDE DEF s
<1>5. Frees(s) = doomed
  <2>0. \A i \in 1 .. n : \A x : x \in Frees(ss[i]) <=> x = f[i] BY <1>2
  <2>1. \A x : x \in Frees(s) <=> \E i \in 1 .. n : x = f[i] BY <1>4, <2>0
  <2>2. \A x : x \in doomed <=> \E i \in 1 .. n : x = f[i] BY <1>1
  <2>. QED BY <2>1, <2>2
<1>6. Deletes(s) = {} BY <1>2, <1>4
<1>. QED BY <1>4, <1>5, <1>6 DEF f, n, ss, s

\* No entry is in the queue twice.
Distinct(s) == \A i, j \in 1 .. Len(s) : s[i] = s[j] => i = j
Members(s) == {s[i] : i \in 1 .. Len(s)}

\* What UnlinkListNode leaves of the queue.
LEMMA UnlinkedQueue ==
  ASSUME NEW es, queue \in Seq(Entry), Distinct(queue)
  PROVE  /\ Unlinked(es) \in Seq(Entry) /\ Distinct(Unlinked(es))
         /\ Members(Unlinked(es)) = Members(queue) \ es
<1>. DEFINE n == Len(queue)
            ss == [i \in 1 .. n |-> IF queue[i] \in es THEN << >> ELSE << queue[i] >>]
<1>1. n \in Nat /\ \A i \in 1 .. n : queue[i] \in Entry BY ElementOfSeq
<1>2. ss \in [1 .. n -> Seq(Entry)]
  <2>1. \A i \in 1 .. n : << >> \in Seq(Entry) /\ << queue[i] >> \in Seq(Entry) BY <1>1
  <2>. QED BY <2>1
<1>3. Unlinked(es) = FlattenSeq(ss) BY DEF Unlinked
<1>4. \A i \in 1 .. n : ss[i] = IF queue[i] \in es THEN << >> ELSE << queue[i] >> OBVIOUS
<1>5. \A i, j \in 1 .. n : queue[i] = queue[j] => i = j BY DEF Distinct
<1>6. Members(queue) = {queue[i] : i \in 1 .. n} BY DEF Members
<1>. HIDE DEF n, ss
<1>7. CASE n = 0
  <2>1. ss = << >> /\ 1 .. n = {} BY <1>2, <1>7
  <2>2. FlattenSeq(ss) = << >> BY <2>1 DEF FlattenSeq
  <2>. QED BY <1>3, <1>6, <2>1, <2>2 DEF Distinct, Members
<1>8. CASE n # 0
  <2>0. PICK f : Flattens(Entry, n, ss, f) BY <1>1, <1>2, <1>8, FlattenUnfolds
  <2>1. /\ f \in [1 .. n -> Seq(Entry)] /\ f[1] = ss[1]
        /\ \A i \in 1 .. n - 1 : f[i + 1] = f[i] \o ss[i + 1]
        /\ FlattenSeq(ss) = f[n]
    BY <2>0 DEF Flattens
  <2>. DEFINE Good(i) == /\ Distinct(f[i])
                         /\ Members(f[i]) = {queue[j] : j \in 1 .. i} \ es
              Q == {i \in 1 .. n : Good(i)}
  <2>2. 1 \in Q
    <3>1. 1 .. 1 = {1} /\ 1 \in 1 .. n BY <1>1, <1>8
    <3>2. f[1] = IF queue[1] \in es THEN << >> ELSE << queue[1] >> BY <1>4, <2>1, <3>1
    <3>3. CASE queue[1] \in es BY <3>1, <3>2, <3>3 DEF Distinct, Members
    <3>4. CASE queue[1] \notin es
      <4>1. Len(f[1]) = 1 /\ f[1][1] = queue[1] BY <3>2, <3>4
      <4>2. Distinct(f[1]) /\ Members(f[1]) = {queue[1]} BY <3>1, <4>1 DEF Distinct, Members
      <4>. QED BY <3>1, <3>4, <4>2
    <3>. QED BY <3>3, <3>4
  <2>3. ASSUME NEW i \in 1 .. n - 1, i \in Q PROVE i + 1 \in Q
    <3>1. i + 1 \in 1 .. n /\ i \in 1 .. n /\ Good(i) BY <1>1, <2>3
    <3>2. f[i] \in Seq(Entry) /\ f[i + 1] = f[i] \o ss[i + 1] BY <2>1, <3>1
    <3>3. 1 .. i + 1 = 1 .. i \cup {i + 1} /\ \A j \in 1 .. i : j \in 1 .. n /\ j # i + 1
      BY <1>1, <3>1
    <3>4. {queue[j] : j \in 1 .. i + 1} = {queue[j] : j \in 1 .. i} \cup {queue[i + 1]} BY <3>3
    <3>5. queue[i + 1] \notin {queue[j] : j \in 1 .. i} BY <1>5, <3>1, <3>3
    <3>6. Good(i + 1)
      <4>1. CASE queue[i + 1] \in es
        <5>1. f[i + 1] = f[i]
          <6>1. ss[i + 1] = << >> BY <1>4, <3>1, <4>1
          <6>. QED BY <3>2, <6>1, ConcatEmptySeq
        <5>. QED BY <3>1, <3>4, <4>1, <5>1
      <4>2. CASE queue[i + 1] \notin es
        <5>. DEFINE q == f[i]
                    x == queue[i + 1]
                    w == Append(q, x)
        <5>1. f[i + 1] = w /\ x \in Entry
          <6>1. ss[i + 1] = << x >> /\ x \in Entry BY <1>1, <1>4, <3>1, <4>2
          <6>. QED BY <3>2, <6>1
        <5>2. /\ w \in Seq(Entry) /\ Len(w) = Len(q) + 1 /\ Len(q) \in Nat
              /\ \A k \in 1 .. Len(q) : w[k] = q[k]
              /\ w[Len(q) + 1] = x
          BY <3>2, <5>1, AppendProperties
        <5>3. Distinct(q) /\ Members(q) = {queue[j] : j \in 1 .. i} \ es BY <3>1
        <5>. HIDE DEF q, x, w
        <5>4. 1 .. Len(w) = 1 .. Len(q) \cup {Len(q) + 1} BY <5>2
        <5>5. Members(w) = Members(q) \cup {x} BY <5>2, <5>4 DEF Members
        <5>6. x \notin Members(q) BY <3>5, <5>3 DEF x
        <5>7. Distinct(w) BY <5>2, <5>3, <5>4, <5>6 DEF Distinct, Members
        <5>. QED BY <3>4, <4>2, <5>1, <5>3, <5>5, <5>7 DEF x
      <4>. QED BY <4>1, <4>2
    <3>. HIDE DEF Good
    <3>. QED BY <3>1, <3>6
  <2>4. n \in Q
    <3>. HIDE DEF Q
    <3>1. \A i \in 1 .. n : i \in Q BY <1>1, <2>2, <2>3, Induction
    <3>. QED BY <1>1, <1>8, <3>1
  <2>5. Good(n) /\ f[n] \in Seq(Entry) BY <1>1, <1>8, <2>1, <2>4
  <2>. QED BY <1>3, <1>6, <2>1, <2>5
<1>. QED BY <1>7, <1>8

-----------------------------------------------------------------------------
(* total_bytes_: what the fold of SumFunctionOnSet computes.               *)

\* Induction over the subsets of a finite set.
LEMMA SubsetInduction ==
  ASSUME NEW D, IsFiniteSet(D), NEW Q,
         \A s \in SUBSET D : (\A r \in SUBSET s : r # s => r \in Q) => s \in Q
  PROVE  \A s \in SUBSET D : s \in Q
<1>. DEFINE B == {s \in SUBSET D : s \notin Q}
            T == {Cardinality(s) : s \in B}
<1>. SUFFICES ASSUME B # {} PROVE FALSE OBVIOUS
<1>1. \A s \in SUBSET D : IsFiniteSet(s) /\ Cardinality(s) \in Nat
  BY FS_Subset, FS_CardinalityType
<1>2. T \in SUBSET Nat /\ T # {} BY <1>1
<1>3. PICK m \in T : \A k \in T : m <= k
  <2>. HIDE DEF T
  <2>. QED BY <1>2, Smallest
<1>4. PICK s \in B : Cardinality(s) = m OBVIOUS
<1>5. ASSUME NEW r \in SUBSET s, r # s PROVE r \in Q
  <2>1. IsFiniteSet(s) /\ Cardinality(s) \in Nat /\ r \in SUBSET D /\ Cardinality(r) \in Nat
    BY <1>1
  <2>2. Cardinality(r) <= Cardinality(s) /\ Cardinality(r) # Cardinality(s)
    BY <1>5, <2>1, FS_Subset
  <2>3. Cardinality(r) < m BY <1>4, <2>1, <2>2
  <2>4. Cardinality(r) \notin T
    <3>. HIDE DEF T
    <3>. QED BY <1>2, <1>3, <2>1, <2>3
  <2>. QED BY <2>1, <2>4
<1>. QED BY <1>5

Picked(s) == CHOOSE x \in s : TRUE

\* g sums up f over every subset of D.
Sums(f, D, g) ==
    \A s \in SUBSET D : g[s] = IF s = {} THEN 0 ELSE f[Picked(s)] + g[s \ {Picked(s)}]

\* The member that the sum takes out first.
LEMMA PickedIn ==
  ASSUME NEW s, s # {}
  PROVE  Picked(s) \in s
BY DEF Picked

\* A table of partial sums is unique.
LEMMA SumsUnique ==
  ASSUME NEW D, IsFiniteSet(D), NEW f, NEW g, NEW h, Sums(f, D, g), Sums(f, D, h)
  PROVE  \A s \in SUBSET D : g[s] = h[s]
<1>. DEFINE Q == {s \in SUBSET D : g[s] = h[s]}
<1>1. ASSUME NEW s \in SUBSET D, \A r \in SUBSET s : r # s => r \in Q PROVE s \in Q
  <2>1. CASE s = {} BY <2>1 DEF Sums
  <2>2. CASE s # {}
    <3>1. Picked(s) \in s BY <2>2, PickedIn
    <3>2. s \ {Picked(s)} \in Q BY <1>1, <3>1
    <3>. QED BY <2>2, <3>2 DEF Sums
  <2>. QED BY <2>1, <2>2
<1>2. \A s \in SUBSET D : s \in Q
  <2>. HIDE DEF Q
  <2>. QED BY <1>1, SubsetInduction
<1>. QED BY <1>2

\* The partial sums of a subset.
LEMMA SumsPart ==
  ASSUME NEW D, NEW f, NEW g, Sums(f, D, g), NEW s \in SUBSET D
  PROVE  Sums(f, s, g)
BY DEF Sums

\* A table of partial sums exists.
LEMMA SumsExist ==
  ASSUME NEW D, IsFiniteSet(D), NEW f, f \in [D -> Nat]
  PROVE  \E g : Sums(f, D, g) /\ g \in [SUBSET D -> Nat]
<1>. DEFINE Is(s, g) == Sums(f, s, g) /\ g \in [SUBSET s -> Nat]
            Q == {s \in SUBSET D : \E g : Is(s, g)}
            G(r) == CHOOSE g : Is(r, g)
            V(r) == G(r)[r]
<1>1. ASSUME NEW s \in SUBSET D, \A r \in SUBSET s : r # s => r \in Q PROVE s \in Q
  <2>. DEFINE W == IF s = {} THEN 0 ELSE f[Picked(s)] + V(s \ {Picked(s)})
              h == [r \in SUBSET s |-> IF r = s THEN W ELSE V(r)]
  <2>1. ASSUME NEW r \in SUBSET s, r # s PROVE Is(r, G(r))
    <3>1. \E g : Is(r, g) BY <1>1, <2>1
    <3>. HIDE DEF Is
    <3>. QED BY <3>1
  <2>2. ASSUME NEW r \in SUBSET s, r # s PROVE V(r) \in Nat
    <3>1. G(r) \in [SUBSET r -> Nat] BY <2>1, <2>2
    <3>. HIDE DEF G
    <3>. QED BY <3>1
  <2>3. s # {} => Picked(s) \in s /\ s \ {Picked(s)} \in SUBSET s /\ s \ {Picked(s)} # s
    BY PickedIn
  <2>4. W \in Nat
    <3>. HIDE DEF V
    <3>. QED BY <2>2, <2>3
  <2>5. h \in [SUBSET s -> Nat]
    <3>. HIDE DEF V, W
    <3>. QED BY <2>2, <2>4
  <2>6. ASSUME NEW r \in SUBSET s, r # s, r # {}
        PROVE  V(r) = f[Picked(r)] + V(r \ {Picked(r)})
    <3>. DEFINE q == r \ {Picked(r)}
    <3>1. Picked(r) \in r /\ q \in SUBSET s /\ q # s /\ q \in SUBSET r BY <2>6, PickedIn
    <3>2. Is(r, G(r)) /\ Is(q, G(q)) BY <2>1, <2>6, <3>1
    <3>3. G(r)[r] = f[Picked(r)] + G(r)[q]
      <4>. HIDE DEF G
      <4>. QED BY <2>6, <3>2 DEF Sums
    <3>4. Sums(f, q, G(r))
      <4>. HIDE DEF G, q
      <4>. QED BY <3>1, <3>2, SumsPart
    <3>5. IsFiniteSet(q) BY <3>1, FS_Subset
    <3>6. G(r)[q] = G(q)[q]
      <4>. HIDE DEF G, q
      <4>. QED BY <3>2, <3>4, <3>5, SumsUnique
    <3>. QED BY <3>3, <3>6
  <2>7. ASSUME NEW r \in SUBSET s, r # s, r = {} PROVE V(r) = 0
    <3>1. Is(r, G(r)) BY <2>1, <2>7
    <3>. HIDE DEF G
    <3>. QED BY <2>7, <3>1 DEF Sums
  <2>8. Sums(f, s, h)
    <3>1. ASSUME NEW r \in SUBSET s
          PROVE  h[r] = IF r = {} THEN 0 ELSE f[Picked(r)] + h[r \ {Picked(r)}]
      <4>0. r # {} => Picked(r) \in r /\ r \ {Picked(r)} \in SUBSET s /\ r \ {Picked(r)} # s
        BY PickedIn
      <4>. HIDE DEF V
      <4>1. CASE r = s BY <4>0, <4>1
      <4>2. CASE r # s /\ r = {} BY <2>7, <4>2
      <4>3. CASE r # s /\ r # {}
        <5>1. h[r] = V(r) /\ h[r \ {Picked(r)}] = V(r \ {Picked(r)}) BY <4>0, <4>3
        <5>2. V(r) = f[Picked(r)] + V(r \ {Picked(r)}) BY <2>6, <4>3
        <5>. HIDE DEF h
        <5>. QED BY <4>3, <5>1, <5>2
      <4>. QED BY <4>1, <4>2, <4>3
    <3>. HIDE DEF h
    <3>. QED BY <3>1 DEF Sums
  <2>9. Is(s, h) BY <2>5, <2>8
  <2>. HIDE DEF Is, h
  <2>. QED BY <2>9
<1>2. D \in Q
  <2>. HIDE DEF Q
  <2>1. \A s \in SUBSET D : s \in Q BY <1>1, SubsetInduction
  <2>. QED BY <2>1
<1>. QED BY <1>2

\* One function has the sums over all sets of entries.
LEMMA SumIs ==
  ASSUME NEW f, f \in [Entry -> Nat]
  PROVE  \E h : /\ Sums(f, Entry, h) /\ h \in [SUBSET Entry -> Nat]
                /\ \A S \in SUBSET Entry : SumFunctionOnSet(f, S) = h[S]
<1>1. IsFiniteSet(Entry) BY EntriesFinite
<1>2. PICK h : Sums(f, Entry, h) /\ h \in [SUBSET Entry -> Nat] BY <1>1, SumsExist
<1>3. ASSUME NEW S \in SUBSET Entry PROVE SumFunctionOnSet(f, S) = h[S]
  <2>. DEFINE g == [s \in SUBSET S |-> h[s]]
  <2>1. g = [s \in SUBSET S |-> IF s = {} THEN 0
                                ELSE f[CHOOSE x \in s : TRUE] + g[s \ {CHOOSE x \in s : TRUE}]]
    <3>1. ASSUME NEW s \in SUBSET S
          PROVE  g[s] = IF s = {} THEN 0
                        ELSE f[CHOOSE x \in s : TRUE] + g[s \ {CHOOSE x \in s : TRUE}]
      <4>1. h[s] = IF s = {} THEN 0 ELSE f[Picked(s)] + h[s \ {Picked(s)}] BY <1>2 DEF Sums
      <4>2. s \ {Picked(s)} \in SUBSET S OBVIOUS
      <4>. QED BY <4>1, <4>2 DEF Picked
    <3>2. g = [s \in SUBSET S |-> g[s]] OBVIOUS
    <3>. HIDE DEF g
    <3>. QED BY <3>1, <3>2
  <2>. HIDE DEF g
  <2>2. PICK k : /\ k = [s \in SUBSET S |-> IF s = {} THEN 0
                            ELSE f[CHOOSE x \in s : TRUE] + k[s \ {CHOOSE x \in s : TRUE}]]
                 /\ SumFunctionOnSet(f, S) = k[S]
    BY <2>1, ZenonT(60) DEF SumFunctionOnSet, FoldFunctionOnSet, MapThenFoldSet
  <2>3. Sums(f, S, k) BY <2>2 DEF Sums, Picked
  <2>4. Sums(f, S, h) BY <1>2, SumsPart
  <2>5. IsFiniteSet(S) BY <1>1, FS_Subset
  <2>6. \A s \in SUBSET S : k[s] = h[s] BY <2>3, <2>4, <2>5, SumsUnique
  <2>. QED BY <2>2, <2>6
<1>. QED BY <1>2, <1>3

\* The sum over no entry, and over one entry more.
LEMMA SumFacts ==
  ASSUME NEW f, f \in [Entry -> Nat]
  PROVE  /\ SumFunctionOnSet(f, {}) = 0
         /\ \A S \in SUBSET Entry :
               /\ SumFunctionOnSet(f, S) \in Nat
               /\ \A e \in S : SumFunctionOnSet(f, S) = f[e] + SumFunctionOnSet(f, S \ {e})
<1>1. PICK h : /\ Sums(f, Entry, h) /\ h \in [SUBSET Entry -> Nat]
               /\ \A S \in SUBSET Entry : SumFunctionOnSet(f, S) = h[S]
  BY SumIs
<1>. DEFINE Q == {S \in SUBSET Entry : \A e \in S : h[S] = f[e] + h[S \ {e}]}
<1>2. ASSUME NEW s \in SUBSET Entry, \A r \in SUBSET s : r # s => r \in Q PROVE s \in Q
  <2>1. ASSUME NEW e \in s PROVE h[s] = f[e] + h[s \ {e}]
    <3>. DEFINE p == Picked(s)
    <3>1. p \in s BY PickedIn
    <3>2. h[s] = f[p] + h[s \ {p}] BY <1>1 DEF Sums
    <3>. HIDE DEF p
    <3>3. CASE e = p BY <3>2, <3>3
    <3>4. CASE e # p
      <4>1. s \ {p} \in Q /\ s \ {e} \in Q BY <1>2, <3>1
      <4>2. h[s \ {p}] = f[e] + h[(s \ {p}) \ {e}] BY <3>4, <4>1
      <4>3. h[s \ {e}] = f[p] + h[(s \ {e}) \ {p}] BY <3>1, <3>4, <4>1
      <4>4. (s \ {p}) \ {e} = (s \ {e}) \ {p} /\ (s \ {e}) \ {p} \in SUBSET Entry OBVIOUS
      <4>5. f[e] \in Nat /\ f[p] \in Nat /\ h[(s \ {e}) \ {p}] \in Nat BY <1>1, <3>1, <4>4
      <4>6. h[s \ {p}] = f[e] + h[(s \ {e}) \ {p}] BY <4>2, <4>4
      <4>. QED BY <3>2, <4>3, <4>5, <4>6
    <3>. QED BY <3>3, <3>4
  <2>. QED BY <2>1
<1>3. \A s \in SUBSET Entry : s \in Q
  <2>1. IsFiniteSet(Entry) BY EntriesFinite
  <2>. HIDE DEF Q
  <2>. QED BY <1>2, <2>1, SubsetInduction
<1>4. h[{}] = 0 BY <1>1 DEF Sums
<1>5. ASSUME NEW S \in SUBSET Entry
      PROVE  /\ SumFunctionOnSet(f, S) \in Nat
             /\ \A e \in S : SumFunctionOnSet(f, S) = f[e] + SumFunctionOnSet(f, S \ {e})
  <2>1. \A e \in S : h[S] = f[e] + h[S \ {e}] BY <1>3
  <2>2. \A e \in S : S \ {e} \in SUBSET Entry OBVIOUS
  <2>. QED BY <1>1, <2>1, <2>2
<1>. QED BY <1>1, <1>4, <1>5

\* Only the sizes of the entries of the set count.
LEMMA SumSame ==
  ASSUME NEW f, f \in [Entry -> Nat], NEW g, g \in [Entry -> Nat], NEW S \in SUBSET Entry,
         \A e \in S : f[e] = g[e]
  PROVE  SumFunctionOnSet(f, S) = SumFunctionOnSet(g, S)
<1>. DEFINE F(s) == SumFunctionOnSet(f, s)
            G(s) == SumFunctionOnSet(g, s)
            Q == {s \in SUBSET S : F(s) = G(s)}
<1>1. /\ F({}) = 0 /\ \A s \in SUBSET Entry : F(s) \in Nat /\ \A e \in s : F(s) = f[e] + F(s \ {e})
      /\ G({}) = 0 /\ \A s \in SUBSET Entry : G(s) \in Nat /\ \A e \in s : G(s) = g[e] + G(s \ {e})
  BY SumFacts
<1>. HIDE DEF F, G
<1>2. ASSUME NEW s \in SUBSET S, \A r \in SUBSET s : r # s => r \in Q PROVE s \in Q
  <2>1. CASE s = {} BY <1>1, <2>1
  <2>2. CASE s # {}
    <3>1. PICK e : e \in s BY <2>2
    <3>2. s \ {e} \in Q /\ s \in SUBSET Entry /\ f[e] = g[e] BY <1>2, <3>1
    <3>. QED BY <1>1, <3>1, <3>2
  <2>. QED BY <2>1, <2>2
<1>3. IsFiniteSet(S) BY EntriesFinite
<1>4. S \in Q
  <2>. HIDE DEF Q
  <2>1. \A s \in SUBSET S : s \in Q BY <1>2, <1>3, SubsetInduction
  <2>. QED BY <2>1
<1>. QED BY <1>4 DEF F, G

\* The sum over two disjoint sets.
LEMMA SumSplit ==
  ASSUME NEW f, f \in [Entry -> Nat], NEW S \in SUBSET Entry, NEW L \in SUBSET S
  PROVE  SumFunctionOnSet(f, S) = SumFunctionOnSet(f, L) + SumFunctionOnSet(f, S \ L)
<1>. DEFINE F(s) == SumFunctionOnSet(f, s)
            Q == {s \in SUBSET L : F(S) = F(s) + F(S \ s)}
<1>1. F({}) = 0 /\ \A s \in SUBSET Entry : F(s) \in Nat /\ \A e \in s : F(s) = f[e] + F(s \ {e})
  BY SumFacts
<1>. HIDE DEF F
<1>2. ASSUME NEW s \in SUBSET L, \A r \in SUBSET s : r # s => r \in Q PROVE s \in Q
  <2>1. CASE s = {}
    <3>1. S \ s = S BY <2>1
    <3>. QED BY <1>1, <2>1, <3>1
  <2>2. CASE s # {}
    <3>1. PICK e : e \in s BY <2>2
    <3>. DEFINE r == s \ {e}
                u == S \ r
    <3>2. r \in Q /\ s \in SUBSET Entry /\ e \in u /\ u \in SUBSET Entry /\ u \ {e} = S \ s
      BY <1>2, <3>1
    <3>3. r \in SUBSET Entry /\ S \ s \in SUBSET Entry /\ f[e] \in Nat BY <3>1
    <3>4. F(S) = F(r) + F(u) BY <3>2
    <3>5. F(s) = f[e] + F(r) BY <1>1, <3>1, <3>2
    <3>6. F(u) = f[e] + F(S \ s) BY <1>1, <3>2
    <3>7. F(r) \in Nat /\ F(S \ s) \in Nat BY <1>1, <3>3
    <3>8. F(S) = F(s) + F(S \ s) BY <3>3, <3>4, <3>5, <3>6, <3>7
    <3>. QED BY <3>8
  <2>. QED BY <2>1, <2>2
<1>3. IsFiniteSet(L) BY EntriesFinite
<1>4. L \in Q
  <2>. HIDE DEF Q
  <2>1. \A s \in SUBSET L : s \in Q BY <1>2, <1>3, SubsetInduction
  <2>. QED BY <2>1
<1>. QED BY <1>4 DEF F

-----------------------------------------------------------------------------
(* The inductive invariant.                                                *)

One(b) == IF b THEN 1 ELSE 0

Doing(t, op, x) == First(todo[t]) = Step(op, x)
Ends(t, op, x) == Final(todo[t]) = Step(op, x)

\* The steps of every thread are well formed.
TodoInv ==
    /\ todo \in [Thread -> Seq(Steps)]
    /\ \A t \in Thread : WellFormed(todo[t])

\* The holder of lru_mutex_ is evicting, and only it has victims.
LruInv ==
    /\ victims \in [Thread -> Seq(Victim)]
    /\ \A t \in Thread : /\ lru = t <=> Doing(t, "evict", None)
                         /\ victims[t] # << >> => lru = t
                         /\ Buffer(victims[t])

Holds(t) == HasPool(t) \/ held[t].cache # None \/ held[t].entry # None

\* What a thread that executes an operation still holds.
HeldAt(t) ==
    /\ todo[t] # << >> =>
          Holds(t) \/ Final(todo[t]).op \in {"cachedec", "poolweak", "poolzero", "entrylock"}
    /\ Ends(t, "poolzero", None) => ~held[t].strong
    /\ \A i \in Ident : Ends(t, "insert", i) => HasPool(t) /\ held[t].cache = None
    /\ \A e \in Entry :
          /\ Ends(t, "entrylock", e) => held[t].entry = None
          /\ Ends(t, "weaklock", e) => held[t].weakentry = None /\ Holds(t)
          /\ Ends(t, "unmark", e) \/ Ends(t, "unmarklock", e) => Holds(t)
          /\ Ends(t, "weakmark", e) => held[t].entry = e /\ held[t].weakentry = e
          /\ Ends(t, "init", e) \/ Ends(t, "initdone", e) => held[t].entry = e

HeldInv == \A t \in Thread : HeldAt(t)

\* Who counts: the pointers, and the operations that release one.
PoolUsers == {t \in Thread : held[t].strong \/ Ends(t, "poolzero", None)}
PoolWeakPtrs == {t \in Thread : held[t].weak}
PoolWeakReleases == {t \in Thread : Ends(t, "poolweak", None)}
UsedCaches == {c \in Cache : cache[c].strong > 0}
CachePtrs(c) == {t \in Thread : held[t].cache = c}
CacheReleases(c) == {t \in Thread : Ends(t, "cachedec", c)}
Users(e) == {t \in Thread : held[t].entry = e \/ Ends(t, "entrylock", e)}
UsedEntries(c) == {e \in Entry : entry[e].cache = c /\ Users(e) # {}}
WeakUsers(e) == {t \in Thread : held[t].weakentry = e \/ Ends(t, "weaklock", e)}
Unmarks(t, e) == Ends(t, "unmark", e) \/ Ends(t, "unmarklock", e)
Marks(t, e) == Ends(t, "weakmark", e)
Marked(e) ==
    \/ weak[e].n > 0 /\ weak[e].entry /\ \A t \in Thread : ~Marks(t, e)
    \/ \E t \in Thread : Unmarks(t, e)
IsPinned(c) == \E t \in Thread : Doing(t, "free", c)

PoolCount ==
    /\ pool.strong = Cardinality(PoolUsers)
    /\ pool.weak = Cardinality(PoolWeakPtrs) + Cardinality(PoolWeakReleases)
                   + One(pool.strong > 0) + Cardinality(UsedCaches)
    /\ pool.live <=> pool.weak > 0

CacheCount ==
    \A c \in Cache :
        cache[c].strong = Cardinality(CachePtrs(c)) + Cardinality(CacheReleases(c))
                          + Cardinality(UsedEntries(c))

EntryCount ==
    \A e \in Entry :
        entry[e].refs = 2 * Cardinality(Users(e)) + One(Marked(e))
                        + 2 * One(entry[e].listed /\ IsPinned(entry[e].cache))

WeakCount == \A e \in Entry : weak[e].n = Cardinality(WeakUsers(e))

\* A weak state lives as long as its entry or a weak reference, and is locked
\* by the thread that tells the entry that the last reference is gone.
WeakInv ==
    \A e \in Entry :
        /\ weak[e].st # "live" => weak[e] = [NoWeakState EXCEPT !.st = weak[e].st]
        /\ weak[e].st = "live" => weak[e].n > 0 \/ weak[e].entry
        /\ weak[e].entry => entry[e].st = "live"
        /\ entry[e].st = "live" => weak[e].st = "new" \/ (weak[e].st = "live" /\ weak[e].entry)
        /\ entry[e].st = "new" => weak[e].st = "new"
        /\ \A t \in Thread : weak[e].mutex = t <=> Unmarks(t, e)
        /\ weak[e].mutex # None => weak[e].n = 0 /\ weak[e].entry
        /\ \A t, u \in Thread : Marks(t, e) /\ Marks(u, e) => t = u

\* Who destroys an entry or a cache.
Removed(t) == Deletes(todo[t]) \cup ChosenIn(victims[t])
Killed(t) == Frees(todo[t]) \cup DoomedIn(victims[t])

RemoveInv ==
    /\ \A t, u \in Thread : t # u => Removed(t) \cap Removed(u) = {}
    /\ \A t \in Thread : Deletes(todo[t]) \cap ChosenIn(victims[t]) = {}
    /\ \A e \in Entry : (entry[e].st = "live" /\ ~entry[e].listed)
                            <=> \E t \in Thread : e \in Removed(t)
    /\ \A e \in Entry : entry[e].st = "live" /\ ~entry[e].listed => entry[e].refs = 0

KillInv ==
    /\ \A t, u \in Thread : t # u => Killed(t) \cap Killed(u) = {}
    /\ \A t \in Thread : Frees(todo[t]) \cap DoomedIn(victims[t]) = {}
    /\ \A c \in Cache : (cache[c].st = "live" /\ ShouldDelete(cache[c]))
                            <=> \E t \in Thread : c \in Killed(t)
    /\ \A t \in Thread : \A c \in DoomedIn(victims[t]) : cache[c].shards = 0

Inserting == {t \in Thread : Final(todo[t]).op = "insert"}

ObjectInv ==
    /\ \A c \in Cache : cache[c].st # "live" => cache[c] = [NoCache EXCEPT !.st = cache[c].st]
    /\ \A e \in Entry : entry[e].st # "live" => entry[e] = [NoEntry EXCEPT !.st = entry[e].st]
    /\ \A e \in Entry : entry[e].st = "live" => entry[e].cache \in Cache /\ entry[e].key \in Key
    /\ \A e \in Entry : entry[e].listed => entry[e].st = "live" /\ cache[entry[e].cache].st = "live"
    /\ Cardinality(FreshCaches) >= Cardinality(Inserting)

TableInv ==
    /\ \A c \in caches : cache[c].st = "live" /\ cache[c].ident # Anonymous
    /\ \A c, d \in caches : cache[c].ident = cache[d].ident => c = d
    /\ \A c \in Cache : cache[c].st = "live" /\ cache[c].ident # Anonymous
                        /\ ~ShouldDelete(cache[c]) => c \in caches
    /\ \A t \in Thread, c \in Cache : Doing(t, "pin", c) \/ Doing(t, "free", c) => c \notin caches
    /\ \A c \in Cache : cache[c].st = "live" /\ (\A t \in Thread : c \notin Killed(t)) =>
          cache[c].bit = One(c \in caches /\ pool.strong > 0)

ShardsOf(c) == {ShardForKey[entry[e].key] : e \in Listed(c)}

ShardInv == \A c \in Cache : ~IsPinned(c) => cache[c].shards = Cardinality(ShardsOf(c))

QueueInv ==
    /\ Distinct(queue)
    /\ \A e \in Members(queue) : entry[e].listed /\ ~IsPinned(entry[e].cache)
    /\ HasLruCache => \A e \in Entry : entry[e].listed /\ entry[e].refs = 0 => e \in Members(queue)

Counted == {e \in Entry : entry[e].listed /\ ~IsPinned(entry[e].cache)}

SizeInv ==
    /\ ~HasLruCache => \A e \in Entry : entry[e].bytes = 0
    /\ pool.total = TotalBytes(Counted)
    /\ pool.total <= pool.limit \/ queue = << >> \/ \E t \in Thread : Evicts(todo[t])

IInv ==
    /\ TypeOK /\ TodoInv /\ LruInv /\ HeldInv
    /\ PoolCount /\ CacheCount /\ EntryCount /\ WeakCount
    /\ WeakInv /\ RemoveInv /\ KillInv /\ ObjectInv /\ TableInv /\ ShardInv /\ QueueInv /\ SizeInv

-----------------------------------------------------------------------------
(* Counting.                                                               *)

\* Sets that agree on everything but x.
LEMMA CountChange ==
  ASSUME NEW U, IsFiniteSet(U), NEW S \in SUBSET U, NEW T \in SUBSET U, NEW x,
         \A u \in U : u # x => (u \in S <=> u \in T)
  PROVE  /\ Cardinality(S) \in Nat /\ Cardinality(T) \in Nat
         /\ Cardinality(T) = Cardinality(S) + One(x \in T) - One(x \in S)
<1>1. IsFiniteSet(S) /\ IsFiniteSet(T) /\ Cardinality(S) \in Nat /\ Cardinality(T) \in Nat
  BY FS_Subset, FS_CardinalityType
<1>2. CASE x \in S /\ x \in T
  <2>1. S = T BY <1>2
  <2>. QED BY <1>1, <1>2, <2>1 DEF One
<1>3. CASE x \notin S /\ x \notin T
  <2>1. S = T BY <1>3
  <2>. QED BY <1>1, <1>3, <2>1 DEF One
<1>4. CASE x \in S /\ x \notin T
  <2>1. T = S \ {x} BY <1>4
  <2>2. Cardinality(T) = Cardinality(S) - 1 BY <1>1, <1>4, <2>1, OneLess
  <2>. QED BY <1>1, <1>4, <2>2 DEF One
<1>5. CASE x \notin S /\ x \in T
  <2>1. T = S \cup {x} BY <1>5
  <2>2. Cardinality(T) = Cardinality(S) + 1 BY <1>1, <1>5, <2>1, OneMore
  <2>. QED BY <1>1, <1>5, <2>2 DEF One
<1>. QED BY <1>2, <1>3, <1>4, <1>5

\* A set of threads, of caches, of entries, of which one may come or go.
LEMMA ThreadsChange ==
  ASSUME NEW S \in SUBSET Thread, NEW T \in SUBSET Thread, NEW x,
         \A u \in Thread : u # x => (u \in S <=> u \in T)
  PROVE  Cardinality(T) = Cardinality(S) + One(x \in T) - One(x \in S)
<1>1. IsFiniteSet(Thread) BY ConstantsAssumption
<1>. QED BY <1>1, CountChange

\* Sets of caches that agree on everything but x.
LEMMA CachesChange ==
  ASSUME NEW S \in SUBSET Cache, NEW T \in SUBSET Cache, NEW x,
         \A u \in Cache : u # x => (u \in S <=> u \in T)
  PROVE  Cardinality(T) = Cardinality(S) + One(x \in T) - One(x \in S)
<1>1. IsFiniteSet(Cache) BY CachesFinite
<1>. QED BY <1>1, CountChange

\* Sets of entries that agree on everything but x.
LEMMA EntriesChange ==
  ASSUME NEW S \in SUBSET Entry, NEW T \in SUBSET Entry, NEW x,
         \A u \in Entry : u # x => (u \in S <=> u \in T)
  PROVE  Cardinality(T) = Cardinality(S) + One(x \in T) - One(x \in S)
<1>1. IsFiniteSet(Entry) BY EntriesFinite
<1>. QED BY <1>1, CountChange

Image(g, S) == {g[x] : x \in S}
Alike(g, S, e) == {x \in S : g[x] = g[e]}

\* The images of a set of which one element goes.
LEMMA ImageLess ==
  ASSUME NEW g, NEW S, IsFiniteSet(S), NEW e \in S
  PROVE  /\ Cardinality(Image(g, S)) \in Nat /\ Cardinality(Image(g, S)) > 0
         /\ Cardinality(Image(g, S \ {e})) = Cardinality(Image(g, S)) - One(Alike(g, S, e) = {e})
<1>. DEFINE I == {g[x] : x \in S}
            J == {g[x] : x \in S \ {e}}
            f == [x \in S |-> g[x]]
<1>1. f \in Surjection(S, I) BY DEF Surjection
<1>2. IsFiniteSet(I) /\ Cardinality(I) \in Nat
  <2>. HIDE DEF f, I
  <2>. QED BY <1>1, FS_Surjection, FS_CardinalityType
<1>3. g[e] \in I OBVIOUS
<1>4. Cardinality(I) # 0
  <2>. HIDE DEF I
  <2>. QED BY <1>2, <1>3, FS_EmptySet
<1>5. ASSUME {x \in S : g[x] = g[e]} = {e}
      PROVE  /\ Cardinality(I) \in Nat /\ Cardinality(I) > 0
             /\ Cardinality(J) = Cardinality(I) - One({x \in S : g[x] = g[e]} = {e})
  <2>1. J = I \ {g[e]} BY <1>5
  <2>2. Cardinality(J) = Cardinality(I) - 1
    <3>. HIDE DEF I, J
    <3>. QED BY <1>2, <1>3, <2>1, OneLess
  <2>3. One({x \in S : g[x] = g[e]} = {e}) = 1 BY <1>5 DEF One
  <2>. QED BY <1>2, <1>4, <2>2, <2>3
<1>6. ASSUME {x \in S : g[x] = g[e]} # {e}
      PROVE  /\ Cardinality(I) \in Nat /\ Cardinality(I) > 0
             /\ Cardinality(J) = Cardinality(I) - One({x \in S : g[x] = g[e]} = {e})
  <2>1. PICK y \in S : y # e /\ g[y] = g[e] BY <1>6
  <2>2. J = I BY <2>1
  <2>3. One({x \in S : g[x] = g[e]} = {e}) = 0 BY <1>6 DEF One
  <2>4. Cardinality(J) = Cardinality(I) - 0
    <3>. HIDE DEF I, J
    <3>. QED BY <1>2, <2>2
  <2>. QED BY <1>2, <1>4, <2>3, <2>4
<1>7. /\ Cardinality(I) \in Nat /\ Cardinality(I) > 0
      /\ Cardinality(J) = Cardinality(I) - One({x \in S : g[x] = g[e]} = {e})
  BY <1>5, <1>6
<1>8. I = Image(g, S) /\ J = Image(g, S \ {e}) /\ {x \in S : g[x] = g[e]} = Alike(g, S, e)
  BY DEF Image, Alike
<1>. HIDE DEF I, J
<1>. QED BY <1>7, <1>8

\* The counts are natural numbers, and zero when nothing is counted.
LEMMA Counts ==
  /\ Cardinality(PoolUsers) \in Nat /\ (Cardinality(PoolUsers) = 0 <=> PoolUsers = {})
  /\ Cardinality(PoolWeakPtrs) \in Nat /\ (Cardinality(PoolWeakPtrs) = 0 <=> PoolWeakPtrs = {})
  /\ Cardinality(PoolWeakReleases) \in Nat
  /\ (Cardinality(PoolWeakReleases) = 0 <=> PoolWeakReleases = {})
  /\ Cardinality(UsedCaches) \in Nat /\ (Cardinality(UsedCaches) = 0 <=> UsedCaches = {})
  /\ \A c : /\ Cardinality(CachePtrs(c)) \in Nat
            /\ Cardinality(CachePtrs(c)) = 0 <=> CachePtrs(c) = {}
            /\ Cardinality(CacheReleases(c)) \in Nat
            /\ Cardinality(CacheReleases(c)) = 0 <=> CacheReleases(c) = {}
            /\ Cardinality(UsedEntries(c)) \in Nat
            /\ Cardinality(UsedEntries(c)) = 0 <=> UsedEntries(c) = {}
  /\ \A e : /\ Cardinality(Users(e)) \in Nat
            /\ Cardinality(Users(e)) = 0 <=> Users(e) = {}
            /\ Cardinality(WeakUsers(e)) \in Nat
            /\ Cardinality(WeakUsers(e)) = 0 <=> WeakUsers(e) = {}
<1>1. PoolUsers \in SUBSET Thread /\ PoolWeakPtrs \in SUBSET Thread
      /\ PoolWeakReleases \in SUBSET Thread /\ UsedCaches \in SUBSET Cache
  BY DEF PoolUsers, PoolWeakPtrs, PoolWeakReleases, UsedCaches
<1>2. \A c : /\ CachePtrs(c) \in SUBSET Thread /\ CacheReleases(c) \in SUBSET Thread
             /\ UsedEntries(c) \in SUBSET Entry
  BY DEF CachePtrs, CacheReleases, UsedEntries
<1>3. \A e : Users(e) \in SUBSET Thread /\ WeakUsers(e) \in SUBSET Thread
  BY DEF Users, WeakUsers
<1>4. /\ \A S \in SUBSET Thread : Cardinality(S) \in Nat /\ (Cardinality(S) = 0 <=> S = {})
      /\ \A S \in SUBSET Cache : Cardinality(S) \in Nat /\ (Cardinality(S) = 0 <=> S = {})
      /\ \A S \in SUBSET Entry : Cardinality(S) \in Nat /\ (Cardinality(S) = 0 <=> S = {})
  BY ThreadsFinite, CachesFinite, EntriesFinite
<1>. QED BY <1>1, <1>2, <1>3, <1>4

-----------------------------------------------------------------------------
(* What the invariant says of objects in use.                              *)

\* What is left of an object that does not exist.
LEMMA NoObject ==
  ASSUME IInv
  PROVE  /\ \A c \in Cache : cache[c].st # "live" =>
                /\ cache[c].strong = 0 /\ cache[c].shards = 0 /\ cache[c].bit = 0
                /\ cache[c].ident = Anonymous
         /\ \A e \in Entry : entry[e].st # "live" =>
                /\ entry[e].refs = 0 /\ entry[e].bytes = 0 /\ ~entry[e].listed
                /\ entry[e].cache = None /\ entry[e].key = None /\ entry[e].init = "no"
         /\ \A e \in Entry : weak[e].st # "live" =>
                weak[e].n = 0 /\ ~weak[e].entry /\ weak[e].mutex = None
<1>1. ASSUME NEW c \in Cache, cache[c].st # "live"
      PROVE  /\ cache[c].strong = 0 /\ cache[c].shards = 0 /\ cache[c].bit = 0
             /\ cache[c].ident = Anonymous
  <2>1. cache[c] = [NoCache EXCEPT !.st = cache[c].st] BY <1>1 DEF IInv, ObjectInv
  <2>2. \A x : LET r == [NoCache EXCEPT !.st = x] IN
              r.strong = 0 /\ r.shards = 0 /\ r.bit = 0 /\ r.ident = Anonymous
    BY DEF NoCache
  <2>. QED BY <2>1, <2>2
<1>2. ASSUME NEW e \in Entry, entry[e].st # "live"
      PROVE  /\ entry[e].refs = 0 /\ entry[e].bytes = 0 /\ ~entry[e].listed
             /\ entry[e].cache = None /\ entry[e].key = None /\ entry[e].init = "no"
  <2>1. entry[e] = [NoEntry EXCEPT !.st = entry[e].st] BY <1>2 DEF IInv, ObjectInv
  <2>2. \A x : LET r == [NoEntry EXCEPT !.st = x] IN
              /\ r.refs = 0 /\ r.bytes = 0 /\ ~r.listed /\ r.cache = None /\ r.key = None
              /\ r.init = "no"
    BY DEF NoEntry
  <2>. QED BY <2>1, <2>2
<1>3. ASSUME NEW e \in Entry, weak[e].st # "live"
      PROVE  weak[e].n = 0 /\ ~weak[e].entry /\ weak[e].mutex = None
  <2>1. weak[e] = [NoWeakState EXCEPT !.st = weak[e].st] BY <1>3 DEF IInv, WeakInv
  <2>2. \A x : LET r == [NoWeakState EXCEPT !.st = x] IN r.n = 0 /\ ~r.entry /\ r.mutex = None
    BY DEF NoWeakState
  <2>. QED BY <2>1, <2>2
<1>. QED BY <1>1, <1>2, <1>3

\* A cache is referred to by its pointers and by the releases that are to come.
LEMMA Referred ==
  ASSUME IInv, NEW c \in Cache, CachePtrs(c) # {} \/ CacheReleases(c) # {}
  PROVE  cache[c].strong \in Nat /\ cache[c].strong > 0
<1>1. /\ Cardinality(CachePtrs(c)) \in Nat /\ Cardinality(CacheReleases(c)) \in Nat
      /\ Cardinality(UsedEntries(c)) \in Nat
      /\ Cardinality(CachePtrs(c)) # 0 \/ Cardinality(CacheReleases(c)) # 0
  BY Counts
<1>2. cache[c].strong = Cardinality(CachePtrs(c)) + Cardinality(CacheReleases(c)) + Cardinality(UsedEntries(c))
  BY DEF IInv, CacheCount
<1>. QED BY <1>1, <1>2

\* A cache with a strong reference is alive and is not destroyed.
LEMMA UsedCache ==
  ASSUME IInv, NEW c \in Cache, cache[c].strong > 0
  PROVE  /\ cache[c].st = "live" /\ ~ShouldDelete(cache[c]) /\ ~IsPinned(c)
         /\ \A t \in Thread : c \notin Killed(t)
<1>1. cache[c].st = "live" BY NoObject
<1>2. ~ShouldDelete(cache[c]) BY DEF IInv, TypeOK, ShouldDelete
<1>3. \A t \in Thread : c \notin Killed(t) BY <1>1, <1>2 DEF IInv, KillInv
<1>4. ASSUME NEW t \in Thread, Doing(t, "free", c) PROVE FALSE
  <2>1. todo[t] \in Seq(Steps) /\ WellFormed(todo[t]) BY DEF IInv, TodoInv
  <2>2. todo[t] # << >> BY <1>4, StepEq DEF Doing, First, NoStep
  <2>3. c \in Frees(todo[t]) BY <1>4, <2>1, <2>2, Pop, StepEq DEF Doing
  <2>. QED BY <1>3, <2>3 DEF Killed
<1>. QED BY <1>1, <1>2, <1>3, <1>4 DEF IsPinned

\* An entry with a strong reference is in its cache, which has one too.
LEMMA UsedEntry ==
  ASSUME IInv, NEW e \in Entry, Users(e) # {}
  PROVE  /\ entry[e].st = "live" /\ entry[e].listed /\ entry[e].refs >= 2
         /\ entry[e].cache \in Cache /\ entry[e].key \in Key
         /\ cache[entry[e].cache].strong > 0
         /\ e \in UsedEntries(entry[e].cache)
         /\ \A t \in Thread : e \notin Removed(t)
<1>1. Cardinality(Users(e)) \in Nat \ {0} BY Counts
<1>2. entry[e].refs >= 2
  <2>1. entry[e].refs = 2 * Cardinality(Users(e)) + One(Marked(e))
                        + 2 * One(entry[e].listed /\ IsPinned(entry[e].cache))
    BY DEF IInv, EntryCount
  <2>2. One(Marked(e)) \in {0, 1} /\ One(entry[e].listed /\ IsPinned(entry[e].cache)) \in {0, 1}
    BY DEF One
  <2>. QED BY <1>1, <2>1, <2>2
<1>3. entry[e].st = "live" BY <1>2, NoObject
<1>4. entry[e].cache \in Cache /\ entry[e].key \in Key BY <1>3 DEF IInv, ObjectInv
<1>5. entry[e].listed BY <1>2, <1>3 DEF IInv, RemoveInv
<1>6. e \in UsedEntries(entry[e].cache) BY DEF UsedEntries
<1>7. cache[entry[e].cache].strong > 0
  <2>1. Cardinality(UsedEntries(entry[e].cache)) \in Nat \ {0} BY <1>6, Counts
  <2>2. /\ Cardinality(CachePtrs(entry[e].cache)) \in Nat
        /\ Cardinality(CacheReleases(entry[e].cache)) \in Nat
    BY Counts
  <2>3. cache[entry[e].cache].strong = Cardinality(CachePtrs(entry[e].cache))
            + Cardinality(CacheReleases(entry[e].cache)) + Cardinality(UsedEntries(entry[e].cache))
    BY <1>4 DEF IInv, CacheCount
  <2>. QED BY <2>1, <2>2, <2>3
<1>8. \A t \in Thread : e \notin Removed(t) BY <1>5 DEF IInv, RemoveInv
<1>. QED BY <1>2, <1>3, <1>4, <1>5, <1>6, <1>7, <1>8

\* An entry whose count includes a weak reference is in its cache.
LEMMA MarkedEntry ==
  ASSUME IInv, NEW e \in Entry, entry[e].refs > 0
  PROVE  /\ entry[e].st = "live" /\ entry[e].listed
         /\ entry[e].cache \in Cache /\ entry[e].key \in Key
         /\ cache[entry[e].cache].st = "live"
         /\ \A t \in Thread : e \notin Removed(t)
<1>1. entry[e].st = "live" BY NoObject
<1>2. entry[e].cache \in Cache /\ entry[e].key \in Key BY <1>1 DEF IInv, ObjectInv
<1>3. entry[e].listed BY <1>1 DEF IInv, RemoveInv
<1>4. \A t \in Thread : e \notin Removed(t) BY <1>3 DEF IInv, RemoveInv
<1>. QED BY <1>1, <1>2, <1>3, <1>4 DEF IInv, ObjectInv

\* The pool lives as long as something refers to it.
LEMMA PoolLives ==
  ASSUME IInv, NEW t \in Thread,
         \/ HasPool(t) \/ held[t].cache # None \/ held[t].entry # None
         \/ Final(todo[t]).op \in {"cachedec", "poolweak", "poolzero", "entrylock"}
         \/ todo[t] # << >>
  PROVE  pool.live /\ pool.weak > 0
<1>0. /\ Cardinality(PoolUsers) \in Nat /\ Cardinality(PoolWeakPtrs) \in Nat
      /\ Cardinality(PoolWeakReleases) \in Nat /\ Cardinality(UsedCaches) \in Nat
  BY Counts
<1>1. /\ pool.strong = Cardinality(PoolUsers)
      /\ pool.weak = Cardinality(PoolWeakPtrs) + Cardinality(PoolWeakReleases)
                     + One(pool.strong > 0) + Cardinality(UsedCaches)
      /\ pool.live <=> pool.weak > 0
  BY DEF IInv, PoolCount
<1>2. One(pool.strong > 0) \in {0, 1} /\ (pool.strong > 0 => One(pool.strong > 0) = 1)
  BY DEF One
<1>3. ASSUME PoolUsers # {} PROVE pool.weak > 0
  <2>1. Cardinality(PoolUsers) # 0 BY <1>3, Counts
  <2>. QED BY <1>0, <1>1, <1>2, <2>1
<1>4. ASSUME PoolWeakPtrs # {} PROVE pool.weak > 0
  <2>1. Cardinality(PoolWeakPtrs) # 0 BY <1>4, Counts
  <2>. QED BY <1>0, <1>1, <1>2, <2>1
<1>5. ASSUME PoolWeakReleases # {} PROVE pool.weak > 0
  <2>1. Cardinality(PoolWeakReleases) # 0 BY <1>5, Counts
  <2>. QED BY <1>0, <1>1, <1>2, <2>1
<1>6. ASSUME NEW c \in Cache, cache[c].strong > 0 PROVE pool.weak > 0
  <2>1. UsedCaches # {} BY <1>6 DEF UsedCaches
  <2>2. Cardinality(UsedCaches) # 0 BY <2>1, Counts
  <2>. QED BY <1>0, <1>1, <1>2, <2>2
<1>7. ASSUME NEW c \in Cache, CachePtrs(c) # {} \/ CacheReleases(c) # {} PROVE pool.weak > 0
  BY <1>6, <1>7, Referred
<1>8. ASSUME NEW e \in Entry, Users(e) # {} PROVE pool.weak > 0 BY <1>6, <1>8, UsedEntry
<1>9. todo[t] # << >> => Holds(t) \/ Final(todo[t]).op \in {"cachedec", "poolweak", "poolzero", "entrylock"}
  BY DEF IInv, HeldInv, HeldAt
<1>10. CASE HasPool(t) BY <1>1, <1>3, <1>4, <1>10 DEF HasPool, PoolUsers, PoolWeakPtrs
<1>11. CASE held[t].cache # None
  <2>1. held[t].cache \in Cache BY <1>11 DEF IInv, TypeOK
  <2>. QED BY <1>1, <1>7, <2>1 DEF CachePtrs
<1>12. CASE held[t].entry # None
  <2>1. held[t].entry \in Entry BY <1>12 DEF IInv, TypeOK
  <2>. QED BY <1>1, <1>8, <2>1 DEF Users
<1>13. CASE Final(todo[t]).op \in {"cachedec", "poolweak", "poolzero", "entrylock"}
  <2>1. Final(todo[t]) \in Steps
    <3>1. todo[t] \in Seq(Steps) BY DEF IInv, TodoInv
    <3>2. todo[t] # << >> /\ Final(todo[t]) = todo[t][Len(todo[t])]
      BY <1>13, StepEq DEF Final, NoStep
    <3>3. Len(todo[t]) \in 1 .. Len(todo[t]) BY <3>1, <3>2
    <3>. QED BY <3>1, <3>2, <3>3, ElementOfSeq
  <2>2. CASE Final(todo[t]).op = "cachedec"
    BY <1>1, <1>7, <2>1, <2>2, StepFields DEF CacheReleases, Ends
  <2>3. CASE Final(todo[t]).op = "poolweak"
    BY <1>1, <1>5, <2>1, <2>3, StepFields DEF PoolWeakReleases, Ends
  <2>4. CASE Final(todo[t]).op = "poolzero"
    BY <1>1, <1>3, <2>1, <2>4, StepFields DEF PoolUsers, Ends
  <2>5. CASE Final(todo[t]).op = "entrylock"
    BY <1>1, <1>8, <2>1, <2>5, StepFields DEF Users, Ends
  <2>. QED BY <1>13, <2>2, <2>3, <2>4, <2>5
<1>. QED BY <1>9, <1>10, <1>11, <1>12, <1>13 DEF Holds

-----------------------------------------------------------------------------
(* What a step does to the steps that are left.                            *)

OnlyTodo(t) ==
    /\ todo' \in [Thread -> Seq(Steps)] /\ WellFormed(todo'[t])
    /\ \A u \in Thread : u # t => todo'[u] = todo[u]

\* The next and the last step of t, and what t destroys, before and after.
From(t, first, final, frees, deletes, evicts) ==
    /\ First(todo[t]) = first /\ Final(todo[t]) = final
    /\ Frees(todo[t]) = frees /\ Deletes(todo[t]) = deletes /\ (Evicts(todo[t]) <=> evicts)

\* No step.
LEMMA NoStepIs == NoStep.op = "none" /\ NoStep \notin Steps
<1>1. NoStep.op = "none" BY StepEq DEF NoStep
<1>2. ASSUME NoStep \in Steps PROVE FALSE
  <2>1. PICK op, x : /\ NoStep = Step(op, x)
                     /\ op \in {"lru", "evict", "relock", "poolweak", "poolzero", "unlist", "pin",
                                "free", "cachedec", "delete", "entrylock", "weakmark", "weaklock",
                                "unmark", "unmarklock", "init", "initdone", "insert"}
    BY <1>2 DEF Steps, StepsOn
  <2>. QED BY <1>1, <2>1, StepEq
<1>. QED BY <1>1, <1>2

\* A piece of a destruction followed by what was left.
LEMMA Join ==
  ASSUME NEW u \in Seq(Steps), NEW v \in Seq(Steps), WellFormed(u), AllInner(u), WellFormed(v),
         Fresh(v), Final(v).op \in Follows,
         Frees(u) \cap Frees(v) = {}, Deletes(u) \cap Deletes(v) = {}
  PROVE  LET s == u \o v
         IN  /\ s \in Seq(Steps) /\ WellFormed(s) /\ (AllInner(v) => AllInner(s))
             /\ First(s) = IF u = << >> THEN First(v) ELSE First(u)
             /\ Final(s) = Final(v)
             /\ Frees(s) = Frees(u) \cup Frees(v) /\ Deletes(s) = Deletes(u) \cup Deletes(v)
             /\ (Evicts(s) <=> Evicts(u) \/ Evicts(v))
             /\ (Fresh(u) => Fresh(s)) /\ (u # << >> => s # << >>)
<1>1. WellFormed(u \o v) BY ConcatWellFormed
<1>2. /\ u \o v \in Seq(Steps)
      /\ u \o v = << >> <=> u = << >> /\ v = << >>
      /\ First(u \o v) = IF u = << >> THEN First(v) ELSE First(u)
      /\ Final(u \o v) = Final(v)
      /\ AllInner(v) => AllInner(u \o v)
      /\ Frees(u \o v) = Frees(u) \cup Frees(v)
      /\ Deletes(u \o v) = Deletes(u) \cup Deletes(v)
      /\ Evicts(u \o v) <=> Evicts(u) \/ Evicts(v)
  BY Concat
<1>3. Fresh(u) => Fresh(u \o v) BY <1>2 DEF Fresh
<1>. QED BY <1>1, <1>2, <1>3

\* The step at the front.
LEMMA AtFirst ==
  ASSUME TodoInv, NEW t \in Thread, NEW op, At(t, op)
  PROVE  /\ todo[t] \in Seq(Steps) /\ todo[t] # << >> /\ WellFormed(todo[t])
         /\ First(todo[t]) = Step(op, Arg(t)) /\ First(todo[t]) \in Steps
         /\ First(todo[t]).op = op /\ First(todo[t]).x = Arg(t)
<1>1. todo[t] \in Seq(Steps) /\ todo[t] # << >> /\ WellFormed(todo[t]) BY DEF TodoInv, At
<1>2. Head(todo[t]) = First(todo[t]) BY <1>1 DEF First
<1>3. First(todo[t]) \in Steps BY <1>1, Pop
<1>4. First(todo[t]).op = op /\ First(todo[t]).x = Arg(t) BY <1>2 DEF At, Arg
<1>. QED BY <1>1, <1>3, <1>4, StepFields

\* The next step of a thread.
LEMMA FirstAt ==
  ASSUME NEW t, NEW op, NEW x, First(todo[t]) = Step(op, x), op # "none"
  PROVE  todo[t] # << >>
BY StepEq DEF First, NoStep

\* A step of a destruction is over.
LEMMA Popped ==
  ASSUME TodoInv, NEW t \in Thread, NEW op \in Inner, At(t, op), Return(t)
  PROVE  /\ OnlyTodo(t) /\ First(todo[t]) = Step(op, Arg(t)) /\ todo[t] # << >>
         /\ Final(todo'[t]) = Final(todo[t])
         /\ Frees(todo'[t]) = IF op = "free" THEN Frees(todo[t]) \ {Arg(t)} ELSE Frees(todo[t])
         /\ Deletes(todo'[t]) = IF op = "delete" THEN Deletes(todo[t]) \ {Arg(t)}
                                ELSE Deletes(todo[t])
         /\ op # "evict" => (Evicts(todo'[t]) <=> Evicts(todo[t]))
         /\ op \notin {"unlist", "pin", "lru"} => Fresh(todo'[t])
         /\ op = "unlist" => First(todo'[t]) = Step("pin", Arg(t)) /\ Arg(t) \in Frees(todo[t])
         /\ op = "pin" => First(todo'[t]) = Step("free", Arg(t)) /\ Arg(t) \in Frees(todo[t])
         /\ op = "free" => Arg(t) \in Frees(todo[t])
         /\ op = "delete" => Arg(t) \in Deletes(todo[t])
         /\ op = "lru" => First(todo'[t]) = Step("evict", None)
         /\ op \in {"lru", "evict"} => Evicts(todo[t])
<1>1. /\ todo[t] \in Seq(Steps) /\ todo[t] # << >> /\ WellFormed(todo[t])
      /\ First(todo[t]) = Step(op, Arg(t)) /\ First(todo[t]) \in Steps
      /\ First(todo[t]).op = op /\ First(todo[t]).x = Arg(t)
  BY AtFirst
<1>2. Tail(todo[t]) \in Seq(Steps) BY <1>1, Pop
<1>3. todo' = [todo EXCEPT ![t] = Tail(todo[t])] BY <1>2, ConcatEmptySeq DEF Return, Goto
<1>4. /\ todo' \in [Thread -> Seq(Steps)] /\ todo'[t] = Tail(todo[t])
      /\ \A u \in Thread : u # t => todo'[u] = todo[u]
  BY <1>2, <1>3 DEF TodoInv
<1>. HIDE DEF Inner
<1>. QED BY <1>1, <1>4, Pop DEF OnlyTodo

\* The steps of DestroyEntries take the place of the step at the front.
LEMMA Pushed ==
  ASSUME TodoInv, NEW t \in Thread, At(t, "evict"), NEW s \in Seq(Steps), Goto(t, s),
         WellFormed(s), AllInner(s), Fresh(s),
         Frees(s) \cap Frees(todo[t]) = {}, Deletes(s) \cap Deletes(todo[t]) = {}
  PROVE  /\ OnlyTodo(t) /\ First(todo[t]) = Step("evict", Arg(t)) /\ todo[t] # << >>
         /\ Final(todo'[t]) = Final(todo[t])
         /\ Frees(todo'[t]) = Frees(s) \cup Frees(todo[t])
         /\ Deletes(todo'[t]) = Deletes(s) \cup Deletes(todo[t])
         /\ Evicts(s) => Evicts(todo'[t])
         /\ Fresh(todo'[t])
<1>. DEFINE r == Tail(todo[t])
<1>1. /\ todo[t] \in Seq(Steps) /\ todo[t] # << >> /\ WellFormed(todo[t])
      /\ First(todo[t]) = Step("evict", Arg(t)) /\ First(todo[t]).op = "evict"
  BY AtFirst
<1>2. /\ r \in Seq(Steps) /\ WellFormed(r) /\ Final(r) = Final(todo[t]) /\ Final(r).op \in Follows
      /\ Frees(r) = Frees(todo[t]) /\ Deletes(r) = Deletes(todo[t]) /\ Fresh(r)
  BY <1>1, Pop DEF Inner
<1>. HIDE DEF r
<1>3. /\ s \o r \in Seq(Steps) /\ WellFormed(s \o r)
      /\ Final(s \o r) = Final(r)
      /\ Frees(s \o r) = Frees(s) \cup Frees(r) /\ Deletes(s \o r) = Deletes(s) \cup Deletes(r)
      /\ (Evicts(s \o r) <=> Evicts(s) \/ Evicts(r))
      /\ Fresh(s \o r)
  BY <1>2, Join
<1>4. todo' = [todo EXCEPT ![t] = s \o r] BY DEF Goto, r
<1>5. /\ todo' \in [Thread -> Seq(Steps)] /\ todo'[t] = s \o r
      /\ \A u \in Thread : u # t => todo'[u] = todo[u]
  BY <1>3, <1>4 DEF TodoInv
<1>. QED BY <1>1, <1>2, <1>3, <1>5 DEF OnlyTodo

\* The last step of an operation is replaced.
LEMMA Replaced ==
  ASSUME TodoInv, NEW t \in Thread, NEW op, op \notin Inner, At(t, op), NEW s \in Seq(Steps),
         WellFormed(s), Goto(t, s)
  PROVE  /\ From(t, Step(op, Arg(t)), Step(op, Arg(t)), {}, {}, FALSE)
         /\ Step(op, Arg(t)) \in Steps /\ todo[t] # << >>
         /\ OnlyTodo(t) /\ todo'[t] = s
<1>1. /\ todo[t] \in Seq(Steps) /\ todo[t] # << >> /\ WellFormed(todo[t])
      /\ First(todo[t]) = Step(op, Arg(t)) /\ First(todo[t]) \in Steps
      /\ First(todo[t]).op = op /\ First(todo[t]).x = Arg(t)
  BY AtFirst
<1>. DEFINE a == First(todo[t])
<1>2. Tail(todo[t]) = << >> /\ todo[t] = << a >> /\ Final(todo[t]) = a BY <1>1, Pop
<1>. HIDE DEF a
<1>3. a.op \notin {"unlist", "pin", "lru", "free", "delete", "evict"} /\ a \in Steps
  BY <1>1 DEF a, Inner
<1>4. Frees(todo[t]) = {} /\ Deletes(todo[t]) = {} /\ ~Evicts(todo[t]) BY <1>2, <1>3, Single
<1>5. todo' = [todo EXCEPT ![t] = s]
  <2>1. s \o << >> = s BY ConcatEmptySeq
  <2>. QED BY <1>2, <2>1 DEF Goto
<1>6. /\ todo' \in [Thread -> Seq(Steps)] /\ todo'[t] = s
      /\ \A u \in Thread : u # t => todo'[u] = todo[u]
  BY <1>5 DEF TodoInv
<1>. QED BY <1>1, <1>2, <1>4, <1>6 DEF OnlyTodo, From, a

\* An operation begins.
LEMMA Started ==
  ASSUME TodoInv, NEW t \in Thread, Idle(t), NEW s \in Seq(Steps), WellFormed(s), Start(t, s)
  PROVE  /\ From(t, NoStep, NoStep, {}, {}, FALSE)
         /\ OnlyTodo(t) /\ todo'[t] = s /\ todo[t] = << >>
<1>1. /\ todo' \in [Thread -> Seq(Steps)] /\ todo'[t] = s
      /\ \A u \in Thread : u # t => todo'[u] = todo[u]
  BY DEF TodoInv, Start
<1>2. todo[t] = << >> BY DEF Idle
<1>. QED BY <1>1, <1>2, Empty DEF OnlyTodo, From

\* Nothing begins and nothing is over.
LEMMA Stayed ==
  ASSUME TodoInv, NEW t \in Thread, UNCHANGED todo
  PROVE  OnlyTodo(t) /\ todo'[t] = todo[t]
BY DEF TodoInv, OnlyTodo

\* The sequences that end an operation.
LEMMA OneFinal ==
  ASSUME NEW a \in Steps, a.op \notin Inner
  PROVE  LET s == << a >>
         IN  /\ s \in Seq(Steps) /\ WellFormed(s) /\ First(s) = a /\ Final(s) = a
             /\ Frees(s) = {} /\ Deletes(s) = {} /\ ~Evicts(s) /\ Fresh(s) /\ s # << >>
<1>1. a.op \notin {"unlist", "pin", "lru", "free", "delete", "evict"} BY DEF Inner
<1>. QED BY <1>1, Single DEF Fresh

-----------------------------------------------------------------------------
(* What a step of one thread leaves alone.                                 *)

\* A step of t changes nothing of the other threads.
Moves(t) ==
    /\ OnlyTodo(t)
    /\ \A u \in Thread : u # t => held'[u] = held[u] /\ victims'[u] = victims[u]

\* The last step of t is none of these before or after the step.
NeverEnds(t, ops) == Final(todo[t]).op \notin ops /\ Final(todo'[t]).op \notin ops

\* A step that changes only the steps of t.
LEMMA MovesOnly ==
  ASSUME NEW t \in Thread, OnlyTodo(t), UNCHANGED << held, victims >>
  PROVE  Moves(t)
BY DEF Moves

\* How the step changes what is counted.
LEMMA CountsAt ==
  ASSUME NEW t \in Thread, Moves(t)
  PROVE  /\ Cardinality(PoolUsers') = Cardinality(PoolUsers)
                                      + One(t \in PoolUsers') - One(t \in PoolUsers)
         /\ Cardinality(PoolWeakPtrs') = Cardinality(PoolWeakPtrs)
                                         + One(t \in PoolWeakPtrs') - One(t \in PoolWeakPtrs)
         /\ Cardinality(PoolWeakReleases') = Cardinality(PoolWeakReleases)
                + One(t \in PoolWeakReleases') - One(t \in PoolWeakReleases)
         /\ \A c : Cardinality(CachePtrs(c)') = Cardinality(CachePtrs(c))
                       + One(t \in CachePtrs(c)') - One(t \in CachePtrs(c))
         /\ \A c : Cardinality(CacheReleases(c)') = Cardinality(CacheReleases(c))
                       + One(t \in CacheReleases(c)') - One(t \in CacheReleases(c))
         /\ \A e : Cardinality(Users(e)') = Cardinality(Users(e))
                       + One(t \in Users(e)') - One(t \in Users(e))
         /\ \A e : Cardinality(WeakUsers(e)') = Cardinality(WeakUsers(e))
                       + One(t \in WeakUsers(e)') - One(t \in WeakUsers(e))
         /\ Cardinality(Inserting') = Cardinality(Inserting)
                                      + One(t \in Inserting') - One(t \in Inserting)
<1>1. \A u \in Thread : u # t => todo'[u] = todo[u] /\ held'[u] = held[u] BY DEF Moves, OnlyTodo
<1>2. \A S, T \in SUBSET Thread : (\A u \in Thread : u # t => (u \in S <=> u \in T)) =>
         Cardinality(T) = Cardinality(S) + One(t \in T) - One(t \in S)
  BY ThreadsChange
<1>3. Cardinality(PoolUsers') = Cardinality(PoolUsers) + One(t \in PoolUsers') - One(t \in PoolUsers)
  <2>1. /\ PoolUsers \in SUBSET Thread /\ PoolUsers' \in SUBSET Thread
        /\ \A u \in Thread : u # t => (u \in PoolUsers <=> u \in PoolUsers')
    BY <1>1 DEF PoolUsers, Ends
  <2>. QED BY <1>2, <2>1
<1>4. Cardinality(PoolWeakPtrs') = Cardinality(PoolWeakPtrs)
                                   + One(t \in PoolWeakPtrs') - One(t \in PoolWeakPtrs)
  <2>1. /\ PoolWeakPtrs \in SUBSET Thread /\ PoolWeakPtrs' \in SUBSET Thread
        /\ \A u \in Thread : u # t => (u \in PoolWeakPtrs <=> u \in PoolWeakPtrs')
    BY <1>1 DEF PoolWeakPtrs
  <2>. QED BY <1>2, <2>1
<1>5. Cardinality(PoolWeakReleases') = Cardinality(PoolWeakReleases)
          + One(t \in PoolWeakReleases') - One(t \in PoolWeakReleases)
  <2>1. /\ PoolWeakReleases \in SUBSET Thread /\ PoolWeakReleases' \in SUBSET Thread
        /\ \A u \in Thread : u # t => (u \in PoolWeakReleases <=> u \in PoolWeakReleases')
    BY <1>1 DEF PoolWeakReleases, Ends
  <2>. QED BY <1>2, <2>1
<1>6. ASSUME NEW c
      PROVE  /\ Cardinality(CachePtrs(c)') = Cardinality(CachePtrs(c))
                    + One(t \in CachePtrs(c)') - One(t \in CachePtrs(c))
             /\ Cardinality(CacheReleases(c)') = Cardinality(CacheReleases(c))
                    + One(t \in CacheReleases(c)') - One(t \in CacheReleases(c))
  <2>1. /\ CachePtrs(c) \in SUBSET Thread /\ CachePtrs(c)' \in SUBSET Thread
        /\ \A u \in Thread : u # t => (u \in CachePtrs(c) <=> u \in CachePtrs(c)')
    BY <1>1 DEF CachePtrs
  <2>2. /\ CacheReleases(c) \in SUBSET Thread /\ CacheReleases(c)' \in SUBSET Thread
        /\ \A u \in Thread : u # t => (u \in CacheReleases(c) <=> u \in CacheReleases(c)')
    BY <1>1 DEF CacheReleases, Ends
  <2>. QED BY <1>2, <2>1, <2>2
<1>7. ASSUME NEW e
      PROVE  /\ Cardinality(Users(e)') = Cardinality(Users(e))
                    + One(t \in Users(e)') - One(t \in Users(e))
             /\ Cardinality(WeakUsers(e)') = Cardinality(WeakUsers(e))
                    + One(t \in WeakUsers(e)') - One(t \in WeakUsers(e))
  <2>1. /\ Users(e) \in SUBSET Thread /\ Users(e)' \in SUBSET Thread
        /\ \A u \in Thread : u # t => (u \in Users(e) <=> u \in Users(e)')
    BY <1>1 DEF Users, Ends
  <2>2. /\ WeakUsers(e) \in SUBSET Thread /\ WeakUsers(e)' \in SUBSET Thread
        /\ \A u \in Thread : u # t => (u \in WeakUsers(e) <=> u \in WeakUsers(e)')
    BY <1>1 DEF WeakUsers, Ends
  <2>. QED BY <1>2, <2>1, <2>2
<1>8. Cardinality(Inserting') = Cardinality(Inserting) + One(t \in Inserting') - One(t \in Inserting)
  <2>1. /\ Inserting \in SUBSET Thread /\ Inserting' \in SUBSET Thread
        /\ \A u \in Thread : u # t => (u \in Inserting <=> u \in Inserting')
    BY <1>1 DEF Inserting
  <2>. QED BY <1>2, <2>1
<1>. QED BY <1>3, <1>4, <1>5, <1>6, <1>7, <1>8

\* What is counted and does not change.
LEMMA SameSets ==
  ASSUME NEW t \in Thread, Moves(t)
  PROVE  /\ held'[t].strong = held[t].strong /\ NeverEnds(t, {"poolzero"}) => PoolUsers' = PoolUsers
         /\ held'[t].weak = held[t].weak => PoolWeakPtrs' = PoolWeakPtrs
         /\ NeverEnds(t, {"poolweak"}) => PoolWeakReleases' = PoolWeakReleases
         /\ held'[t].cache = held[t].cache => \A c : CachePtrs(c)' = CachePtrs(c)
         /\ NeverEnds(t, {"cachedec"}) => \A c : CacheReleases(c)' = CacheReleases(c)
         /\ held'[t].entry = held[t].entry /\ NeverEnds(t, {"entrylock"}) =>
                \A e : Users(e)' = Users(e)
         /\ held'[t].weakentry = held[t].weakentry /\ NeverEnds(t, {"weaklock"}) =>
                \A e : WeakUsers(e)' = WeakUsers(e)
         /\ NeverEnds(t, {"unmark", "unmarklock"}) =>
                \A u \in Thread : \A e : Unmarks(u, e)' <=> Unmarks(u, e)
         /\ NeverEnds(t, {"weakmark"}) => \A u \in Thread : \A e : Marks(u, e)' <=> Marks(u, e)
         /\ NeverEnds(t, {"insert"}) => Inserting' = Inserting
         /\ First(todo[t]).op # "free" /\ First(todo'[t]).op # "free" =>
                \A c : IsPinned(c)' <=> IsPinned(c)
<1>1. \A u \in Thread : u # t => todo'[u] = todo[u] /\ held'[u] = held[u] BY DEF Moves, OnlyTodo
<1>2. \A f, op, x : f = Step(op, x) => f.op = op BY StepEq
<1>3. held'[t].strong = held[t].strong /\ NeverEnds(t, {"poolzero"}) => PoolUsers' = PoolUsers
  BY <1>1, <1>2 DEF PoolUsers, Ends, NeverEnds
<1>4. held'[t].weak = held[t].weak => PoolWeakPtrs' = PoolWeakPtrs
  BY <1>1, <1>2 DEF PoolWeakPtrs
<1>5. NeverEnds(t, {"poolweak"}) => PoolWeakReleases' = PoolWeakReleases
  BY <1>1, <1>2 DEF PoolWeakReleases, Ends, NeverEnds
<1>6. held'[t].cache = held[t].cache => \A c : CachePtrs(c)' = CachePtrs(c)
  BY <1>1, <1>2 DEF CachePtrs
<1>7. NeverEnds(t, {"cachedec"}) => \A c : CacheReleases(c)' = CacheReleases(c)
  BY <1>1, <1>2 DEF CacheReleases, Ends, NeverEnds
<1>8. held'[t].entry = held[t].entry /\ NeverEnds(t, {"entrylock"}) => \A e : Users(e)' = Users(e)
  BY <1>1, <1>2 DEF Users, Ends, NeverEnds
<1>9. held'[t].weakentry = held[t].weakentry /\ NeverEnds(t, {"weaklock"}) =>
         \A e : WeakUsers(e)' = WeakUsers(e)
  BY <1>1, <1>2 DEF WeakUsers, Ends, NeverEnds
<1>10. NeverEnds(t, {"unmark", "unmarklock"}) =>
          \A u \in Thread : \A e : Unmarks(u, e)' <=> Unmarks(u, e)
  BY <1>1, <1>2 DEF Unmarks, Ends, NeverEnds
<1>11. NeverEnds(t, {"weakmark"}) => \A u \in Thread : \A e : Marks(u, e)' <=> Marks(u, e)
  BY <1>1, <1>2 DEF Marks, Ends, NeverEnds
<1>12. NeverEnds(t, {"insert"}) => Inserting' = Inserting BY <1>1, <1>2 DEF Inserting, NeverEnds
<1>13. First(todo[t]).op # "free" /\ First(todo'[t]).op # "free" => \A c : IsPinned(c)' <=> IsPinned(c)
  BY <1>1, <1>2 DEF IsPinned, Doing
<1>. QED BY <1>3, <1>4, <1>5, <1>6, <1>7, <1>8, <1>9, <1>10, <1>11, <1>12, <1>13

\* Finitely many threads insert a cache.
LEMMA InsertingCount == Cardinality(Inserting) \in Nat
BY ThreadsFinite DEF Inserting

\* A step of a destruction: the operation that it is part of, and what the
\* thread holds, are the same.
LEMMA InnerSets ==
  ASSUME NEW t \in Thread, Moves(t), held' = held, Final(todo'[t]) = Final(todo[t])
  PROVE  /\ PoolUsers' = PoolUsers /\ PoolWeakPtrs' = PoolWeakPtrs
         /\ PoolWeakReleases' = PoolWeakReleases /\ Cardinality(Inserting') <= Cardinality(Inserting)
         /\ \A c : CachePtrs(c)' = CachePtrs(c) /\ CacheReleases(c)' = CacheReleases(c)
         /\ \A e : Users(e)' = Users(e) /\ WeakUsers(e)' = WeakUsers(e)
         /\ \A u \in Thread : \A e : (Unmarks(u, e)' <=> Unmarks(u, e)) /\ (Marks(u, e)' <=> Marks(u, e))
<1>1. \A u \in Thread : Final(todo'[u]) = Final(todo[u]) BY DEF Moves, OnlyTodo
<1>2. PoolUsers' = PoolUsers /\ PoolWeakPtrs' = PoolWeakPtrs
      /\ PoolWeakReleases' = PoolWeakReleases /\ Inserting' = Inserting
  BY <1>1 DEF PoolUsers, PoolWeakPtrs, PoolWeakReleases, Inserting, Ends
<1>3. \A c : CachePtrs(c)' = CachePtrs(c) /\ CacheReleases(c)' = CacheReleases(c)
  BY <1>1 DEF CachePtrs, CacheReleases, Ends
<1>4. \A e : Users(e)' = Users(e) /\ WeakUsers(e)' = WeakUsers(e)
  BY <1>1 DEF Users, WeakUsers, Ends
<1>5. \A u \in Thread : \A e : (Unmarks(u, e)' <=> Unmarks(u, e)) /\ (Marks(u, e)' <=> Marks(u, e))
  BY <1>1 DEF Unmarks, Marks, Ends
<1>. QED BY <1>2, <1>3, <1>4, <1>5, InsertingCount

-----------------------------------------------------------------------------
(* The parts of the invariant that a step does not concern.                *)

\* Entries, or caches, that remain what they are.
EntriesKept ==
    \A e \in Entry : /\ entry'[e].st = entry[e].st /\ entry'[e].cache = entry[e].cache
                     /\ entry'[e].key = entry[e].key
ListedKept == \A e \in Entry : entry'[e].listed = entry[e].listed
CachesKept == \A c \in Cache : cache'[c].st = cache[c].st /\ cache'[c].ident = cache[c].ident
VictimsKept ==
    /\ victims' = victims
    /\ \A u \in Thread : \A e \in ChosenIn(victims[u]) : entry'[e].cache = entry[e].cache

\* The victims of a thread are entries.
LEMMA Chosen ==
  ASSUME LruInv, NEW u \in Thread
  PROVE  /\ victims[u] \in Seq(Victim) /\ Len(victims[u]) \in Nat
         /\ \A i \in 1 .. Len(victims[u]) : /\ victims[u][i] \in Victim
                                            /\ victims[u][i].e \in ChosenIn(victims[u])
                                            /\ victims[u][i].e \in Entry
         /\ ChosenIn(victims[u]) \subseteq Entry
<1>1. victims[u] \in Seq(Victim) /\ Len(victims[u]) \in Nat BY DEF LruInv
<1>2. \A i \in 1 .. Len(victims[u]) : victims[u][i] \in Victim BY <1>1, ElementOfSeq
<1>3. \A i \in 1 .. Len(victims[u]) : victims[u][i].e \in Entry BY <1>2 DEF Victim
<1>. QED BY <1>1, <1>2, <1>3 DEF ChosenIn

\* The victims that a step leaves alone.
LEMMA VictimsSame ==
  ASSUME LruInv, VictimsKept, NEW u \in Thread
  PROVE  /\ Buffer(victims[u])' /\ DoomedIn(victims[u])' = DoomedIn(victims[u])
         /\ ChosenIn(victims[u])' = ChosenIn(victims[u])
<1>1. /\ Len(victims[u]) \in Nat /\ victims' = victims
      /\ \A i \in 1 .. Len(victims[u]) : entry'[victims[u][i].e].cache = entry[victims[u][i].e].cache
  BY Chosen DEF VictimsKept
<1>2. Buffer(victims[u]) BY DEF LruInv
<1>3. Buffer(victims[u])' BY <1>1, <1>2 DEF Buffer
<1>4. DoomedIn(victims[u])' = DoomedIn(victims[u]) BY <1>1 DEF DoomedIn
<1>. QED BY <1>1, <1>3, <1>4

\* A step that does not touch lru_mutex_ keeps LruInv.
LEMMA LruKept ==
  ASSUME LruInv, NEW t \in Thread, Moves(t), lru' = lru, VictimsKept,
         First(todo[t]).op # "evict", First(todo'[t]).op # "evict"
  PROVE  LruInv'
<1>1. \A u \in Thread : u # t => todo'[u] = todo[u] BY DEF Moves, OnlyTodo
<1>2. \A u \in Thread : Doing(u, "evict", None)' <=> Doing(u, "evict", None)
  BY <1>1, StepEq DEF Doing
<1>3. victims' = victims BY DEF VictimsKept
<1>4. \A u \in Thread : Buffer(victims[u])' BY VictimsSame
<1>. QED BY <1>2, <1>3, <1>4 DEF LruInv

\* A step of a thread that neither takes nor releases lru_mutex_.
LEMMA LruSame ==
  ASSUME LruInv, todo' = todo, lru' = lru, VictimsKept
  PROVE  LruInv'
<1>1. \A u \in Thread : Doing(u, "evict", None)' <=> Doing(u, "evict", None) BY DEF Doing
<1>2. victims' = victims BY DEF VictimsKept
<1>3. \A u \in Thread : Buffer(victims[u])' BY VictimsSame
<1>. QED BY <1>1, <1>2, <1>3 DEF LruInv

\* What the other threads hold is kept.
LEMMA HeldKept ==
  ASSUME HeldInv, NEW t \in Thread, Moves(t), HeldAt(t)'
  PROVE  HeldInv'
<1>1. \A u \in Thread : u # t => todo'[u] = todo[u] /\ held'[u] = held[u] BY DEF Moves, OnlyTodo
<1>2. ASSUME NEW u \in Thread, u # t PROVE HeldAt(u)'
  <2>1. todo'[u] = todo[u] /\ held'[u] = held[u] /\ HeldAt(u) BY <1>1, <1>2 DEF HeldInv
  <2>. QED BY <2>1 DEF HeldAt, Ends, Holds, HasPool
<1>. QED BY <1>2 DEF HeldInv

\* The steps of a destruction, and the end of an operation.
LEMMA HeldSame ==
  ASSUME HeldInv, NEW t \in Thread, Moves(t), held' = held, Final(todo'[t]) = Final(todo[t]),
         todo[t] # << >>
  PROVE  HeldInv'
<1>1. HeldAt(t) BY DEF HeldInv
<1>2. HeldAt(t)' BY <1>1 DEF HeldAt, Ends, Holds, HasPool
<1>. QED BY <1>2, HeldKept

\* An operation that ends leaves its pointers.
LEMMA HeldOver ==
  ASSUME HeldInv, NEW t \in Thread, Moves(t), Final(todo'[t]).op = "none",
         todo'[t] = << >> \/ Holds(t)'
  PROVE  HeldInv'
<1>1. \A op, x : Final(todo'[t]) = Step(op, x) => op = "none" BY StepEq
<1>2. HeldAt(t)' BY <1>1 DEF HeldAt, Ends
<1>. QED BY <1>2, HeldKept

\* The entries in use are kept.
LEMMA UsedKept ==
  ASSUME \A e : Users(e)' = Users(e), \A e \in Entry : Users(e) # {} => entry'[e].cache = entry[e].cache
  PROVE  \A c : UsedEntries(c)' = UsedEntries(c)
BY DEF UsedEntries

\* The counts of the pool are kept.
LEMMA PoolKept ==
  ASSUME PoolCount, PoolUsers' = PoolUsers, PoolWeakPtrs' = PoolWeakPtrs,
         PoolWeakReleases' = PoolWeakReleases, UsedCaches' = UsedCaches,
         pool'.strong = pool.strong, pool'.weak = pool.weak, pool'.live = pool.live
  PROVE  PoolCount'
BY DEF PoolCount

\* The counts of the caches are kept.
LEMMA CacheKept ==
  ASSUME CacheCount, \A c : CachePtrs(c)' = CachePtrs(c), \A c : CacheReleases(c)' = CacheReleases(c),
         \A c : UsedEntries(c)' = UsedEntries(c), \A c \in Cache : cache'[c].strong = cache[c].strong
  PROVE  CacheCount'
BY DEF CacheCount

\* The weak references that entries count are kept.
LEMMA MarkedKept ==
  ASSUME \A u \in Thread : \A e : Unmarks(u, e)' <=> Unmarks(u, e),
         \A u \in Thread : \A e : Marks(u, e)' <=> Marks(u, e)
  PROVE  \A e \in Entry : weak'[e].n = weak[e].n /\ weak'[e].entry = weak[e].entry =>
            (Marked(e)' <=> Marked(e))
BY DEF Marked

\* The counts of the entries are kept.
LEMMA EntryKept ==
  ASSUME EntryCount, \A e : Users(e)' = Users(e), \A e \in Entry : Marked(e)' <=> Marked(e),
         \A c : IsPinned(c)' <=> IsPinned(c),
         \A e \in Entry : /\ entry'[e].refs = entry[e].refs /\ entry'[e].listed = entry[e].listed
                          /\ entry'[e].cache = entry[e].cache
  PROVE  EntryCount'
<1>1. \A e \in Entry : IsPinned(entry[e].cache)' <=> IsPinned(entry[e].cache)
  BY DEF IsPinned, Doing
<1>2. ASSUME NEW e \in Entry
      PROVE  (entry[e].refs = 2 * Cardinality(Users(e)) + One(Marked(e))
                              + 2 * One(entry[e].listed /\ IsPinned(entry[e].cache)))'
  <2>1. entry[e].refs = 2 * Cardinality(Users(e)) + One(Marked(e))
                        + 2 * One(entry[e].listed /\ IsPinned(entry[e].cache))
    BY DEF EntryCount
  <2>2. One(Marked(e))' = One(Marked(e)) BY DEF One
  <2>3. One(entry[e].listed /\ IsPinned(entry[e].cache))'
            = One(entry[e].listed /\ IsPinned(entry[e].cache))
    BY <1>1 DEF One
  <2>. QED BY <2>1, <2>2, <2>3
<1>. QED BY <1>2 DEF EntryCount

\* The counts of the weak states are kept.
LEMMA WeakCountKept ==
  ASSUME WeakCount, \A e : WeakUsers(e)' = WeakUsers(e), \A e \in Entry : weak'[e].n = weak[e].n
  PROVE  WeakCount'
BY DEF WeakCount

\* The weak states are kept.
LEMMA WeakKept ==
  ASSUME WeakInv, \A u \in Thread : \A e : Unmarks(u, e)' <=> Unmarks(u, e),
         \A u \in Thread : \A e : Marks(u, e)' <=> Marks(u, e),
         weak' = weak, \A e \in Entry : entry'[e].st = entry[e].st
  PROVE  WeakInv'
BY DEF WeakInv

\* Who removes what.
LEMMA RemovedAt ==
  ASSUME LruInv, NEW t \in Thread, Moves(t), VictimsKept
  PROVE  /\ \A u \in Thread : u # t => Removed(u)' = Removed(u) /\ Killed(u)' = Killed(u)
         /\ \A u \in Thread : u # t => Deletes(todo[u])' = Deletes(todo[u])
                                       /\ Frees(todo[u])' = Frees(todo[u])
         /\ Removed(t)' = Deletes(todo'[t]) \cup ChosenIn(victims[t])
         /\ Killed(t)' = Frees(todo'[t]) \cup DoomedIn(victims[t])
<1>1. \A u \in Thread : /\ DoomedIn(victims[u])' = DoomedIn(victims[u])
                        /\ ChosenIn(victims[u])' = ChosenIn(victims[u])
  BY VictimsSame
<1>2. \A u \in Thread : u # t => todo'[u] = todo[u] BY DEF Moves, OnlyTodo
<1>. QED BY <1>1, <1>2 DEF Removed, Killed

\* The entries that are being deleted stay the same.
LEMMA RemoveSame ==
  ASSUME RemoveInv, \A u \in Thread : Removed(u)' = Removed(u),
         \A u \in Thread : Deletes(todo'[u]) \cap ChosenIn(victims'[u]) = {},
         \A e \in Entry : entry'[e].st = entry[e].st /\ entry'[e].listed = entry[e].listed,
         \A e \in Entry : entry[e].st = "live" /\ ~entry[e].listed => entry'[e].refs = entry[e].refs
  PROVE  RemoveInv'
BY DEF RemoveInv

\* RemoveInv is kept.
LEMMA RemoveKept ==
  ASSUME LruInv, RemoveInv, NEW t \in Thread, Moves(t), VictimsKept,
         Deletes(todo'[t]) = Deletes(todo[t]),
         \A e \in Entry : entry'[e].st = entry[e].st /\ entry'[e].listed = entry[e].listed,
         \A e \in Entry : entry[e].st = "live" /\ ~entry[e].listed => entry'[e].refs = entry[e].refs
  PROVE  RemoveInv'
<1>1. \A u \in Thread : Removed(u)' = Removed(u) /\ Deletes(todo[u])' = Deletes(todo[u])
                        /\ ChosenIn(victims[u])' = ChosenIn(victims[u])
  BY RemovedAt, VictimsSame DEF Removed
<1>2. \A u \in Thread : Deletes(todo'[u]) \cap ChosenIn(victims'[u]) = {} BY <1>1 DEF RemoveInv
<1>. QED BY <1>1, <1>2, RemoveSame

\* The caches that are being destroyed stay the same.
LEMMA KillSame ==
  ASSUME KillInv, \A u \in Thread : Killed(u)' = Killed(u),
         \A u \in Thread : Frees(todo[u])' \cap DoomedIn(victims[u])' = {},
         \A c \in Cache : (cache'[c].st = "live" /\ ShouldDelete(cache'[c]))
                              <=> (cache[c].st = "live" /\ ShouldDelete(cache[c])),
         \A u \in Thread : \A c \in DoomedIn(victims[u])' : cache'[c].shards = 0
  PROVE  KillInv'
BY DEF KillInv, ShouldDelete

\* KillInv is kept.
LEMMA KillKept ==
  ASSUME LruInv, KillInv, NEW t \in Thread, Moves(t), VictimsKept,
         Frees(todo'[t]) = Frees(todo[t]),
         \A c \in Cache : (cache'[c].st = "live" /\ ShouldDelete(cache'[c]))
                              <=> (cache[c].st = "live" /\ ShouldDelete(cache[c])),
         \A u \in Thread : \A c \in DoomedIn(victims[u]) : cache'[c].shards = cache[c].shards
  PROVE  KillInv'
<1>1. \A u \in Thread : Killed(u)' = Killed(u) /\ Frees(todo[u])' = Frees(todo[u])
                        /\ DoomedIn(victims[u])' = DoomedIn(victims[u])
  BY RemovedAt, VictimsSame DEF Killed
<1>2. /\ \A u \in Thread : Frees(todo[u])' \cap DoomedIn(victims[u])' = {}
      /\ \A u \in Thread : \A c \in DoomedIn(victims[u])' : cache'[c].shards = 0
  BY <1>1 DEF KillInv
<1>. QED BY <1>1, <1>2, KillSame

\* The objects are kept.
LEMMA ObjectKept ==
  ASSUME ObjectInv, EntriesKept, CachesKept,
         \A e \in Entry : entry[e].st # "live" => entry'[e] = entry[e],
         \A c \in Cache : cache[c].st # "live" => cache'[c] = cache[c],
         \A e \in Entry : entry'[e].listed => entry[e].listed,
         Cardinality(Inserting') <= Cardinality(Inserting)
  PROVE  ObjectInv'
<1>1. /\ \A c \in Cache : cache'[c].st # "live" => cache'[c] = [NoCache EXCEPT !.st = cache'[c].st]
      /\ \A e \in Entry : entry'[e].st # "live" => entry'[e] = [NoEntry EXCEPT !.st = entry'[e].st]
  <2>1. /\ \A c \in Cache : cache[c].st # "live" => cache[c] = [NoCache EXCEPT !.st = cache[c].st]
        /\ \A e \in Entry : entry[e].st # "live" => entry[e] = [NoEntry EXCEPT !.st = entry[e].st]
    BY DEF ObjectInv
  <2>2. /\ \A c \in Cache : cache'[c].st # "live" => cache'[c] = cache[c] /\ cache[c].st # "live"
        /\ \A e \in Entry : entry'[e].st # "live" => entry'[e] = entry[e] /\ entry[e].st # "live"
    BY DEF EntriesKept, CachesKept
  <2>. QED BY <2>1, <2>2
<1>2. /\ \A e \in Entry : entry'[e].st = "live" => entry'[e].cache \in Cache /\ entry'[e].key \in Key
      /\ \A e \in Entry : entry'[e].listed => entry'[e].st = "live" /\ cache'[entry'[e].cache].st = "live"
  BY DEF ObjectInv, EntriesKept, CachesKept
<1>3. FreshCaches' = FreshCaches BY DEF FreshCaches, CachesKept
<1>4. Cardinality(FreshCaches) \in Nat /\ Cardinality(Inserting) \in Nat /\ Cardinality(Inserting') \in Nat
  BY CachesFinite, ThreadsFinite DEF FreshCaches, Inserting
<1>5. Cardinality(FreshCaches') >= Cardinality(Inserting') BY <1>3, <1>4 DEF ObjectInv
<1>. QED BY <1>1, <1>2, <1>5 DEF ObjectInv

\* The table of the pool stays the same.
LEMMA TableSame ==
  ASSUME TableInv, NEW t \in Thread, Moves(t), \A u \in Thread : Killed(u) \subseteq Killed(u)',
         caches' = caches, CachesKept,
         \A c \in Cache : cache[c].st = "live" /\ ~ShouldDelete(cache'[c]) => ~ShouldDelete(cache[c]),
         First(todo'[t]).op \notin {"pin", "free"},
         \A c \in Cache : cache'[c].bit = cache[c].bit,
         pool'.strong > 0 <=> pool.strong > 0, caches \subseteq Cache
  PROVE  TableInv'
<1>2. \A u \in Thread : u # t => todo'[u] = todo[u] BY DEF Moves, OnlyTodo
<1>3. \A u \in Thread, c \in Cache :
         Doing(u, "pin", c)' \/ Doing(u, "free", c)' => Doing(u, "pin", c) \/ Doing(u, "free", c)
  BY <1>2, StepEq DEF Doing
<1>4. /\ \A c \in caches' : cache'[c].st = "live" /\ cache'[c].ident # Anonymous
      /\ \A c, d \in caches' : cache'[c].ident = cache'[d].ident => c = d
  BY DEF TableInv, CachesKept
<1>5. \A c \in Cache : cache'[c].st = "live" /\ cache'[c].ident # Anonymous
                       /\ ~ShouldDelete(cache'[c]) => c \in caches'
  BY DEF TableInv, CachesKept
<1>6. \A u \in Thread, c \in Cache : Doing(u, "pin", c)' \/ Doing(u, "free", c)' => c \notin caches'
  BY <1>3 DEF TableInv
<1>7. \A c \in Cache : cache'[c].st = "live" /\ (\A u \in Thread : c \notin Killed(u)') =>
          cache'[c].bit = One(c \in caches' /\ pool'.strong > 0)
  BY DEF TableInv, CachesKept
<1>. QED BY <1>4, <1>5, <1>6, <1>7 DEF TableInv, ShouldDelete

\* TableInv is kept.
LEMMA TableKept ==
  ASSUME LruInv, TableInv, NEW t \in Thread, Moves(t), VictimsKept, caches' = caches, CachesKept,
         \A c \in Cache : cache[c].st = "live" /\ ~ShouldDelete(cache'[c]) => ~ShouldDelete(cache[c]),
         First(todo'[t]).op \notin {"pin", "free"},
         Frees(todo[t]) \subseteq Frees(todo'[t]),
         \A c \in Cache : cache'[c].bit = cache[c].bit,
         pool'.strong > 0 <=> pool.strong > 0, caches \subseteq Cache
  PROVE  TableInv'
<1>1. \A u \in Thread : Killed(u) \subseteq Killed(u)' BY RemovedAt DEF Killed
<1>. QED BY <1>1, TableSame

\* The entries of a cache stay the same.
LEMMA ListedSame ==
  ASSUME EntriesKept, ListedKept
  PROVE  \A c : Listed(c)' = Listed(c) /\ ShardsOf(c)' = ShardsOf(c)
<1>1. \A c : Listed(c)' = Listed(c) BY DEF Listed, EntriesKept, ListedKept
<1>2. \A c : \A e \in Listed(c) : entry'[e].key = entry[e].key BY DEF Listed, EntriesKept
<1>. QED BY <1>1, <1>2 DEF ShardsOf

\* The shards are kept.
LEMMA ShardKept ==
  ASSUME ShardInv, EntriesKept, ListedKept, \A c \in Cache : cache'[c].shards = cache[c].shards,
         \A c : IsPinned(c)' <=> IsPinned(c)
  PROVE  ShardInv'
<1>1. \A c : ShardsOf(c)' = ShardsOf(c) BY ListedSame
<1>. QED BY <1>1 DEF ShardInv

\* The eviction queue is kept.
LEMMA QueueKept ==
  ASSUME QueueInv, queue' = queue, pool'.limit = pool.limit, EntriesKept, ListedKept,
         queue \in Seq(Entry), \A c : IsPinned(c)' <=> IsPinned(c),
         \A e \in Entry : entry[e].listed /\ entry'[e].refs = 0 => entry[e].refs = 0
  PROVE  QueueInv'
<1>1. Members(queue) \subseteq Entry BY ElementOfSeq DEF Members
<1>2. \A e \in Members(queue) : entry'[e].listed /\ ~IsPinned(entry[e].cache)'
  BY <1>1 DEF QueueInv, EntriesKept, ListedKept, IsPinned, Doing
<1>3. HasLruCache' <=> HasLruCache BY DEF HasLruCache
<1>4. \A e \in Members(queue)' : entry'[e].listed /\ ~IsPinned(entry[e].cache)' BY <1>2
<1>5. HasLruCache' => \A e \in Entry : entry'[e].listed /\ entry'[e].refs = 0 => e \in Members(queue')
  BY <1>3 DEF QueueInv, ListedKept
<1>. QED BY <1>4, <1>5 DEF QueueInv

\* The bytes of the entries that count.
LEMMA TotalKept ==
  ASSUME SizeInv, pool'.limit = pool.limit, pool'.total = pool.total,
         EntriesKept, ListedKept, \A e \in Entry : entry'[e].bytes = entry[e].bytes,
         \A c : IsPinned(c)' <=> IsPinned(c)
  PROVE  /\ ~HasLruCache' => \A e \in Entry : entry'[e].bytes = 0
         /\ pool'.total = TotalBytes(Counted)'
<1>3. Counted' = Counted BY DEF Counted, EntriesKept, ListedKept, IsPinned
<1>4. [e \in Entry |-> entry'[e].bytes] = [e \in Entry |-> entry[e].bytes] OBVIOUS
<1>5. TotalBytes(Counted)' = TotalBytes(Counted) BY <1>3, <1>4 DEF TotalBytes
<1>6. HasLruCache' <=> HasLruCache BY DEF HasLruCache
<1>. QED BY <1>5, <1>6 DEF SizeInv

\* total_bytes_ is kept.
LEMMA SizeKept ==
  ASSUME SizeInv, queue' = queue, pool'.limit = pool.limit, pool'.total = pool.total,
         EntriesKept, ListedKept, \A e \in Entry : entry'[e].bytes = entry[e].bytes,
         \A c : IsPinned(c)' <=> IsPinned(c), NEW t \in Thread, Moves(t),
         Evicts(todo[t]) => Evicts(todo'[t])
  PROVE  SizeInv'
<1>1. \A u \in Thread : u # t => todo'[u] = todo[u] BY DEF Moves, OnlyTodo
<1>2. (\E u \in Thread : Evicts(todo[u])) => \E u \in Thread : Evicts(todo[u])' BY <1>1
<1>3. /\ ~HasLruCache' => \A e \in Entry : entry'[e].bytes = 0
      /\ pool'.total = TotalBytes(Counted)'
  BY TotalKept
<1>. QED BY <1>2, <1>3 DEF SizeInv

-----------------------------------------------------------------------------
(* Types.                                                                  *)

PoolRec == [live : BOOLEAN, strong : Nat, weak : Nat, total : Nat, limit : Limits,
            idents : IdentSets]
CacheRec == [st : State, ident : Ident \cup {Anonymous}, strong : Nat, shards : Nat, bit : 0 .. 1]
EntryRec == [st : State, cache : Cache \cup {None}, key : Key \cup {None}, listed : BOOLEAN,
             refs : Nat, bytes : Nat, init : {"no", "running", "done"}]
WeakRec == [st : State, n : Nat, entry : BOOLEAN, mutex : Thread \cup {None}]
HeldRec == [strong : BOOLEAN, weak : BOOLEAN, cache : Cache \cup {None},
            entry : Entry \cup {None}, weakentry : Entry \cup {None}]

\* The records of the state.
LEMMA Types ==
  ASSUME TypeOK
  PROVE  /\ pool \in PoolRec /\ caches \subseteq Cache /\ cache \in [Cache -> CacheRec]
         /\ entry \in [Entry -> EntryRec] /\ weak \in [Entry -> WeakRec]
         /\ queue \in Seq(Entry) /\ lru \in Thread \cup {None} /\ held \in [Thread -> HeldRec]
BY DEF TypeOK, PoolRec, CacheRec, EntryRec, WeakRec, HeldRec

\* The records of the next state.
LEMMA TypesNext ==
  ASSUME pool' \in PoolRec, caches' \subseteq Cache, cache' \in [Cache -> CacheRec],
         entry' \in [Entry -> EntryRec], weak' \in [Entry -> WeakRec],
         queue' \in Seq(Entry), lru' \in Thread \cup {None}, held' \in [Thread -> HeldRec]
  PROVE  TypeOK'
BY DEF TypeOK, PoolRec, CacheRec, EntryRec, WeakRec, HeldRec

\* The fields.
LEMMA Fields ==
  ASSUME TypeOK
  PROVE  /\ pool.live \in BOOLEAN /\ pool.strong \in Nat /\ pool.weak \in Nat /\ pool.total \in Nat
         /\ pool.limit \in Nat /\ pool.limit \in Limits /\ pool.idents \in IdentSets
         /\ \A c \in Cache : /\ cache[c].st \in State /\ cache[c].ident \in Ident \cup {Anonymous}
                             /\ cache[c].strong \in Nat /\ cache[c].shards \in Nat
                             /\ cache[c].bit \in 0 .. 1
         /\ \A e \in Entry : /\ entry[e].st \in State /\ entry[e].cache \in Cache \cup {None}
                             /\ entry[e].key \in Key \cup {None} /\ entry[e].listed \in BOOLEAN
                             /\ entry[e].refs \in Nat /\ entry[e].bytes \in Nat
                             /\ entry[e].init \in {"no", "running", "done"}
         /\ \A e \in Entry : /\ weak[e].st \in State /\ weak[e].n \in Nat /\ weak[e].entry \in BOOLEAN
                             /\ weak[e].mutex \in Thread \cup {None}
         /\ \A t \in Thread : /\ held[t].strong \in BOOLEAN /\ held[t].weak \in BOOLEAN
                              /\ held[t].cache \in Cache \cup {None}
                              /\ held[t].entry \in Entry \cup {None}
                              /\ held[t].weakentry \in Entry \cup {None}
<1>1. /\ pool \in PoolRec /\ cache \in [Cache -> CacheRec]
      /\ entry \in [Entry -> EntryRec] /\ weak \in [Entry -> WeakRec]
      /\ held \in [Thread -> HeldRec]
  BY Types
<1>2. /\ pool.live \in BOOLEAN /\ pool.strong \in Nat /\ pool.weak \in Nat /\ pool.total \in Nat
      /\ pool.limit \in Nat /\ pool.limit \in Limits /\ pool.idents \in IdentSets
  BY <1>1, ConstantsAssumption DEF PoolRec
<1>3. \A c \in Cache : /\ cache[c].st \in State /\ cache[c].ident \in Ident \cup {Anonymous}
                       /\ cache[c].strong \in Nat /\ cache[c].shards \in Nat
                       /\ cache[c].bit \in 0 .. 1
  BY <1>1 DEF CacheRec
<1>4. \A e \in Entry : /\ entry[e].st \in State /\ entry[e].cache \in Cache \cup {None}
                       /\ entry[e].key \in Key \cup {None} /\ entry[e].listed \in BOOLEAN
                       /\ entry[e].refs \in Nat /\ entry[e].bytes \in Nat
                       /\ entry[e].init \in {"no", "running", "done"}
  BY <1>1 DEF EntryRec
<1>5. \A e \in Entry : /\ weak[e].st \in State /\ weak[e].n \in Nat /\ weak[e].entry \in BOOLEAN
                       /\ weak[e].mutex \in Thread \cup {None}
  BY <1>1 DEF WeakRec
<1>6. \A t \in Thread : /\ held[t].strong \in BOOLEAN /\ held[t].weak \in BOOLEAN
                        /\ held[t].cache \in Cache \cup {None}
                        /\ held[t].entry \in Entry \cup {None}
                        /\ held[t].weakentry \in Entry \cup {None}
  BY <1>1 DEF HeldRec
<1>. QED BY <1>2, <1>3, <1>4, <1>5, <1>6

\* The steps stay well formed.
LEMMA TodoKept ==
  ASSUME TodoInv, NEW t \in Thread, Moves(t)
  PROVE  TodoInv'
BY DEF TodoInv, Moves, OnlyTodo

\* The parts of the invariant.
LEMMA Parts ==
  ASSUME IInv
  PROVE  /\ TypeOK /\ TodoInv /\ LruInv /\ HeldInv
         /\ PoolCount /\ CacheCount /\ EntryCount /\ WeakCount
         /\ WeakInv /\ RemoveInv /\ KillInv /\ ObjectInv /\ TableInv /\ ShardInv /\ QueueInv /\ SizeInv
BY DEF IInv

\* The records of a state of the invariant.
LEMMA Records ==
  ASSUME IInv
  PROVE  /\ pool \in PoolRec /\ caches \subseteq Cache /\ cache \in [Cache -> CacheRec]
         /\ entry \in [Entry -> EntryRec] /\ weak \in [Entry -> WeakRec]
         /\ queue \in Seq(Entry) /\ lru \in Thread \cup {None} /\ held \in [Thread -> HeldRec]
BY Parts, Types

\* What is unchanged is kept.
LEMMA EntrySame ==
  ASSUME entry' = entry
  PROVE  EntriesKept /\ ListedKept
BY DEF EntriesKept, ListedKept

\* The caches are unchanged.
LEMMA CacheSame ==
  ASSUME cache' = cache
  PROVE  CachesKept /\ UsedCaches' = UsedCaches
BY DEF CachesKept, UsedCaches

\* The victims are unchanged.
LEMMA VictimsUnmoved ==
  ASSUME LruInv, EntriesKept, victims' = victims
  PROVE  VictimsKept
BY Chosen DEF EntriesKept, VictimsKept

-----------------------------------------------------------------------------
(* The steps of MaybeEvictEntries and of DestroyCache.                     *)

\* The entry at the front leaves the queue.
LEMMA TailQueue ==
  ASSUME NEW q \in Seq(Entry), q # << >>, Distinct(q)
  PROVE  /\ Head(q) \in Entry /\ Head(q) \in Members(q)
         /\ Tail(q) \in Seq(Entry) /\ Distinct(Tail(q)) /\ Members(Tail(q)) = Members(q) \ {Head(q)}
<1>. DEFINE n == Len(q)
            r == Tail(q)
<1>1. /\ n \in Nat \ {0} /\ r \in Seq(Entry) /\ Len(r) = n - 1 /\ Head(q) = q[1]
      /\ \A i \in 1 .. n - 1 : r[i] = q[i + 1]
  OBVIOUS
<1>2. \A i \in 1 .. n : q[i] \in Entry BY ElementOfSeq
<1>. HIDE DEF n, r
<1>3. 1 \in 1 .. n /\ (\A i \in 1 .. n - 1 : i + 1 \in 1 .. n) /\ n = Len(q) BY <1>1 DEF n
<1>4. Head(q) \in Entry /\ Head(q) \in Members(q) BY <1>1, <1>2, <1>3 DEF Members
<1>5. Distinct(r) BY <1>1, <1>3 DEF Distinct
<1>6. \A i \in 2 .. n : i - 1 \in 1 .. n - 1 /\ r[i - 1] = q[i] BY <1>1
<1>7. Members(r) = Members(q) \ {Head(q)}
  <2>1. ASSUME NEW x \in Members(r) PROVE x \in Members(q) /\ x # q[1]
    <3>1. PICK i \in 1 .. n - 1 : x = r[i] BY <1>1, <2>1 DEF Members
    <3>2. x = q[i + 1] /\ i + 1 \in 1 .. n /\ i + 1 # 1 BY <1>1, <3>1
    <3>. QED BY <1>3, <3>2 DEF Members, Distinct
  <2>2. ASSUME NEW x \in Members(q), x # q[1] PROVE x \in Members(r)
    <3>1. PICK i \in 1 .. n : x = q[i] BY <1>3 DEF Members
    <3>2. i \in 2 .. n BY <1>1, <2>2, <3>1
    <3>. QED BY <1>1, <1>6, <3>1, <3>2 DEF Members
  <2>. QED BY <1>1, <2>1, <2>2
<1>. QED BY <1>1, <1>4, <1>5, <1>7 DEF r

\* A thread that evicts.
LEMMA AtEvict ==
  ASSUME TodoInv, NEW t \in Thread, At(t, "evict")
  PROVE  todo[t] # << >> /\ First(todo[t]).op = "evict" /\ Evicts(todo[t])
<1>1. todo[t] \in Seq(Steps) /\ todo[t] # << >> /\ WellFormed(todo[t]) /\ First(todo[t]).op = "evict"
  BY AtFirst
<1>. QED BY <1>1, Pop

\* The mutex of the LRU cache is free: nobody evicts.
LEMMA LruFree ==
  ASSUME LruInv, lru = None, NEW u \in Thread
  PROVE  ~Doing(u, "evict", None) /\ victims[u] = << >>
BY ConstantsAssumption DEF LruInv

\* The end of destroy_entries.
LEMMA RelockKeeps ==
  ASSUME IInv, NEW t \in Thread, Relock(t)
  PROVE  IInv'
<1>d. /\ At(t, "relock") /\ Return(t)
      /\ UNCHANGED << pool, caches, cache, entry, weak, queue, lru, victims, held >>
  BY DEF Relock
<1>e. /\ OnlyTodo(t) /\ todo[t] # << >> /\ First(todo[t]).op = "relock"
      /\ Final(todo'[t]) = Final(todo[t]) /\ Frees(todo'[t]) = Frees(todo[t])
      /\ Deletes(todo'[t]) = Deletes(todo[t]) /\ (Evicts(todo'[t]) <=> Evicts(todo[t]))
      /\ First(todo'[t]).op \notin {"pin", "free", "evict"}
  BY Parts, <1>d, Popped, StepEq DEF Inner, Fresh
<1>m. Moves(t) BY <1>d, <1>e, MovesOnly
<1>k. EntriesKept /\ ListedKept /\ CachesKept /\ VictimsKept /\ UsedCaches' = UsedCaches
  BY Parts, <1>d, EntrySame, CacheSame, VictimsUnmoved
<1>s. /\ PoolUsers' = PoolUsers /\ PoolWeakPtrs' = PoolWeakPtrs
      /\ PoolWeakReleases' = PoolWeakReleases /\ Cardinality(Inserting') <= Cardinality(Inserting)
      /\ (\A c : CachePtrs(c)' = CachePtrs(c)) /\ (\A c : CacheReleases(c)' = CacheReleases(c))
      /\ (\A e : Users(e)' = Users(e)) /\ (\A e : WeakUsers(e)' = WeakUsers(e))
      /\ \A u \in Thread : \A e : Unmarks(u, e)' <=> Unmarks(u, e)
      /\ \A u \in Thread : \A e : Marks(u, e)' <=> Marks(u, e)
      /\ (\A c : UsedEntries(c)' = UsedEntries(c)) /\ (\A e \in Entry : Marked(e)' <=> Marked(e))
      /\ \A c : IsPinned(c)' <=> IsPinned(c)
  <2>1. \A c : IsPinned(c)' <=> IsPinned(c) BY <1>e, <1>m, SameSets
  <2>2. \A e \in Entry : Users(e) # {} => entry'[e].cache = entry[e].cache BY <1>d
  <2>3. \A e : Users(e)' = Users(e) BY <1>e, <1>m, <1>d, InnerSets
  <2>4. \A c : UsedEntries(c)' = UsedEntries(c) BY <2>2, <2>3, UsedKept
  <2>5. /\ \A u \in Thread : \A e : Unmarks(u, e)' <=> Unmarks(u, e)
        /\ \A u \in Thread : \A e : Marks(u, e)' <=> Marks(u, e)
    BY <1>e, <1>m, <1>d, InnerSets
  <2>6. \A e \in Entry : Marked(e)' <=> Marked(e) BY <1>d, <2>5, MarkedKept
  <2>. QED BY <1>e, <1>m, <1>d, <2>1, <2>4, <2>6, InnerSets
<1>1. TodoInv' BY Parts, <1>m, TodoKept
<1>2. LruInv' BY Parts, <1>d, <1>e, <1>m, <1>k, LruKept
<1>3. HeldInv' BY Parts, <1>d, <1>e, <1>m, HeldSame
<1>4. PoolCount' BY Parts, <1>d, <1>k, <1>s, PoolKept
<1>5. CacheCount' BY Parts, <1>d, <1>s, CacheKept
<1>6. EntryCount' BY Parts, <1>d, <1>s, EntryKept
<1>7. WeakCount' BY Parts, <1>d, <1>s, WeakCountKept
<1>8. WeakInv' BY Parts, <1>d, <1>s, WeakKept
<1>9. RemoveInv' BY Parts, <1>d, <1>e, <1>m, <1>k, RemoveKept
<1>10. KillInv' BY Parts, <1>d, <1>e, <1>m, <1>k, KillKept
<1>11. ObjectInv' BY Parts, <1>d, <1>k, <1>s, ObjectKept
<1>12. TableInv' BY Parts, Records, <1>d, <1>e, <1>m, <1>k, TableKept
<1>13. ShardInv' BY Parts, <1>d, <1>k, <1>s, ShardKept
<1>14. QueueInv' BY Parts, <1>d, <1>k, <1>s, Records, QueueKept
<1>15. SizeInv' BY Parts, <1>d, <1>e, <1>m, <1>k, <1>s, SizeKept
<1>16. TypeOK' BY Parts, <1>d, Types, TypesNext
<1>. QED
  BY <1>1, <1>2, <1>3, <1>4, <1>5, <1>6, <1>7, <1>8, <1>9, <1>10, <1>11, <1>12, <1>13, <1>14, <1>15, <1>16 DEF IInv

\* The lock taken to evict entries.
LEMMA LockLruKeeps ==
  ASSUME IInv, NEW t \in Thread, LockLru(t)
  PROVE  IInv'
<1>d. /\ At(t, "lru") /\ Return(t) /\ lru = None /\ lru' = t
      /\ UNCHANGED << pool, caches, cache, entry, weak, queue, victims, held >>
  BY DEF LockLru
<1>e. /\ OnlyTodo(t) /\ todo[t] # << >> /\ First(todo[t]).op = "lru"
      /\ Final(todo'[t]) = Final(todo[t]) /\ Frees(todo'[t]) = Frees(todo[t])
      /\ Deletes(todo'[t]) = Deletes(todo[t]) /\ (Evicts(todo'[t]) <=> Evicts(todo[t]))
      /\ First(todo'[t]) = Step("evict", None) /\ First(todo'[t]).op = "evict"
  BY Parts, <1>d, Popped, StepEq DEF Inner, Fresh
<1>m. Moves(t) BY <1>d, <1>e, MovesOnly
<1>k. EntriesKept /\ ListedKept /\ CachesKept /\ VictimsKept /\ UsedCaches' = UsedCaches
  BY Parts, <1>d, EntrySame, CacheSame, VictimsUnmoved
<1>s. /\ PoolUsers' = PoolUsers /\ PoolWeakPtrs' = PoolWeakPtrs
      /\ PoolWeakReleases' = PoolWeakReleases /\ Cardinality(Inserting') <= Cardinality(Inserting)
      /\ (\A c : CachePtrs(c)' = CachePtrs(c)) /\ (\A c : CacheReleases(c)' = CacheReleases(c))
      /\ (\A e : Users(e)' = Users(e)) /\ (\A e : WeakUsers(e)' = WeakUsers(e))
      /\ \A u \in Thread : \A e : Unmarks(u, e)' <=> Unmarks(u, e)
      /\ \A u \in Thread : \A e : Marks(u, e)' <=> Marks(u, e)
      /\ (\A c : UsedEntries(c)' = UsedEntries(c)) /\ (\A e \in Entry : Marked(e)' <=> Marked(e))
      /\ \A c : IsPinned(c)' <=> IsPinned(c)
  <2>1. \A c : IsPinned(c)' <=> IsPinned(c) BY <1>e, <1>m, SameSets
  <2>2. \A e \in Entry : Users(e) # {} => entry'[e].cache = entry[e].cache BY <1>d
  <2>3. \A e : Users(e)' = Users(e) BY <1>e, <1>m, <1>d, InnerSets
  <2>4. \A c : UsedEntries(c)' = UsedEntries(c) BY <2>2, <2>3, UsedKept
  <2>5. /\ \A u \in Thread : \A e : Unmarks(u, e)' <=> Unmarks(u, e)
        /\ \A u \in Thread : \A e : Marks(u, e)' <=> Marks(u, e)
    BY <1>e, <1>m, <1>d, InnerSets
  <2>6. \A e \in Entry : Marked(e)' <=> Marked(e) BY <1>d, <2>5, MarkedKept
  <2>. QED BY <1>e, <1>m, <1>d, <2>1, <2>4, <2>6, InnerSets
<1>1. TodoInv' BY Parts, <1>m, TodoKept
<1>2. LruInv'
  <2>1. \A u \in Thread : ~Doing(u, "evict", None) /\ victims[u] = << >> BY Parts, <1>d, LruFree
  <2>2. \A u \in Thread : u # t => ~Doing(u, "evict", None)'
    BY <1>m, <2>1 DEF Moves, OnlyTodo, Doing
  <2>3. \A u \in Thread : Buffer(victims[u])' BY Parts, <1>k, VictimsSame
  <2>. QED BY Parts, <1>d, <1>e, <2>1, <2>2, <2>3 DEF LruInv, Doing
<1>3. HeldInv' BY Parts, <1>d, <1>e, <1>m, HeldSame
<1>4. PoolCount' BY Parts, <1>d, <1>k, <1>s, PoolKept
<1>5. CacheCount' BY Parts, <1>d, <1>s, CacheKept
<1>6. EntryCount' BY Parts, <1>d, <1>s, EntryKept
<1>7. WeakCount' BY Parts, <1>d, <1>s, WeakCountKept
<1>8. WeakInv' BY Parts, <1>d, <1>s, WeakKept
<1>9. RemoveInv' BY Parts, <1>d, <1>e, <1>m, <1>k, RemoveKept
<1>10. KillInv' BY Parts, <1>d, <1>e, <1>m, <1>k, KillKept
<1>11. ObjectInv' BY Parts, <1>d, <1>k, <1>s, ObjectKept
<1>12. TableInv' BY Parts, Records, <1>d, <1>e, <1>m, <1>k, TableKept
<1>13. ShardInv' BY Parts, <1>d, <1>k, <1>s, ShardKept
<1>14. QueueInv' BY Parts, <1>d, <1>k, <1>s, Records, QueueKept
<1>15. SizeInv' BY Parts, <1>d, <1>e, <1>m, <1>k, <1>s, SizeKept
<1>16. TypeOK' BY Parts, <1>d, Types, TypesNext
<1>. QED
  BY <1>1, <1>2, <1>3, <1>4, <1>5, <1>6, <1>7, <1>8, <1>9, <1>10, <1>11, <1>12, <1>13, <1>14, <1>15, <1>16 DEF IInv

\* An entry in use leaves the queue.
LEMMA EvictSkipKeeps ==
  ASSUME IInv, NEW t \in Thread, EvictSkip(t)
  PROVE  IInv'
<1>d. /\ At(t, "evict") /\ queue # << >> /\ entry[Head(queue)].refs # 0 /\ queue' = Tail(queue)
      /\ UNCHANGED << pool, caches, cache, entry, weak, lru, victims, todo, held >>
  BY DEF EvictSkip
<1>q. /\ queue' \in Seq(Entry) /\ Distinct(queue') /\ Members(queue') = Members(queue) \ {Head(queue)}
  BY Parts, Records, <1>d, TailQueue DEF QueueInv
<1>e. /\ OnlyTodo(t) /\ todo[t] # << >> /\ First(todo[t]).op = "evict" /\ todo'[t] = todo[t]
      /\ Evicts(todo[t]) /\ Final(todo'[t]) = Final(todo[t])
  BY Parts, <1>d, AtEvict, Stayed
<1>m. Moves(t) BY <1>d, <1>e, MovesOnly
<1>k. EntriesKept /\ ListedKept /\ CachesKept /\ VictimsKept /\ UsedCaches' = UsedCaches
  BY Parts, <1>d, EntrySame, CacheSame, VictimsUnmoved
<1>s. /\ PoolUsers' = PoolUsers /\ PoolWeakPtrs' = PoolWeakPtrs
      /\ PoolWeakReleases' = PoolWeakReleases /\ Cardinality(Inserting') <= Cardinality(Inserting)
      /\ (\A c : CachePtrs(c)' = CachePtrs(c)) /\ (\A c : CacheReleases(c)' = CacheReleases(c))
      /\ (\A e : Users(e)' = Users(e)) /\ (\A e : WeakUsers(e)' = WeakUsers(e))
      /\ \A u \in Thread : \A e : Unmarks(u, e)' <=> Unmarks(u, e)
      /\ \A u \in Thread : \A e : Marks(u, e)' <=> Marks(u, e)
      /\ (\A c : UsedEntries(c)' = UsedEntries(c)) /\ (\A e \in Entry : Marked(e)' <=> Marked(e))
      /\ \A c : IsPinned(c)' <=> IsPinned(c)
  <2>1. \A c : IsPinned(c)' <=> IsPinned(c) BY <1>e, <1>m, SameSets
  <2>2. \A e \in Entry : Users(e) # {} => entry'[e].cache = entry[e].cache BY <1>d
  <2>3. \A e : Users(e)' = Users(e) BY <1>e, <1>m, <1>d, InnerSets
  <2>4. \A c : UsedEntries(c)' = UsedEntries(c) BY <2>2, <2>3, UsedKept
  <2>5. /\ \A u \in Thread : \A e : Unmarks(u, e)' <=> Unmarks(u, e)
        /\ \A u \in Thread : \A e : Marks(u, e)' <=> Marks(u, e)
    BY <1>e, <1>m, <1>d, InnerSets
  <2>6. \A e \in Entry : Marked(e)' <=> Marked(e) BY <1>d, <2>5, MarkedKept
  <2>. QED BY <1>e, <1>m, <1>d, <2>1, <2>4, <2>6, InnerSets
<1>1. TodoInv' BY Parts, <1>m, TodoKept
<1>2. LruInv' BY Parts, <1>d, <1>k, LruSame
<1>3. HeldInv' BY Parts, <1>d, <1>e, <1>m, HeldSame
<1>4. PoolCount' BY Parts, <1>d, <1>k, <1>s, PoolKept
<1>5. CacheCount' BY Parts, <1>d, <1>s, CacheKept
<1>6. EntryCount' BY Parts, <1>d, <1>s, EntryKept
<1>7. WeakCount' BY Parts, <1>d, <1>s, WeakCountKept
<1>8. WeakInv' BY Parts, <1>d, <1>s, WeakKept
<1>9. RemoveInv' BY Parts, <1>d, <1>e, <1>m, <1>k, RemoveKept
<1>10. KillInv' BY Parts, <1>d, <1>e, <1>m, <1>k, KillKept
<1>11. ObjectInv' BY Parts, <1>d, <1>k, <1>s, ObjectKept
<1>12. TableInv' BY Parts, Records, <1>d, <1>e, <1>m, <1>k, TableKept
<1>13. ShardInv' BY Parts, <1>d, <1>k, <1>s, ShardKept
<1>14. QueueInv'
  <2>1. \A e \in Members(queue)' : entry[e].listed' /\ ~IsPinned(entry[e].cache)'
    BY Parts, <1>d, <1>q, <1>s DEF QueueInv
  <2>. QED BY Parts, <1>d, <1>q, <2>1 DEF QueueInv, HasLruCache
<1>15. SizeInv'
  <2>1. /\ ~HasLruCache' => \A e \in Entry : entry'[e].bytes = 0
        /\ pool'.total = TotalBytes(Counted)'
    BY Parts, <1>d, <1>k, <1>s, TotalKept
  <2>. QED BY <1>e, <2>1 DEF SizeInv
<1>16. TypeOK' BY Records, <1>d, <1>q, TypesNext
<1>. QED
  BY <1>1, <1>2, <1>3, <1>4, <1>5, <1>6, <1>7, <1>8, <1>9, <1>10, <1>11, <1>12, <1>13, <1>14, <1>15, <1>16 DEF IInv

\* A cache that is destroyed leaves the table.
LEMMA UnlistCacheKeeps ==
  ASSUME IInv, NEW t \in Thread, UnlistCache(t)
  PROVE  IInv'
<1>. DEFINE c == Arg(t)
<1>d. /\ At(t, "unlist") /\ Return(t) /\ caches' = caches \ {c}
      /\ UNCHANGED << pool, cache, entry, weak, queue, lru, victims, held >>
  BY DEF UnlistCache
<1>e. /\ OnlyTodo(t) /\ todo[t] # << >> /\ First(todo[t]).op = "unlist"
      /\ Final(todo'[t]) = Final(todo[t]) /\ Frees(todo'[t]) = Frees(todo[t])
      /\ Deletes(todo'[t]) = Deletes(todo[t]) /\ (Evicts(todo'[t]) <=> Evicts(todo[t]))
      /\ First(todo'[t]) = Step("pin", c) /\ First(todo'[t]).op = "pin" /\ c \in Frees(todo[t])
  BY Parts, <1>d, Popped, StepEq DEF Inner, Fresh
<1>m. Moves(t) BY <1>d, <1>e, MovesOnly
<1>k. EntriesKept /\ ListedKept /\ CachesKept /\ VictimsKept /\ UsedCaches' = UsedCaches
  BY Parts, <1>d, EntrySame, CacheSame, VictimsUnmoved
<1>s. /\ PoolUsers' = PoolUsers /\ PoolWeakPtrs' = PoolWeakPtrs
      /\ PoolWeakReleases' = PoolWeakReleases /\ Cardinality(Inserting') <= Cardinality(Inserting)
      /\ (\A cc : CachePtrs(cc)' = CachePtrs(cc)) /\ (\A cc : CacheReleases(cc)' = CacheReleases(cc))
      /\ (\A e : Users(e)' = Users(e)) /\ (\A e : WeakUsers(e)' = WeakUsers(e))
      /\ \A u \in Thread : \A e : Unmarks(u, e)' <=> Unmarks(u, e)
      /\ \A u \in Thread : \A e : Marks(u, e)' <=> Marks(u, e)
      /\ (\A cc : UsedEntries(cc)' = UsedEntries(cc)) /\ (\A e \in Entry : Marked(e)' <=> Marked(e))
      /\ \A cc : IsPinned(cc)' <=> IsPinned(cc)
  <2>1. \A cc : IsPinned(cc)' <=> IsPinned(cc) BY <1>e, <1>m, SameSets
  <2>2. \A e \in Entry : Users(e) # {} => entry'[e].cache = entry[e].cache BY <1>d
  <2>3. \A e : Users(e)' = Users(e) BY <1>e, <1>m, <1>d, InnerSets
  <2>4. \A cc : UsedEntries(cc)' = UsedEntries(cc) BY <2>2, <2>3, UsedKept
  <2>5. /\ \A u \in Thread : \A e : Unmarks(u, e)' <=> Unmarks(u, e)
        /\ \A u \in Thread : \A e : Marks(u, e)' <=> Marks(u, e)
    BY <1>e, <1>m, <1>d, InnerSets
  <2>6. \A e \in Entry : Marked(e)' <=> Marked(e) BY <1>d, <2>5, MarkedKept
  <2>. QED BY <1>e, <1>m, <1>d, <2>1, <2>4, <2>6, InnerSets
<1>1. TodoInv' BY Parts, <1>m, TodoKept
<1>2. LruInv' BY Parts, <1>d, <1>e, <1>m, <1>k, LruKept
<1>3. HeldInv' BY Parts, <1>d, <1>e, <1>m, HeldSame
<1>4. PoolCount' BY Parts, <1>d, <1>k, <1>s, PoolKept
<1>5. CacheCount' BY Parts, <1>d, <1>s, CacheKept
<1>6. EntryCount' BY Parts, <1>d, <1>s, EntryKept
<1>7. WeakCount' BY Parts, <1>d, <1>s, WeakCountKept
<1>8. WeakInv' BY Parts, <1>d, <1>s, WeakKept
<1>9. RemoveInv' BY Parts, <1>d, <1>e, <1>m, <1>k, RemoveKept
<1>10. KillInv' BY Parts, <1>d, <1>e, <1>m, <1>k, KillKept
<1>11. ObjectInv' BY Parts, <1>d, <1>k, <1>s, ObjectKept
<1>12. TableInv'
  <2>. HIDE DEF c
  <2>1. \A u \in Thread : Killed(u)' = Killed(u)
    BY Parts, <1>e, <1>m, <1>k, RemovedAt DEF Killed
  <2>2. c \in Killed(t) BY <1>e DEF Killed
  <2>3. c \in Cache => ShouldDelete(cache[c]) BY Parts, <2>2 DEF KillInv
  <2>4. \A u \in Thread, d \in Cache :
           Doing(u, "pin", d)' \/ Doing(u, "free", d)' => d = c \/ Doing(u, "pin", d) \/ Doing(u, "free", d)
    BY <1>e, <1>m, StepEq DEF Moves, OnlyTodo, Doing
  <2>5. \A u \in Thread, d \in Cache : Doing(u, "pin", d)' \/ Doing(u, "free", d)' => d \notin caches'
    BY Parts, <1>d, <2>4 DEF TableInv
  <2>6. /\ \A d \in caches' : cache'[d].st = "live" /\ cache'[d].ident # Anonymous
        /\ \A d, f \in caches' : cache'[d].ident = cache'[f].ident => d = f
    BY Parts, <1>d DEF TableInv
  <2>7. \A d \in Cache : cache'[d].st = "live" /\ cache'[d].ident # Anonymous
                         /\ ~ShouldDelete(cache'[d]) => d \in caches'
    BY Parts, <1>d, <2>3 DEF TableInv
  <2>8. \A d \in Cache : cache'[d].st = "live" /\ (\A u \in Thread : d \notin Killed(u)') =>
            cache'[d].bit = One(d \in caches' /\ pool'.strong > 0)
    <3>1. ASSUME NEW d \in Cache, cache'[d].st = "live", \A u \in Thread : d \notin Killed(u)'
          PROVE  cache'[d].bit = One(d \in caches' /\ pool'.strong > 0)
      <4>1. d # c BY <2>1, <2>2, <3>1
      <4>2. cache[d].bit = One(d \in caches /\ pool.strong > 0)
        BY Parts, <1>d, <2>1, <3>1 DEF TableInv
      <4>3. d \in caches' <=> d \in caches BY <1>d, <4>1
      <4>. QED BY <1>d, <4>2, <4>3
    <3>. QED BY <3>1
  <2>. QED BY <2>5, <2>6, <2>7, <2>8 DEF TableInv, ShouldDelete
<1>13. ShardInv' BY Parts, <1>d, <1>k, <1>s, ShardKept
<1>14. QueueInv' BY Parts, <1>d, <1>k, <1>s, Records, QueueKept
<1>15. SizeInv' BY Parts, <1>d, <1>e, <1>m, <1>k, <1>s, SizeKept
<1>16. TypeOK' BY Records, <1>d, TypesNext
<1>. QED
  BY <1>1, <1>2, <1>3, <1>4, <1>5, <1>6, <1>7, <1>8, <1>9, <1>10, <1>11, <1>12, <1>13, <1>14, <1>15, <1>16 DEF IInv

\* The buffer of victims, empty or with one more entry.
LEMMA NoVictims ==
  ChosenIn(<< >>) = {} /\ DoomedIn(<< >>) = {} /\ Buffer(<< >>)
BY DEF ChosenIn, DoomedIn, Buffer

\* No victims in the next state.
LEMMA NoVictimsNext ==
  ASSUME NEW u, victims'[u] = << >>
  PROVE  ChosenIn(victims[u])' = {} /\ DoomedIn(victims[u])' = {} /\ Buffer(victims[u])'
BY DEF ChosenIn, DoomedIn, Buffer

\* One more victim.
LEMMA MoreVictims ==
  ASSUME NEW ws, Buffer(ws), NEW e \in Entry, e \notin ChosenIn(ws), entry[e].cache \in Cache,
         NEW del \in BOOLEAN, del => entry[e].cache \notin DoomedIn(ws)
  PROVE  LET vs == Append(ws, [e |-> e, del |-> del])
         IN  /\ Buffer(vs) /\ ChosenIn(vs) = ChosenIn(ws) \cup {e}
             /\ DoomedIn(vs) = DoomedIn(ws) \cup (IF del THEN {entry[e].cache} ELSE {})
             /\ vs # << >>
<1>. DEFINE a == [e |-> e, del |-> del]
            vs == Append(ws, a)
            n == Len(ws)
<1>1. a \in Victim /\ a.e = e /\ a.del = del BY DEF Victim
<1>. HIDE DEF a
<1>2. ws \in Seq(Victim) /\ n \in Nat BY DEF Buffer
<1>3. /\ vs \in Seq(Victim) /\ Len(vs) = n + 1 /\ vs[n + 1] = a
      /\ \A i \in 1 .. n : vs[i] = ws[i]
  BY <1>1, <1>2
<1>. HIDE DEF vs
<1>4. 1 .. n + 1 = 1 .. n \cup {n + 1} /\ n + 1 \notin 1 .. n BY <1>2
<1>5. ChosenIn(vs) = ChosenIn(ws) \cup {e}
  <2>1. ChosenIn(vs) = {vs[i].e : i \in 1 .. n \cup {n + 1}} BY <1>3, <1>4 DEF ChosenIn
  <2>. QED BY <1>1, <1>3, <2>1 DEF ChosenIn
<1>6. DoomedIn(vs) = DoomedIn(ws) \cup (IF del THEN {entry[e].cache} ELSE {})
  <2>1. \A x : x \in DoomedIn(vs) <=> \E i \in 1 .. n \cup {n + 1} : vs[i].del /\ x = entry[vs[i].e].cache
    BY <1>3, <1>4 DEF DoomedIn
  <2>2. \A x : x \in DoomedIn(ws) <=> \E i \in 1 .. n : ws[i].del /\ x = entry[ws[i].e].cache
    BY DEF DoomedIn
  <2>3. \A x : x \in DoomedIn(vs) <=> x \in DoomedIn(ws) \/ (del /\ x = entry[e].cache)
    BY <1>1, <1>3, <2>1, <2>2
  <2>. QED BY <2>3
<1>7. Buffer(vs)
  <2>1. \A i \in 1 .. n : ws[i].e # e /\ (ws[i].del /\ del => entry[ws[i].e].cache # entry[e].cache)
    BY DEF ChosenIn, DoomedIn
  <2>2. \A i \in 1 .. n + 1 : entry[vs[i].e].cache \in Cache BY <1>1, <1>3, <1>4 DEF Buffer
  <2>3. \A i, j \in 1 .. n + 1 : vs[i].e = vs[j].e => i = j BY <1>1, <1>3, <1>4, <2>1 DEF Buffer
  <2>4. \A i, j \in 1 .. n + 1 : vs[i].del /\ vs[j].del
            /\ entry[vs[i].e].cache = entry[vs[j].e].cache => i = j
    BY <1>1, <1>3, <1>4, <2>1 DEF Buffer
  <2>. QED BY <1>3, <2>2, <2>3, <2>4 DEF Buffer
<1>8. vs # << >> BY <1>2, <1>3
<1>. QED BY <1>5, <1>6, <1>7, <1>8 DEF vs, a

\* The steps that destroy the victims, and what follows them.
LEMMA DestroyThen ==
  ASSUME TodoInv, NEW t \in Thread, At(t, "evict"), NEW vs, Buffer(vs),
         NEW v \in Seq(Steps), WellFormed(v), AllInner(v), Fresh(v), Frees(v) = {}, Deletes(v) = {},
         Goto(t, DestroyEntries(vs) \o v),
         DoomedIn(vs) \cap Frees(todo[t]) = {}, ChosenIn(vs) \cap Deletes(todo[t]) = {}
  PROVE  /\ OnlyTodo(t) /\ Final(todo'[t]) = Final(todo[t])
         /\ Frees(todo'[t]) = DoomedIn(vs) \cup Frees(todo[t])
         /\ Deletes(todo'[t]) = ChosenIn(vs) \cup Deletes(todo[t])
         /\ Evicts(v) => Evicts(todo'[t])
         /\ Fresh(todo'[t])
<1>. DEFINE u == DestroyEntries(vs)
<1>1. /\ u \in Seq(Steps) /\ WellFormed(u) /\ AllInner(u) /\ Fresh(u) /\ ~Evicts(u)
      /\ Frees(u) = DoomedIn(vs) /\ Deletes(u) = ChosenIn(vs)
  BY DestroyEntriesSteps
<1>2. Goto(t, u \o v) OBVIOUS
<1>. HIDE DEF u
<1>3. /\ Final(v).op \in Follows
      /\ Frees(u) \cap Frees(v) = {} /\ Deletes(u) \cap Deletes(v) = {}
  BY InnerFinal, NoStepIs DEF Follows
<1>4. /\ u \o v \in Seq(Steps) /\ WellFormed(u \o v) /\ AllInner(u \o v)
      /\ Frees(u \o v) = Frees(u) \cup Frees(v) /\ Deletes(u \o v) = Deletes(u) \cup Deletes(v)
      /\ (Evicts(u \o v) <=> Evicts(u) \/ Evicts(v))
      /\ Fresh(u \o v)
  BY <1>1, <1>3, Join
<1>5. Frees(u \o v) = DoomedIn(vs) /\ Deletes(u \o v) = ChosenIn(vs) BY <1>1, <1>4
<1>. DEFINE s == u \o v
<1>. HIDE DEF s
<1>6. /\ OnlyTodo(t) /\ Final(todo'[t]) = Final(todo[t])
      /\ Frees(todo'[t]) = Frees(s) \cup Frees(todo[t])
      /\ Deletes(todo'[t]) = Deletes(s) \cup Deletes(todo[t])
      /\ Evicts(s) => Evicts(todo'[t])
      /\ Fresh(todo'[t])
  <2>1. s \in Seq(Steps) /\ WellFormed(s) /\ AllInner(s) /\ Fresh(s) /\ Goto(t, s)
    BY <1>2, <1>4 DEF s
  <2>2. Frees(s) \cap Frees(todo[t]) = {} /\ Deletes(s) \cap Deletes(todo[t]) = {} BY <1>5 DEF s
  <2>. QED BY <2>1, <2>2, Pushed
<1>. QED BY <1>4, <1>5, <1>6 DEF s

\* The loop of MaybeEvictEntries ends: the victims are destroyed.
LEMMA EvictDoneKeeps ==
  ASSUME IInv, NEW t \in Thread, EvictDone(t)
  PROVE  IInv'
<1>d. /\ At(t, "evict") /\ lru = t /\ lru' = None
      /\ pool.total <= pool.limit \/ queue = << >>
      /\ victims' = [victims EXCEPT ![t] = << >>]
      /\ Goto(t, DestroyEntries(victims[t]) \o << Step("relock", None) >>)
      /\ UNCHANGED << pool, caches, cache, entry, weak, queue, held >>
  BY DEF EvictDone
<1>b. /\ Buffer(victims[t]) /\ DoomedIn(victims[t]) \cap Frees(todo[t]) = {}
      /\ ChosenIn(victims[t]) \cap Deletes(todo[t]) = {}
  BY Parts DEF LruInv, RemoveInv, KillInv
<1>e. /\ OnlyTodo(t) /\ todo[t] # << >> /\ First(todo[t]).op = "evict"
      /\ Final(todo'[t]) = Final(todo[t])
      /\ Frees(todo'[t]) = DoomedIn(victims[t]) \cup Frees(todo[t])
      /\ Deletes(todo'[t]) = ChosenIn(victims[t]) \cup Deletes(todo[t])
      /\ First(todo'[t]).op \notin {"pin", "free", "evict"}
  <2>. DEFINE v == << Step("relock", None) >>
  <2>1. /\ v \in Seq(Steps) /\ WellFormed(v) /\ AllInner(v) /\ Fresh(v) /\ Frees(v) = {} /\ Deletes(v) = {}
    <3>1. Step("relock", None) \in Steps /\ Step("relock", None).op = "relock" BY IsStep, StepEq
    <3>. QED BY <3>1, Single DEF Inner, Fresh
  <2>2. Goto(t, DestroyEntries(victims[t]) \o v) BY <1>d
  <2>. HIDE DEF v
  <2>3. todo[t] # << >> /\ First(todo[t]).op = "evict" BY Parts, <1>d, AtEvict
  <2>. QED BY Parts, <1>d, <1>b, <2>1, <2>2, <2>3, DestroyThen DEF Fresh
<1>v. victims'[t] = << >> /\ \A u \in Thread : u # t => victims'[u] = victims[u]
  BY Parts, <1>d DEF LruInv
<1>m. Moves(t) BY <1>d, <1>e, <1>v DEF Moves
<1>k. EntriesKept /\ ListedKept /\ CachesKept /\ UsedCaches' = UsedCaches
  BY Parts, <1>d, EntrySame, CacheSame
<1>s. /\ PoolUsers' = PoolUsers /\ PoolWeakPtrs' = PoolWeakPtrs
      /\ PoolWeakReleases' = PoolWeakReleases /\ Cardinality(Inserting') <= Cardinality(Inserting)
      /\ (\A c : CachePtrs(c)' = CachePtrs(c)) /\ (\A c : CacheReleases(c)' = CacheReleases(c))
      /\ (\A e : Users(e)' = Users(e)) /\ (\A e : WeakUsers(e)' = WeakUsers(e))
      /\ \A u \in Thread : \A e : Unmarks(u, e)' <=> Unmarks(u, e)
      /\ \A u \in Thread : \A e : Marks(u, e)' <=> Marks(u, e)
      /\ (\A c : UsedEntries(c)' = UsedEntries(c)) /\ (\A e \in Entry : Marked(e)' <=> Marked(e))
      /\ \A c : IsPinned(c)' <=> IsPinned(c)
  <2>1. \A c : IsPinned(c)' <=> IsPinned(c) BY <1>e, <1>m, SameSets
  <2>2. \A e \in Entry : Users(e) # {} => entry'[e].cache = entry[e].cache BY <1>d
  <2>3. \A e : Users(e)' = Users(e) BY <1>e, <1>m, <1>d, InnerSets
  <2>4. \A c : UsedEntries(c)' = UsedEntries(c) BY <2>2, <2>3, UsedKept
  <2>5. /\ \A u \in Thread : \A e : Unmarks(u, e)' <=> Unmarks(u, e)
        /\ \A u \in Thread : \A e : Marks(u, e)' <=> Marks(u, e)
    BY <1>e, <1>m, <1>d, InnerSets
  <2>6. \A e \in Entry : Marked(e)' <=> Marked(e) BY <1>d, <2>5, MarkedKept
  <2>. QED BY <1>e, <1>m, <1>d, <2>1, <2>4, <2>6, InnerSets
<1>w. \A u \in Thread : /\ Buffer(victims[u])' /\ (u # t => DoomedIn(victims[u])' = DoomedIn(victims[u]))
                        /\ (u = t => ChosenIn(victims[u])' = {} /\ DoomedIn(victims[u])' = {})
  <2>1. ASSUME NEW u \in Thread, u # t
        PROVE  Buffer(victims[u])' /\ DoomedIn(victims[u])' = DoomedIn(victims[u])
    <3>1. victims'[u] = victims[u] /\ entry' = entry /\ Buffer(victims[u])
      BY Parts, <1>d, <1>v, <2>1 DEF LruInv
    <3>. QED BY <3>1 DEF Buffer, DoomedIn
  <2>2. ChosenIn(victims[t])' = {} /\ DoomedIn(victims[t])' = {} /\ Buffer(victims[t])'
    BY <1>v, NoVictimsNext
  <2>. QED BY <2>1, <2>2
<1>r. /\ \A u \in Thread : Removed(u)' = Removed(u) /\ Killed(u)' = Killed(u)
      /\ \A u \in Thread : Deletes(todo'[u]) \cap ChosenIn(victims'[u]) = {}
      /\ \A u \in Thread : Frees(todo[u])' \cap DoomedIn(victims[u])' = {}
      /\ \A u \in Thread : \A c \in DoomedIn(victims[u])' : cache'[c].shards = 0
  <2>1. ASSUME NEW u \in Thread, u # t
        PROVE  /\ Removed(u)' = Removed(u) /\ Killed(u)' = Killed(u)
               /\ Deletes(todo'[u]) \cap ChosenIn(victims'[u]) = {}
               /\ Frees(todo[u])' \cap DoomedIn(victims[u])' = {}
               /\ \A c \in DoomedIn(victims[u])' : cache'[c].shards = 0
    <3>1. victims'[u] = victims[u] /\ todo'[u] = todo[u] /\ DoomedIn(victims[u])' = DoomedIn(victims[u])
      BY <1>v, <1>m, <1>w, <2>1 DEF Moves, OnlyTodo
    <3>. QED BY Parts, <1>d, <3>1 DEF Removed, Killed, RemoveInv, KillInv
  <2>2. /\ Removed(t)' = Removed(t) /\ Killed(t)' = Killed(t)
        /\ Deletes(todo'[t]) \cap ChosenIn(victims'[t]) = {}
        /\ Frees(todo[t])' \cap DoomedIn(victims[t])' = {}
        /\ \A c \in DoomedIn(victims[t])' : cache'[c].shards = 0
    BY <1>e, <1>w DEF Removed, Killed
  <2>. QED BY <2>1, <2>2
<1>1. TodoInv' BY Parts, <1>m, TodoKept
<1>2. LruInv'
  <2>1. \A u \in Thread : victims'[u] = << >> BY Parts, <1>d, <1>v DEF LruInv
  <2>2. \A u \in Thread : ~Doing(u, "evict", None)'
    <3>1. ~Doing(t, "evict", None)' BY <1>e, StepEq DEF Doing
    <3>2. ASSUME NEW u \in Thread, u # t PROVE ~Doing(u, "evict", None)'
      BY Parts, <1>d, <1>m, <3>2 DEF LruInv, Moves, OnlyTodo, Doing
    <3>. QED BY <3>1, <3>2
  <2>3. victims' \in [Thread -> Seq(Victim)] BY Parts, <1>d DEF LruInv
  <2>4. \A u \in Thread : lru' # u BY <1>d, ConstantsAssumption
  <2>. QED BY <1>w, <2>1, <2>2, <2>3, <2>4 DEF LruInv
<1>3. HeldInv' BY Parts, <1>d, <1>e, <1>m, HeldSame
<1>4. PoolCount' BY Parts, <1>d, <1>k, <1>s, PoolKept
<1>5. CacheCount' BY Parts, <1>d, <1>s, CacheKept
<1>6. EntryCount' BY Parts, <1>d, <1>s, EntryKept
<1>7. WeakCount' BY Parts, <1>d, <1>s, WeakCountKept
<1>8. WeakInv' BY Parts, <1>d, <1>s, WeakKept
<1>9. RemoveInv' BY Parts, <1>d, <1>r, RemoveSame
<1>10. KillInv' BY Parts, <1>d, <1>r, KillSame
<1>11. ObjectInv' BY Parts, <1>d, <1>k, <1>s, ObjectKept
<1>12. TableInv' BY Parts, Records, <1>d, <1>e, <1>m, <1>k, <1>r, TableSame
<1>13. ShardInv' BY Parts, <1>d, <1>k, <1>s, ShardKept
<1>14. QueueInv' BY Parts, <1>d, <1>k, <1>s, Records, QueueKept
<1>15. SizeInv'
  <2>1. /\ ~HasLruCache' => \A e \in Entry : entry'[e].bytes = 0
        /\ pool'.total = TotalBytes(Counted)'
    BY Parts, <1>d, <1>k, <1>s, TotalKept
  <2>. QED BY <1>d, <2>1 DEF SizeInv
<1>16. TypeOK' BY Records, <1>d, TypesNext
<1>. QED
  BY <1>1, <1>2, <1>3, <1>4, <1>5, <1>6, <1>7, <1>8, <1>9, <1>10, <1>11, <1>12, <1>13, <1>14, <1>15, <1>16 DEF IInv

\* The fields of a cache of which an entry was erased.
LEMMA WithoutFields ==
  ASSUME TypeOK, NEW e \in Entry, entry[e].cache \in Cache
  PROVE  LET c == cache[entry[e].cache]
             new == WithoutEntry(e)
         IN  /\ new.st = c.st /\ new.ident = c.ident /\ new.strong = c.strong /\ new.bit = c.bit
             /\ new.shards = c.shards - One(ShardOf(e) = {e})
             /\ c.shards > 0 => new \in CacheRec
<1>1. cache[entry[e].cache] \in CacheRec BY Types
<1>2. ASSUME NEW r \in CacheRec, NEW b \in BOOLEAN
      PROVE  LET new == [r EXCEPT !.shards = IF b THEN @ - 1 ELSE @]
             IN  /\ new.st = r.st /\ new.ident = r.ident /\ new.strong = r.strong /\ new.bit = r.bit
                 /\ new.shards = r.shards - One(b)
                 /\ r.shards > 0 => new \in CacheRec
  BY DEF CacheRec, One
<1>. QED BY <1>1, <1>2, ZenonT(60) DEF WithoutEntry

\* An entry leaves its shard.
LEMMA ShardLess ==
  ASSUME TypeOK, NEW e \in Entry, entry[e].listed, NEW c \in Cache, c = entry[e].cache, EntriesKept,
         \A x \in Entry : x # e => entry'[x].listed = entry[x].listed,
         ~entry'[e].listed
  PROVE  /\ Listed(c)' = Listed(c) \ {e}
         /\ \A d : d # c => Listed(d)' = Listed(d) /\ ShardsOf(d)' = ShardsOf(d)
         /\ Cardinality(ShardsOf(c)) \in Nat \ {0}
         /\ Cardinality(ShardsOf(c)') = Cardinality(ShardsOf(c)) - One(ShardOf(e) = {e})
<1>. DEFINE S == Listed(c)
            g == [x \in Entry |-> ShardForKey[entry[x].key]]
<1>1. \A d : Listed(d)' = Listed(d) \ {e} BY DEF Listed, EntriesKept
<1>2. \A d : d # c => e \notin Listed(d) BY DEF Listed
<1>3. e \in S /\ S \subseteq Entry /\ IsFiniteSet(S) BY EntriesFinite DEF Listed
<1>4. ShardsOf(c) = {g[x] : x \in S} BY DEF ShardsOf, Listed
<1>5. ShardsOf(c)' = {g[x] : x \in S \ {e}}
  <2>2. Listed(c)' = S \ {e} BY <1>1
  <2>3. \A x \in S \ {e} : ShardForKey[entry'[x].key] = g[x] BY <1>3 DEF EntriesKept
  <2>4. ShardsOf(c)' = {ShardForKey[entry'[x].key] : x \in S \ {e}} BY <2>2 DEF ShardsOf
  <2>. HIDE DEF S, g
  <2>. QED BY <2>3, <2>4
<1>6. ShardOf(e) = {x \in S : g[x] = g[e]} BY <1>3 DEF ShardOf, Listed
<1>7. \A d : d # c => ShardsOf(d)' = ShardsOf(d)
  <2>1. ASSUME NEW d, d # c PROVE ShardsOf(d)' = ShardsOf(d)
    <3>1. Listed(d)' = Listed(d) BY <1>1, <1>2, <2>1
    <3>2. \A x \in Listed(d) : entry'[x].key = entry[x].key BY DEF Listed, EntriesKept
    <3>. QED BY <3>1, <3>2 DEF ShardsOf
  <2>. QED BY <2>1
<1>9. Listed(c)' = Listed(c) \ {e} /\ \A d : d # c => Listed(d)' = Listed(d) BY <1>1, <1>2
<1>. HIDE DEF g, S
<1>8. /\ Cardinality(Image(g, S)) \in Nat /\ Cardinality(Image(g, S)) > 0
      /\ Cardinality(Image(g, S \ {e})) = Cardinality(Image(g, S)) - One(Alike(g, S, e) = {e})
  BY <1>3, ImageLess
<1>10. /\ Cardinality(ShardsOf(c)) \in Nat \ {0}
       /\ Cardinality(ShardsOf(c)') = Cardinality(ShardsOf(c)) - One(ShardOf(e) = {e})
  BY <1>4, <1>5, <1>6, <1>8 DEF Image, Alike
<1>. QED BY <1>7, <1>9, <1>10

\* What it means for the cache: it is destroyed when its last shard empties.
LEMMA ErasedCache ==
  ASSUME IInv, NEW e \in Entry, entry[e].listed, NEW c \in Cache, c = entry[e].cache, ~IsPinned(c)
  PROVE  /\ cache[c].shards > 0 /\ WithoutEntry(e) \in CacheRec
         /\ ShouldDelete(cache[c]) => ShouldDelete(WithoutEntry(e))
         /\ BecomesDeletable(cache[c], WithoutEntry(e)) =>
                /\ WithoutEntry(e).shards = 0 /\ ShardOf(e) = {e}
                /\ \A u \in Thread : c \notin Killed(u)
         /\ \A u \in Thread : c \notin DoomedIn(victims[u])
<1>1. TypeOK /\ ShardInv /\ KillInv BY Parts
<1>2. cache[c].shards > 0
  <2>1. cache[c].shards = Cardinality(ShardsOf(c)) BY <1>1 DEF ShardInv
  <2>2. e \in Listed(c) /\ Listed(c) \subseteq Entry BY DEF Listed
  <2>. DEFINE g == [x \in Entry |-> ShardForKey[entry[x].key]]
  <2>3. Image(g, Listed(c)) = ShardsOf(c) BY <2>2 DEF Image, ShardsOf
  <2>4. IsFiniteSet(Listed(c)) BY <2>2, EntriesFinite
  <2>. HIDE DEF g
  <2>5. Cardinality(Image(g, Listed(c))) > 0 BY <2>2, <2>4, ImageLess
  <2>. QED BY <2>1, <2>3, <2>5
<1>. DEFINE new == WithoutEntry(e)
<1>3. /\ new.strong = cache[c].strong /\ new.bit = cache[c].bit
      /\ new.shards = cache[c].shards - One(ShardOf(e) = {e})
      /\ new \in CacheRec
  BY <1>1, <1>2, WithoutFields
<1>4. /\ cache[c].strong \in Nat /\ cache[c].shards \in Nat /\ cache[c].bit \in 0 .. 1
  BY <1>1, Fields
<1>. HIDE DEF new
<1>5. ShouldDelete(cache[c]) => ShouldDelete(new) BY <1>2, <1>3 DEF ShouldDelete
<1>6. ASSUME BecomesDeletable(cache[c], new)
      PROVE  new.shards = 0 /\ ShardOf(e) = {e} /\ \A u \in Thread : c \notin Killed(u)
  <2>1. ~ShouldDelete(cache[c]) /\ ShouldDelete(new) BY <1>6 DEF BecomesDeletable
  <2>2. new.shards = 0 BY <1>2, <1>3, <1>4, <2>1 DEF ShouldDelete
  <2>3. ShardOf(e) = {e}
    <3>1. CASE ShardOf(e) # {e}
      <4>1. One(ShardOf(e) = {e}) = 0 BY <3>1 DEF One
      <4>. QED BY <1>2, <1>3, <1>4, <2>2, <4>1
    <3>. QED BY <3>1
  <2>. QED BY <1>1, <2>1, <2>2, <2>3 DEF KillInv
<1>7. \A u \in Thread : c \notin DoomedIn(victims[u]) BY <1>1, <1>2 DEF KillInv
<1>. QED BY <1>2, <1>3, <1>5, <1>6, <1>7 DEF new

\* An entry without references.
LEMMA Unreferenced ==
  ASSUME IInv, NEW e \in Entry, entry[e].refs = 0
  PROVE  Users(e) = {} /\ ~Marked(e) /\ ~(entry[e].listed /\ IsPinned(entry[e].cache))
<1>1. 0 = 2 * Cardinality(Users(e)) + One(Marked(e))
          + 2 * One(entry[e].listed /\ IsPinned(entry[e].cache))
  BY DEF IInv, EntryCount
<1>2. Cardinality(Users(e)) \in Nat /\ (Cardinality(Users(e)) = 0 <=> Users(e) = {}) BY Counts
<1>3. /\ One(Marked(e)) = IF Marked(e) THEN 1 ELSE 0
      /\ One(entry[e].listed /\ IsPinned(entry[e].cache))
             = IF entry[e].listed /\ IsPinned(entry[e].cache) THEN 1 ELSE 0
  BY DEF One
<1>4. One(Marked(e)) \in {0, 1} /\ One(entry[e].listed /\ IsPinned(entry[e].cache)) \in {0, 1}
  BY DEF One
<1>5. /\ Cardinality(Users(e)) = 0 /\ One(Marked(e)) = 0
      /\ One(entry[e].listed /\ IsPinned(entry[e].cache)) = 0
  BY <1>1, <1>2, <1>4
<1>. QED BY <1>2, <1>3, <1>5

\* The bytes of an entry that does not count any more.
LEMMA TotalLess ==
  ASSUME TypeOK, NEW e \in Entry, e \in Counted, Counted' = Counted \ {e},
         \A x \in Entry : entry'[x].bytes \in Nat,
         \A x \in Entry : x # e => entry'[x].bytes = entry[x].bytes
  PROVE  /\ TotalBytes(Counted)' = TotalBytes(Counted) - entry[e].bytes
         /\ TotalBytes(Counted)' \in Nat
<1>. DEFINE f == [x \in Entry |-> entry[x].bytes]
            h == [x \in Entry |-> entry'[x].bytes]
<1>1. f \in [Entry -> Nat] /\ h \in [Entry -> Nat] BY DEF TypeOK
<1>2. TotalBytes(Counted) = SumFunctionOnSet(f, Counted)
      /\ TotalBytes(Counted)' = SumFunctionOnSet(h, Counted \ {e})
  BY DEF TotalBytes
<1>3. Counted \in SUBSET Entry BY DEF Counted
<1>4. f[e] = entry[e].bytes /\ \A x \in Counted \ {e} : f[x] = h[x] BY <1>3
<1>. HIDE DEF f, h
<1>5. SumFunctionOnSet(f, Counted \ {e}) = SumFunctionOnSet(h, Counted \ {e})
  BY <1>1, <1>3, <1>4, SumSame
<1>6. /\ SumFunctionOnSet(f, Counted) = f[e] + SumFunctionOnSet(f, Counted \ {e})
      /\ SumFunctionOnSet(f, Counted \ {e}) \in Nat /\ f[e] \in Nat
  BY <1>1, <1>3, SumFacts
<1>. QED BY <1>2, <1>4, <1>5, <1>6

\* An unreferenced entry is evicted.
LEMMA EvictEntryKeeps ==
  ASSUME IInv, NEW t \in Thread, EvictEntry(t)
  PROVE  IInv'
<1>q0. queue # << >> /\ At(t, "evict") /\ lru = t BY DEF EvictEntry
<1>q. /\ Head(queue) \in Entry /\ Head(queue) \in Members(queue)
      /\ Tail(queue) \in Seq(Entry) /\ Distinct(Tail(queue))
      /\ Members(Tail(queue)) = Members(queue) \ {Head(queue)}
  BY Parts, Records, <1>q0, TailQueue DEF QueueInv
<1>p. PICK e \in Entry : e = Head(queue) BY <1>q
<1>a. entry[e].listed /\ ~IsPinned(entry[e].cache) /\ entry[e].st = "live"
      /\ entry[e].cache \in Cache /\ cache[entry[e].cache].st = "live"
  BY Parts, <1>q, <1>p DEF QueueInv, ObjectInv
<1>c. PICK c \in Cache : c = entry[e].cache BY <1>a
<1>. DEFINE new == WithoutEntry(e)
            del == ShardOf(e) = {e} /\ BecomesDeletable(cache[c], new)
            vs == Append(victims[t], [e |-> e, del |-> del])
            full == Len(vs) = BufferSize
<1>d. /\ entry[e].refs = 0
      /\ cache' = [cache EXCEPT ![c] = new]
      /\ entry' = [entry EXCEPT ![e].listed = FALSE]
      /\ queue' = Tail(queue)
      /\ pool' = [pool EXCEPT !.total = @ - entry[e].bytes]
      /\ victims' = [victims EXCEPT ![t] = IF full THEN << >> ELSE vs]
      /\ lru' = IF full THEN None ELSE t
      /\ IF full THEN Goto(t, DestroyEntries(vs) \o << Step("lru", None), Step("evict", None) >>)
                 ELSE UNCHANGED todo
      /\ UNCHANGED << caches, weak, held >>
  BY <1>p, <1>c DEF EvictEntry, Evictable
<1>n. /\ cache[c].shards > 0 /\ new \in CacheRec
      /\ ShouldDelete(cache[c]) => ShouldDelete(new)
      /\ del <=> ~ShouldDelete(cache[c]) /\ ShouldDelete(new)
      /\ del => new.shards = 0 /\ \A u \in Thread : c \notin Killed(u)
      /\ \A u \in Thread : c \notin DoomedIn(victims[u])
      /\ new.st = "live" /\ new.ident = cache[c].ident /\ new.strong = cache[c].strong
      /\ new.bit = cache[c].bit /\ new.shards = cache[c].shards - One(ShardOf(e) = {e})
      /\ del \in BOOLEAN
  BY Parts, <1>a, <1>c, ErasedCache, WithoutFields DEF BecomesDeletable
<1>u. /\ Users(e) = {} /\ ~Marked(e) /\ \A u \in Thread : e \notin Removed(u)
  BY Parts, <1>a, <1>d, Unreferenced DEF RemoveInv
<1>x. /\ \A x \in Entry : x # e => entry'[x] = entry[x]
      /\ ~entry'[e].listed /\ entry'[e].refs = 0 /\ entry'[e].st = "live" /\ entry'[e].cache = c
      /\ entry'[e].key = entry[e].key /\ entry'[e].bytes = entry[e].bytes
      /\ entry' \in [Entry -> EntryRec]
  BY Records, <1>d, <1>a, <1>c DEF EntryRec
<1>z. /\ \A d \in Cache : d # c => cache'[d] = cache[d]
      /\ cache'[c] = new /\ cache' \in [Cache -> CacheRec]
  BY Records, <1>d, <1>n
<1>o. /\ pool'.live = pool.live /\ pool'.strong = pool.strong /\ pool'.weak = pool.weak
      /\ pool'.limit = pool.limit /\ pool'.idents = pool.idents
      /\ pool'.total = pool.total - entry[e].bytes
  BY Records, <1>d DEF PoolRec
<1>. HIDE DEF new, del
<1>b. /\ Buffer(victims[t]) /\ Buffer(vs) /\ ChosenIn(vs) = ChosenIn(victims[t]) \cup {e}
      /\ DoomedIn(vs) = DoomedIn(victims[t]) \cup (IF del THEN {c} ELSE {})
  <2>1. Buffer(victims[t]) /\ e \notin ChosenIn(victims[t]) BY Parts, <1>u DEF LruInv, Removed
  <2>. QED BY <1>a, <1>c, <1>n, <2>1, MoreVictims
<1>. HIDE DEF vs
<1>. DEFINE D == IF del THEN {c} ELSE {}
<1>f. /\ DoomedIn(vs) \cap Frees(todo[t]) = {} /\ ChosenIn(vs) \cap Deletes(todo[t]) = {}
  <2>1. /\ DoomedIn(victims[t]) \cap Frees(todo[t]) = {}
        /\ ChosenIn(victims[t]) \cap Deletes(todo[t]) = {}
    BY Parts DEF RemoveInv, KillInv
  <2>2. e \notin Deletes(todo[t]) /\ (del => c \notin Frees(todo[t]))
    BY <1>n, <1>u DEF Removed, Killed
  <2>. QED BY <1>b, <2>1, <2>2
<1>g. todo[t] # << >> /\ First(todo[t]).op = "evict" /\ Evicts(todo[t]) BY Parts, <1>q0, AtEvict
<1>v. /\ victims'[t] = (IF full THEN << >> ELSE vs) /\ \A u \in Thread : u # t => victims'[u] = victims[u]
      /\ victims' \in [Thread -> Seq(Victim)]
  <2>1. victims \in [Thread -> Seq(Victim)] /\ << >> \in Seq(Victim) /\ vs \in Seq(Victim)
    BY Parts, <1>b DEF LruInv, Buffer
  <2>. QED BY <1>d, <2>1
<1>e. /\ OnlyTodo(t) /\ Final(todo'[t]) = Final(todo[t]) /\ Evicts(todo'[t])
      /\ First(todo'[t]).op \notin {"pin", "free"}
      /\ full => /\ Frees(todo'[t]) = DoomedIn(vs) \cup Frees(todo[t])
                 /\ Deletes(todo'[t]) = ChosenIn(vs) \cup Deletes(todo[t])
                 /\ First(todo'[t]).op # "evict"
      /\ ~full => todo'[t] = todo[t]
  <2>. HIDE DEF full
  <2>1. CASE ~full
    <3>1. UNCHANGED todo BY <1>d, <2>1
    <3>2. OnlyTodo(t) /\ todo'[t] = todo[t] BY Parts, <3>1, Stayed
    <3>. QED BY <1>g, <2>1, <3>2
  <2>2. CASE full
    <3>. DEFINE v == << Step("lru", None), Step("evict", None) >>
    <3>1. /\ v \in Seq(Steps) /\ WellFormed(v) /\ AllInner(v) /\ Fresh(v) /\ Frees(v) = {}
          /\ Deletes(v) = {} /\ Evicts(v)
      BY EvictSteps, StepEq DEF Fresh
    <3>2. Goto(t, DestroyEntries(vs) \o v) BY <1>d, <2>2
    <3>. HIDE DEF v
    <3>3. /\ OnlyTodo(t) /\ Final(todo'[t]) = Final(todo[t])
          /\ Frees(todo'[t]) = DoomedIn(vs) \cup Frees(todo[t])
          /\ Deletes(todo'[t]) = ChosenIn(vs) \cup Deletes(todo[t])
          /\ Evicts(todo'[t]) /\ Fresh(todo'[t])
      BY Parts, <1>q0, <1>b, <1>f, <3>1, <3>2, DestroyThen
    <3>. QED BY <2>2, <3>3 DEF Fresh
  <2>. QED BY <2>1, <2>2
<1>m. Moves(t) BY <1>d, <1>e, <1>v DEF Moves
<1>k. EntriesKept /\ CachesKept /\ UsedCaches' = UsedCaches
  <2>1. EntriesKept BY <1>x, <1>a, <1>c DEF EntriesKept
  <2>2. CachesKept BY <1>z, <1>n, <1>a, <1>c DEF CachesKept
  <2>3. \A d \in Cache : cache'[d].strong = cache[d].strong BY <1>z, <1>n
  <2>. QED BY <2>1, <2>2, <2>3 DEF UsedCaches
<1>s. /\ PoolUsers' = PoolUsers /\ PoolWeakPtrs' = PoolWeakPtrs
      /\ PoolWeakReleases' = PoolWeakReleases /\ Cardinality(Inserting') <= Cardinality(Inserting)
      /\ (\A cc : CachePtrs(cc)' = CachePtrs(cc)) /\ (\A cc : CacheReleases(cc)' = CacheReleases(cc))
      /\ (\A ee : Users(ee)' = Users(ee)) /\ (\A ee : WeakUsers(ee)' = WeakUsers(ee))
      /\ \A u \in Thread : \A ee : Unmarks(u, ee)' <=> Unmarks(u, ee)
      /\ \A u \in Thread : \A ee : Marks(u, ee)' <=> Marks(u, ee)
      /\ (\A cc : UsedEntries(cc)' = UsedEntries(cc)) /\ (\A ee \in Entry : Marked(ee)' <=> Marked(ee))
      /\ \A cc : IsPinned(cc)' <=> IsPinned(cc)
  <2>1. \A cc : IsPinned(cc)' <=> IsPinned(cc) BY <1>e, <1>g, <1>m, SameSets
  <2>2. \A ee \in Entry : Users(ee) # {} => entry'[ee].cache = entry[ee].cache BY <1>x, <1>c
  <2>3. \A ee : Users(ee)' = Users(ee) BY <1>e, <1>m, <1>d, InnerSets
  <2>4. \A cc : UsedEntries(cc)' = UsedEntries(cc) BY <2>2, <2>3, UsedKept
  <2>5. /\ \A u \in Thread : \A ee : Unmarks(u, ee)' <=> Unmarks(u, ee)
        /\ \A u \in Thread : \A ee : Marks(u, ee)' <=> Marks(u, ee)
    BY <1>e, <1>m, <1>d, InnerSets
  <2>6. \A ee \in Entry : Marked(ee)' <=> Marked(ee) BY <1>d, <2>5, MarkedKept
  <2>. QED BY <1>e, <1>m, <1>d, <2>1, <2>4, <2>6, InnerSets
<1>w. \A u \in Thread :
         /\ Buffer(victims[u])'
         /\ u # t => /\ DoomedIn(victims[u])' = DoomedIn(victims[u])
                     /\ ChosenIn(victims[u])' = ChosenIn(victims[u])
         /\ u = t /\ full => ChosenIn(victims[u])' = {} /\ DoomedIn(victims[u])' = {}
         /\ u = t /\ ~full => /\ ChosenIn(victims[u])' = ChosenIn(vs)
                              /\ DoomedIn(victims[u])' = DoomedIn(vs)
  <2>. HIDE DEF full
  <2>1. ASSUME NEW ws, Buffer(ws) PROVE \A i \in 1 .. Len(ws) : entry'[ws[i].e].cache = entry[ws[i].e].cache
    <3>1. ws \in Seq(Victim) BY <2>1 DEF Buffer
    <3>3. \A i \in 1 .. Len(ws) : ws[i] \in Victim BY <3>1, ElementOfSeq
    <3>2. \A i \in 1 .. Len(ws) : ws[i].e \in Entry BY <3>3 DEF Victim
    <3>. QED BY <1>k, <3>2 DEF EntriesKept
  <2>2. ASSUME NEW u \in Thread, NEW ws, Buffer(ws), victims'[u] = ws
        PROVE  /\ Buffer(victims[u])' /\ DoomedIn(victims[u])' = DoomedIn(ws)
               /\ ChosenIn(victims[u])' = ChosenIn(ws)
    <3>1. \A i \in 1 .. Len(ws) : entry'[ws[i].e].cache = entry[ws[i].e].cache BY <2>1, <2>2
    <3>2. DoomedIn(victims[u])' = DoomedIn(ws) BY <2>2, <3>1 DEF DoomedIn
    <3>3. Buffer(victims[u])' BY <2>2, <3>1 DEF Buffer
    <3>. QED BY <2>2, <3>2, <3>3
  <2>3. \A u \in Thread : Buffer(victims[u]) BY Parts DEF LruInv
  <2>4. ASSUME NEW u \in Thread, u # t
        PROVE  /\ Buffer(victims[u])' /\ DoomedIn(victims[u])' = DoomedIn(victims[u])
               /\ ChosenIn(victims[u])' = ChosenIn(victims[u])
    BY <1>v, <2>2, <2>3, <2>4
  <2>5. ASSUME full
        PROVE  Buffer(victims[t])' /\ ChosenIn(victims[t])' = {} /\ DoomedIn(victims[t])' = {}
    BY <1>v, <2>5, NoVictimsNext
  <2>6. ASSUME ~full
        PROVE  /\ Buffer(victims[t])' /\ ChosenIn(victims[t])' = ChosenIn(vs)
               /\ DoomedIn(victims[t])' = DoomedIn(vs)
    BY <1>v, <1>b, <2>2, <2>6
  <2>. QED BY <2>4, <2>5, <2>6
<1>r. /\ \A u \in Thread : u # t => Removed(u)' = Removed(u) /\ Killed(u)' = Killed(u)
      /\ Removed(t)' = Removed(t) \cup {e} /\ Killed(t)' = Killed(t) \cup D
      /\ \A u \in Thread : Deletes(todo[u])' \cap ChosenIn(victims[u])' = {}
      /\ \A u \in Thread : Frees(todo[u])' \cap DoomedIn(victims[u])' = {}
      /\ \A u \in Thread : \A d \in DoomedIn(victims[u])' : d \in DoomedIn(victims[u]) \/ (del /\ d = c)
  <2>. HIDE DEF full
  <2>1. ASSUME NEW u \in Thread, u # t
        PROVE  /\ Removed(u)' = Removed(u) /\ Killed(u)' = Killed(u)
               /\ Deletes(todo[u])' \cap ChosenIn(victims[u])' = {}
               /\ Frees(todo[u])' \cap DoomedIn(victims[u])' = {}
    <3>1. /\ todo'[u] = todo[u] /\ DoomedIn(victims[u])' = DoomedIn(victims[u])
          /\ ChosenIn(victims[u])' = ChosenIn(victims[u])
      BY <1>m, <1>w, <2>1 DEF Moves, OnlyTodo
    <3>. QED BY Parts, <3>1 DEF Removed, Killed, RemoveInv, KillInv
  <2>2. /\ Removed(t)' = Removed(t) \cup {e} /\ Killed(t)' = Killed(t) \cup D
        /\ Deletes(todo[t])' \cap ChosenIn(victims[t])' = {}
        /\ Frees(todo[t])' \cap DoomedIn(victims[t])' = {}
    <3>1. CASE full BY <1>b, <1>e, <1>w, <3>1 DEF Removed, Killed
    <3>2. CASE ~full BY <1>b, <1>e, <1>f, <1>w, <3>2 DEF Removed, Killed
    <3>. QED BY <3>1, <3>2
  <2>3. \A u \in Thread : \A d \in DoomedIn(victims[u])' : d \in DoomedIn(victims[u]) \/ (del /\ d = c)
    BY <1>b, <1>w
  <2>. QED BY <2>1, <2>2, <2>3
<1>h. Counted' = Counted \ {e} /\ e \in Counted
  <2>1. \A x \in Entry : x # e => (x \in Counted' <=> x \in Counted)
    BY <1>x, <1>s DEF Counted, IsPinned, Doing
  <2>2. e \in Counted /\ e \notin Counted' BY <1>a, <1>x DEF Counted
  <2>3. Counted \subseteq Entry /\ Counted' \subseteq Entry BY DEF Counted
  <2>. QED BY <2>1, <2>2, <2>3
<1>i. /\ TotalBytes(Counted)' = TotalBytes(Counted) - entry[e].bytes
      /\ TotalBytes(Counted)' \in Nat
  <2>1. \A x \in Entry : entry'[x].bytes \in Nat /\ (x # e => entry'[x].bytes = entry[x].bytes)
    BY <1>x DEF EntryRec
  <2>. QED BY Parts, <1>h, <2>1, TotalLess
<1>j. pool'.total \in Nat /\ pool'.total = TotalBytes(Counted)' BY Parts, <1>i, <1>o DEF SizeInv
<1>1. TodoInv' BY Parts, <1>m, TodoKept
<1>2. LruInv'
  <2>1. \A u \in Thread : u # t => ~Doing(u, "evict", None)' /\ victims'[u] = << >>
    BY Parts, <1>q0, <1>m, <1>v DEF LruInv, Moves, OnlyTodo, Doing
  <2>2. lru' = t <=> Doing(t, "evict", None)'
    <3>1. Doing(t, "evict", None) BY Parts, <1>q0 DEF LruInv
    <3>. QED BY <1>d, <1>e, <3>1, StepEq, ConstantsAssumption DEF Doing
  <2>3. \A u \in Thread : u # t => lru' # u BY <1>d, ConstantsAssumption
  <2>4. victims'[t] # << >> => lru' = t BY <1>d, <1>v
  <2>. QED BY <1>v, <1>w, <2>1, <2>2, <2>3, <2>4 DEF LruInv
<1>3. HeldInv' BY Parts, <1>d, <1>e, <1>g, <1>m, HeldSame
<1>4. PoolCount' BY Parts, <1>o, <1>k, <1>s, PoolKept
<1>5. CacheCount'
  <2>1. \A d \in Cache : cache'[d].strong = cache[d].strong BY <1>z, <1>n
  <2>. QED BY Parts, <2>1, <1>s, CacheKept
<1>6. EntryCount'
  <2>1. ASSUME NEW x \in Entry
        PROVE  (entry[x].refs = 2 * Cardinality(Users(x)) + One(Marked(x))
                                + 2 * One(entry[x].listed /\ IsPinned(entry[x].cache)))'
    <3>1. entry[x].refs = 2 * Cardinality(Users(x)) + One(Marked(x))
                          + 2 * One(entry[x].listed /\ IsPinned(entry[x].cache))
      BY Parts DEF EntryCount
    <3>2. One(Marked(x))' = One(Marked(x)) BY <1>s DEF One
    <3>3. entry'[x].refs = entry[x].refs BY <1>x, <1>d
    <3>4. One(entry[x].listed /\ IsPinned(entry[x].cache))' = One(entry[x].listed /\ IsPinned(entry[x].cache))
      BY <1>s, <1>x, <1>a, <1>c DEF One, IsPinned, Doing
    <3>. QED BY <1>s, <3>1, <3>2, <3>3, <3>4
  <2>. QED BY <2>1 DEF EntryCount
<1>7. WeakCount' BY Parts, <1>d, <1>s, WeakCountKept
<1>8. WeakInv'
  <2>1. \A x \in Entry : entry'[x].st = entry[x].st BY <1>k DEF EntriesKept
  <2>. QED BY Parts, <1>d, <1>s, <2>1, WeakKept
<1>9. RemoveInv'
  <2>1. \A u, v \in Thread : u # v => Removed(u)' \cap Removed(v)' = {}
    BY Parts, <1>r, <1>u DEF RemoveInv
  <2>2. \A x \in Entry : (entry'[x].st = "live" /\ ~entry'[x].listed) <=> \E u \in Thread : x \in Removed(u)'
    BY Parts, <1>r, <1>x DEF RemoveInv
  <2>3. \A x \in Entry : entry'[x].st = "live" /\ ~entry'[x].listed => entry'[x].refs = 0
    BY Parts, <1>x DEF RemoveInv
  <2>. QED BY <1>r, <2>1, <2>2, <2>3 DEF RemoveInv
<1>10. KillInv'
  <2>1. \A u, v \in Thread : u # v => Killed(u)' \cap Killed(v)' = {}
    BY Parts, <1>r, <1>n DEF KillInv
  <2>2. \A d \in Cache : (cache'[d].st = "live" /\ ShouldDelete(cache'[d]))
                            <=> \E u \in Thread : d \in Killed(u)'
    <3>1. ASSUME NEW d \in Cache, d # c
          PROVE  (cache'[d].st = "live" /\ ShouldDelete(cache'[d])) <=> \E u \in Thread : d \in Killed(u)'
      <4>1. \A u \in Thread : d \in Killed(u)' <=> d \in Killed(u) BY <1>r, <3>1
      <4>. QED BY Parts, <1>z, <3>1, <4>1 DEF KillInv
    <3>2. (cache'[c].st = "live" /\ ShouldDelete(cache'[c])) <=> \E u \in Thread : c \in Killed(u)'
      <4>1. CASE del BY <1>r, <1>n, <1>z, <4>1
      <4>2. CASE ~del
        <5>1. \A u \in Thread : c \in Killed(u)' <=> c \in Killed(u) BY <1>r, <4>2
        <5>2. ShouldDelete(new) <=> ShouldDelete(cache[c]) BY <1>n, <4>2
        <5>. QED BY Parts, <1>a, <1>c, <1>n, <1>z, <5>1, <5>2 DEF KillInv
      <4>. QED BY <4>1, <4>2
    <3>. QED BY <3>1, <3>2
  <2>3. \A u \in Thread : \A d \in DoomedIn(victims[u])' : cache'[d].shards = 0
    <3>1. ASSUME NEW u \in Thread, NEW d \in DoomedIn(victims[u])'
          PROVE  cache'[d].shards = 0
      <4>1. CASE del /\ d = c BY <1>n, <1>z, <4>1
      <4>2. CASE d \in DoomedIn(victims[u])
        <5>1. d # c /\ cache[d].shards = 0 BY Parts, <1>n, <4>2 DEF KillInv
        <5>2. d \in Cache BY Parts, <4>2 DEF LruInv, Buffer, DoomedIn
        <5>. QED BY <1>z, <5>1, <5>2
      <4>. QED BY <1>r, <3>1, <4>1, <4>2
    <3>. QED BY <3>1
  <2>. QED BY <1>r, <2>1, <2>2, <2>3 DEF KillInv, ShouldDelete
<1>11. ObjectInv'
  <2>1. /\ \A x \in Entry : entry[x].st # "live" => entry'[x] = entry[x]
        /\ \A x \in Entry : entry'[x].listed => entry[x].listed
    BY <1>x, <1>a
  <2>2. \A d \in Cache : cache[d].st # "live" => cache'[d] = cache[d] BY <1>z, <1>a, <1>c
  <2>. QED BY Parts, <1>k, <1>s, <2>1, <2>2, ObjectKept
<1>12. TableInv'
  <2>1. \A u \in Thread : Killed(u) \subseteq Killed(u)' BY <1>r
  <2>2. \A d \in Cache : /\ cache[d].st = "live" /\ ~ShouldDelete(cache'[d]) => ~ShouldDelete(cache[d])
                       /\ cache'[d].bit = cache[d].bit
    BY <1>z, <1>n
  <2>. QED BY Parts, Records, <1>d, <1>e, <1>m, <1>k, <1>o, <2>1, <2>2, TableSame
<1>13. ShardInv'
  <2>1. /\ \A d : d # c => ShardsOf(d)' = ShardsOf(d)
        /\ Cardinality(ShardsOf(c)') = Cardinality(ShardsOf(c)) - One(ShardOf(e) = {e})
    BY Parts, <1>a, <1>c, <1>k, <1>x, ShardLess
  <2>2. cache'[c].shards = Cardinality(ShardsOf(c)')
    BY Parts, <1>a, <1>c, <1>n, <1>z, <2>1 DEF ShardInv
  <2>3. \A d \in Cache : d # c /\ ~IsPinned(d)' => cache'[d].shards = Cardinality(ShardsOf(d)')
    BY Parts, <1>z, <1>s, <2>1 DEF ShardInv
  <2>. QED BY <2>2, <2>3 DEF ShardInv
<1>14. QueueInv'
  <2>1. Distinct(queue') /\ Members(queue') = Members(queue) \ {e} /\ Members(queue) \subseteq Entry
    <3>1. Members(queue) \subseteq Entry BY Records, ElementOfSeq DEF Members
    <3>. QED BY <1>q, <1>p, <1>d, <3>1
  <2>2. \A x \in Members(queue') : entry'[x].listed /\ ~IsPinned(entry[x].cache)'
    <3>1. ASSUME NEW x \in Members(queue') PROVE entry'[x].listed /\ ~IsPinned(entry[x].cache)'
      <4>1. x \in Members(queue) /\ x # e /\ entry'[x] = entry[x] BY <1>x, <2>1
      <4>2. entry[x].listed /\ ~IsPinned(entry[x].cache) BY Parts, <4>1 DEF QueueInv
      <4>. QED BY <1>s, <4>1, <4>2 DEF IsPinned, Doing
    <3>. QED BY <3>1
  <2>3. HasLruCache' => \A x \in Entry : entry'[x].listed /\ entry'[x].refs = 0 => x \in Members(queue')
    BY Parts, <1>o, <1>x, <2>1 DEF QueueInv, HasLruCache
  <2>. QED BY <2>1, <2>2, <2>3 DEF QueueInv
<1>15. SizeInv'
  <2>1. ~HasLruCache' => \A x \in Entry : entry'[x].bytes = 0
    BY Parts, <1>o, <1>x DEF SizeInv, HasLruCache
  <2>. QED BY <1>e, <1>j, <2>1 DEF SizeInv
<1>16. TypeOK'
  <2>1. pool' \in PoolRec BY Records, <1>d, <1>o, <1>j DEF PoolRec
  <2>2. lru' \in Thread \cup {None} BY <1>d
  <2>. QED BY Records, <1>d, <1>q, <1>x, <1>z, <2>1, <2>2, TypesNext
<1>. QED
  BY <1>1, <1>2, <1>3, <1>4, <1>5, <1>6, <1>7, <1>8, <1>9, <1>10, <1>11, <1>12, <1>13, <1>14, <1>15, <1>16 DEF IInv

\* The weak state of an entry that is deleted.
LEMMA WeakAfterFields ==
  ASSUME IInv, NEW e \in Entry, weak[e].mutex = None
  PROVE  LET w == WeakAfter(e)
         IN  /\ w \in WeakRec /\ w.n = weak[e].n /\ w.entry = FALSE /\ w.mutex = None
             /\ w.st # "live" => w = [NoWeakState EXCEPT !.st = w.st]
             /\ w.st = "live" => w.n > 0
<1>1. weak[e] \in WeakRec BY Parts, Types
<1>2. weak[e].st # "live" => weak[e].entry = FALSE /\ weak[e] = [NoWeakState EXCEPT !.st = weak[e].st]
  BY <1>1, NoObject, Parts DEF WeakInv, WeakRec
<1>3. CASE weak[e].st # "live"
  <2>1. WeakAfter(e) = weak[e] BY <1>3 DEF WeakAfter
  <2>. QED BY <1>1, <1>2, <1>3, <2>1
<1>4. CASE weak[e].st = "live" /\ weak[e].n > 0
  <2>1. WeakAfter(e) = [weak[e] EXCEPT !.entry = FALSE] BY <1>4 DEF WeakAfter
  <2>2. \A r \in WeakRec : LET w == [r EXCEPT !.entry = FALSE] IN
           w \in WeakRec /\ w.n = r.n /\ w.entry = FALSE /\ w.mutex = r.mutex /\ w.st = r.st
    BY DEF WeakRec
  <2>. QED BY <1>1, <1>4, <2>1, <2>2
<1>5. CASE weak[e].st = "live" /\ weak[e].n = 0
  <2>1. WeakAfter(e) = [NoWeakState EXCEPT !.st = "dead"] BY <1>5 DEF WeakAfter, Deleted
  <2>2. LET w == [NoWeakState EXCEPT !.st = "dead"] IN
           w \in WeakRec /\ w.n = 0 /\ w.entry = FALSE /\ w.mutex = None /\ w.st = "dead"
    BY DEF WeakRec, NoWeakState, State
  <2>. QED BY <1>5, <2>1, <2>2
<1>6. weak[e].n \in Nat BY <1>1 DEF WeakRec
<1>7. weak[e].n > 0 \/ weak[e].n = 0 BY <1>6
<1>. QED BY <1>3, <1>4, <1>5, <1>7

\* The fields of a deleted entry.
LEMMA DeadEntry ==
  LET r == Deleted(NoEntry)
  IN  /\ r \in EntryRec /\ r.st = "dead" /\ r.cache = None /\ r.key = None /\ r.listed = FALSE
      /\ r.refs = 0 /\ r.bytes = 0 /\ r = [NoEntry EXCEPT !.st = r.st]
BY DEF Deleted, NoEntry, EntryRec, State

\* An entry without strong references is deleted.
LEMMA EntryGone ==
  ASSUME IInv, NEW e \in Entry, Users(e) = {}, weak[e].mutex = None,
         entry' = [entry EXCEPT ![e] = Deleted(NoEntry)],
         weak' = [weak EXCEPT ![e] = WeakAfter(e)],
         \A u \in Thread : \A x : Unmarks(u, x)' <=> Unmarks(u, x),
         \A u \in Thread : \A x : Marks(u, x)' <=> Marks(u, x),
         \A x : WeakUsers(x)' = WeakUsers(x)
  PROVE  /\ WeakInv' /\ WeakCount' /\ entry' \in [Entry -> EntryRec] /\ weak' \in [Entry -> WeakRec]
         /\ \A x \in Entry : x # e => entry'[x] = entry[x] /\ (Marked(x)' <=> Marked(x))
         /\ ~Marked(e)' /\ entry'[e].st = "dead" /\ entry'[e].cache = None /\ ~entry'[e].listed
         /\ entry'[e].refs = 0 /\ entry'[e].bytes = 0
         /\ entry'[e] = [NoEntry EXCEPT !.st = entry'[e].st]
<1>1. entry \in [Entry -> EntryRec] /\ weak \in [Entry -> WeakRec] BY Parts, Types
<1>2. /\ entry' \in [Entry -> EntryRec] /\ entry'[e].st = "dead" /\ entry'[e].cache = None
      /\ ~entry'[e].listed /\ entry'[e].refs = 0 /\ entry'[e].bytes = 0
      /\ entry'[e] = [NoEntry EXCEPT !.st = entry'[e].st]
      /\ \A x \in Entry : x # e => entry'[x] = entry[x]
  BY <1>1, DeadEntry
<1>3. /\ weak' \in [Entry -> WeakRec] /\ \A x \in Entry : x # e => weak'[x] = weak[x]
      /\ weak'[e].n = weak[e].n /\ weak'[e].entry = FALSE /\ weak'[e].mutex = None
      /\ weak'[e].st # "live" => weak'[e] = [NoWeakState EXCEPT !.st = weak'[e].st]
      /\ weak'[e].st = "live" => weak'[e].n > 0
  BY <1>1, WeakAfterFields
<1>4. \A u \in Thread : ~Unmarks(u, e) /\ ~Marks(u, e)
  <2>1. \A u \in Thread : ~Unmarks(u, e) BY ConstantsAssumption, Parts DEF WeakInv
  <2>2. \A u \in Thread : Marks(u, e) => held[u].entry = e BY Parts DEF HeldInv, HeldAt, Marks
  <2>. QED BY <2>1, <2>2 DEF Users
<1>5. WeakCount'
  <2>1. \A x \in Entry : weak'[x].n = weak[x].n BY <1>3
  <2>. QED BY <2>1, Parts, WeakCountKept
<1>6. \A x \in Entry : x # e => (Marked(x)' <=> Marked(x)) BY <1>3 DEF Marked
<1>7. ~Marked(e)' BY <1>3, <1>4 DEF Marked
<1>8. WeakInv'
  <2>1. WeakInv BY Parts
  <2>. DEFINE W(x) ==
           /\ weak[x].st # "live" => weak[x] = [NoWeakState EXCEPT !.st = weak[x].st]
           /\ weak[x].st = "live" => weak[x].n > 0 \/ weak[x].entry
           /\ weak[x].entry => entry[x].st = "live"
           /\ entry[x].st = "live" => weak[x].st = "new" \/ (weak[x].st = "live" /\ weak[x].entry)
           /\ entry[x].st = "new" => weak[x].st = "new"
           /\ \A u \in Thread : weak[x].mutex = u <=> Unmarks(u, x)
           /\ weak[x].mutex # None => weak[x].n = 0 /\ weak[x].entry
           /\ \A u, v \in Thread : Marks(u, x) /\ Marks(v, x) => u = v
  <2>2. ASSUME NEW x \in Entry, x # e PROVE W(x)'
    <3>1. W(x) BY <2>1 DEF WeakInv
    <3>2. weak'[x] = weak[x] /\ entry'[x] = entry[x] BY <1>2, <1>3, <2>2
    <3>. QED BY <3>1, <3>2
  <2>3. W(e)' BY <1>2, <1>3, <1>4, ConstantsAssumption
  <2>4. \A x \in Entry : W(x)' BY <2>2, <2>3
  <2>. QED BY <2>4 DEF WeakInv
<1>. QED BY <1>2, <1>3, <1>5, <1>6, <1>7, <1>8

\* An entry that was removed is deleted.
LEMMA DeleteEntryKeeps ==
  ASSUME IInv, NEW t \in Thread, DeleteEntry(t)
  PROVE  IInv'
<1>p. Arg(t) \in Entry BY Parts, AtFirst, StepFields DEF DeleteEntry
<1>c. PICK e \in Entry : e = Arg(t) BY <1>p
<1>d. /\ At(t, "delete") /\ Return(t) /\ weak[e].mutex = None
      /\ entry' = [entry EXCEPT ![e] = Deleted(NoEntry)]
      /\ weak' = [weak EXCEPT ![e] = WeakAfter(e)]
      /\ UNCHANGED << pool, caches, cache, queue, lru, victims, held >>
  BY <1>c DEF DeleteEntry
<1>e. /\ OnlyTodo(t) /\ todo[t] # << >> /\ First(todo[t]).op = "delete"
      /\ Final(todo'[t]) = Final(todo[t]) /\ Frees(todo'[t]) = Frees(todo[t])
      /\ Deletes(todo'[t]) = Deletes(todo[t]) \ {e} /\ (Evicts(todo'[t]) <=> Evicts(todo[t]))
      /\ First(todo'[t]).op \notin {"pin", "free", "evict"} /\ e \in Deletes(todo[t])
  BY Parts, <1>c, <1>d, Popped, StepEq DEF Inner, Fresh
<1>m. Moves(t) BY <1>d, <1>e, MovesOnly
<1>s. /\ PoolUsers' = PoolUsers /\ PoolWeakPtrs' = PoolWeakPtrs
      /\ PoolWeakReleases' = PoolWeakReleases /\ Cardinality(Inserting') <= Cardinality(Inserting)
      /\ (\A c : CachePtrs(c)' = CachePtrs(c)) /\ (\A c : CacheReleases(c)' = CacheReleases(c))
      /\ (\A x : Users(x)' = Users(x)) /\ (\A x : WeakUsers(x)' = WeakUsers(x))
      /\ \A u \in Thread : \A x : Unmarks(u, x)' <=> Unmarks(u, x)
      /\ \A u \in Thread : \A x : Marks(u, x)' <=> Marks(u, x)
  BY <1>e, <1>m, <1>d, InnerSets
<1>i. \A c : IsPinned(c)' <=> IsPinned(c) BY <1>e, <1>m, SameSets
<1>a. /\ entry[e].st = "live" /\ ~entry[e].listed /\ entry[e].refs = 0 /\ Users(e) = {}
      /\ e \in Removed(t) /\ \A u \in Thread : e \notin ChosenIn(victims[u])
  <2>1. e \in Removed(t) BY <1>e DEF Removed
  <2>2. entry[e].st = "live" /\ ~entry[e].listed /\ entry[e].refs = 0
    BY Parts, <2>1 DEF RemoveInv
  <2>3. \A u \in Thread : e \notin ChosenIn(victims[u])
    BY Parts, <1>e, <2>1 DEF RemoveInv, Removed
  <2>. QED BY <2>1, <2>2, <2>3, Unreferenced
<1>g. /\ WeakInv' /\ WeakCount' /\ entry' \in [Entry -> EntryRec] /\ weak' \in [Entry -> WeakRec]
      /\ \A x \in Entry : x # e => entry'[x] = entry[x] /\ (Marked(x)' <=> Marked(x))
      /\ ~Marked(e)' /\ entry'[e].st = "dead" /\ entry'[e].cache = None /\ ~entry'[e].listed
      /\ entry'[e].refs = 0 /\ entry'[e].bytes = 0
      /\ entry'[e] = [NoEntry EXCEPT !.st = entry'[e].st]
  BY <1>d, <1>a, <1>s, EntryGone
<1>k. CachesKept /\ VictimsKept /\ UsedCaches' = UsedCaches /\ \A c : UsedEntries(c)' = UsedEntries(c)
  <2>1. CachesKept /\ UsedCaches' = UsedCaches BY <1>d, CacheSame
  <2>2. \A x \in Entry : Users(x) # {} => entry'[x].cache = entry[x].cache BY <1>a, <1>g
  <2>3. \A c : UsedEntries(c)' = UsedEntries(c) BY <1>s, <2>2, UsedKept
  <2>4. VictimsKept BY Parts, <1>d, <1>a, <1>g, Chosen DEF VictimsKept
  <2>. QED BY <2>1, <2>3, <2>4
<1>h. Counted' = Counted /\ e \notin Counted
  <2>1. \A x \in Entry : x # e => (x \in Counted' <=> x \in Counted)
    BY <1>g, <1>i DEF Counted, IsPinned, Doing
  <2>2. e \notin Counted /\ e \notin Counted' BY <1>a, <1>g DEF Counted
  <2>3. Counted \subseteq Entry /\ Counted' \subseteq Entry BY DEF Counted
  <2>. QED BY <2>1, <2>2, <2>3
<1>1. TodoInv' BY Parts, <1>m, TodoKept
<1>2. LruInv' BY Parts, <1>d, <1>e, <1>m, <1>k, LruKept
<1>3. HeldInv' BY Parts, <1>d, <1>e, <1>m, HeldSame
<1>4. PoolCount' BY Parts, <1>d, <1>k, <1>s, PoolKept
<1>5. CacheCount' BY Parts, <1>d, <1>s, <1>k, CacheKept
<1>6. EntryCount'
  <2>1. ASSUME NEW x \in Entry
        PROVE  (entry[x].refs = 2 * Cardinality(Users(x)) + One(Marked(x))
                                + 2 * One(entry[x].listed /\ IsPinned(entry[x].cache)))'
    <3>1. CASE x # e
      <4>1. entry[x].refs = 2 * Cardinality(Users(x)) + One(Marked(x))
                            + 2 * One(entry[x].listed /\ IsPinned(entry[x].cache))
        BY Parts DEF EntryCount
      <4>2. One(Marked(x))' = One(Marked(x)) /\ entry'[x] = entry[x] BY <1>g, <3>1 DEF One
      <4>3. One(entry[x].listed /\ IsPinned(entry[x].cache))'
                = One(entry[x].listed /\ IsPinned(entry[x].cache))
        BY <1>i, <4>2 DEF One, IsPinned, Doing
      <4>. QED BY <1>s, <4>1, <4>2, <4>3
    <3>2. CASE x = e
      <4>1. /\ Cardinality(Users(e)') = 0 /\ One(Marked(e))' = 0
            /\ One(entry[e].listed /\ IsPinned(entry[e].cache))' = 0 /\ entry'[e].refs = 0
        <5>1. Cardinality(Users(e)) = 0 BY <1>a, Counts
        <5>. QED BY <1>g, <1>s, <5>1 DEF One
      <4>. QED BY <3>2, <4>1
    <3>. QED BY <3>1, <3>2
  <2>. QED BY <2>1 DEF EntryCount
<1>7. WeakCount' BY <1>g
<1>8. WeakInv' BY <1>g
<1>9. RemoveInv'
  <2>1. /\ \A u \in Thread : u # t => Removed(u)' = Removed(u) /\ Deletes(todo[u])' = Deletes(todo[u])
        /\ Removed(t)' = Removed(t) \ {e}
        /\ \A u \in Thread : ChosenIn(victims[u])' = ChosenIn(victims[u])
    BY Parts, <1>a, <1>e, <1>m, <1>k, RemovedAt, VictimsSame DEF Removed
  <2>2. \A u, v \in Thread : u # v => Removed(u)' \cap Removed(v)' = {}
    BY Parts, <2>1 DEF RemoveInv
  <2>3. \A u \in Thread : Deletes(todo[u])' \cap ChosenIn(victims[u])' = {}
    BY Parts, <1>e, <2>1 DEF RemoveInv
  <2>4. \A x \in Entry : (entry'[x].st = "live" /\ ~entry'[x].listed) <=> \E u \in Thread : x \in Removed(u)'
    <3>1. ASSUME NEW x \in Entry, x # e
          PROVE  (entry'[x].st = "live" /\ ~entry'[x].listed) <=> \E u \in Thread : x \in Removed(u)'
      <4>1. \A u \in Thread : x \in Removed(u)' <=> x \in Removed(u) BY <2>1, <3>1
      <4>. QED BY Parts, <1>g, <3>1, <4>1 DEF RemoveInv
    <3>2. \A u \in Thread : e \notin Removed(u)' BY Parts, <1>a, <2>1 DEF RemoveInv
    <3>. QED BY <1>g, <3>1, <3>2
  <2>5. \A x \in Entry : entry'[x].st = "live" /\ ~entry'[x].listed => entry'[x].refs = 0
    BY Parts, <1>g DEF RemoveInv
  <2>. QED BY <2>2, <2>3, <2>4, <2>5 DEF RemoveInv
<1>10. KillInv' BY Parts, <1>d, <1>e, <1>m, <1>k, KillKept
<1>11. ObjectInv'
  <2>1. /\ \A c \in Cache : cache'[c].st # "live" => cache'[c] = [NoCache EXCEPT !.st = cache'[c].st]
    BY Parts, <1>d DEF ObjectInv
  <2>2. \A x \in Entry : entry'[x].st # "live" => entry'[x] = [NoEntry EXCEPT !.st = entry'[x].st]
    <3>1. ASSUME NEW x \in Entry, x # e, entry'[x].st # "live"
          PROVE  entry'[x] = [NoEntry EXCEPT !.st = entry'[x].st]
      <4>1. entry'[x] = entry[x] /\ entry[x] = [NoEntry EXCEPT !.st = entry[x].st]
        BY Parts, <1>g, <3>1 DEF ObjectInv
      <4>. QED BY <4>1
    <3>. QED BY <1>g, <3>1
  <2>3. \A x \in Entry : entry'[x].st = "live" => entry'[x].cache \in Cache /\ entry'[x].key \in Key
    BY Parts, <1>g DEF ObjectInv
  <2>4. \A x \in Entry : entry'[x].listed => entry'[x].st = "live" /\ cache'[entry'[x].cache].st = "live"
    BY Parts, <1>g, <1>d DEF ObjectInv
  <2>5. Cardinality(FreshCaches') >= Cardinality(Inserting')
    <3>1. FreshCaches' = FreshCaches BY <1>d DEF FreshCaches
    <3>2. Cardinality(FreshCaches) \in Nat /\ Cardinality(Inserting) \in Nat /\ Cardinality(Inserting') \in Nat
      BY CachesFinite, ThreadsFinite DEF FreshCaches, Inserting
    <3>. QED BY Parts, <1>s, <3>1, <3>2 DEF ObjectInv
  <2>. QED BY <2>1, <2>2, <2>3, <2>4, <2>5 DEF ObjectInv
<1>12. TableInv' BY Parts, Records, <1>d, <1>e, <1>m, <1>k, TableKept
<1>13. ShardInv'
  <2>1. \A c : Listed(c)' = Listed(c) BY <1>a, <1>g DEF Listed
  <2>2. ASSUME NEW c PROVE ShardsOf(c)' = ShardsOf(c)
    <3>1. \A x \in Listed(c) : entry'[x].key = entry[x].key BY <1>a, <1>g DEF Listed
    <3>. QED BY <2>1, <3>1 DEF ShardsOf
  <2>. QED BY Parts, <1>d, <1>i, <2>2 DEF ShardInv
<1>14. QueueInv'
  <2>1. Members(queue) \subseteq Entry /\ e \notin Members(queue)
    <3>1. Members(queue) \subseteq Entry BY Records, ElementOfSeq DEF Members
    <3>. QED BY Parts, <1>a, <3>1 DEF QueueInv
  <2>2. \A x \in Members(queue) : entry'[x].listed /\ ~IsPinned(entry[x].cache)'
    <3>1. ASSUME NEW x \in Members(queue) PROVE entry'[x].listed /\ ~IsPinned(entry[x].cache)'
      <4>1. entry'[x] = entry[x] /\ entry[x].listed /\ ~IsPinned(entry[x].cache)
        BY Parts, <1>g, <2>1 DEF QueueInv
      <4>. QED BY <1>i, <4>1 DEF IsPinned, Doing
    <3>. QED BY <3>1
  <2>3. HasLruCache' => \A x \in Entry : entry'[x].listed /\ entry'[x].refs = 0 => x \in Members(queue')
    BY Parts, <1>d, <1>g DEF QueueInv, HasLruCache
  <2>. QED BY Parts, <1>d, <2>2, <2>3 DEF QueueInv
<1>15. SizeInv'
  <2>1. ~HasLruCache' => \A x \in Entry : entry'[x].bytes = 0
    BY Parts, <1>d, <1>g DEF SizeInv, HasLruCache
  <2>2. TotalBytes(Counted)' = TotalBytes(Counted)
    <3>. DEFINE f == [x \in Entry |-> entry[x].bytes]
                h == [x \in Entry |-> entry'[x].bytes]
    <3>1. f \in [Entry -> Nat] /\ h \in [Entry -> Nat] /\ \A x \in Counted : f[x] = h[x]
      BY Records, <1>g, <1>h DEF EntryRec, Counted
    <3>2. TotalBytes(Counted) = SumFunctionOnSet(f, Counted) /\ TotalBytes(Counted)' = SumFunctionOnSet(h, Counted)
      BY <1>h DEF TotalBytes
    <3>3. Counted \in SUBSET Entry BY DEF Counted
    <3>. HIDE DEF f, h
    <3>. QED BY <3>1, <3>2, <3>3, SumSame
  <2>3. (\E u \in Thread : Evicts(todo[u])) => \E u \in Thread : Evicts(todo[u])'
    BY <1>e, <1>m DEF Moves, OnlyTodo
  <2>. QED BY Parts, <1>d, <2>1, <2>2, <2>3 DEF SizeInv
<1>16. TypeOK' BY Records, <1>d, <1>g, TypesNext
<1>. QED
  BY <1>1, <1>2, <1>3, <1>4, <1>5, <1>6, <1>7, <1>8, <1>9, <1>10, <1>11, <1>12, <1>13, <1>14, <1>15, <1>16 DEF IInv

\* An entry is deleted with its cache.
LEMMA FreeEntryKeeps ==
  ASSUME IInv, NEW t \in Thread, FreeEntry(t)
  PROVE  IInv'
<1>p. At(t, "free") /\ Arg(t) \in Cache BY Parts, AtFirst, StepFields DEF FreeEntry
<1>c. PICK c \in Cache : c = Arg(t) BY <1>p
<1>b. PICK e \in Listed(c) :
         /\ weak[e].mutex = None
         /\ entry' = [entry EXCEPT ![e] = Deleted(NoEntry)]
         /\ weak' = [weak EXCEPT ![e] = WeakAfter(e)]
  BY <1>c DEF FreeEntry
<1>d. /\ e \in Entry /\ weak[e].mutex = None
      /\ entry' = [entry EXCEPT ![e] = Deleted(NoEntry)]
      /\ weak' = [weak EXCEPT ![e] = WeakAfter(e)]
      /\ UNCHANGED << pool, caches, cache, queue, lru, victims, todo, held >>
  BY <1>b DEF FreeEntry, Listed
<1>e. /\ OnlyTodo(t) /\ todo[t] # << >> /\ First(todo[t]) = Step("free", c) /\ todo'[t] = todo[t]
      /\ Final(todo'[t]) = Final(todo[t])
  BY Parts, <1>p, <1>c, <1>d, AtFirst, Stayed
<1>m. Moves(t) BY <1>d, <1>e, MovesOnly
<1>s. /\ PoolUsers' = PoolUsers /\ PoolWeakPtrs' = PoolWeakPtrs
      /\ PoolWeakReleases' = PoolWeakReleases /\ Cardinality(Inserting') <= Cardinality(Inserting)
      /\ (\A cc : CachePtrs(cc)' = CachePtrs(cc)) /\ (\A cc : CacheReleases(cc)' = CacheReleases(cc))
      /\ (\A x : Users(x)' = Users(x)) /\ (\A x : WeakUsers(x)' = WeakUsers(x))
      /\ \A u \in Thread : \A x : Unmarks(u, x)' <=> Unmarks(u, x)
      /\ \A u \in Thread : \A x : Marks(u, x)' <=> Marks(u, x)
  BY <1>e, <1>m, <1>d, InnerSets
<1>i. \A d : IsPinned(d)' <=> IsPinned(d) BY <1>d DEF IsPinned, Doing
<1>a. /\ entry[e].st = "live" /\ entry[e].listed /\ entry[e].cache = c /\ IsPinned(c) /\ Users(e) = {}
      /\ \A u \in Thread : e \notin Removed(u) /\ e \notin ChosenIn(victims[u])
  <2>1. entry[e].listed /\ entry[e].cache = c /\ IsPinned(c)
    BY <1>b, <1>e DEF Listed, IsPinned, Doing
  <2>2. entry[e].st = "live" /\ \A u \in Thread : e \notin Removed(u)
    BY Parts, <1>d, <2>1 DEF ObjectInv, RemoveInv
  <2>3. Users(e) = {}
    <3>1. ASSUME Users(e) # {} PROVE FALSE
      <4>1. cache[c].strong > 0 BY <1>d, <2>1, <3>1, UsedEntry
      <4>. QED BY <2>1, <4>1, UsedCache
    <3>. QED BY <3>1
  <2>. QED BY <2>1, <2>2, <2>3 DEF Removed
<1>g. /\ WeakInv' /\ WeakCount' /\ entry' \in [Entry -> EntryRec] /\ weak' \in [Entry -> WeakRec]
      /\ \A x \in Entry : x # e => entry'[x] = entry[x] /\ (Marked(x)' <=> Marked(x))
      /\ ~Marked(e)' /\ entry'[e].st = "dead" /\ entry'[e].cache = None /\ ~entry'[e].listed
      /\ entry'[e].refs = 0 /\ entry'[e].bytes = 0
      /\ entry'[e] = [NoEntry EXCEPT !.st = entry'[e].st]
  BY <1>d, <1>a, <1>s, EntryGone
<1>k. CachesKept /\ VictimsKept /\ UsedCaches' = UsedCaches /\ \A cc : UsedEntries(cc)' = UsedEntries(cc)
  <2>1. CachesKept /\ UsedCaches' = UsedCaches BY <1>d, CacheSame
  <2>2. \A x \in Entry : Users(x) # {} => entry'[x].cache = entry[x].cache BY <1>a, <1>g
  <2>3. \A cc : UsedEntries(cc)' = UsedEntries(cc) BY <1>s, <2>2, UsedKept
  <2>4. VictimsKept BY Parts, <1>d, <1>a, <1>g, Chosen DEF VictimsKept
  <2>. QED BY <2>1, <2>3, <2>4
<1>h. Counted' = Counted /\ e \notin Counted
  <2>1. \A x \in Entry : x # e => (x \in Counted' <=> x \in Counted)
    BY <1>g, <1>i DEF Counted, IsPinned, Doing
  <2>2. e \notin Counted /\ e \notin Counted' BY <1>a, <1>g DEF Counted
  <2>3. Counted \subseteq Entry /\ Counted' \subseteq Entry BY DEF Counted
  <2>. QED BY <2>1, <2>2, <2>3
<1>1. TodoInv' BY Parts, <1>m, TodoKept
<1>2. LruInv' BY Parts, <1>d, <1>k, LruSame
<1>3. HeldInv' BY Parts, <1>d, <1>e, <1>m, HeldSame
<1>4. PoolCount' BY Parts, <1>d, <1>k, <1>s, PoolKept
<1>5. CacheCount' BY Parts, <1>d, <1>s, <1>k, CacheKept
<1>6. EntryCount'
  <2>1. ASSUME NEW x \in Entry
        PROVE  (entry[x].refs = 2 * Cardinality(Users(x)) + One(Marked(x))
                                + 2 * One(entry[x].listed /\ IsPinned(entry[x].cache)))'
    <3>1. CASE x # e
      <4>1. entry[x].refs = 2 * Cardinality(Users(x)) + One(Marked(x))
                            + 2 * One(entry[x].listed /\ IsPinned(entry[x].cache))
        BY Parts DEF EntryCount
      <4>2. One(Marked(x))' = One(Marked(x)) /\ entry'[x] = entry[x] BY <1>g, <3>1 DEF One
      <4>3. One(entry[x].listed /\ IsPinned(entry[x].cache))'
                = One(entry[x].listed /\ IsPinned(entry[x].cache))
        BY <1>i, <4>2 DEF One, IsPinned, Doing
      <4>. QED BY <1>s, <4>1, <4>2, <4>3
    <3>2. CASE x = e
      <4>1. /\ Cardinality(Users(e)') = 0 /\ One(Marked(e))' = 0
            /\ One(entry[e].listed /\ IsPinned(entry[e].cache))' = 0 /\ entry'[e].refs = 0
        <5>1. Cardinality(Users(e)) = 0 BY <1>a, Counts
        <5>. QED BY <1>g, <1>s, <5>1 DEF One
      <4>. QED BY <3>2, <4>1
    <3>. QED BY <3>1, <3>2
  <2>. QED BY <2>1 DEF EntryCount
<1>7. WeakCount' BY <1>g
<1>8. WeakInv' BY <1>g
<1>9. RemoveInv'
  <2>1. /\ \A u \in Thread : Removed(u)' = Removed(u) /\ Deletes(todo[u])' = Deletes(todo[u])
        /\ \A u \in Thread : ChosenIn(victims[u])' = ChosenIn(victims[u])
    BY Parts, <1>d, <1>k, VictimsSame DEF Removed
  <2>2. \A x \in Entry : (entry'[x].st = "live" /\ ~entry'[x].listed) <=> \E u \in Thread : x \in Removed(u)'
    BY Parts, <1>a, <1>g, <2>1 DEF RemoveInv
  <2>3. \A x \in Entry : entry'[x].st = "live" /\ ~entry'[x].listed => entry'[x].refs = 0
    BY Parts, <1>g DEF RemoveInv
  <2>. QED BY Parts, <2>1, <2>2, <2>3 DEF RemoveInv
<1>10. KillInv' BY Parts, <1>d, <1>e, <1>m, <1>k, KillKept
<1>11. ObjectInv'
  <2>1. /\ \A cc \in Cache : cache'[cc].st # "live" => cache'[cc] = [NoCache EXCEPT !.st = cache'[cc].st]
    BY Parts, <1>d DEF ObjectInv
  <2>2. \A x \in Entry : entry'[x].st # "live" => entry'[x] = [NoEntry EXCEPT !.st = entry'[x].st]
    <3>1. ASSUME NEW x \in Entry, x # e, entry'[x].st # "live"
          PROVE  entry'[x] = [NoEntry EXCEPT !.st = entry'[x].st]
      <4>1. entry'[x] = entry[x] /\ entry[x] = [NoEntry EXCEPT !.st = entry[x].st]
        BY Parts, <1>g, <3>1 DEF ObjectInv
      <4>. QED BY <4>1
    <3>. QED BY <1>g, <3>1
  <2>3. \A x \in Entry : entry'[x].st = "live" => entry'[x].cache \in Cache /\ entry'[x].key \in Key
    BY Parts, <1>g DEF ObjectInv
  <2>4. \A x \in Entry : entry'[x].listed => entry'[x].st = "live" /\ cache'[entry'[x].cache].st = "live"
    BY Parts, <1>g, <1>d DEF ObjectInv
  <2>5. Cardinality(FreshCaches') >= Cardinality(Inserting')
    <3>1. FreshCaches' = FreshCaches BY <1>d DEF FreshCaches
    <3>2. Cardinality(FreshCaches) \in Nat /\ Cardinality(Inserting) \in Nat /\ Cardinality(Inserting') \in Nat
      BY CachesFinite, ThreadsFinite DEF FreshCaches, Inserting
    <3>. QED BY Parts, <1>s, <3>1, <3>2 DEF ObjectInv
  <2>. QED BY <2>1, <2>2, <2>3, <2>4, <2>5 DEF ObjectInv
<1>12. TableInv'
  <2>1. \A u \in Thread : Killed(u)' = Killed(u) BY Parts, <1>d, <1>k, VictimsSame DEF Killed
  <2>2. \A u \in Thread : \A d \in Cache :
           (Doing(u, "pin", d)' <=> Doing(u, "pin", d)) /\ (Doing(u, "free", d)' <=> Doing(u, "free", d))
    BY <1>d DEF Doing
  <2>. QED BY Parts, <1>d, <2>1, <2>2 DEF TableInv
<1>13. ShardInv'
  <2>1. ASSUME NEW d, d # c PROVE ShardsOf(d)' = ShardsOf(d)
    <3>0. \A x \in Listed(d) : x \in Entry /\ x # e BY <1>a, <2>1 DEF Listed
    <3>1. Listed(d)' = Listed(d)
      <4>1. \A x \in Entry : x # e => (x \in Listed(d)' <=> x \in Listed(d)) BY <1>g DEF Listed
      <4>2. e \notin Listed(d)' /\ Listed(d)' \subseteq Entry BY <1>g DEF Listed
      <4>. QED BY <3>0, <4>1, <4>2
    <3>2. \A x \in Listed(d) : entry'[x].key = entry[x].key BY <1>g, <3>0
    <3>. QED BY <3>1, <3>2 DEF ShardsOf
  <2>2. IsPinned(c)' BY <1>a, <1>i
  <2>. QED BY Parts, <1>d, <1>i, <2>1, <2>2 DEF ShardInv
<1>14. QueueInv'
  <2>1. Members(queue) \subseteq Entry /\ e \notin Members(queue)
    <3>1. Members(queue) \subseteq Entry BY Records, ElementOfSeq DEF Members
    <3>. QED BY Parts, <1>a, <3>1 DEF QueueInv
  <2>2. \A x \in Members(queue) : entry'[x].listed /\ ~IsPinned(entry[x].cache)'
    <3>1. ASSUME NEW x \in Members(queue) PROVE entry'[x].listed /\ ~IsPinned(entry[x].cache)'
      <4>1. entry'[x] = entry[x] /\ entry[x].listed /\ ~IsPinned(entry[x].cache)
        BY Parts, <1>g, <2>1 DEF QueueInv
      <4>. QED BY <1>i, <4>1 DEF IsPinned, Doing
    <3>. QED BY <3>1
  <2>3. HasLruCache' => \A x \in Entry : entry'[x].listed /\ entry'[x].refs = 0 => x \in Members(queue')
    BY Parts, <1>d, <1>g DEF QueueInv, HasLruCache
  <2>. QED BY Parts, <1>d, <2>2, <2>3 DEF QueueInv
<1>15. SizeInv'
  <2>1. ~HasLruCache' => \A x \in Entry : entry'[x].bytes = 0
    BY Parts, <1>d, <1>g DEF SizeInv, HasLruCache
  <2>2. TotalBytes(Counted)' = TotalBytes(Counted)
    <3>. DEFINE f == [x \in Entry |-> entry[x].bytes]
                h == [x \in Entry |-> entry'[x].bytes]
    <3>1. f \in [Entry -> Nat] /\ h \in [Entry -> Nat] /\ \A x \in Counted : f[x] = h[x]
      BY Records, <1>g, <1>h DEF EntryRec, Counted
    <3>2. TotalBytes(Counted) = SumFunctionOnSet(f, Counted) /\ TotalBytes(Counted)' = SumFunctionOnSet(h, Counted)
      BY <1>h DEF TotalBytes
    <3>3. Counted \in SUBSET Entry BY DEF Counted
    <3>. HIDE DEF f, h
    <3>. QED BY <3>1, <3>2, <3>3, SumSame
  <2>3. (\E u \in Thread : Evicts(todo[u])) => \E u \in Thread : Evicts(todo[u])'
    BY <1>e, <1>m DEF Moves, OnlyTodo
  <2>. QED BY Parts, <1>d, <2>1, <2>2, <2>3 DEF SizeInv
<1>16. TypeOK' BY Records, <1>d, <1>g, TypesNext
<1>. QED
  BY <1>1, <1>2, <1>3, <1>4, <1>5, <1>6, <1>7, <1>8, <1>9, <1>10, <1>11, <1>12, <1>13, <1>14, <1>15, <1>16 DEF IInv

\* The cache that a thread is destroying.
LEMMA DoingFrees ==
  ASSUME TodoInv, NEW u \in Thread, NEW op \in {"unlist", "pin", "free"}, NEW c, Doing(u, op, c)
  PROVE  c \in Frees(todo[u]) /\ c \in Killed(u)
<1>1. todo[u] \in Seq(Steps) /\ WellFormed(todo[u]) BY DEF TodoInv
<1>2. First(todo[u]) = Step(op, c) /\ First(todo[u]).op = op /\ First(todo[u]).x = c
  BY StepEq DEF Doing
<1>3. todo[u] # << >> BY <1>2, FirstAt
<1>4. c \in Frees(todo[u]) BY <1>1, <1>2, <1>3, Pop
<1>. QED BY <1>4 DEF Killed

\* A cache without entries is deleted.
LEMMA FreeCacheKeeps ==
  ASSUME IInv, NEW t \in Thread, FreeCache(t)
  PROVE  IInv'
<1>p. At(t, "free") /\ Arg(t) \in Cache BY Parts, AtFirst, StepFields DEF FreeCache
<1>c. PICK c \in Cache : c = Arg(t) BY <1>p
<1>d. /\ Return(t) /\ Listed(c) = {}
      /\ cache' = [cache EXCEPT ![c] = Deleted(NoCache)]
      /\ UNCHANGED << pool, caches, entry, weak, queue, lru, victims, held >>
  BY <1>c DEF FreeCache
<1>e. /\ OnlyTodo(t) /\ todo[t] # << >> /\ First(todo[t]).op = "free"
      /\ Final(todo'[t]) = Final(todo[t]) /\ Frees(todo'[t]) = Frees(todo[t]) \ {c}
      /\ Deletes(todo'[t]) = Deletes(todo[t]) /\ (Evicts(todo'[t]) <=> Evicts(todo[t]))
      /\ First(todo'[t]).op \notin {"pin", "free", "evict"} /\ c \in Frees(todo[t])
      /\ First(todo[t]) = Step("free", c)
  BY Parts, <1>p, <1>c, <1>d, Popped, StepEq DEF Inner, Fresh
<1>m. Moves(t) BY <1>d, <1>e, MovesOnly
<1>s. /\ PoolUsers' = PoolUsers /\ PoolWeakPtrs' = PoolWeakPtrs
      /\ PoolWeakReleases' = PoolWeakReleases /\ Cardinality(Inserting') <= Cardinality(Inserting)
      /\ (\A cc : CachePtrs(cc)' = CachePtrs(cc)) /\ (\A cc : CacheReleases(cc)' = CacheReleases(cc))
      /\ (\A x : Users(x)' = Users(x)) /\ (\A x : WeakUsers(x)' = WeakUsers(x))
      /\ \A u \in Thread : \A x : Unmarks(u, x)' <=> Unmarks(u, x)
      /\ \A u \in Thread : \A x : Marks(u, x)' <=> Marks(u, x)
  BY <1>e, <1>m, <1>d, InnerSets
<1>a. /\ c \in Killed(t) /\ c \notin DoomedIn(victims[t]) /\ cache[c].st = "live" /\ cache[c].strong = 0
      /\ c \notin caches /\ \A u \in Thread : u # t => c \notin Killed(u) /\ ~Doing(u, "free", c)
  <2>1. c \in Killed(t) /\ c \notin DoomedIn(victims[t]) BY Parts, <1>e DEF Killed, KillInv
  <2>2. cache[c].st = "live" /\ cache[c].strong = 0 BY Parts, <2>1 DEF KillInv, ShouldDelete
  <2>3. \A u \in Thread : u # t => c \notin Killed(u) BY Parts, <2>1 DEF KillInv
  <2>4. c \notin caches BY Parts, <1>e DEF TableInv, Doing
  <2>. QED BY Parts, <2>1, <2>2, <2>3, <2>4, DoingFrees
<1>z. /\ \A d \in Cache : d # c => cache'[d] = cache[d]
      /\ cache'[c] = [NoCache EXCEPT !.st = cache'[c].st] /\ cache'[c].st = "dead"
      /\ cache'[c].strong = 0 /\ cache'[c].shards = 0 /\ cache' \in [Cache -> CacheRec]
  <2>1. LET r == Deleted(NoCache) IN /\ r = [NoCache EXCEPT !.st = r.st] /\ r.st = "dead" /\ r.strong = 0
                                     /\ r.shards = 0 /\ r \in CacheRec
    BY ConstantsAssumption DEF Deleted, NoCache, CacheRec, State
  <2>. QED BY Records, <1>d, <2>1
<1>i. /\ \A d : d # c => (IsPinned(d)' <=> IsPinned(d))
      /\ ~IsPinned(c)'
  <2>1. \A d : d # c => (Doing(t, "free", d)' <=> Doing(t, "free", d)) BY <1>e, StepEq DEF Doing
  <2>2. ~Doing(t, "free", c)' BY <1>e, StepEq DEF Doing
  <2>3. \A u \in Thread : \A d : u # t => (Doing(u, "free", d)' <=> Doing(u, "free", d))
    BY <1>m DEF Moves, OnlyTodo, Doing
  <2>. QED BY <1>a, <2>1, <2>2, <2>3 DEF IsPinned
<1>l. \A x \in Entry : entry[x].listed => entry[x].cache # c BY <1>d DEF Listed
<1>k. /\ EntriesKept /\ ListedKept /\ VictimsKept /\ UsedCaches' = UsedCaches
      /\ (\A d : UsedEntries(d)' = UsedEntries(d)) /\ (\A x \in Entry : Marked(x)' <=> Marked(x))
      /\ (\A d \in Cache : cache'[d].strong = cache[d].strong)
  <2>1. EntriesKept /\ ListedKept /\ VictimsKept BY Parts, <1>d, EntrySame, VictimsUnmoved
  <2>2. \A d \in Cache : cache'[d].strong = cache[d].strong BY <1>z, <1>a
  <2>3. \A d : UsedEntries(d)' = UsedEntries(d) BY <1>d, <1>s, UsedKept
  <2>4. \A x \in Entry : Marked(x)' <=> Marked(x) BY <1>d, <1>s, MarkedKept
  <2>. QED BY <2>1, <2>2, <2>3, <2>4 DEF UsedCaches
<1>r. /\ \A u \in Thread : u # t => Killed(u)' = Killed(u) /\ Frees(todo[u])' = Frees(todo[u])
      /\ Killed(t)' = Killed(t) \ {c}
      /\ \A u \in Thread : DoomedIn(victims[u])' = DoomedIn(victims[u])
  BY Parts, <1>a, <1>e, <1>m, <1>k, RemovedAt, VictimsSame DEF Killed
<1>1. TodoInv' BY Parts, <1>m, TodoKept
<1>2. LruInv' BY Parts, <1>d, <1>e, <1>m, <1>k, LruKept
<1>3. HeldInv' BY Parts, <1>d, <1>e, <1>m, HeldSame
<1>4. PoolCount' BY Parts, <1>d, <1>k, <1>s, PoolKept
<1>5. CacheCount' BY Parts, <1>k, <1>s, CacheKept
<1>6. EntryCount'
  <2>1. ASSUME NEW x \in Entry
        PROVE  (entry[x].refs = 2 * Cardinality(Users(x)) + One(Marked(x))
                                + 2 * One(entry[x].listed /\ IsPinned(entry[x].cache)))'
    <3>1. entry[x].refs = 2 * Cardinality(Users(x)) + One(Marked(x))
                          + 2 * One(entry[x].listed /\ IsPinned(entry[x].cache))
      BY Parts DEF EntryCount
    <3>2. One(Marked(x))' = One(Marked(x)) BY <1>k DEF One
    <3>3. One(entry[x].listed /\ IsPinned(entry[x].cache))'
              = One(entry[x].listed /\ IsPinned(entry[x].cache))
      BY <1>d, <1>i, <1>l DEF One, IsPinned, Doing
    <3>. QED BY <1>d, <1>s, <3>1, <3>2, <3>3
  <2>. QED BY <2>1 DEF EntryCount
<1>7. WeakCount' BY Parts, <1>d, <1>s, WeakCountKept
<1>8. WeakInv' BY Parts, <1>d, <1>s, WeakKept
<1>9. RemoveInv' BY Parts, <1>d, <1>e, <1>m, <1>k, RemoveKept
<1>10. KillInv'
  <2>1. \A u, v \in Thread : u # v => Killed(u)' \cap Killed(v)' = {} BY Parts, <1>r DEF KillInv
  <2>2. \A u \in Thread : Frees(todo[u])' \cap DoomedIn(victims[u])' = {}
    BY Parts, <1>e, <1>r DEF KillInv
  <2>3. \A d \in Cache : (cache'[d].st = "live" /\ ShouldDelete(cache'[d]))
                            <=> \E u \in Thread : d \in Killed(u)'
    <3>1. ASSUME NEW d \in Cache, d # c
          PROVE  (cache'[d].st = "live" /\ ShouldDelete(cache'[d])) <=> \E u \in Thread : d \in Killed(u)'
      <4>1. \A u \in Thread : d \in Killed(u)' <=> d \in Killed(u) BY <1>r, <3>1
      <4>. QED BY Parts, <1>z, <3>1, <4>1 DEF KillInv
    <3>2. \A u \in Thread : c \notin Killed(u)' BY <1>a, <1>r
    <3>. QED BY <1>z, <3>1, <3>2
  <2>4. \A u \in Thread : \A d \in DoomedIn(victims[u])' : cache'[d].shards = 0
    <3>1. ASSUME NEW u \in Thread, NEW d \in DoomedIn(victims[u])
          PROVE  cache'[d].shards = 0
      <4>1. d # c /\ cache[d].shards = 0 BY Parts, <1>a DEF KillInv, Killed
      <4>2. d \in Cache BY Parts DEF LruInv, Buffer, DoomedIn
      <4>. QED BY <1>z, <4>1, <4>2
    <3>. QED BY <1>r, <3>1
  <2>. QED BY <2>1, <2>2, <2>3, <2>4 DEF KillInv, ShouldDelete
<1>11. ObjectInv'
  <2>1. \A d \in Cache : cache'[d].st # "live" => cache'[d] = [NoCache EXCEPT !.st = cache'[d].st]
    <3>1. ASSUME NEW d \in Cache, d # c, cache'[d].st # "live"
          PROVE  cache'[d] = [NoCache EXCEPT !.st = cache'[d].st]
      <4>1. cache'[d] = cache[d] /\ cache[d] = [NoCache EXCEPT !.st = cache[d].st]
        BY Parts, <1>z, <3>1 DEF ObjectInv
      <4>. QED BY <4>1
    <3>. QED BY <1>z, <3>1
  <2>2. \A x \in Entry : entry'[x].listed => entry'[x].st = "live" /\ cache'[entry'[x].cache].st = "live"
    BY Parts, <1>d, <1>l, <1>z DEF ObjectInv
  <2>3. Cardinality(FreshCaches') >= Cardinality(Inserting')
    <3>1. FreshCaches' = FreshCaches BY <1>a, <1>z DEF FreshCaches
    <3>2. Cardinality(FreshCaches) \in Nat /\ Cardinality(Inserting) \in Nat /\ Cardinality(Inserting') \in Nat
      BY CachesFinite, ThreadsFinite DEF FreshCaches, Inserting
    <3>. QED BY Parts, <1>s, <3>1, <3>2 DEF ObjectInv
  <2>. QED BY Parts, <1>d, <2>1, <2>2, <2>3 DEF ObjectInv
<1>12. TableInv'
  <2>1. \A u \in Thread, d \in Cache :
           Doing(u, "pin", d)' \/ Doing(u, "free", d)' => Doing(u, "pin", d) \/ Doing(u, "free", d)
    BY <1>e, <1>m, StepEq DEF Moves, OnlyTodo, Doing
  <2>2. \A u \in Thread, d \in Cache : Doing(u, "pin", d)' \/ Doing(u, "free", d)' => d \notin caches'
    BY Parts, <1>d, <2>1 DEF TableInv
  <2>3. /\ \A d \in caches' : cache'[d].st = "live" /\ cache'[d].ident # Anonymous
        /\ \A d, f \in caches' : cache'[d].ident = cache'[f].ident => d = f
    <3>1. \A d \in caches : d \in Cache /\ cache'[d] = cache[d] BY Records, <1>a, <1>z
    <3>. QED BY Parts, <1>d, <3>1 DEF TableInv
  <2>4. \A d \in Cache : cache'[d].st = "live" /\ cache'[d].ident # Anonymous
                         /\ ~ShouldDelete(cache'[d]) => d \in caches'
    BY Parts, <1>d, <1>z DEF TableInv
  <2>5. \A d \in Cache : cache'[d].st = "live" /\ (\A u \in Thread : d \notin Killed(u)') =>
            cache'[d].bit = One(d \in caches' /\ pool'.strong > 0)
    <3>1. ASSUME NEW d \in Cache, cache'[d].st = "live", \A u \in Thread : d \notin Killed(u)'
          PROVE  cache'[d].bit = One(d \in caches' /\ pool'.strong > 0)
      <4>1. d # c /\ cache'[d] = cache[d] BY <1>z, <3>1
      <4>2. \A u \in Thread : d \notin Killed(u) BY <1>r, <3>1, <4>1
      <4>. QED BY Parts, <1>d, <3>1, <4>1, <4>2 DEF TableInv
    <3>. QED BY <3>1
  <2>. QED BY <2>2, <2>3, <2>4, <2>5 DEF TableInv, ShouldDelete
<1>13. ShardInv'
  <2>1. \A d : ShardsOf(d)' = ShardsOf(d) BY <1>k, ListedSame
  <2>2. Cardinality(ShardsOf(c)') = 0
    <3>1. ShardsOf(c) = {} BY <1>d DEF ShardsOf
    <3>. QED BY <2>1, <3>1, FS_EmptySet
  <2>. QED BY Parts, <1>i, <1>z, <2>1, <2>2 DEF ShardInv
<1>14. QueueInv'
  <2>1. Members(queue) \subseteq Entry BY Records, ElementOfSeq DEF Members
  <2>2. \A x \in Members(queue)' : entry'[x].listed /\ ~IsPinned(entry[x].cache)'
    BY Parts, <1>d, <1>i, <1>l, <2>1 DEF QueueInv, IsPinned, Doing
  <2>. QED BY Parts, <1>d, <2>2 DEF QueueInv, HasLruCache
<1>15. SizeInv'
  <2>1. Counted' = Counted BY <1>d, <1>i, <1>l DEF Counted, IsPinned, Doing
  <2>2. TotalBytes(Counted)' = TotalBytes(Counted) BY <1>d, <2>1 DEF TotalBytes
  <2>3. (\E u \in Thread : Evicts(todo[u])) => \E u \in Thread : Evicts(todo[u])'
    BY <1>e, <1>m DEF Moves, OnlyTodo
  <2>. QED BY Parts, <1>d, <2>2, <2>3 DEF SizeInv, HasLruCache
<1>16. TypeOK' BY Records, <1>d, <1>z, TypesNext
<1>. QED
  BY <1>1, <1>2, <1>3, <1>4, <1>5, <1>6, <1>7, <1>8, <1>9, <1>10, <1>11, <1>12, <1>13, <1>14, <1>15, <1>16 DEF IInv

\* The entries of a cache that is destroyed are pinned.
LEMMA PinEntriesKeeps ==
  ASSUME IInv, NEW t \in Thread, PinEntries(t)
  PROVE  IInv'
<1>p. At(t, "pin") /\ Arg(t) \in Cache BY Parts, AtFirst, StepFields DEF PinEntries
<1>c. PICK c \in Cache : c = Arg(t) BY <1>p
<1>g. PICK L \in SUBSET Entry : L = Listed(c) BY DEF Listed
<1>d. /\ Return(t)
      /\ entry' = [e \in Entry |-> IF e \in L THEN [entry[e] EXCEPT !.refs = Pinned(@)] ELSE entry[e]]
      /\ queue' = Unlinked(L)
      /\ pool' = [pool EXCEPT !.total = @ - TotalBytes(L)]
      /\ UNCHANGED << caches, cache, weak, lru, victims, held >>
  BY <1>c, <1>g DEF PinEntries
<1>e. /\ OnlyTodo(t) /\ todo[t] # << >> /\ First(todo[t]).op = "pin"
      /\ Final(todo'[t]) = Final(todo[t]) /\ Frees(todo'[t]) = Frees(todo[t])
      /\ Deletes(todo'[t]) = Deletes(todo[t]) /\ (Evicts(todo'[t]) <=> Evicts(todo[t]))
      /\ First(todo'[t]) = Step("free", c) /\ c \in Frees(todo[t])
      /\ First(todo[t]) = Step("pin", c) /\ First(todo'[t]).op = "free"
  BY Parts, <1>p, <1>c, <1>d, Popped, StepEq DEF Inner, Fresh
<1>m. Moves(t) BY <1>d, <1>e, MovesOnly
<1>s. /\ PoolUsers' = PoolUsers /\ PoolWeakPtrs' = PoolWeakPtrs
      /\ PoolWeakReleases' = PoolWeakReleases /\ Cardinality(Inserting') <= Cardinality(Inserting)
      /\ (\A cc : CachePtrs(cc)' = CachePtrs(cc)) /\ (\A cc : CacheReleases(cc)' = CacheReleases(cc))
      /\ (\A x : Users(x)' = Users(x)) /\ (\A x : WeakUsers(x)' = WeakUsers(x))
      /\ \A u \in Thread : \A x : Unmarks(u, x)' <=> Unmarks(u, x)
      /\ \A u \in Thread : \A x : Marks(u, x)' <=> Marks(u, x)
  BY <1>e, <1>m, <1>d, InnerSets
<1>a. /\ c \in Killed(t) /\ c \notin DoomedIn(victims[t]) /\ cache[c].st = "live" /\ cache[c].strong = 0
      /\ c \notin caches /\ \A u \in Thread : u # t => c \notin Killed(u) /\ ~Doing(u, "free", c)
  <2>1. c \in Killed(t) /\ c \notin DoomedIn(victims[t]) BY Parts, <1>e DEF Killed, KillInv
  <2>2. cache[c].st = "live" /\ cache[c].strong = 0 BY Parts, <2>1 DEF KillInv, ShouldDelete
  <2>3. \A u \in Thread : u # t => c \notin Killed(u) BY Parts, <2>1 DEF KillInv
  <2>4. c \notin caches BY Parts, <1>e DEF TableInv, Doing
  <2>. QED BY Parts, <2>1, <2>2, <2>3, <2>4, DoingFrees
<1>x. /\ \A e \in Entry : e \notin L => entry'[e] = entry[e]
      /\ \A e \in L : entry'[e].refs = entry[e].refs + 2
      /\ \A e \in Entry : /\ entry'[e].st = entry[e].st /\ entry'[e].cache = entry[e].cache
                          /\ entry'[e].key = entry[e].key /\ entry'[e].listed = entry[e].listed
                          /\ entry'[e].bytes = entry[e].bytes
      /\ entry' \in [Entry -> EntryRec]
  <2>1. \A r \in EntryRec : LET s == [r EXCEPT !.refs = @ + 2] IN
           /\ s.st = r.st /\ s.cache = r.cache /\ s.key = r.key /\ s.listed = r.listed
           /\ s.bytes = r.bytes /\ s.refs = r.refs + 2 /\ s \in EntryRec
    BY DEF EntryRec
  <2>. QED BY Records, <1>d, <2>1 DEF Pinned
<1>i. /\ \A d : d # c => (IsPinned(d)' <=> IsPinned(d))
      /\ ~IsPinned(c) /\ IsPinned(c)'
  <2>1. \A d : d # c => ~Doing(t, "free", d)' /\ ~Doing(t, "free", d) BY <1>e, StepEq DEF Doing
  <2>2. Doing(t, "free", c)' /\ ~Doing(t, "free", c) BY <1>e, StepEq DEF Doing
  <2>3. \A u \in Thread : \A d : u # t => (Doing(u, "free", d)' <=> Doing(u, "free", d))
    BY <1>m DEF Moves, OnlyTodo, Doing
  <2>. QED BY <1>a, <2>1, <2>2, <2>3 DEF IsPinned
<1>l. \A e \in Entry : e \in L <=> entry[e].listed /\ entry[e].cache = c BY <1>g DEF Listed
<1>k. /\ EntriesKept /\ ListedKept /\ CachesKept /\ VictimsKept /\ UsedCaches' = UsedCaches
      /\ (\A d : UsedEntries(d)' = UsedEntries(d)) /\ (\A e \in Entry : Marked(e)' <=> Marked(e))
  <2>1. EntriesKept /\ ListedKept BY <1>x DEF EntriesKept, ListedKept
  <2>2. CachesKept /\ VictimsKept /\ UsedCaches' = UsedCaches
    BY Parts, <1>d, <2>1, CacheSame, VictimsUnmoved
  <2>3. \A d : UsedEntries(d)' = UsedEntries(d) BY <1>x, <1>s, UsedKept
  <2>4. \A e \in Entry : Marked(e)' <=> Marked(e) BY <1>d, <1>s, MarkedKept
  <2>. QED BY <2>1, <2>2, <2>3, <2>4
<1>q. queue' \in Seq(Entry) /\ Distinct(queue') /\ Members(queue') = Members(queue) \ L
  BY Parts, Records, <1>d, UnlinkedQueue DEF QueueInv
<1>h. Counted' = Counted \ L /\ L \subseteq Counted
  <2>1. L \subseteq Counted BY <1>i, <1>l DEF Counted
  <2>2. \A e \in Entry : e \in Counted' <=> e \in Counted /\ e \notin L
    BY <1>x, <1>i, <1>l DEF Counted, IsPinned, Doing
  <2>3. Counted \subseteq Entry /\ Counted' \subseteq Entry BY DEF Counted
  <2>. QED BY <2>1, <2>2, <2>3
<1>o. /\ pool'.live = pool.live /\ pool'.strong = pool.strong /\ pool'.weak = pool.weak
      /\ pool'.limit = pool.limit /\ pool'.idents = pool.idents
      /\ pool'.total = pool.total - TotalBytes(L)
  BY Records, <1>d DEF PoolRec
<1>j. pool'.total = TotalBytes(Counted)' /\ pool'.total \in Nat /\ pool'.total <= pool.total
  <2>. DEFINE f == [x \in Entry |-> entry[x].bytes]
              h == [x \in Entry |-> entry'[x].bytes]
  <2>1. f \in [Entry -> Nat] /\ h = f BY Records, <1>x DEF EntryRec
  <2>2. /\ TotalBytes(Counted) = SumFunctionOnSet(f, Counted) /\ TotalBytes(L) = SumFunctionOnSet(f, L)
        /\ TotalBytes(Counted)' = SumFunctionOnSet(f, Counted \ L)
    BY <1>h, <2>1 DEF TotalBytes
  <2>3. Counted \in SUBSET Entry /\ L \in SUBSET Counted /\ Counted \ L \in SUBSET Entry
    BY <1>h DEF Counted
  <2>. HIDE DEF f, h
  <2>4. /\ SumFunctionOnSet(f, Counted) = SumFunctionOnSet(f, L) + SumFunctionOnSet(f, Counted \ L)
        /\ SumFunctionOnSet(f, Counted \ L) \in Nat /\ SumFunctionOnSet(f, L) \in Nat
    BY <2>1, <2>3, SumSplit, SumFacts
  <2>5. pool.total = SumFunctionOnSet(f, Counted) BY Parts, <2>2 DEF SizeInv
  <2>. QED BY <1>o, <2>2, <2>4, <2>5
<1>1. TodoInv' BY Parts, <1>m, TodoKept
<1>2. LruInv' BY Parts, <1>d, <1>e, <1>m, <1>k, LruKept
<1>3. HeldInv' BY Parts, <1>d, <1>e, <1>m, HeldSame
<1>4. PoolCount' BY Parts, <1>o, <1>k, <1>s, PoolKept
<1>5. CacheCount' BY Parts, <1>d, <1>k, <1>s, CacheKept
<1>6. EntryCount'
  <2>1. ASSUME NEW x \in Entry
        PROVE  (entry[x].refs = 2 * Cardinality(Users(x)) + One(Marked(x))
                                + 2 * One(entry[x].listed /\ IsPinned(entry[x].cache)))'
    <3>1. entry[x].refs = 2 * Cardinality(Users(x)) + One(Marked(x))
                          + 2 * One(entry[x].listed /\ IsPinned(entry[x].cache))
      BY Parts DEF EntryCount
    <3>2. One(Marked(x))' = One(Marked(x)) /\ Users(x)' = Users(x) BY <1>k, <1>s DEF One
    <3>3. CASE x \notin L
      <4>1. One(entry[x].listed /\ IsPinned(entry[x].cache))'
                = One(entry[x].listed /\ IsPinned(entry[x].cache))
        BY <1>x, <1>i, <1>l, <3>3 DEF One, IsPinned, Doing
      <4>. QED BY <1>x, <3>1, <3>2, <3>3, <4>1
    <3>4. CASE x \in L
      <4>1. entry[x].listed /\ entry[x].cache = c /\ entry'[x].listed /\ entry'[x].cache = c
        BY <1>x, <1>l, <3>4
      <4>2. One(entry[x].listed /\ IsPinned(entry[x].cache)) = 0 BY <1>i, <4>1 DEF One
      <4>3. One(entry[x].listed /\ IsPinned(entry[x].cache))' = 1
        BY <1>i, <4>1 DEF One, IsPinned, Doing
      <4>4. One(Marked(x)) \in {0, 1} /\ Cardinality(Users(x)) \in Nat BY Counts DEF One
      <4>5. entry'[x].refs = entry[x].refs + 2 BY <1>x, <3>4
      <4>. QED BY <3>1, <3>2, <4>2, <4>3, <4>4, <4>5
    <3>. QED BY <3>3, <3>4
  <2>. QED BY <2>1 DEF EntryCount
<1>7. WeakCount' BY Parts, <1>d, <1>s, WeakCountKept
<1>8. WeakInv' BY Parts, <1>d, <1>x, <1>s, WeakKept
<1>9. RemoveInv'
  <2>1. \A e \in Entry : entry'[e].st = entry[e].st /\ entry'[e].listed = entry[e].listed
    BY <1>x
  <2>2. \A e \in Entry : entry[e].st = "live" /\ ~entry[e].listed => entry'[e].refs = entry[e].refs
    BY <1>x, <1>l
  <2>. QED BY Parts, <1>e, <1>m, <1>k, <2>1, <2>2, RemoveKept
<1>10. KillInv' BY Parts, <1>d, <1>e, <1>m, <1>k, KillKept
<1>11. ObjectInv'
  <2>1. /\ \A e \in Entry : entry[e].st # "live" => entry'[e] = entry[e]
        /\ \A e \in Entry : entry'[e].listed => entry[e].listed
    BY Parts, <1>x, <1>l DEF ObjectInv
  <2>. QED BY Parts, <1>d, <1>k, <1>s, <2>1, ObjectKept
<1>12. TableInv'
  <2>1. \A u \in Thread, d \in Cache :
           Doing(u, "pin", d)' \/ Doing(u, "free", d)' => d = c \/ Doing(u, "pin", d) \/ Doing(u, "free", d)
    BY <1>e, <1>m, StepEq DEF Moves, OnlyTodo, Doing
  <2>2. \A u \in Thread, d \in Cache : Doing(u, "pin", d)' \/ Doing(u, "free", d)' => d \notin caches'
    BY Parts, <1>a, <1>d, <2>1 DEF TableInv
  <2>3. \A u \in Thread : Killed(u)' = Killed(u)
    BY Parts, <1>e, <1>m, <1>k, RemovedAt DEF Killed
  <2>. QED BY Parts, <1>d, <1>o, <2>2, <2>3 DEF TableInv, ShouldDelete
<1>13. ShardInv'
  <2>1. \A d : ShardsOf(d)' = ShardsOf(d) BY <1>k, ListedSame
  <2>. QED BY Parts, <1>d, <1>i, <2>1 DEF ShardInv
<1>14. QueueInv'
  <2>1. Members(queue) \subseteq Entry BY Records, ElementOfSeq DEF Members
  <2>2. \A x \in Members(queue') : entry'[x].listed /\ ~IsPinned(entry[x].cache)'
    <3>1. ASSUME NEW x \in Members(queue') PROVE entry'[x].listed /\ ~IsPinned(entry[x].cache)'
      <4>1. x \in Members(queue) /\ x \in Entry /\ x \notin L BY <1>q, <2>1
      <4>2. entry[x].listed /\ ~IsPinned(entry[x].cache) /\ entry'[x] = entry[x] /\ entry[x].cache # c
        BY Parts, <1>x, <1>l, <4>1 DEF QueueInv
      <4>. QED BY <1>i, <4>2 DEF IsPinned, Doing
    <3>. QED BY <3>1
  <2>3. HasLruCache' => \A x \in Entry : entry'[x].listed /\ entry'[x].refs = 0 => x \in Members(queue')
    <3>1. ASSUME HasLruCache, NEW x \in Entry, entry'[x].listed, entry'[x].refs = 0 PROVE x \in Members(queue')
      <4>1. x \notin L
        <5>1. \A e \in Entry : entry[e].refs \in Nat BY Parts, Fields
        <5>2. x \in L => entry'[x].refs = entry[x].refs + 2 BY <1>x
        <5>. QED BY <3>1, <5>1, <5>2
      <4>2. entry[x].listed /\ entry[x].refs = 0 BY <1>x, <3>1, <4>1
      <4>. QED BY Parts, <1>q, <3>1, <4>1, <4>2 DEF QueueInv
    <3>2. HasLruCache' <=> HasLruCache BY <1>o DEF HasLruCache
    <3>. QED BY <3>1, <3>2
  <2>. QED BY <1>q, <2>2, <2>3 DEF QueueInv
<1>15. SizeInv'
  <2>1. ~HasLruCache' => \A x \in Entry : entry'[x].bytes = 0
    BY Parts, <1>o, <1>x DEF SizeInv, HasLruCache
  <2>2. (\E u \in Thread : Evicts(todo[u])) => \E u \in Thread : Evicts(todo[u])'
    BY <1>e, <1>m DEF Moves, OnlyTodo
  <2>3. queue = << >> => queue' = << >>
    <3>1. ASSUME queue = << >> PROVE queue' = << >>
      <4>1. Members(queue') = {} BY <1>q, <3>1 DEF Members
      <4>2. queue' # << >> => 1 \in 1 .. Len(queue') BY <1>q
      <4>. QED BY <4>1, <4>2 DEF Members
    <3>. QED BY <3>1
  <2>4. pool'.total <= pool'.limit \/ queue' = << >> \/ \E u \in Thread : Evicts(todo[u])'
    <3>1. pool.total \in Nat /\ pool.limit \in Nat BY Parts, Fields
    <3>2. pool.total <= pool.limit \/ queue = << >> \/ \E u \in Thread : Evicts(todo[u])
      BY Parts DEF SizeInv
    <3>3. CASE pool.total <= pool.limit BY <1>o, <1>j, <3>1, <3>3
    <3>. QED BY <2>2, <2>3, <3>2, <3>3
  <2>. QED BY <1>j, <2>1, <2>4 DEF SizeInv
<1>16. TypeOK'
  <2>1. pool' \in PoolRec BY Records, <1>d, <1>o, <1>j DEF PoolRec
  <2>. QED BY Records, <1>d, <1>q, <1>x, <2>1, TypesNext
<1>. QED
  BY <1>1, <1>2, <1>3, <1>4, <1>5, <1>6, <1>7, <1>8, <1>9, <1>10, <1>11, <1>12, <1>13, <1>14, <1>15, <1>16 DEF IInv

-----------------------------------------------------------------------------
(* The steps that end an operation, and those that begin one.              *)

\* One step that ends an operation is all that is left, or nothing.
Alone(s, op, x) ==
    /\ First(s) = Step(op, x) /\ Final(s) = Step(op, x) /\ First(s).op = op /\ Final(s).op = op
    /\ Frees(s) = {} /\ Deletes(s) = {} /\ ~Evicts(s) /\ op \notin Inner
    /\ s = << >> <=> op = "none"

\* An idle thread.
LEMMA AloneNone == Alone(<< >>, "none", None)
BY Empty, StepEq DEF Alone, NoStep, Inner

\* The operation of a step.
LEMMA StepOp ==
  ASSUME NEW a \in Steps
  PROVE  a.op # "none"
<1>1. PICK op, x : /\ a = Step(op, x)
                   /\ op \in {"lru", "evict", "relock", "poolweak", "poolzero", "unlist", "pin",
                              "free", "cachedec", "delete", "entrylock", "weakmark", "weaklock",
                              "unmark", "unmarklock", "init", "initdone", "insert"}
  BY DEF Steps, StepsOn
<1>. QED BY <1>1, StepEq

\* An operation with one step.
LEMMA AloneStep ==
  ASSUME NEW op, NEW x, Step(op, x) \in Steps, op \notin Inner
  PROVE  /\ << Step(op, x) >> \in Seq(Steps) /\ WellFormed(<< Step(op, x) >>)
         /\ Alone(<< Step(op, x) >>, op, x)
<1>1. Step(op, x).op = op /\ op # "none" BY StepEq, StepOp
<1>. QED BY <1>1, OneFinal DEF Alone

\* An operation is over.
LEMMA Returns ==
  ASSUME TodoInv, NEW t \in Thread, NEW op, op \notin Inner, At(t, op), Return(t)
  PROVE  /\ OnlyTodo(t) /\ Alone(todo[t], op, Arg(t)) /\ Alone(todo'[t], "none", None)
         /\ Step(op, Arg(t)) \in Steps
<1>1. << >> \in Seq(Steps) /\ WellFormed(<< >>) /\ Goto(t, << >>) BY Empty DEF Return
<1>2. /\ From(t, Step(op, Arg(t)), Step(op, Arg(t)), {}, {}, FALSE)
      /\ Step(op, Arg(t)) \in Steps /\ todo[t] # << >> /\ OnlyTodo(t) /\ todo'[t] = << >>
  BY <1>1, Replaced
<1>3. Step(op, Arg(t)).op = op /\ op # "none" BY <1>2, StepEq, StepOp
<1>. QED BY <1>2, <1>3, AloneNone DEF From, Alone

\* An operation goes on.
LEMMA Proceeds ==
  ASSUME TodoInv, NEW t \in Thread, NEW op, op \notin Inner, At(t, op),
         NEW p, NEW y, p \notin Inner, Step(p, y) \in Steps, Goto(t, << Step(p, y) >>)
  PROVE  /\ OnlyTodo(t) /\ Alone(todo[t], op, Arg(t)) /\ Alone(todo'[t], p, y)
         /\ Step(op, Arg(t)) \in Steps
<1>1. << Step(p, y) >> \in Seq(Steps) /\ WellFormed(<< Step(p, y) >>) /\ Alone(<< Step(p, y) >>, p, y)
  BY AloneStep
<1>2. /\ From(t, Step(op, Arg(t)), Step(op, Arg(t)), {}, {}, FALSE)
      /\ Step(op, Arg(t)) \in Steps /\ todo[t] # << >> /\ OnlyTodo(t) /\ todo'[t] = << Step(p, y) >>
  BY <1>1, Replaced
<1>3. Step(op, Arg(t)).op = op /\ op # "none" BY <1>2, StepEq, StepOp
<1>. QED BY <1>1, <1>2, <1>3 DEF From, Alone

\* An operation begins.
LEMMA Starts ==
  ASSUME TodoInv, NEW t \in Thread, Idle(t), NEW p, NEW y, p \notin Inner, Step(p, y) \in Steps,
         Start(t, << Step(p, y) >>)
  PROVE  OnlyTodo(t) /\ Alone(todo[t], "none", None) /\ Alone(todo'[t], p, y)
<1>1. << Step(p, y) >> \in Seq(Steps) /\ WellFormed(<< Step(p, y) >>) /\ Alone(<< Step(p, y) >>, p, y)
  BY AloneStep
<1>2. OnlyTodo(t) /\ todo'[t] = << Step(p, y) >> /\ todo[t] = << >> BY <1>1, Started
<1>. QED BY <1>1, <1>2, AloneNone

\* An operation is a single step.
LEMMA StaysIdle ==
  ASSUME TodoInv, NEW t \in Thread, Idle(t), UNCHANGED todo \/ Start(t, << >>)
  PROVE  OnlyTodo(t) /\ Alone(todo[t], "none", None) /\ Alone(todo'[t], "none", None)
<1>1. << >> \in Seq(Steps) /\ WellFormed(<< >>) BY Empty
<1>2. todo[t] = << >> BY DEF Idle
<1>3. OnlyTodo(t) /\ todo'[t] = << >>
  <2>1. CASE UNCHANGED todo BY <1>2, <2>1, Stayed
  <2>2. CASE Start(t, << >>) BY <1>1, <2>2, Started
  <2>. QED BY <2>1, <2>2
<1>. QED BY <1>2, <1>3, AloneNone

-----------------------------------------------------------------------------
(* What such a step leaves alone.                                          *)

\* Locks, victims and destroyers.
LEMMA QuietStep ==
  ASSUME IInv, NEW t \in Thread, Moves(t), NEW o, NEW x, NEW p, NEW y,
         Alone(todo[t], o, x), Alone(todo'[t], p, y), lru' = lru, victims' = victims,
         \A u \in Thread : \A e \in ChosenIn(victims[u]) : entry'[e].cache = entry[e].cache
  PROVE  /\ TodoInv' /\ LruInv' /\ VictimsKept
         /\ \A c : IsPinned(c)' <=> IsPinned(c)
         /\ \A u \in Thread : Removed(u)' = Removed(u) /\ Killed(u)' = Killed(u)
         /\ \A u \in Thread : Deletes(todo'[u]) \cap ChosenIn(victims'[u]) = {}
         /\ \A u \in Thread : Frees(todo[u])' \cap DoomedIn(victims[u])' = {}
         /\ \A u \in Thread : DoomedIn(victims[u])' = DoomedIn(victims[u])
<1>0. LruInv /\ TodoInv /\ RemoveInv /\ KillInv BY Parts
<1>1. VictimsKept BY DEF VictimsKept
<1>2. First(todo[t]).op = o /\ First(todo'[t]).op = p /\ o \notin Inner /\ p \notin Inner
  BY DEF Alone
<1>3. LruInv' BY <1>0, <1>1, <1>2, LruKept DEF Inner
<1>4. \A c : IsPinned(c)' <=> IsPinned(c) BY <1>2, SameSets DEF Inner
<1>5. /\ \A u \in Thread : u # t => Removed(u)' = Removed(u) /\ Killed(u)' = Killed(u)
      /\ \A u \in Thread : u # t => Deletes(todo[u])' = Deletes(todo[u])
                                    /\ Frees(todo[u])' = Frees(todo[u])
      /\ Removed(t)' = Deletes(todo'[t]) \cup ChosenIn(victims[t])
      /\ Killed(t)' = Frees(todo'[t]) \cup DoomedIn(victims[t])
  BY <1>0, <1>1, RemovedAt
<1>6. /\ Frees(todo[t]) = {} /\ Deletes(todo[t]) = {} /\ Frees(todo'[t]) = {} /\ Deletes(todo'[t]) = {}
  BY DEF Alone
<1>7. \A u \in Thread : Removed(u)' = Removed(u) /\ Killed(u)' = Killed(u)
  BY <1>5, <1>6 DEF Removed, Killed
<1>8. \A u \in Thread : DoomedIn(victims[u])' = DoomedIn(victims[u]) BY <1>0, <1>1, VictimsSame
<1>9. \A u \in Thread : Deletes(todo'[u]) \cap ChosenIn(victims'[u]) = {}
  BY <1>0, <1>5, <1>6 DEF RemoveInv
<1>10. \A u \in Thread : Frees(todo[u])' \cap DoomedIn(victims[u])' = {}
  BY <1>0, <1>5, <1>6, <1>8 DEF KillInv
<1>. QED BY <1>0, <1>1, <1>3, <1>4, <1>7, <1>8, <1>9, <1>10, TodoKept

\* The entries of the caches.
LEMMA QuietEntries ==
  ASSUME IInv, NEW t \in Thread, Moves(t), NEW o, NEW x, NEW p, NEW y,
         Alone(todo[t], o, x), Alone(todo'[t], p, y), lru' = lru, victims' = victims,
         EntriesKept, ListedKept,
         \A e \in Entry : entry'[e].bytes = entry[e].bytes,
         \A e \in Entry : entry[e].listed /\ entry'[e].refs = 0 => entry[e].refs = 0,
         \A e \in Entry : entry[e].st = "live" /\ ~entry[e].listed => entry'[e].refs = entry[e].refs,
         pool'.limit = pool.limit, pool'.total = pool.total, queue' = queue,
         \A c \in Cache : cache'[c].shards = cache[c].shards
  PROVE  RemoveInv' /\ ShardInv' /\ QueueInv' /\ SizeInv'
<1>0. LruInv /\ RemoveInv /\ ShardInv /\ QueueInv /\ SizeInv /\ queue \in Seq(Entry)
  BY Parts, Types
<1>1. VictimsKept BY <1>0, VictimsUnmoved
<1>2. \A c : IsPinned(c)' <=> IsPinned(c) BY <1>1, QuietStep DEF VictimsKept
<1>3. \A e \in Entry : entry'[e].st = entry[e].st /\ entry'[e].listed = entry[e].listed
  BY DEF EntriesKept, ListedKept
<1>4. Deletes(todo'[t]) = Deletes(todo[t]) /\ ~Evicts(todo[t]) BY DEF Alone
<1>5. RemoveInv' BY <1>0, <1>1, <1>3, <1>4, RemoveKept
<1>6. ShardInv' BY <1>0, <1>2, ShardKept
<1>7. QueueInv' BY <1>0, <1>2, QueueKept
<1>8. SizeInv' BY <1>0, <1>2, <1>4, SizeKept
<1>. QED BY <1>5, <1>6, <1>7, <1>8

\* The caches and the table.
LEMMA QuietCaches ==
  ASSUME IInv, NEW t \in Thread, Moves(t), NEW o, NEW x, NEW p, NEW y,
         Alone(todo[t], o, x), Alone(todo'[t], p, y), lru' = lru, victims' = victims,
         EntriesKept, caches' = caches, CachesKept,
         \A c \in Cache : ShouldDelete(cache'[c]) <=> ShouldDelete(cache[c]),
         \A c \in Cache : cache'[c].shards = cache[c].shards /\ cache'[c].bit = cache[c].bit,
         pool'.strong > 0 <=> pool.strong > 0
  PROVE  KillInv' /\ TableInv'
<1>0. LruInv /\ KillInv /\ TableInv /\ caches \subseteq Cache BY Parts, Types
<1>1. VictimsKept BY <1>0, VictimsUnmoved
<1>2. First(todo'[t]).op \notin {"pin", "free"} /\ Frees(todo'[t]) = Frees(todo[t])
  BY DEF Alone, Inner
<1>3. \A c \in Cache : (cache'[c].st = "live" /\ ShouldDelete(cache'[c]))
                           <=> (cache[c].st = "live" /\ ShouldDelete(cache[c]))
  BY DEF CachesKept
<1>4. \A u \in Thread : \A c \in DoomedIn(victims[u]) : cache'[c].shards = cache[c].shards
  BY <1>0 DEF LruInv, Buffer, DoomedIn
<1>5. KillInv' BY <1>0, <1>1, <1>2, <1>3, <1>4, KillKept
<1>6. TableInv' BY <1>0, <1>1, <1>2, TableKept
<1>. QED BY <1>5, <1>6

\* What is counted, by the pointers and the last step of the thread.
LEMMA CountsEnds ==
  ASSUME NEW t \in Thread, Moves(t), NEW o, NEW x, NEW p, NEW y,
         Final(todo[t]) = Step(o, x), Final(todo'[t]) = Step(p, y)
  PROVE  /\ Cardinality(PoolUsers') = Cardinality(PoolUsers)
                + One(held'[t].strong \/ (p = "poolzero" /\ y = None))
                - One(held[t].strong \/ (o = "poolzero" /\ x = None))
         /\ Cardinality(PoolWeakPtrs') = Cardinality(PoolWeakPtrs)
                + One(held'[t].weak) - One(held[t].weak)
         /\ Cardinality(PoolWeakReleases') = Cardinality(PoolWeakReleases)
                + One(p = "poolweak" /\ y = None) - One(o = "poolweak" /\ x = None)
         /\ \A c : Cardinality(CachePtrs(c)') = Cardinality(CachePtrs(c))
                       + One(held'[t].cache = c) - One(held[t].cache = c)
         /\ \A c : Cardinality(CacheReleases(c)') = Cardinality(CacheReleases(c))
                       + One(p = "cachedec" /\ y = c) - One(o = "cachedec" /\ x = c)
         /\ \A e : Cardinality(Users(e)') = Cardinality(Users(e))
                       + One(held'[t].entry = e \/ (p = "entrylock" /\ y = e))
                       - One(held[t].entry = e \/ (o = "entrylock" /\ x = e))
         /\ \A e : Cardinality(WeakUsers(e)') = Cardinality(WeakUsers(e))
                       + One(held'[t].weakentry = e \/ (p = "weaklock" /\ y = e))
                       - One(held[t].weakentry = e \/ (o = "weaklock" /\ x = e))
         /\ Cardinality(Inserting') = Cardinality(Inserting) + One(p = "insert") - One(o = "insert")
<1>1. \A op, z : /\ Ends(t, op, z) <=> o = op /\ x = z
                 /\ Ends(t, op, z)' <=> p = op /\ y = z
  BY StepEq DEF Ends
<1>2. /\ (t \in PoolUsers') <=> held'[t].strong \/ (p = "poolzero" /\ y = None)
      /\ (t \in PoolUsers) <=> held[t].strong \/ (o = "poolzero" /\ x = None)
  BY <1>1 DEF PoolUsers
<1>3. /\ (t \in PoolWeakPtrs') <=> held'[t].weak
      /\ (t \in PoolWeakPtrs) <=> held[t].weak
  BY DEF PoolWeakPtrs
<1>4. /\ (t \in PoolWeakReleases') <=> p = "poolweak" /\ y = None
      /\ (t \in PoolWeakReleases) <=> o = "poolweak" /\ x = None
  BY <1>1 DEF PoolWeakReleases
<1>5. \A c : /\ (t \in CachePtrs(c)') <=> held'[t].cache = c
             /\ (t \in CachePtrs(c)) <=> held[t].cache = c
  BY DEF CachePtrs
<1>6. \A c : /\ (t \in CacheReleases(c)') <=> p = "cachedec" /\ y = c
             /\ (t \in CacheReleases(c)) <=> o = "cachedec" /\ x = c
  BY <1>1 DEF CacheReleases
<1>7. \A e : /\ (t \in Users(e)') <=> held'[t].entry = e \/ (p = "entrylock" /\ y = e)
             /\ (t \in Users(e)) <=> held[t].entry = e \/ (o = "entrylock" /\ x = e)
  BY <1>1 DEF Users
<1>8. \A e : /\ (t \in WeakUsers(e)') <=> held'[t].weakentry = e \/ (p = "weaklock" /\ y = e)
             /\ (t \in WeakUsers(e)) <=> held[t].weakentry = e \/ (o = "weaklock" /\ x = e)
  BY <1>1 DEF WeakUsers
<1>9. (t \in Inserting' <=> p = "insert") /\ (t \in Inserting <=> o = "insert")
  BY StepEq DEF Inserting
<1>10. \A a, b : (a <=> b) => One(a) = One(b) BY DEF One
<1>11. Cardinality(PoolUsers') = Cardinality(PoolUsers)
                + One(held'[t].strong \/ (p = "poolzero" /\ y = None))
                - One(held[t].strong \/ (o = "poolzero" /\ x = None))
  BY <1>2, <1>10, CountsAt
<1>12. Cardinality(PoolWeakPtrs') = Cardinality(PoolWeakPtrs) + One(held'[t].weak) - One(held[t].weak)
  BY <1>3, CountsAt DEF One
<1>13. Cardinality(PoolWeakReleases') = Cardinality(PoolWeakReleases)
                + One(p = "poolweak" /\ y = None) - One(o = "poolweak" /\ x = None)
  BY <1>4, <1>10, CountsAt
<1>14. \A c : Cardinality(CachePtrs(c)') = Cardinality(CachePtrs(c))
                       + One(held'[t].cache = c) - One(held[t].cache = c)
  BY <1>5, <1>10, CountsAt
<1>15. \A c : Cardinality(CacheReleases(c)') = Cardinality(CacheReleases(c))
                       + One(p = "cachedec" /\ y = c) - One(o = "cachedec" /\ x = c)
  BY <1>6, <1>10, CountsAt
<1>16. \A e : Cardinality(Users(e)') = Cardinality(Users(e))
                       + One(held'[t].entry = e \/ (p = "entrylock" /\ y = e))
                       - One(held[t].entry = e \/ (o = "entrylock" /\ x = e))
  BY <1>7, <1>10, CountsAt
<1>17. \A e : Cardinality(WeakUsers(e)') = Cardinality(WeakUsers(e))
                       + One(held'[t].weakentry = e \/ (p = "weaklock" /\ y = e))
                       - One(held[t].weakentry = e \/ (o = "weaklock" /\ x = e))
  BY <1>8, <1>10, CountsAt
<1>18. Cardinality(Inserting') = Cardinality(Inserting) + One(p = "insert") - One(o = "insert")
  BY <1>9, <1>10, CountsAt
<1>. QED BY <1>11, <1>12, <1>13, <1>14, <1>15, <1>16, <1>17, <1>18

-----------------------------------------------------------------------------
(* Fields that are assigned.                                               *)

\* The count of an entry.
LEMMA EntryRefs ==
  ASSUME TypeOK, NEW e \in Entry, NEW n \in Nat, entry' = [entry EXCEPT ![e].refs = n]
  PROVE  /\ \A x \in Entry : x # e => entry'[x] = entry[x]
         /\ entry'[e].refs = n /\ entry'[e].init = entry[e].init
         /\ \A x \in Entry : /\ entry'[x].st = entry[x].st /\ entry'[x].cache = entry[x].cache
                             /\ entry'[x].key = entry[x].key /\ entry'[x].listed = entry[x].listed
                             /\ entry'[x].bytes = entry[x].bytes
         /\ entry' \in [Entry -> EntryRec] /\ EntriesKept /\ ListedKept
<1>1. \A r \in EntryRec : LET s == [r EXCEPT !.refs = n] IN
         /\ s.st = r.st /\ s.cache = r.cache /\ s.key = r.key /\ s.listed = r.listed
         /\ s.bytes = r.bytes /\ s.refs = n /\ s.init = r.init /\ s \in EntryRec
  BY DEF EntryRec
<1>2. entry \in [Entry -> EntryRec] BY Types
<1>3. /\ \A x \in Entry : x # e => entry'[x] = entry[x]
      /\ entry'[e] = [entry[e] EXCEPT !.refs = n]
      /\ DOMAIN entry' = Entry /\ entry' = [x \in Entry |-> entry'[x]]
  BY <1>2
<1>4. /\ entry'[e].st = entry[e].st /\ entry'[e].cache = entry[e].cache
      /\ entry'[e].key = entry[e].key /\ entry'[e].listed = entry[e].listed
      /\ entry'[e].bytes = entry[e].bytes /\ entry'[e].refs = n /\ entry'[e].init = entry[e].init
      /\ entry'[e] \in EntryRec
  BY <1>1, <1>2, <1>3
<1>5. entry' \in [Entry -> EntryRec] BY <1>2, <1>3, <1>4
<1>6. \A x \in Entry : /\ entry'[x].st = entry[x].st /\ entry'[x].cache = entry[x].cache
                       /\ entry'[x].key = entry[x].key /\ entry'[x].listed = entry[x].listed
                       /\ entry'[x].bytes = entry[x].bytes
  BY <1>3, <1>4
<1>. QED BY <1>3, <1>4, <1>5, <1>6 DEF EntriesKept, ListedKept

\* The size of an entry, and whether it is initialized.
LEMMA EntryBytes ==
  ASSUME TypeOK, NEW e \in Entry, NEW n \in Nat, NEW i \in {"no", "running", "done"},
         entry' = [entry EXCEPT ![e].bytes = n, ![e].init = i]
  PROVE  /\ \A x \in Entry : x # e => entry'[x] = entry[x]
         /\ entry'[e].bytes = n
         /\ \A x \in Entry : /\ entry'[x].st = entry[x].st /\ entry'[x].cache = entry[x].cache
                             /\ entry'[x].key = entry[x].key /\ entry'[x].listed = entry[x].listed
                             /\ entry'[x].refs = entry[x].refs
         /\ entry' \in [Entry -> EntryRec] /\ EntriesKept /\ ListedKept
<1>1. \A r \in EntryRec : LET s == [r EXCEPT !.bytes = n, !.init = i] IN
         /\ s.st = r.st /\ s.cache = r.cache /\ s.key = r.key /\ s.listed = r.listed
         /\ s.bytes = n /\ s.refs = r.refs /\ s.init = i /\ s \in EntryRec
  BY DEF EntryRec
<1>2. entry \in [Entry -> EntryRec] BY Types
<1>3. /\ \A x \in Entry : x # e => entry'[x] = entry[x]
      /\ entry'[e] = [entry[e] EXCEPT !.bytes = n, !.init = i]
      /\ entry' = [x \in Entry |-> entry'[x]]
  BY <1>2
<1>4. /\ entry'[e].st = entry[e].st /\ entry'[e].cache = entry[e].cache
      /\ entry'[e].key = entry[e].key /\ entry'[e].listed = entry[e].listed
      /\ entry'[e].bytes = n /\ entry'[e].refs = entry[e].refs /\ entry'[e] \in EntryRec
  <2>1. PICK r \in EntryRec : r = entry[e] BY <1>2
  <2>2. PICK s : s = [r EXCEPT !.bytes = n, !.init = i] OBVIOUS
  <2>3. /\ s.st = r.st /\ s.cache = r.cache /\ s.key = r.key /\ s.listed = r.listed
        /\ s.bytes = n /\ s.refs = r.refs /\ s.init = i /\ s \in EntryRec
    BY <1>1, <2>2
  <2>4. entry'[e] = s BY <1>3, <2>1, <2>2
  <2>. QED BY <2>1, <2>3, <2>4
<1>5. entry' \in [Entry -> EntryRec] BY <1>2, <1>3, <1>4
<1>6. \A x \in Entry : /\ entry'[x].st = entry[x].st /\ entry'[x].cache = entry[x].cache
                       /\ entry'[x].key = entry[x].key /\ entry'[x].listed = entry[x].listed
                       /\ entry'[x].refs = entry[x].refs
  BY <1>3, <1>4
<1>. QED BY <1>3, <1>4, <1>5, <1>6 DEF EntriesKept, ListedKept

\* The strong references of a cache.
LEMMA CacheStrong ==
  ASSUME TypeOK, NEW c \in Cache, NEW n \in Nat, cache' = [cache EXCEPT ![c].strong = n]
  PROVE  /\ \A d \in Cache : d # c => cache'[d] = cache[d]
         /\ cache'[c].strong = n
         /\ \A d \in Cache : /\ cache'[d].st = cache[d].st /\ cache'[d].ident = cache[d].ident
                             /\ cache'[d].shards = cache[d].shards /\ cache'[d].bit = cache[d].bit
         /\ cache' \in [Cache -> CacheRec] /\ CachesKept
<1>1. \A r \in CacheRec : LET s == [r EXCEPT !.strong = n] IN
         /\ s.st = r.st /\ s.ident = r.ident /\ s.shards = r.shards /\ s.bit = r.bit
         /\ s.strong = n /\ s \in CacheRec
  BY DEF CacheRec
<1>2. cache \in [Cache -> CacheRec] BY Types
<1>3. /\ \A d \in Cache : d # c => cache'[d] = cache[d]
      /\ cache'[c] = [cache[c] EXCEPT !.strong = n]
      /\ cache' = [d \in Cache |-> cache'[d]]
  BY <1>2
<1>4. /\ cache'[c].st = cache[c].st /\ cache'[c].ident = cache[c].ident
      /\ cache'[c].shards = cache[c].shards /\ cache'[c].bit = cache[c].bit
      /\ cache'[c].strong = n /\ cache'[c] \in CacheRec
  BY <1>1, <1>2, <1>3
<1>5. cache' \in [Cache -> CacheRec] BY <1>2, <1>3, <1>4
<1>6. \A d \in Cache : /\ cache'[d].st = cache[d].st /\ cache'[d].ident = cache[d].ident
                       /\ cache'[d].shards = cache[d].shards /\ cache'[d].bit = cache[d].bit
  BY <1>3, <1>4
<1>. QED BY <1>3, <1>4, <1>5, <1>6 DEF CachesKept

\* The weak state of an entry.
LEMMA WeakIs ==
  ASSUME TypeOK, NEW e \in Entry, NEW w \in WeakRec, weak' = [weak EXCEPT ![e] = w]
  PROVE  /\ \A x \in Entry : x # e => weak'[x] = weak[x]
         /\ weak'[e] = w /\ weak' \in [Entry -> WeakRec]
BY Types

\* The counts of the pool.
LEMMA PoolIs ==
  ASSUME TypeOK
  PROVE  /\ \A s, w \in Nat : LET r == [pool EXCEPT !.strong = s, !.weak = w] IN
               /\ r \in PoolRec /\ r.strong = s /\ r.weak = w /\ r.live = pool.live
               /\ r.total = pool.total /\ r.limit = pool.limit /\ r.idents = pool.idents
         /\ \A s \in Nat : LET r == [pool EXCEPT !.strong = s] IN
               /\ r \in PoolRec /\ r.strong = s /\ r.weak = pool.weak /\ r.live = pool.live
               /\ r.total = pool.total /\ r.limit = pool.limit /\ r.idents = pool.idents
         /\ \A w \in Nat : LET r == [pool EXCEPT !.weak = w] IN
               /\ r \in PoolRec /\ r.strong = pool.strong /\ r.weak = w /\ r.live = pool.live
               /\ r.total = pool.total /\ r.limit = pool.limit /\ r.idents = pool.idents
         /\ \A w \in Nat : \A b \in BOOLEAN : LET r == [pool EXCEPT !.weak = w, !.live = b] IN
               /\ r \in PoolRec /\ r.strong = pool.strong /\ r.weak = w /\ r.live = b
               /\ r.total = pool.total /\ r.limit = pool.limit /\ r.idents = pool.idents
         /\ \A n \in Nat : LET r == [pool EXCEPT !.total = n] IN
               /\ r \in PoolRec /\ r.strong = pool.strong /\ r.weak = pool.weak /\ r.live = pool.live
               /\ r.total = n /\ r.limit = pool.limit /\ r.idents = pool.idents
<1>1. pool \in PoolRec BY Types
<1>. QED BY <1>1 DEF PoolRec

\* The pointers that a client takes or gives up.
LEMMA HeldFields ==
  ASSUME TypeOK, NEW t \in Thread
  PROVE  /\ \A b \in BOOLEAN : held' = [held EXCEPT ![t].strong = b] =>
               /\ held' \in [Thread -> HeldRec] /\ held'[t].strong = b
               /\ held'[t].weak = held[t].weak /\ held'[t].cache = held[t].cache
               /\ held'[t].entry = held[t].entry /\ held'[t].weakentry = held[t].weakentry
               /\ \A u \in Thread : u # t => held'[u] = held[u]
         /\ \A b \in BOOLEAN : held' = [held EXCEPT ![t].weak = b] =>
               /\ held' \in [Thread -> HeldRec] /\ held'[t].weak = b
               /\ held'[t].strong = held[t].strong /\ held'[t].cache = held[t].cache
               /\ held'[t].entry = held[t].entry /\ held'[t].weakentry = held[t].weakentry
               /\ \A u \in Thread : u # t => held'[u] = held[u]
         /\ \A c \in Cache \cup {None} : held' = [held EXCEPT ![t].cache = c] =>
               /\ held' \in [Thread -> HeldRec] /\ held'[t].cache = c
               /\ held'[t].strong = held[t].strong /\ held'[t].weak = held[t].weak
               /\ held'[t].entry = held[t].entry /\ held'[t].weakentry = held[t].weakentry
               /\ \A u \in Thread : u # t => held'[u] = held[u]
         /\ \A e \in Entry \cup {None} : held' = [held EXCEPT ![t].entry = e] =>
               /\ held' \in [Thread -> HeldRec] /\ held'[t].entry = e
               /\ held'[t].strong = held[t].strong /\ held'[t].weak = held[t].weak
               /\ held'[t].cache = held[t].cache /\ held'[t].weakentry = held[t].weakentry
               /\ \A u \in Thread : u # t => held'[u] = held[u]
         /\ \A e \in Entry \cup {None} : held' = [held EXCEPT ![t].weakentry = e] =>
               /\ held' \in [Thread -> HeldRec] /\ held'[t].weakentry = e
               /\ held'[t].strong = held[t].strong /\ held'[t].weak = held[t].weak
               /\ held'[t].cache = held[t].cache /\ held'[t].entry = held[t].entry
               /\ \A u \in Thread : u # t => held'[u] = held[u]
<1>1. held \in [Thread -> HeldRec] BY Types
<1>. QED BY <1>1 DEF HeldRec

-----------------------------------------------------------------------------
(* The last steps of the operations.                                       *)

\* The entry was initialized by another thread.
LEMMA AwaitInitKeeps ==
  ASSUME IInv, NEW t \in Thread, AwaitInit(t)
  PROVE  IInv'
<1>d. /\ At(t, "init") /\ Return(t)
      /\ UNCHANGED << pool, caches, cache, entry, weak, queue, lru, victims, held >>
  BY DEF AwaitInit
<1>e. OnlyTodo(t) /\ Alone(todo[t], "init", Arg(t)) /\ Alone(todo'[t], "none", None)
  BY Parts, <1>d, Returns, StepFields, StepEq, IsStep DEF Inner
<1>m. Moves(t) BY <1>d, <1>e, MovesOnly
<1>k. EntriesKept /\ ListedKept /\ CachesKept /\ VictimsKept /\ UsedCaches' = UsedCaches
  BY Parts, <1>d, EntrySame, CacheSame, VictimsUnmoved
<1>q. TodoInv' /\ LruInv' /\ \A c : IsPinned(c)' <=> IsPinned(c)
  BY <1>d, <1>e, <1>m, <1>k, QuietStep DEF VictimsKept
<1>s. /\ PoolUsers' = PoolUsers
      /\ PoolWeakPtrs' = PoolWeakPtrs
      /\ PoolWeakReleases' = PoolWeakReleases
      /\ Inserting' = Inserting
      /\ (\A c : CachePtrs(c)' = CachePtrs(c))
      /\ (\A c : CacheReleases(c)' = CacheReleases(c))
      /\ (\A e : Users(e)' = Users(e))
      /\ (\A e : WeakUsers(e)' = WeakUsers(e))
      /\ (\A u \in Thread : \A e : Unmarks(u, e)' <=> Unmarks(u, e))
      /\ (\A u \in Thread : \A e : Marks(u, e)' <=> Marks(u, e))
  BY <1>e, <1>m, <1>d, SameSets DEF NeverEnds, Alone
<1>u. \A c : UsedEntries(c)' = UsedEntries(c) BY <1>s, <1>d, UsedKept
<1>v. \A e \in Entry : Marked(e)' <=> Marked(e) BY <1>s, <1>d, MarkedKept
<1>1. HeldInv' BY Parts, <1>d, <1>e, <1>m, HeldOver DEF Alone
<1>2. PoolCount' BY Parts, <1>d, <1>k, <1>s, PoolKept
<1>3. CacheCount' BY Parts, <1>d, <1>s, <1>u, CacheKept
<1>4. EntryCount' BY Parts, <1>d, <1>q, <1>s, <1>v, EntryKept
<1>5. WeakCount' BY Parts, <1>d, <1>s, WeakCountKept
<1>6. WeakInv' BY Parts, <1>d, <1>s, WeakKept
<1>7. ObjectInv'
  <2>1. Cardinality(Inserting') <= Cardinality(Inserting) BY <1>s, InsertingCount
  <2>. QED BY Parts, <1>d, <1>k, <2>1, ObjectKept
<1>8. RemoveInv' /\ ShardInv' /\ QueueInv' /\ SizeInv' BY <1>d, <1>e, <1>m, <1>k, QuietEntries
<1>9. KillInv' /\ TableInv' BY <1>d, <1>e, <1>m, <1>k, QuietCaches
<1>10. TypeOK' BY Records, <1>d, TypesNext
<1>. QED BY <1>q, <1>1, <1>2, <1>3, <1>4, <1>5, <1>6, <1>7, <1>8, <1>9, <1>10 DEF IInv

\* The entry is initialized.
LEMMA EntryInitializedKeeps ==
  ASSUME IInv, NEW t \in Thread, EntryInitialized(t)
  PROVE  IInv'
<1>d. /\ At(t, "initdone") /\ Return(t) /\ entry' = [entry EXCEPT ![Arg(t)].init = "done"]
      /\ UNCHANGED << pool, caches, cache, weak, queue, lru, victims, held >>
  BY DEF EntryInitialized
<1>e. OnlyTodo(t) /\ Alone(todo[t], "initdone", Arg(t)) /\ Alone(todo'[t], "none", None)
  BY Parts, <1>d, Returns, StepFields, StepEq, IsStep DEF Inner
<1>m. Moves(t) BY <1>d, <1>e, MovesOnly
<1>x. /\ \A x \in Entry : /\ entry'[x].st = entry[x].st /\ entry'[x].cache = entry[x].cache
                           /\ entry'[x].key = entry[x].key /\ entry'[x].listed = entry[x].listed
                           /\ entry'[x].refs = entry[x].refs /\ entry'[x].bytes = entry[x].bytes
      /\ \A x \in Entry : entry[x].st # "live" => entry'[x] = entry[x]
      /\ entry' \in [Entry -> EntryRec]
  <2>1. PICK e \in Entry : e = Arg(t) BY Parts, <1>d, AtFirst, StepFields
  <2>2. entry[e].st = "live"
    <3>1. Ends(t, "initdone", e) BY <1>e, <2>1 DEF Alone, Ends
    <3>2. Users(e) # {} BY Parts, <3>1 DEF HeldInv, HeldAt, Users
    <3>. QED BY <3>2, UsedEntry
  <2>3. entry' = [entry EXCEPT ![e].bytes = entry[e].bytes, ![e].init = "done"]
    BY Records, <1>d, <2>1 DEF EntryRec
  <2>4. entry[e].bytes \in Nat BY Records DEF EntryRec
  <2>. QED BY Parts, <2>2, <2>3, <2>4, EntryBytes
<1>k. EntriesKept /\ ListedKept /\ CachesKept /\ VictimsKept /\ UsedCaches' = UsedCaches
  <2>1. EntriesKept /\ ListedKept BY <1>x DEF EntriesKept, ListedKept
  <2>. QED BY Parts, <1>d, <2>1, CacheSame, VictimsUnmoved
<1>q. TodoInv' /\ LruInv' /\ \A c : IsPinned(c)' <=> IsPinned(c)
  BY <1>d, <1>e, <1>m, <1>k, QuietStep DEF VictimsKept
<1>s. /\ PoolUsers' = PoolUsers
      /\ PoolWeakPtrs' = PoolWeakPtrs
      /\ PoolWeakReleases' = PoolWeakReleases
      /\ Inserting' = Inserting
      /\ (\A c : CachePtrs(c)' = CachePtrs(c))
      /\ (\A c : CacheReleases(c)' = CacheReleases(c))
      /\ (\A e : Users(e)' = Users(e))
      /\ (\A e : WeakUsers(e)' = WeakUsers(e))
      /\ (\A u \in Thread : \A e : Unmarks(u, e)' <=> Unmarks(u, e))
      /\ (\A u \in Thread : \A e : Marks(u, e)' <=> Marks(u, e))
  BY <1>e, <1>m, <1>d, SameSets DEF NeverEnds, Alone
<1>u. \A c : UsedEntries(c)' = UsedEntries(c)
  <2>1. \A x \in Entry : entry'[x].cache = entry[x].cache BY <1>x
  <2>. QED BY <1>s, <2>1, UsedKept
<1>v. \A e \in Entry : Marked(e)' <=> Marked(e) BY <1>s, <1>d, MarkedKept
<1>1. HeldInv' BY Parts, <1>d, <1>e, <1>m, HeldOver DEF Alone
<1>2. PoolCount' BY Parts, <1>d, <1>k, <1>s, PoolKept
<1>3. CacheCount' BY Parts, <1>d, <1>s, <1>u, CacheKept
<1>4. EntryCount' BY Parts, <1>x, <1>q, <1>s, <1>v, EntryKept
<1>5. WeakCount' BY Parts, <1>d, <1>s, WeakCountKept
<1>6. WeakInv' BY Parts, <1>x, <1>d, <1>s, WeakKept
<1>7. ObjectInv'
  <2>1. Cardinality(Inserting') <= Cardinality(Inserting) BY <1>s, InsertingCount
  <2>. QED BY Parts, <1>x, <1>d, <1>k, <2>1, ObjectKept
<1>8. RemoveInv' /\ ShardInv' /\ QueueInv' /\ SizeInv'
  BY <1>x, <1>d, <1>e, <1>m, <1>k, QuietEntries
<1>9. KillInv' /\ TableInv' BY <1>d, <1>e, <1>m, <1>k, QuietCaches
<1>10. TypeOK' BY Records, <1>x, <1>d, TypesNext
<1>. QED BY <1>q, <1>1, <1>2, <1>3, <1>4, <1>5, <1>6, <1>7, <1>8, <1>9, <1>10 DEF IInv

\* No cache was made.
LEMMA MakeCacheFailsKeeps ==
  ASSUME IInv, NEW t \in Thread, MakeCacheFails(t)
  PROVE  IInv'
<1>d. /\ At(t, "insert") /\ Return(t)
      /\ UNCHANGED << pool, caches, cache, entry, weak, queue, lru, victims, held >>
  BY DEF MakeCacheFails
<1>e. OnlyTodo(t) /\ Alone(todo[t], "insert", Arg(t)) /\ Alone(todo'[t], "none", None)
  BY Parts, <1>d, Returns, StepFields, StepEq, IsStep DEF Inner
<1>m. Moves(t) BY <1>d, <1>e, MovesOnly
<1>k. EntriesKept /\ ListedKept /\ CachesKept /\ VictimsKept /\ UsedCaches' = UsedCaches
  BY Parts, <1>d, EntrySame, CacheSame, VictimsUnmoved
<1>q. TodoInv' /\ LruInv' /\ \A c : IsPinned(c)' <=> IsPinned(c)
  BY <1>d, <1>e, <1>m, <1>k, QuietStep DEF VictimsKept
<1>s. /\ PoolUsers' = PoolUsers
      /\ PoolWeakPtrs' = PoolWeakPtrs
      /\ PoolWeakReleases' = PoolWeakReleases
      /\ (\A c : CachePtrs(c)' = CachePtrs(c))
      /\ (\A c : CacheReleases(c)' = CacheReleases(c))
      /\ (\A e : Users(e)' = Users(e))
      /\ (\A e : WeakUsers(e)' = WeakUsers(e))
      /\ (\A u \in Thread : \A e : Unmarks(u, e)' <=> Unmarks(u, e))
      /\ (\A u \in Thread : \A e : Marks(u, e)' <=> Marks(u, e))
  BY <1>e, <1>m, <1>d, SameSets DEF NeverEnds, Alone
<1>u. \A c : UsedEntries(c)' = UsedEntries(c) BY <1>s, <1>d, UsedKept
<1>v. \A e \in Entry : Marked(e)' <=> Marked(e) BY <1>s, <1>d, MarkedKept
<1>1. HeldInv' BY Parts, <1>d, <1>e, <1>m, HeldOver DEF Alone
<1>2. PoolCount' BY Parts, <1>d, <1>k, <1>s, PoolKept
<1>3. CacheCount' BY Parts, <1>d, <1>s, <1>u, CacheKept
<1>4. EntryCount' BY Parts, <1>d, <1>q, <1>s, <1>v, EntryKept
<1>5. WeakCount' BY Parts, <1>d, <1>s, WeakCountKept
<1>6. WeakInv' BY Parts, <1>d, <1>s, WeakKept
<1>7. ObjectInv'
  <2>1. Cardinality(Inserting') <= Cardinality(Inserting)
    <3>1. Cardinality(Inserting) \in Nat /\ One("none" = "insert") = 0 /\ One("insert" = "insert") = 1
      BY ThreadsFinite DEF Inserting, One
    <3>2. Cardinality(Inserting') = Cardinality(Inserting) + One("none" = "insert") - One("insert" = "insert")
      BY <1>e, <1>m, CountsEnds DEF Alone
    <3>. QED BY <3>1, <3>2
  <2>. QED BY Parts, <1>d, <1>k, <2>1, ObjectKept
<1>8. RemoveInv' /\ ShardInv' /\ QueueInv' /\ SizeInv' BY <1>d, <1>e, <1>m, <1>k, QuietEntries
<1>9. KillInv' /\ TableInv' BY <1>d, <1>e, <1>m, <1>k, QuietCaches
<1>10. TypeOK' BY Records, <1>d, TypesNext
<1>. QED BY <1>q, <1>1, <1>2, <1>3, <1>4, <1>5, <1>6, <1>7, <1>8, <1>9, <1>10 DEF IInv

\* A weak reference to the pool is released.
LEMMA ReleaseWeakReferenceKeeps ==
  ASSUME IInv, NEW t \in Thread, ReleaseWeakReference(t)
  PROVE  IInv'
<1>d. /\ At(t, "poolweak") /\ Return(t)
      /\ pool' = [pool EXCEPT !.weak = @ - 1, !.live = pool.weak # 1]
      /\ UNCHANGED << caches, cache, entry, weak, queue, lru, victims, held >>
  BY DEF ReleaseWeakReference
<1>e. OnlyTodo(t) /\ Alone(todo[t], "poolweak", Arg(t)) /\ Alone(todo'[t], "none", None) /\ Arg(t) = None
  BY Parts, <1>d, Returns, StepFields, StepEq, IsStep DEF Inner
<1>m. Moves(t) BY <1>d, <1>e, MovesOnly
<1>o. /\ pool'.strong = pool.strong /\ pool'.total = pool.total /\ pool'.limit = pool.limit
      /\ pool'.idents = pool.idents /\ pool'.weak = pool.weak - 1 /\ (pool'.live <=> pool.weak # 1)
  BY Records, <1>d DEF PoolRec
<1>k. EntriesKept /\ ListedKept /\ CachesKept /\ VictimsKept /\ UsedCaches' = UsedCaches
  BY Parts, <1>d, EntrySame, CacheSame, VictimsUnmoved
<1>q. TodoInv' /\ LruInv' /\ \A c : IsPinned(c)' <=> IsPinned(c)
  BY <1>d, <1>e, <1>m, <1>k, QuietStep DEF VictimsKept
<1>s. /\ PoolUsers' = PoolUsers
      /\ PoolWeakPtrs' = PoolWeakPtrs
      /\ Inserting' = Inserting
      /\ (\A c : CachePtrs(c)' = CachePtrs(c))
      /\ (\A c : CacheReleases(c)' = CacheReleases(c))
      /\ (\A e : Users(e)' = Users(e))
      /\ (\A e : WeakUsers(e)' = WeakUsers(e))
      /\ (\A u \in Thread : \A e : Unmarks(u, e)' <=> Unmarks(u, e))
      /\ (\A u \in Thread : \A e : Marks(u, e)' <=> Marks(u, e))
  BY <1>e, <1>m, <1>d, SameSets DEF NeverEnds, Alone
<1>u. \A c : UsedEntries(c)' = UsedEntries(c) BY <1>s, <1>d, UsedKept
<1>v. \A e \in Entry : Marked(e)' <=> Marked(e) BY <1>s, <1>d, MarkedKept
<1>p. /\ pool'.weak = Cardinality(PoolWeakPtrs') + Cardinality(PoolWeakReleases')
                     + One(pool'.strong > 0) + Cardinality(UsedCaches')
      /\ pool.weak \in Nat /\ pool.weak > 0 /\ pool' \in PoolRec
  <2>1. pool.weak = Cardinality(PoolWeakPtrs) + Cardinality(PoolWeakReleases)
                    + One(pool.strong > 0) + Cardinality(UsedCaches)
    BY Parts DEF PoolCount
  <2>2. Cardinality(PoolWeakReleases') = Cardinality(PoolWeakReleases)
            + One("none" = "poolweak" /\ None = None) - One("poolweak" = "poolweak" /\ None = None)
    BY <1>e, <1>m, CountsEnds DEF Alone
  <2>3. One("none" = "poolweak" /\ None = None) = 0 /\ One("poolweak" = "poolweak" /\ None = None) = 1
    BY DEF One
  <2>4. /\ Cardinality(PoolWeakPtrs) \in Nat /\ Cardinality(PoolWeakReleases) \in Nat
        /\ Cardinality(UsedCaches) \in Nat /\ One(pool.strong > 0) \in {0, 1}
    BY Counts DEF One
  <2>5. Cardinality(PoolWeakReleases) # 0
    <3>1. t \in PoolWeakReleases BY <1>e DEF PoolWeakReleases, Ends, Alone
    <3>. QED BY <3>1, Counts
  <2>6. pool.weak \in Nat /\ pool.weak > 0 BY <2>1, <2>4, <2>5
  <2>7. pool' \in PoolRec
    <3>1. pool.weak - 1 \in Nat /\ (pool.weak # 1) \in BOOLEAN BY <2>6
    <3>2. pool' = [pool EXCEPT !.weak = pool.weak - 1, !.live = (pool.weak # 1)] BY <1>d
    <3>. QED BY Parts, <3>1, <3>2, PoolIs
  <2>. QED BY <1>k, <1>o, <1>s, <2>1, <2>2, <2>3, <2>4, <2>6, <2>7
<1>1. HeldInv' BY Parts, <1>d, <1>e, <1>m, HeldOver DEF Alone
<1>2. PoolCount'
  <2>1. pool'.strong = Cardinality(PoolUsers') BY Parts, <1>o, <1>s DEF PoolCount
  <2>2. pool'.live <=> pool'.weak > 0 BY <1>o, <1>p
  <2>. QED BY <1>p, <2>1, <2>2 DEF PoolCount
<1>3. CacheCount' BY Parts, <1>d, <1>s, <1>u, CacheKept
<1>4. EntryCount' BY Parts, <1>d, <1>q, <1>s, <1>v, EntryKept
<1>5. WeakCount' BY Parts, <1>d, <1>s, WeakCountKept
<1>6. WeakInv' BY Parts, <1>d, <1>s, WeakKept
<1>7. ObjectInv'
  <2>1. Cardinality(Inserting') <= Cardinality(Inserting) BY <1>s, InsertingCount
  <2>. QED BY Parts, <1>d, <1>k, <2>1, ObjectKept
<1>8. RemoveInv' /\ ShardInv' /\ QueueInv' /\ SizeInv'
  BY <1>o, <1>d, <1>e, <1>m, <1>k, QuietEntries
<1>9. KillInv' /\ TableInv' BY <1>o, <1>d, <1>e, <1>m, <1>k, QuietCaches
<1>10. TypeOK' BY Records, <1>p, <1>d, TypesNext
<1>. QED BY <1>q, <1>1, <1>2, <1>3, <1>4, <1>5, <1>6, <1>7, <1>8, <1>9, <1>10 DEF IInv

-----------------------------------------------------------------------------
(* Pointers that are released and copied.                                  *)

\* A release is not concerned with what the thread holds.
LEMMA HeldPlain ==
  ASSUME HeldInv, NEW t \in Thread, Moves(t), Final(todo'[t]).op \in {"cachedec", "poolweak"}
  PROVE  HeldInv'
<1>1. \A op, z : op \notin {"cachedec", "poolweak"} => ~Ends(t, op, z)' BY StepEq DEF Ends
<1>2. HeldAt(t)' BY <1>1 DEF HeldAt
<1>. QED BY <1>2, HeldKept

\* The destructor of a WeakPtr begins.
LEMMA ReleaseWeakPtrKeeps ==
  ASSUME IInv, NEW t \in Thread, Idle(t), held[t].weak, Start(t, << Step("poolweak", None) >>),
         held' = [held EXCEPT ![t].weak = FALSE],
         UNCHANGED << pool, caches, cache, entry, weak, queue, lru, victims >>
  PROVE  IInv'
<1>d. /\ Idle(t) /\ Start(t, << Step("poolweak", None) >>) /\ held' = [held EXCEPT ![t].weak = FALSE]
      /\ UNCHANGED << pool, caches, cache, entry, weak, queue, lru, victims >>
  OBVIOUS
<1>h. /\ held' \in [Thread -> HeldRec] /\ held'[t].weak = FALSE
      /\ held'[t].strong = held[t].strong /\ held'[t].cache = held[t].cache
      /\ held'[t].entry = held[t].entry /\ held'[t].weakentry = held[t].weakentry
      /\ \A u \in Thread : u # t => held'[u] = held[u]
  BY Parts, <1>d, HeldFields
<1>e. OnlyTodo(t) /\ Alone(todo[t], "none", None) /\ Alone(todo'[t], "poolweak", None)
  BY Parts, <1>d, Starts, StepFields, StepEq, IsStep DEF Inner
<1>m. Moves(t) BY <1>d, <1>e, <1>h DEF Moves
<1>k. EntriesKept /\ ListedKept /\ CachesKept /\ VictimsKept /\ UsedCaches' = UsedCaches
  BY Parts, <1>d, EntrySame, CacheSame, VictimsUnmoved
<1>q. TodoInv' /\ LruInv' /\ \A c : IsPinned(c)' <=> IsPinned(c)
  BY <1>d, <1>e, <1>m, <1>k, QuietStep DEF VictimsKept
<1>s. /\ PoolUsers' = PoolUsers
      /\ Inserting' = Inserting
      /\ (\A c : CachePtrs(c)' = CachePtrs(c))
      /\ (\A c : CacheReleases(c)' = CacheReleases(c))
      /\ (\A e : Users(e)' = Users(e))
      /\ (\A e : WeakUsers(e)' = WeakUsers(e))
      /\ (\A u \in Thread : \A e : Unmarks(u, e)' <=> Unmarks(u, e))
      /\ (\A u \in Thread : \A e : Marks(u, e)' <=> Marks(u, e))
  BY <1>e, <1>m, <1>d, <1>h, SameSets DEF NeverEnds, Alone
<1>u. \A c : UsedEntries(c)' = UsedEntries(c) BY <1>s, <1>d, UsedKept
<1>v. \A e \in Entry : Marked(e)' <=> Marked(e) BY <1>s, <1>d, MarkedKept
<1>1. HeldInv' BY Parts, <1>e, <1>m, HeldPlain DEF Alone
<1>2. PoolCount'
  <2>1. /\ pool.strong = Cardinality(PoolUsers) /\ (pool.live <=> pool.weak > 0)
        /\ pool.weak = Cardinality(PoolWeakPtrs) + Cardinality(PoolWeakReleases)
                       + One(pool.strong > 0) + Cardinality(UsedCaches)
    BY Parts DEF PoolCount
  <2>2. /\ Cardinality(PoolUsers) \in Nat /\ Cardinality(PoolWeakPtrs) \in Nat
        /\ Cardinality(PoolWeakReleases) \in Nat /\ Cardinality(UsedCaches) \in Nat
    BY Counts
  <2>3. /\ Cardinality(PoolWeakPtrs') = Cardinality(PoolWeakPtrs) - 1
        /\ Cardinality(PoolWeakReleases') = Cardinality(PoolWeakReleases) + 1
    <3>1. Cardinality(PoolWeakReleases') = Cardinality(PoolWeakReleases)
              + One(t \in PoolWeakReleases') - One(t \in PoolWeakReleases)
      BY <1>m, CountsAt
    <3>2. Cardinality(PoolWeakPtrs') = Cardinality(PoolWeakPtrs)
              + One(t \in PoolWeakPtrs') - One(t \in PoolWeakPtrs)
      BY <1>m, CountsAt
    <3>3. t \notin PoolWeakPtrs' /\ t \in PoolWeakPtrs BY <1>h DEF PoolWeakPtrs
    <3>4. t \in PoolWeakReleases' /\ t \notin PoolWeakReleases
      BY <1>e, StepEq DEF PoolWeakReleases, Ends, Alone
    <3>. QED BY <2>2, <3>1, <3>2, <3>3, <3>4 DEF One
  <2>4. One(pool.strong > 0) \in {0, 1} BY DEF One
  <2>. QED BY <1>d, <1>k, <1>s, <2>1, <2>2, <2>3, <2>4 DEF PoolCount
<1>3. CacheCount' BY Parts, <1>d, <1>s, <1>u, CacheKept
<1>4. EntryCount' BY Parts, <1>d, <1>q, <1>s, <1>v, EntryKept
<1>5. WeakCount' BY Parts, <1>d, <1>s, WeakCountKept
<1>6. WeakInv' BY Parts, <1>d, <1>s, WeakKept
<1>7. ObjectInv'
  <2>1. Cardinality(Inserting') <= Cardinality(Inserting) BY <1>s, InsertingCount
  <2>. QED BY Parts, <1>d, <1>k, <2>1, ObjectKept
<1>8. RemoveInv' /\ ShardInv' /\ QueueInv' /\ SizeInv' BY <1>d, <1>e, <1>m, <1>k, QuietEntries
<1>9. KillInv' /\ TableInv' BY <1>d, <1>e, <1>m, <1>k, QuietCaches
<1>10. TypeOK' BY Records, <1>h, <1>d, TypesNext
<1>. QED BY <1>q, <1>1, <1>2, <1>3, <1>4, <1>5, <1>6, <1>7, <1>8, <1>9, <1>10 DEF IInv

\* The destructor of a CachePtr begins.
LEMMA ReleaseCachePtrKeeps ==
  ASSUME IInv, NEW t \in Thread, Idle(t), held[t].cache # None, Start(t, << Step("cachedec", held[t].cache) >>),
         held' = [held EXCEPT ![t].cache = None],
         UNCHANGED << pool, caches, cache, entry, weak, queue, lru, victims >>
  PROVE  IInv'
<1>c. PICK c \in Cache : c = held[t].cache BY Records DEF HeldRec
<1>d. /\ Idle(t) /\ Start(t, << Step("cachedec", c) >>) /\ held' = [held EXCEPT ![t].cache = None]
      /\ UNCHANGED << pool, caches, cache, entry, weak, queue, lru, victims >>
  BY <1>c
<1>h. /\ held' \in [Thread -> HeldRec] /\ held'[t].cache = None
      /\ held'[t].strong = held[t].strong /\ held'[t].weak = held[t].weak
      /\ held'[t].entry = held[t].entry /\ held'[t].weakentry = held[t].weakentry
      /\ \A u \in Thread : u # t => held'[u] = held[u]
  BY Parts, <1>d, HeldFields
<1>e. OnlyTodo(t) /\ Alone(todo[t], "none", None) /\ Alone(todo'[t], "cachedec", c)
  BY Parts, <1>d, Starts, StepFields, StepEq, IsStep DEF Inner
<1>m. Moves(t) BY <1>d, <1>e, <1>h DEF Moves
<1>k. EntriesKept /\ ListedKept /\ CachesKept /\ VictimsKept /\ UsedCaches' = UsedCaches
  BY Parts, <1>d, EntrySame, CacheSame, VictimsUnmoved
<1>q. TodoInv' /\ LruInv' /\ \A cc : IsPinned(cc)' <=> IsPinned(cc)
  BY <1>d, <1>e, <1>m, <1>k, QuietStep DEF VictimsKept
<1>s. /\ PoolUsers' = PoolUsers
      /\ PoolWeakPtrs' = PoolWeakPtrs
      /\ PoolWeakReleases' = PoolWeakReleases
      /\ Inserting' = Inserting
      /\ (\A e : Users(e)' = Users(e))
      /\ (\A e : WeakUsers(e)' = WeakUsers(e))
      /\ (\A u \in Thread : \A e : Unmarks(u, e)' <=> Unmarks(u, e))
      /\ (\A u \in Thread : \A e : Marks(u, e)' <=> Marks(u, e))
  BY <1>e, <1>m, <1>d, <1>h, SameSets DEF NeverEnds, Alone
<1>u. \A cc : UsedEntries(cc)' = UsedEntries(cc) BY <1>s, <1>d, UsedKept
<1>v. \A e \in Entry : Marked(e)' <=> Marked(e) BY <1>s, <1>d, MarkedKept
<1>1. HeldInv' BY Parts, <1>e, <1>m, HeldPlain DEF Alone
<1>2. PoolCount' BY Parts, <1>d, <1>k, <1>s, PoolKept
<1>3. CacheCount'
  <2>. SUFFICES ASSUME NEW d \in Cache
               PROVE  (cache[d].strong = Cardinality(CachePtrs(d)) + Cardinality(CacheReleases(d))
                                         + Cardinality(UsedEntries(d)))'
    BY DEF CacheCount
  <2>1. cache[d].strong = Cardinality(CachePtrs(d)) + Cardinality(CacheReleases(d))
                          + Cardinality(UsedEntries(d))
    BY Parts DEF CacheCount
  <2>2. /\ Cardinality(CachePtrs(d)) \in Nat /\ Cardinality(CacheReleases(d)) \in Nat
        /\ Cardinality(UsedEntries(d)) \in Nat
    BY Counts
  <2>3. Cardinality(CachePtrs(d)') + Cardinality(CacheReleases(d)')
            = Cardinality(CachePtrs(d)) + Cardinality(CacheReleases(d))
    <3>1. /\ Cardinality(CachePtrs(d)') = Cardinality(CachePtrs(d)) + One(held'[t].cache = d) - One(held[t].cache = d)
          /\ Cardinality(CacheReleases(d)') = Cardinality(CacheReleases(d))
                 + One("cachedec" = "cachedec" /\ c = d) - One("none" = "cachedec" /\ None = d)
      BY <1>e, <1>m, CountsEnds DEF Alone
    <3>2. None # d BY ConstantsAssumption DEF Cache, None
    <3>. QED BY <1>c, <1>h, <2>2, <3>1, <3>2 DEF One
  <2>. QED BY <1>d, <1>u, <2>1, <2>2, <2>3
<1>4. EntryCount' BY Parts, <1>d, <1>q, <1>s, <1>v, EntryKept
<1>5. WeakCount' BY Parts, <1>d, <1>s, WeakCountKept
<1>6. WeakInv' BY Parts, <1>d, <1>s, WeakKept
<1>7. ObjectInv'
  <2>1. Cardinality(Inserting') <= Cardinality(Inserting) BY <1>s, InsertingCount
  <2>. QED BY Parts, <1>d, <1>k, <2>1, ObjectKept
<1>8. RemoveInv' /\ ShardInv' /\ QueueInv' /\ SizeInv' BY <1>d, <1>e, <1>m, <1>k, QuietEntries
<1>9. KillInv' /\ TableInv' BY <1>d, <1>e, <1>m, <1>k, QuietCaches
<1>10. TypeOK' BY Records, <1>h, <1>d, TypesNext
<1>. QED BY <1>q, <1>1, <1>2, <1>3, <1>4, <1>5, <1>6, <1>7, <1>8, <1>9, <1>10 DEF IInv

\* The release of an entry whose count may reach the threshold.
LEMMA DecrementEntryStarts ==
  ASSUME IInv, NEW t \in Thread, Idle(t), held[t].entry # None, Start(t, << Step("entrylock", held[t].entry) >>),
         held' = [held EXCEPT ![t].entry = None],
         UNCHANGED << pool, caches, cache, entry, weak, queue, lru, victims >>
  PROVE  IInv'
<1>c. PICK e \in Entry : e = held[t].entry BY Records DEF HeldRec
<1>d. /\ Idle(t) /\ Start(t, << Step("entrylock", e) >>) /\ held' = [held EXCEPT ![t].entry = None]
      /\ UNCHANGED << pool, caches, cache, entry, weak, queue, lru, victims >>
  BY <1>c
<1>h. /\ held' \in [Thread -> HeldRec] /\ held'[t].entry = None
      /\ held'[t].strong = held[t].strong /\ held'[t].weak = held[t].weak
      /\ held'[t].cache = held[t].cache /\ held'[t].weakentry = held[t].weakentry
      /\ \A u \in Thread : u # t => held'[u] = held[u]
  BY Parts, <1>d, HeldFields
<1>e. OnlyTodo(t) /\ Alone(todo[t], "none", None) /\ Alone(todo'[t], "entrylock", e)
  BY Parts, <1>d, Starts, StepFields, StepEq, IsStep DEF Inner
<1>m. Moves(t) BY <1>d, <1>e, <1>h DEF Moves
<1>k. EntriesKept /\ ListedKept /\ CachesKept /\ VictimsKept /\ UsedCaches' = UsedCaches
  BY Parts, <1>d, EntrySame, CacheSame, VictimsUnmoved
<1>q. TodoInv' /\ LruInv' /\ \A c : IsPinned(c)' <=> IsPinned(c)
  BY <1>d, <1>e, <1>m, <1>k, QuietStep DEF VictimsKept
<1>s. /\ PoolUsers' = PoolUsers
      /\ PoolWeakPtrs' = PoolWeakPtrs
      /\ PoolWeakReleases' = PoolWeakReleases
      /\ Inserting' = Inserting
      /\ (\A c : CachePtrs(c)' = CachePtrs(c))
      /\ (\A c : CacheReleases(c)' = CacheReleases(c))
      /\ (\A ee : WeakUsers(ee)' = WeakUsers(ee))
      /\ (\A u \in Thread : \A ee : Unmarks(u, ee)' <=> Unmarks(u, ee))
      /\ (\A u \in Thread : \A ee : Marks(u, ee)' <=> Marks(u, ee))
  BY <1>e, <1>m, <1>d, <1>h, SameSets DEF NeverEnds, Alone
<1>w. \A x \in Entry : Users(x)' = Users(x)
  <2>. SUFFICES ASSUME NEW x \in Entry PROVE Users(x)' = Users(x) OBVIOUS
  <2>1. \A u \in Thread : u # t => (u \in Users(x)' <=> u \in Users(x))
    BY <1>m DEF Moves, OnlyTodo, Users, Ends
  <2>2. t \in Users(x)' <=> t \in Users(x)
    <3>1. None # x BY ConstantsAssumption DEF Entry, None
    <3>. QED BY <1>c, <1>e, <1>h, <3>1, StepEq DEF Users, Ends, Alone
  <2>. QED BY <2>1, <2>2 DEF Users
<1>u. \A c : UsedEntries(c)' = UsedEntries(c) BY <1>d, <1>w DEF UsedEntries
<1>v. \A ee \in Entry : Marked(ee)' <=> Marked(ee) BY <1>s, <1>d, MarkedKept
<1>1. HeldInv'
  <2>1. \A op, z : Ends(t, op, z)' <=> op = "entrylock" /\ z = e BY <1>e, StepEq DEF Ends, Alone
  <2>2. HeldAt(t)' BY <1>e, <1>h, <2>1 DEF HeldAt, Alone
  <2>. QED BY Parts, <1>m, <2>2, HeldKept
<1>2. PoolCount' BY Parts, <1>d, <1>k, <1>s, PoolKept
<1>3. CacheCount' BY Parts, <1>d, <1>s, <1>u, CacheKept
<1>4. EntryCount'
  <2>1. \A x \in Entry : One(Marked(x))' = One(Marked(x)) BY <1>v DEF One
  <2>2. \A x \in Entry : One(entry[x].listed /\ IsPinned(entry[x].cache))'
                            = One(entry[x].listed /\ IsPinned(entry[x].cache))
    BY <1>d, <1>q DEF One, IsPinned, Doing
  <2>. QED BY Parts, <1>d, <1>w, <2>1, <2>2 DEF EntryCount
<1>5. WeakCount' BY Parts, <1>d, <1>s, WeakCountKept
<1>6. WeakInv' BY Parts, <1>d, <1>s, WeakKept
<1>7. ObjectInv'
  <2>1. Cardinality(Inserting') <= Cardinality(Inserting) BY <1>s, InsertingCount
  <2>. QED BY Parts, <1>d, <1>k, <2>1, ObjectKept
<1>8. RemoveInv' /\ ShardInv' /\ QueueInv' /\ SizeInv' BY <1>d, <1>e, <1>m, <1>k, QuietEntries
<1>9. KillInv' /\ TableInv' BY <1>d, <1>e, <1>m, <1>k, QuietCaches
<1>10. TypeOK' BY Records, <1>h, <1>d, TypesNext
<1>. QED BY <1>q, <1>1, <1>2, <1>3, <1>4, <1>5, <1>6, <1>7, <1>8, <1>9, <1>10 DEF IInv

\* The release of what may be the last weak reference.
LEMMA DecrementWeakStarts ==
  ASSUME IInv, NEW t \in Thread, Idle(t), held[t].weakentry # None, Holds(t), Start(t, << Step("weaklock", held[t].weakentry) >>),
         held' = [held EXCEPT ![t].weakentry = None],
         UNCHANGED << pool, caches, cache, entry, weak, queue, lru, victims >>
  PROVE  IInv'
<1>c. PICK e \in Entry : e = held[t].weakentry BY Records DEF HeldRec
<1>d. /\ Idle(t) /\ Start(t, << Step("weaklock", e) >>) /\ held' = [held EXCEPT ![t].weakentry = None]
      /\ UNCHANGED << pool, caches, cache, entry, weak, queue, lru, victims >>
  BY <1>c
<1>h. /\ held' \in [Thread -> HeldRec] /\ held'[t].weakentry = None
      /\ held'[t].strong = held[t].strong /\ held'[t].weak = held[t].weak
      /\ held'[t].cache = held[t].cache /\ held'[t].entry = held[t].entry
      /\ \A u \in Thread : u # t => held'[u] = held[u]
  BY Parts, <1>d, HeldFields
<1>e. OnlyTodo(t) /\ Alone(todo[t], "none", None) /\ Alone(todo'[t], "weaklock", e)
  BY Parts, <1>d, Starts, StepFields, StepEq, IsStep DEF Inner
<1>m. Moves(t) BY <1>d, <1>e, <1>h DEF Moves
<1>k. EntriesKept /\ ListedKept /\ CachesKept /\ VictimsKept /\ UsedCaches' = UsedCaches
  BY Parts, <1>d, EntrySame, CacheSame, VictimsUnmoved
<1>q. TodoInv' /\ LruInv' /\ \A c : IsPinned(c)' <=> IsPinned(c)
  BY <1>d, <1>e, <1>m, <1>k, QuietStep DEF VictimsKept
<1>s. /\ PoolUsers' = PoolUsers
      /\ PoolWeakPtrs' = PoolWeakPtrs
      /\ PoolWeakReleases' = PoolWeakReleases
      /\ Inserting' = Inserting
      /\ (\A c : CachePtrs(c)' = CachePtrs(c))
      /\ (\A c : CacheReleases(c)' = CacheReleases(c))
      /\ (\A ee : Users(ee)' = Users(ee))
      /\ (\A u \in Thread : \A ee : Unmarks(u, ee)' <=> Unmarks(u, ee))
      /\ (\A u \in Thread : \A ee : Marks(u, ee)' <=> Marks(u, ee))
  BY <1>e, <1>m, <1>d, <1>h, SameSets DEF NeverEnds, Alone
<1>w. \A x \in Entry : WeakUsers(x)' = WeakUsers(x)
  <2>. SUFFICES ASSUME NEW x \in Entry PROVE WeakUsers(x)' = WeakUsers(x) OBVIOUS
  <2>1. \A u \in Thread : u # t => (u \in WeakUsers(x)' <=> u \in WeakUsers(x))
    BY <1>m DEF Moves, OnlyTodo, WeakUsers, Ends
  <2>2. t \in WeakUsers(x)' <=> t \in WeakUsers(x)
    <3>1. None # x BY ConstantsAssumption DEF Entry, None
    <3>. QED BY <1>c, <1>e, <1>h, <3>1, StepEq DEF WeakUsers, Ends, Alone
  <2>. QED BY <2>1, <2>2 DEF WeakUsers
<1>u. \A c : UsedEntries(c)' = UsedEntries(c) BY <1>s, <1>d, UsedKept
<1>v. \A ee \in Entry : Marked(ee)' <=> Marked(ee) BY <1>s, <1>d, MarkedKept
<1>1. HeldInv'
  <2>1. \A op, z : Ends(t, op, z)' <=> op = "weaklock" /\ z = e BY <1>e, StepEq DEF Ends, Alone
  <2>2. Holds(t)' BY <1>h DEF Holds, HasPool
  <2>3. HeldAt(t)' BY <1>e, <1>h, <2>1, <2>2 DEF HeldAt, Alone
  <2>. QED BY Parts, <1>m, <2>3, HeldKept
<1>2. PoolCount' BY Parts, <1>d, <1>k, <1>s, PoolKept
<1>3. CacheCount' BY Parts, <1>d, <1>s, <1>u, CacheKept
<1>4. EntryCount' BY Parts, <1>d, <1>q, <1>s, <1>v, EntryKept
<1>5. WeakCount' BY Parts, <1>d, <1>w DEF WeakCount
<1>6. WeakInv' BY Parts, <1>d, <1>s, WeakKept
<1>7. ObjectInv'
  <2>1. Cardinality(Inserting') <= Cardinality(Inserting) BY <1>s, InsertingCount
  <2>. QED BY Parts, <1>d, <1>k, <2>1, ObjectKept
<1>8. RemoveInv' /\ ShardInv' /\ QueueInv' /\ SizeInv' BY <1>d, <1>e, <1>m, <1>k, QuietEntries
<1>9. KillInv' /\ TableInv' BY <1>d, <1>e, <1>m, <1>k, QuietCaches
<1>10. TypeOK' BY Records, <1>h, <1>d, TypesNext
<1>. QED BY <1>q, <1>1, <1>2, <1>3, <1>4, <1>5, <1>6, <1>7, <1>8, <1>9, <1>10 DEF IInv

\* The release of what may be the last strong reference to the pool.
LEMMA DecrementPoolStarts ==
  ASSUME IInv, NEW t \in Thread, Idle(t), held[t].strong, Start(t, << Step("poolzero", None) >>),
         held' = [held EXCEPT ![t].strong = FALSE],
         UNCHANGED << pool, caches, cache, entry, weak, queue, lru, victims >>
  PROVE  IInv'
<1>d. /\ Idle(t) /\ Start(t, << Step("poolzero", None) >>) /\ held' = [held EXCEPT ![t].strong = FALSE]
      /\ UNCHANGED << pool, caches, cache, entry, weak, queue, lru, victims >>
  OBVIOUS
<1>h. /\ held' \in [Thread -> HeldRec] /\ held'[t].strong = FALSE
      /\ held'[t].weak = held[t].weak /\ held'[t].cache = held[t].cache
      /\ held'[t].entry = held[t].entry /\ held'[t].weakentry = held[t].weakentry
      /\ \A u \in Thread : u # t => held'[u] = held[u]
  BY Parts, <1>d, HeldFields
<1>e. OnlyTodo(t) /\ Alone(todo[t], "none", None) /\ Alone(todo'[t], "poolzero", None)
  BY Parts, <1>d, Starts, StepFields, StepEq, IsStep DEF Inner
<1>m. Moves(t) BY <1>d, <1>e, <1>h DEF Moves
<1>k. EntriesKept /\ ListedKept /\ CachesKept /\ VictimsKept /\ UsedCaches' = UsedCaches
  BY Parts, <1>d, EntrySame, CacheSame, VictimsUnmoved
<1>q. TodoInv' /\ LruInv' /\ \A c : IsPinned(c)' <=> IsPinned(c)
  BY <1>d, <1>e, <1>m, <1>k, QuietStep DEF VictimsKept
<1>s. /\ PoolWeakPtrs' = PoolWeakPtrs
      /\ PoolWeakReleases' = PoolWeakReleases
      /\ Inserting' = Inserting
      /\ (\A c : CachePtrs(c)' = CachePtrs(c))
      /\ (\A c : CacheReleases(c)' = CacheReleases(c))
      /\ (\A e : Users(e)' = Users(e))
      /\ (\A e : WeakUsers(e)' = WeakUsers(e))
      /\ (\A u \in Thread : \A e : Unmarks(u, e)' <=> Unmarks(u, e))
      /\ (\A u \in Thread : \A e : Marks(u, e)' <=> Marks(u, e))
  BY <1>e, <1>m, <1>d, <1>h, SameSets DEF NeverEnds, Alone
<1>w. PoolUsers' = PoolUsers
  <2>1. \A u \in Thread : u # t => (u \in PoolUsers' <=> u \in PoolUsers)
    BY <1>m DEF Moves, OnlyTodo, PoolUsers, Ends
  <2>2. t \in PoolUsers' /\ t \in PoolUsers BY <1>e, StepEq DEF PoolUsers, Ends, Alone
  <2>. QED BY <2>1, <2>2 DEF PoolUsers
<1>u. \A c : UsedEntries(c)' = UsedEntries(c) BY <1>s, <1>d, UsedKept
<1>v. \A e \in Entry : Marked(e)' <=> Marked(e) BY <1>s, <1>d, MarkedKept
<1>1. HeldInv'
  <2>1. \A op, z : Ends(t, op, z)' <=> op = "poolzero" /\ z = None
    BY <1>e, StepEq DEF Ends, Alone
  <2>2. HeldAt(t)' BY <1>e, <1>h, <2>1 DEF HeldAt, Alone
  <2>. QED BY Parts, <1>m, <2>2, HeldKept
<1>2. PoolCount' BY Parts, <1>d, <1>k, <1>s, <1>w, PoolKept
<1>3. CacheCount' BY Parts, <1>d, <1>s, <1>u, CacheKept
<1>4. EntryCount' BY Parts, <1>d, <1>q, <1>s, <1>v, EntryKept
<1>5. WeakCount' BY Parts, <1>d, <1>s, WeakCountKept
<1>6. WeakInv' BY Parts, <1>d, <1>s, WeakKept
<1>7. ObjectInv'
  <2>1. Cardinality(Inserting') <= Cardinality(Inserting) BY <1>s, InsertingCount
  <2>. QED BY Parts, <1>d, <1>k, <2>1, ObjectKept
<1>8. RemoveInv' /\ ShardInv' /\ QueueInv' /\ SizeInv' BY <1>d, <1>e, <1>m, <1>k, QuietEntries
<1>9. KillInv' /\ TableInv' BY <1>d, <1>e, <1>m, <1>k, QuietCaches
<1>10. TypeOK' BY Records, <1>h, <1>d, TypesNext
<1>. QED BY <1>q, <1>1, <1>2, <1>3, <1>4, <1>5, <1>6, <1>7, <1>8, <1>9, <1>10 DEF IInv

-----------------------------------------------------------------------------
(* References to entries.                                                  *)

WeakAt(e) ==
    /\ weak[e].st # "live" => weak[e] = [NoWeakState EXCEPT !.st = weak[e].st]
    /\ weak[e].st = "live" => weak[e].n > 0 \/ weak[e].entry
    /\ weak[e].entry => entry[e].st = "live"
    /\ entry[e].st = "live" => weak[e].st = "new" \/ (weak[e].st = "live" /\ weak[e].entry)
    /\ entry[e].st = "new" => weak[e].st = "new"
    /\ \A t \in Thread : weak[e].mutex = t <=> Unmarks(t, e)
    /\ weak[e].mutex # None => weak[e].n = 0 /\ weak[e].entry
    /\ \A t, u \in Thread : Marks(t, e) /\ Marks(u, e) => t = u

\* The fields of a weak state.
LEMMA WeakParts ==
  /\ WeakInv => \A e \in Entry : WeakAt(e)
  /\ (\A e \in Entry : WeakAt(e)') => WeakInv'
BY DEF WeakInv, WeakAt

\* The weak state of one entry changes.
LEMMA WeakChange ==
  ASSUME WeakInv, NEW e \in Entry, \A x \in Entry : x # e => weak'[x] = weak[x],
         \A x \in Entry : entry'[x].st = entry[x].st,
         \A u \in Thread : \A x : x # e => (Unmarks(u, x)' <=> Unmarks(u, x)),
         \A u \in Thread : \A x : x # e => (Marks(u, x)' <=> Marks(u, x)),
         WeakAt(e)'
  PROVE  /\ WeakInv'
         /\ \A x \in Entry : x # e => (Marked(x)' <=> Marked(x))
<1>1. ASSUME NEW x \in Entry, x # e PROVE WeakAt(x)'
  <2>1. WeakAt(x) BY WeakParts
  <2>2. /\ weak'[x] = weak[x] /\ entry'[x].st = entry[x].st
        /\ \A u \in Thread : (Unmarks(u, x)' <=> Unmarks(u, x)) /\ (Marks(u, x)' <=> Marks(u, x))
    BY <1>1
  <2>. QED BY <2>1, <2>2 DEF WeakAt
<1>2. \A x \in Entry : x # e => (Marked(x)' <=> Marked(x)) BY DEF Marked
<1>. QED BY <1>1, <1>2, WeakParts

\* The count of one entry changes.
LEMMA EntryChange ==
  ASSUME EntryCount, NEW e \in Entry, \A x \in Entry : x # e => Users(x)' = Users(x),
         \A x \in Entry : x # e => (Marked(x)' <=> Marked(x)),
         \A c : IsPinned(c)' <=> IsPinned(c),
         \A x \in Entry : x # e => /\ entry'[x].refs = entry[x].refs /\ entry'[x].listed = entry[x].listed
                                   /\ entry'[x].cache = entry[x].cache,
         entry'[e].refs = 2 * Cardinality(Users(e)') + One(Marked(e))'
                          + 2 * One(entry[e].listed /\ IsPinned(entry[e].cache))'
  PROVE  EntryCount'
<1>1. ASSUME NEW x \in Entry, x # e
      PROVE  (entry[x].refs = 2 * Cardinality(Users(x)) + One(Marked(x))
                              + 2 * One(entry[x].listed /\ IsPinned(entry[x].cache)))'
  <2>1. entry[x].refs = 2 * Cardinality(Users(x)) + One(Marked(x))
                        + 2 * One(entry[x].listed /\ IsPinned(entry[x].cache))
    BY DEF EntryCount
  <2>2. One(Marked(x))' = One(Marked(x)) BY <1>1 DEF One
  <2>3. One(entry[x].listed /\ IsPinned(entry[x].cache))' = One(entry[x].listed /\ IsPinned(entry[x].cache))
    BY <1>1 DEF One, IsPinned, Doing
  <2>. QED BY <1>1, <2>1, <2>2, <2>3
<1>. QED BY <1>1 DEF EntryCount

\* How an entry in use is counted.
LEMMA UserCount ==
  ASSUME IInv, NEW e \in Entry, Users(e) # {}
  PROVE  /\ Cardinality(Users(e)) \in Nat /\ Cardinality(Users(e)) > 0
         /\ One(Marked(e)) \in {0, 1} /\ (One(Marked(e)) = 1 <=> Marked(e))
         /\ ~IsPinned(entry[e].cache)
         /\ entry[e].refs = 2 * Cardinality(Users(e)) + One(Marked(e))
<1>1. Cardinality(Users(e)) \in Nat /\ Cardinality(Users(e)) # 0 BY Counts
<1>2. ~IsPinned(entry[e].cache) BY UsedEntry, UsedCache
<1>3. One(Marked(e)) \in {0, 1} /\ (One(Marked(e)) = 1 <=> Marked(e)) BY DEF One
<1>4. One(entry[e].listed /\ IsPinned(entry[e].cache)) = 0 BY <1>2 DEF One
<1>5. entry[e].refs = 2 * Cardinality(Users(e)) + One(Marked(e))
                      + 2 * One(entry[e].listed /\ IsPinned(entry[e].cache))
  BY DEF IInv, EntryCount
<1>. QED BY <1>1, <1>2, <1>3, <1>4, <1>5

\* Without users, the entry no longer holds a reference to its cache.
LEMMA UsedLess ==
  ASSUME NEW e \in Entry, NEW c, c = entry[e].cache, Users(e) # {}, Users(e)' = {},
         \A x \in Entry : x # e => Users(x)' = Users(x),
         \A x \in Entry : entry'[x].cache = entry[x].cache
  PROVE  /\ \A d : d # c => UsedEntries(d)' = UsedEntries(d)
         /\ Cardinality(UsedEntries(c)') = Cardinality(UsedEntries(c)) - 1
<1>1. \A d : UsedEntries(d) \in SUBSET Entry /\ UsedEntries(d)' \in SUBSET Entry
  BY DEF UsedEntries
<1>2. \A d : \A x \in Entry : x # e => (x \in UsedEntries(d)' <=> x \in UsedEntries(d))
  BY DEF UsedEntries
<1>3. \A d : e \notin UsedEntries(d)' /\ (e \in UsedEntries(d) <=> d = c) BY DEF UsedEntries
<1>4. ASSUME NEW d, d # c PROVE UsedEntries(d)' = UsedEntries(d)
  <2>1. \A x \in Entry : x \in UsedEntries(d)' <=> x \in UsedEntries(d) BY <1>2, <1>3, <1>4
  <2>. QED BY <1>1, <2>1
<1>5. UsedEntries(c)' = UsedEntries(c) \ {e} /\ e \in UsedEntries(c) BY <1>1, <1>2, <1>3
<1>6. IsFiniteSet(UsedEntries(c)) BY <1>1, EntriesFinite
<1>. QED BY <1>4, <1>5, <1>6, OneLess

\* A strong reference to an entry is released, and another one remains.
LEMMA UserLeavesKeeps ==
  ASSUME IInv, NEW t \in Thread, NEW e \in Entry, NEW o, NEW x, Moves(t),
         Alone(todo[t], o, x), Alone(todo'[t], "none", None), held' \in [Thread -> HeldRec],
         held'[t].entry = None, held'[t].strong = held[t].strong, held'[t].weak = held[t].weak,
         held'[t].cache = held[t].cache, held'[t].weakentry = held[t].weakentry,
         (held[t].entry = e /\ o = "none") \/ (held[t].entry = None /\ o = "entrylock" /\ x = e),
         entry[e].refs >= 4, entry' = [entry EXCEPT ![e].refs = entry[e].refs - 2],
         UNCHANGED << pool, caches, cache, weak, queue, lru, victims >>
  PROVE  IInv'
<1>d. UNCHANGED << pool, caches, cache, weak, queue, lru, victims >> OBVIOUS
<1>m. Moves(t) OBVIOUS
<1>e. Alone(todo[t], o, x) /\ Alone(todo'[t], "none", None) /\ OnlyTodo(t) BY DEF Moves
<1>a. t \in Users(e) /\ t \notin Users(e)' /\ \A z \in Entry : z # e => Users(z)' = Users(z)
  <2>1. \A z \in Entry : None # z BY ConstantsAssumption DEF Entry, None
  <2>2. \A z \in Entry : \A u \in Thread : u # t => (u \in Users(z)' <=> u \in Users(z))
    BY <1>m DEF Moves, OnlyTodo, Users, Ends
  <2>3. \A z \in Entry : t \notin Users(z)' /\ (t \in Users(z) <=> z = e)
    BY <1>e, <2>1, StepEq DEF Users, Ends, Alone
  <2>. QED BY <2>2, <2>3 DEF Users
<1>b. /\ Cardinality(Users(e)) \in Nat /\ Cardinality(Users(e)) > 1 /\ One(Marked(e)) \in {0, 1}
      /\ ~IsPinned(entry[e].cache) /\ entry[e].refs = 2 * Cardinality(Users(e)) + One(Marked(e))
      /\ Cardinality(Users(e)') = Cardinality(Users(e)) - 1 /\ Users(e)' # {} /\ Users(e) # {}
  <2>1. Users(e) # {} BY <1>a
  <2>2. /\ Cardinality(Users(e)) \in Nat /\ Cardinality(Users(e)) > 0 /\ One(Marked(e)) \in {0, 1}
        /\ ~IsPinned(entry[e].cache) /\ entry[e].refs = 2 * Cardinality(Users(e)) + One(Marked(e))
    BY <2>1, UserCount
  <2>3. Cardinality(Users(e)) > 1 BY <2>2
  <2>4. Cardinality(Users(e)') = Cardinality(Users(e)) + One(t \in Users(e)') - One(t \in Users(e))
    BY <1>m, CountsAt
  <2>5. Cardinality(Users(e)') = Cardinality(Users(e)) - 1 BY <1>a, <2>2, <2>4 DEF One
  <2>6. Users(e)' # {}
    <3>1. ASSUME Users(e)' = {} PROVE Cardinality(Users(e)') = 0 BY <3>1, FS_EmptySet
    <3>2. Cardinality(Users(e)') # 0 BY <2>2, <2>3, <2>5
    <3>. QED BY <3>1, <3>2
  <2>. QED BY <2>1, <2>2, <2>3, <2>5, <2>6
<1>x. /\ \A z \in Entry : z # e => entry'[z] = entry[z]
      /\ entry'[e].refs = entry[e].refs - 2 /\ entry'[e].refs > 0
      /\ \A z \in Entry : /\ entry'[z].st = entry[z].st /\ entry'[z].cache = entry[z].cache
                          /\ entry'[z].key = entry[z].key /\ entry'[z].listed = entry[z].listed
                          /\ entry'[z].bytes = entry[z].bytes
      /\ entry' \in [Entry -> EntryRec] /\ EntriesKept /\ ListedKept
  <2>1. entry[e].refs \in Nat BY Records DEF EntryRec
  <2>2. entry[e].refs - 2 \in Nat /\ entry[e].refs - 2 > 0 BY <2>1
  <2>. QED BY Parts, <2>2, EntryRefs
<1>g. entry[e].st = "live" /\ entry[e].listed BY <1>b, UsedEntry
<1>k. CachesKept /\ VictimsKept /\ UsedCaches' = UsedCaches
  BY Parts, <1>d, <1>x, CacheSame, VictimsUnmoved
<1>q. TodoInv' /\ LruInv' /\ \A c : IsPinned(c)' <=> IsPinned(c)
  BY <1>d, <1>e, <1>m, <1>k, QuietStep DEF VictimsKept
<1>s. /\ PoolUsers' = PoolUsers
      /\ PoolWeakPtrs' = PoolWeakPtrs
      /\ PoolWeakReleases' = PoolWeakReleases
      /\ Inserting' = Inserting
      /\ (\A c : CachePtrs(c)' = CachePtrs(c))
      /\ (\A c : CacheReleases(c)' = CacheReleases(c))
      /\ (\A ee : WeakUsers(ee)' = WeakUsers(ee))
      /\ (\A u \in Thread : \A ee : Unmarks(u, ee)' <=> Unmarks(u, ee))
      /\ (\A u \in Thread : \A ee : Marks(u, ee)' <=> Marks(u, ee))
  BY <1>e, <1>m, <1>d, SameSets DEF NeverEnds, Alone
<1>u. \A c : UsedEntries(c)' = UsedEntries(c)
  <2>1. \A z \in Entry : Users(z)' # {} <=> Users(z) # {} BY <1>a, <1>b
  <2>. QED BY <1>x, <2>1 DEF UsedEntries
<1>v. \A ee \in Entry : Marked(ee)' <=> Marked(ee) BY <1>s, <1>d, MarkedKept
<1>1. HeldInv' BY Parts, <1>d, <1>e, <1>m, HeldOver DEF Alone
<1>2. PoolCount' BY Parts, <1>d, <1>k, <1>s, PoolKept
<1>3. CacheCount' BY Parts, <1>d, <1>s, <1>u, CacheKept
<1>4. EntryCount'
  <2>1. One(Marked(e))' = One(Marked(e)) BY <1>v DEF One
  <2>2. One(entry[e].listed /\ IsPinned(entry[e].cache))' = 0
    BY <1>b, <1>q, <1>x DEF One, IsPinned, Doing
  <2>3. entry'[e].refs = 2 * Cardinality(Users(e)') + One(Marked(e))'
                         + 2 * One(entry[e].listed /\ IsPinned(entry[e].cache))'
    BY <1>b, <1>x, <2>1, <2>2
  <2>4. \A z \in Entry : z # e => /\ entry'[z].refs = entry[z].refs /\ entry'[z].listed = entry[z].listed
                                  /\ entry'[z].cache = entry[z].cache
    BY <1>x
  <2>. QED BY Parts, <1>a, <1>q, <1>v, <2>3, <2>4, EntryChange
<1>5. WeakCount' BY Parts, <1>d, <1>s, WeakCountKept
<1>6. WeakInv' BY Parts, <1>x, <1>d, <1>s, WeakKept
<1>7. ObjectInv'
  <2>1. Cardinality(Inserting') <= Cardinality(Inserting) BY <1>s, InsertingCount
  <2>. QED BY Parts, <1>d, <1>g, <1>x, <1>k, <2>1, ObjectKept
<1>8. RemoveInv' /\ ShardInv' /\ QueueInv' /\ SizeInv'
  <2>1. /\ \A z \in Entry : entry'[z].bytes = entry[z].bytes
        /\ \A z \in Entry : entry[z].listed /\ entry'[z].refs = 0 => entry[z].refs = 0
        /\ \A z \in Entry : entry[z].st = "live" /\ ~entry[z].listed => entry'[z].refs = entry[z].refs
    BY <1>x, <1>g
  <2>. QED BY <1>d, <1>e, <1>m, <1>k, <1>x, <2>1, QuietEntries
<1>9. KillInv' /\ TableInv' BY <1>x, <1>d, <1>e, <1>m, <1>k, QuietCaches
<1>10. TypeOK' BY Records, <1>x, <1>d, TypesNext
<1>. QED BY <1>q, <1>1, <1>2, <1>3, <1>4, <1>5, <1>6, <1>7, <1>8, <1>9, <1>10 DEF IInv

\* The last strong reference to an entry is released, and a weak one remains.
LEMMA LastUserKeeps ==
  ASSUME IInv, NEW t \in Thread, At(t, "entrylock"), NEW e \in Entry, e = Arg(t),
         NEW c, c = entry[e].cache,
         entry[e].refs = 3, Goto(t, << Step("cachedec", c) >>),
         entry' = [entry EXCEPT ![e].refs = 1],
         UNCHANGED << pool, caches, cache, weak, queue, lru, victims, held >>
  PROVE  IInv'
<1>f. t \in Users(e) /\ Users(e) # {} /\ c \in Cache /\ entry[e].st = "live" /\ entry[e].listed
  <2>1. t \in Users(e)
    <3>1. todo[t] # << >> /\ First(todo[t]) = Step("entrylock", e) /\ First(todo[t]).op = "entrylock"
          /\ todo[t] \in Seq(Steps) /\ WellFormed(todo[t])
      BY Parts, AtFirst
    <3>2. Final(todo[t]) = Step("entrylock", e) BY <3>1, Pop DEF Inner
    <3>. QED BY <3>2 DEF Users, Ends
  <2>. QED BY <2>1, UsedEntry
<1>d. /\ At(t, "entrylock") /\ Goto(t, << Step("cachedec", c) >>) /\ e = Arg(t)
      /\ entry' = [entry EXCEPT ![e].refs = 1] /\ entry[e].refs = 3
      /\ UNCHANGED << pool, caches, cache, weak, queue, lru, victims, held >>
  OBVIOUS
<1>e. OnlyTodo(t) /\ Alone(todo[t], "entrylock", e) /\ Alone(todo'[t], "cachedec", c)
  BY Parts, <1>d, <1>f, Proceeds, StepFields, StepEq, IsStep DEF Inner
<1>m. Moves(t) BY <1>d, <1>e, MovesOnly
<1>a. t \notin Users(e)' /\ \A z \in Entry : z # e => Users(z)' = Users(z)
  <2>1. Ends(t, "entrylock", e) BY <1>e DEF Ends, Alone
  <2>2. held[t].entry = None /\ \A z \in Entry : None # z
    BY Parts, <2>1, ConstantsAssumption DEF HeldInv, HeldAt, Entry, None
  <2>3. \A z \in Entry : \A u \in Thread : u # t => (u \in Users(z)' <=> u \in Users(z))
    BY <1>m DEF Moves, OnlyTodo, Users, Ends
  <2>4. \A z \in Entry : t \notin Users(z)' /\ (t \in Users(z) <=> z = e)
    BY <1>d, <1>e, <2>2, StepEq DEF Users, Ends, Alone
  <2>. QED BY <2>3, <2>4 DEF Users
<1>b. Marked(e) /\ ~IsPinned(entry[e].cache) /\ Users(e)' = {} /\ Cardinality(Users(e)') = 0
  <2>1. /\ Cardinality(Users(e)) \in Nat /\ Cardinality(Users(e)) > 0 /\ One(Marked(e)) \in {0, 1}
        /\ One(Marked(e)) = 1 <=> Marked(e)
        /\ ~IsPinned(entry[e].cache) /\ entry[e].refs = 2 * Cardinality(Users(e)) + One(Marked(e))
    BY <1>f, UserCount
  <2>2. Cardinality(Users(e)) = 1 /\ One(Marked(e)) = 1 BY <1>d, <2>1
  <2>3. Cardinality(Users(e)') = Cardinality(Users(e)) + One(t \in Users(e)') - One(t \in Users(e))
    BY <1>m, CountsAt
  <2>4. Cardinality(Users(e)') = 0 BY <1>a, <1>f, <2>2, <2>3 DEF One
  <2>5. Users(e)' \in SUBSET Thread BY DEF Users
  <2>6. Users(e)' = {} BY <2>4, <2>5, ThreadsFinite
  <2>. QED BY <2>1, <2>2, <2>4, <2>6
<1>x. /\ \A z \in Entry : z # e => entry'[z] = entry[z]
      /\ entry'[e].refs = 1
      /\ \A z \in Entry : /\ entry'[z].st = entry[z].st /\ entry'[z].cache = entry[z].cache
                          /\ entry'[z].key = entry[z].key /\ entry'[z].listed = entry[z].listed
                          /\ entry'[z].bytes = entry[z].bytes
      /\ entry' \in [Entry -> EntryRec] /\ EntriesKept /\ ListedKept
  BY Parts, <1>d, EntryRefs
<1>g. entry[e].st = "live" /\ entry[e].listed BY <1>f
<1>k. CachesKept /\ VictimsKept /\ UsedCaches' = UsedCaches
  BY Parts, <1>d, <1>x, CacheSame, VictimsUnmoved
<1>q. TodoInv' /\ LruInv' /\ \A cc : IsPinned(cc)' <=> IsPinned(cc)
  BY <1>d, <1>e, <1>m, <1>k, QuietStep DEF VictimsKept
<1>s. /\ PoolUsers' = PoolUsers
      /\ PoolWeakPtrs' = PoolWeakPtrs
      /\ PoolWeakReleases' = PoolWeakReleases
      /\ Inserting' = Inserting
      /\ (\A cc : CachePtrs(cc)' = CachePtrs(cc))
      /\ (\A ee : WeakUsers(ee)' = WeakUsers(ee))
      /\ (\A u \in Thread : \A ee : Unmarks(u, ee)' <=> Unmarks(u, ee))
      /\ (\A u \in Thread : \A ee : Marks(u, ee)' <=> Marks(u, ee))
  BY <1>e, <1>m, <1>d, SameSets DEF NeverEnds, Alone
<1>u. /\ \A d : d # c => UsedEntries(d)' = UsedEntries(d)
      /\ Cardinality(UsedEntries(c)') = Cardinality(UsedEntries(c)) - 1
  <2>1. \A z \in Entry : entry'[z].cache = entry[z].cache BY <1>x
  <2>. QED BY <1>a, <1>b, <1>f, <2>1, UsedLess
<1>v. \A ee \in Entry : Marked(ee)' <=> Marked(ee) BY <1>s, <1>d, MarkedKept
<1>1. HeldInv' BY Parts, <1>e, <1>m, HeldPlain DEF Alone
<1>2. PoolCount' BY Parts, <1>d, <1>k, <1>s, PoolKept
<1>3. CacheCount'
  <2>. SUFFICES ASSUME NEW d \in Cache
               PROVE  (cache[d].strong = Cardinality(CachePtrs(d)) + Cardinality(CacheReleases(d))
                                         + Cardinality(UsedEntries(d)))'
    BY DEF CacheCount
  <2>1. cache[d].strong = Cardinality(CachePtrs(d)) + Cardinality(CacheReleases(d))
                          + Cardinality(UsedEntries(d))
    BY Parts DEF CacheCount
  <2>2. /\ Cardinality(CachePtrs(d)) \in Nat /\ Cardinality(CacheReleases(d)) \in Nat
        /\ Cardinality(UsedEntries(d)) \in Nat
    BY Counts
  <2>3. Cardinality(CacheReleases(d)') = Cardinality(CacheReleases(d))
           + One("cachedec" = "cachedec" /\ c = d) - One("entrylock" = "cachedec" /\ e = d)
    BY <1>e, <1>m, CountsEnds DEF Alone
  <2>4. One("entrylock" = "cachedec" /\ e = d) = 0 BY DEF One
  <2>5. CASE d = c
    <3>1. One("cachedec" = "cachedec" /\ c = d) = 1 BY <2>5 DEF One
    <3>2. Cardinality(UsedEntries(d)') = Cardinality(UsedEntries(d)) - 1 BY <1>u, <2>5
    <3>. QED BY <1>d, <1>s, <2>1, <2>2, <2>3, <2>4, <3>1, <3>2
  <2>6. CASE d # c
    <3>1. One("cachedec" = "cachedec" /\ c = d) = 0 BY <2>6 DEF One
    <3>. QED BY <1>d, <1>s, <1>u, <2>1, <2>2, <2>3, <2>4, <2>6, <3>1
  <2>. QED BY <2>5, <2>6
<1>4. EntryCount'
  <2>1. One(Marked(e))' = 1 BY <1>b, <1>v DEF One
  <2>2. One(entry[e].listed /\ IsPinned(entry[e].cache))' = 0
    BY <1>b, <1>q, <1>x DEF One, IsPinned, Doing
  <2>3. entry'[e].refs = 2 * Cardinality(Users(e)') + One(Marked(e))'
                         + 2 * One(entry[e].listed /\ IsPinned(entry[e].cache))'
    BY <1>b, <1>x, <2>1, <2>2
  <2>4. \A z \in Entry : z # e => /\ entry'[z].refs = entry[z].refs /\ entry'[z].listed = entry[z].listed
                                  /\ entry'[z].cache = entry[z].cache
    BY <1>x
  <2>. QED BY Parts, <1>a, <1>q, <1>v, <2>3, <2>4, EntryChange
<1>5. WeakCount' BY Parts, <1>d, <1>s, WeakCountKept
<1>6. WeakInv' BY Parts, <1>x, <1>d, <1>s, WeakKept
<1>7. ObjectInv'
  <2>1. Cardinality(Inserting') <= Cardinality(Inserting) BY <1>s, InsertingCount
  <2>. QED BY Parts, <1>d, <1>g, <1>x, <1>k, <2>1, ObjectKept
<1>8. RemoveInv' /\ ShardInv' /\ QueueInv' /\ SizeInv'
  <2>1. /\ \A z \in Entry : entry'[z].bytes = entry[z].bytes
        /\ \A z \in Entry : entry[z].listed /\ entry'[z].refs = 0 => entry[z].refs = 0
        /\ \A z \in Entry : entry[z].st = "live" /\ ~entry[z].listed => entry'[z].refs = entry[z].refs
    BY <1>x, <1>g
  <2>. QED BY <1>d, <1>e, <1>m, <1>k, <1>x, <2>1, QuietEntries
<1>9. KillInv' /\ TableInv' BY <1>x, <1>d, <1>e, <1>m, <1>k, QuietCaches
<1>10. TypeOK' BY Records, <1>x, <1>d, TypesNext
<1>. QED BY <1>q, <1>1, <1>2, <1>3, <1>4, <1>5, <1>6, <1>7, <1>8, <1>9, <1>10 DEF IInv

\* The count of an entry includes its weak references.
LEMMA MarkWeakEntryKeeps ==
  ASSUME IInv, NEW t \in Thread, MarkWeakEntry(t)
  PROVE  IInv'
<1>p. PICK e \in Entry : e = Arg(t) BY Parts, AtFirst, StepFields DEF MarkWeakEntry
<1>d. /\ At(t, "weakmark") /\ Return(t) /\ e = Arg(t) /\ entry' = [entry EXCEPT ![e].refs = entry[e].refs + 1]
      /\ UNCHANGED << pool, caches, cache, weak, queue, lru, victims, held >>
  BY <1>p DEF MarkWeakEntry
<1>e. OnlyTodo(t) /\ Alone(todo[t], "weakmark", e) /\ Alone(todo'[t], "none", None)
  BY Parts, <1>d, Returns, StepFields, StepEq, IsStep DEF Inner
<1>m. Moves(t) BY <1>d, <1>e, MovesOnly
<1>x. /\ \A z \in Entry : z # e => entry'[z] = entry[z]
      /\ entry'[e].refs = entry[e].refs + 1 /\ entry'[e].refs > 0
      /\ \A z \in Entry : /\ entry'[z].st = entry[z].st /\ entry'[z].cache = entry[z].cache
                          /\ entry'[z].key = entry[z].key /\ entry'[z].listed = entry[z].listed
                          /\ entry'[z].bytes = entry[z].bytes
      /\ entry' \in [Entry -> EntryRec] /\ EntriesKept /\ ListedKept
  <2>1. entry[e].refs \in Nat BY Records DEF EntryRec
  <2>2. entry[e].refs + 1 \in Nat /\ entry[e].refs + 1 > 0 BY <1>d, <2>1
  <2>. QED BY Parts, <1>d, <2>2, EntryRefs
<1>f. /\ Users(e) # {} /\ weak[e].n > 0 /\ weak[e].entry /\ Marks(t, e) /\ entry[e].st = "live" /\ entry[e].listed
      /\ \A u \in Thread : ~Unmarks(u, e) /\ (Marks(u, e) => u = t)
  <2>1. Marks(t, e) BY <1>e DEF Marks, Ends, Alone
  <2>2. held[t].entry = e /\ held[t].weakentry = e BY Parts, <2>1 DEF HeldInv, HeldAt, Marks
  <2>3. Users(e) # {} /\ WeakUsers(e) # {} BY <2>2 DEF Users, WeakUsers
  <2>4. entry[e].st = "live" /\ entry[e].listed BY <2>3, UsedEntry
  <2>5. weak[e].n > 0
    <3>1. Cardinality(WeakUsers(e)) \in Nat /\ Cardinality(WeakUsers(e)) # 0 BY <2>3, Counts
    <3>. QED BY Parts, <3>1 DEF WeakCount
  <2>6. weak[e].st = "live" BY <2>5, NoObject
  <2>7. weak[e].entry /\ (weak[e].mutex = None \/ weak[e].n = 0)
    BY Parts, <2>4, <2>6 DEF WeakInv
  <2>8. \A u \in Thread : ~Unmarks(u, e)
    <3>1. weak[e].mutex = None /\ \A u \in Thread : u # None BY <2>5, <2>7, ConstantsAssumption
    <3>. QED BY Parts, <3>1 DEF WeakInv
  <2>. QED BY Parts, <2>1, <2>3, <2>4, <2>5, <2>7, <2>8 DEF WeakInv
<1>g. entry[e].st = "live" /\ entry[e].listed BY <1>f
<1>k. CachesKept /\ VictimsKept /\ UsedCaches' = UsedCaches
  BY Parts, <1>d, <1>x, CacheSame, VictimsUnmoved
<1>q. TodoInv' /\ LruInv' /\ \A c : IsPinned(c)' <=> IsPinned(c)
  BY <1>d, <1>e, <1>m, <1>k, QuietStep DEF VictimsKept
<1>s. /\ PoolUsers' = PoolUsers
      /\ PoolWeakPtrs' = PoolWeakPtrs
      /\ PoolWeakReleases' = PoolWeakReleases
      /\ Inserting' = Inserting
      /\ (\A c : CachePtrs(c)' = CachePtrs(c))
      /\ (\A c : CacheReleases(c)' = CacheReleases(c))
      /\ (\A ee : Users(ee)' = Users(ee))
      /\ (\A ee : WeakUsers(ee)' = WeakUsers(ee))
      /\ (\A u \in Thread : \A ee : Unmarks(u, ee)' <=> Unmarks(u, ee))
  BY <1>e, <1>m, <1>d, SameSets DEF NeverEnds, Alone
<1>u. \A c : UsedEntries(c)' = UsedEntries(c)
  <2>1. \A x \in Entry : entry'[x].cache = entry[x].cache BY <1>x
  <2>. QED BY <1>s, <2>1, UsedKept
<1>n. \A u \in Thread : \A z : Marks(u, z)' => Marks(u, z) /\ z # e
  <2>1. \A z : ~Marks(t, z)' BY <1>e, StepEq DEF Marks, Ends, Alone
  <2>2. \A u \in Thread : \A z : u # t => (Marks(u, z)' <=> Marks(u, z))
    BY <1>m DEF Moves, OnlyTodo, Marks, Ends
  <2>. QED BY <1>f, <2>1, <2>2
<1>w. \A u \in Thread : \A z : z # e => (Marks(u, z)' <=> Marks(u, z))
  <2>1. \A z : z # e => ~Marks(t, z) BY <1>e, StepEq DEF Marks, Ends, Alone
  <2>2. \A u \in Thread : \A z : u # t => (Marks(u, z)' <=> Marks(u, z))
    BY <1>m DEF Moves, OnlyTodo, Marks, Ends
  <2>. QED BY <1>n, <2>1, <2>2
<1>v. /\ WeakInv' /\ (\A z \in Entry : z # e => (Marked(z)' <=> Marked(z))) /\ ~Marked(e) /\ Marked(e)'
  <2>1. WeakAt(e) BY Parts, WeakParts
  <2>2. WeakAt(e)' BY <1>d, <1>n, <1>s, <1>x, <2>1 DEF WeakAt
  <2>3. /\ WeakInv' /\ (\A z \in Entry : z # e => (Marked(z)' <=> Marked(z)))
    <3>1. \A z \in Entry : z # e => weak'[z] = weak[z] BY <1>d
    <3>2. \A z \in Entry : entry'[z].st = entry[z].st BY <1>x
    <3>. QED BY Parts, <1>s, <1>w, <2>2, <3>1, <3>2, WeakChange
  <2>4. ~Marked(e) BY <1>f DEF Marked
  <2>5. Marked(e)' BY <1>d, <1>f, <1>n DEF Marked
  <2>. QED BY <2>3, <2>4, <2>5
<1>1. HeldInv' BY Parts, <1>d, <1>e, <1>m, HeldOver DEF Alone
<1>2. PoolCount' BY Parts, <1>d, <1>k, <1>s, PoolKept
<1>3. CacheCount' BY Parts, <1>d, <1>s, <1>u, CacheKept
<1>4. EntryCount'
  <2>1. One(Marked(e)) = 0 /\ One(Marked(e))' = 1 BY <1>v DEF One
  <2>2. One(entry[e].listed /\ IsPinned(entry[e].cache))' = 0
    BY <1>f, <1>q, <1>x, UserCount DEF One, IsPinned, Doing
  <2>5. Cardinality(Users(e)) \in Nat /\ entry[e].refs = 2 * Cardinality(Users(e)) + One(Marked(e))
    BY <1>f, UserCount
  <2>6. Users(e)' = Users(e) BY <1>s
  <2>3. entry'[e].refs = 2 * Cardinality(Users(e)') + One(Marked(e))'
                         + 2 * One(entry[e].listed /\ IsPinned(entry[e].cache))'
    BY <1>x, <2>1, <2>2, <2>5, <2>6
  <2>4. \A z \in Entry : z # e => /\ entry'[z].refs = entry[z].refs /\ entry'[z].listed = entry[z].listed
                                  /\ entry'[z].cache = entry[z].cache
    BY <1>x
  <2>. QED BY Parts, <1>s, <1>q, <1>v, <2>3, <2>4, EntryChange
<1>5. WeakCount' BY Parts, <1>d, <1>s, WeakCountKept
<1>6. WeakInv' BY <1>v
<1>7. ObjectInv'
  <2>1. Cardinality(Inserting') <= Cardinality(Inserting) BY <1>s, InsertingCount
  <2>. QED BY Parts, <1>d, <1>g, <1>x, <1>k, <2>1, ObjectKept
<1>8. RemoveInv' /\ ShardInv' /\ QueueInv' /\ SizeInv'
  <2>1. /\ \A z \in Entry : entry'[z].bytes = entry[z].bytes
        /\ \A z \in Entry : entry[z].listed /\ entry'[z].refs = 0 => entry[z].refs = 0
        /\ \A z \in Entry : entry[z].st = "live" /\ ~entry[z].listed => entry'[z].refs = entry[z].refs
    BY <1>x, <1>g
  <2>. QED BY <1>d, <1>e, <1>m, <1>k, <1>x, <2>1, QuietEntries
<1>9. KillInv' /\ TableInv' BY <1>x, <1>d, <1>e, <1>m, <1>k, QuietCaches
<1>10. TypeOK' BY Records, <1>x, <1>d, TypesNext
<1>. QED BY <1>q, <1>1, <1>2, <1>3, <1>4, <1>5, <1>6, <1>7, <1>8, <1>9, <1>10 DEF IInv

-----------------------------------------------------------------------------
(* Weak references to entries.                                             *)

\* The mark of an entry is about to be taken away.
LEMMA UnmarkFacts ==
  ASSUME IInv, NEW t \in Thread, NEW e \in Entry, Unmarks(t, e)
  PROVE  /\ weak[e].mutex = t /\ weak[e].n = 0 /\ weak[e].entry /\ weak[e].st = "live"
         /\ entry[e].st = "live" /\ entry[e].listed /\ entry[e].cache \in Cache /\ entry[e].key \in Key
         /\ cache[entry[e].cache].st = "live" /\ Marked(e) /\ entry[e].refs \in Nat /\ entry[e].refs > 0
         /\ \A u \in Thread : (Unmarks(u, e) => u = t) /\ ~Marks(u, e)
         /\ \A u \in Thread : e \notin Removed(u)
<1>0. TypeOK /\ WeakInv /\ HeldInv /\ WeakCount /\ EntryCount BY Parts
<1>1. weak[e].mutex = t /\ weak[e].mutex # None BY <1>0, ConstantsAssumption DEF WeakInv
<1>2. weak[e].n = 0 /\ weak[e].entry BY <1>0, <1>1 DEF WeakInv
<1>3. weak[e].st = "live" BY <1>2, NoObject
<1>4. Marked(e) BY DEF Marked
<1>5. entry[e].refs > 0 /\ entry[e].refs \in Nat
  <2>1. entry[e].refs = 2 * Cardinality(Users(e)) + One(Marked(e))
                        + 2 * One(entry[e].listed /\ IsPinned(entry[e].cache))
    BY <1>0 DEF EntryCount
  <2>2. One(Marked(e)) = 1 /\ One(entry[e].listed /\ IsPinned(entry[e].cache)) \in {0, 1}
    BY <1>4 DEF One
  <2>3. Cardinality(Users(e)) \in Nat BY Counts
  <2>. QED BY <2>1, <2>2, <2>3
<1>6. \A u \in Thread : Unmarks(u, e) => u = t BY <1>0, <1>1 DEF WeakInv
<1>7. ASSUME NEW u \in Thread, Marks(u, e) PROVE FALSE
  <2>1. u \in WeakUsers(e) BY <1>0, <1>7 DEF HeldInv, HeldAt, Marks, WeakUsers
  <2>2. Cardinality(WeakUsers(e)) # 0 BY <2>1, Counts
  <2>. QED BY <1>0, <1>2, <2>2 DEF WeakCount
<1>8. /\ entry[e].st = "live" /\ entry[e].listed /\ entry[e].cache \in Cache /\ entry[e].key \in Key
      /\ cache[entry[e].cache].st = "live" /\ \A u \in Thread : e \notin Removed(u)
  BY <1>5, MarkedEntry
<1>. QED BY <1>1, <1>2, <1>3, <1>4, <1>5, <1>6, <1>7, <1>8

\* The weak state is unlocked.
LEMMA UnmarkAfter ==
  ASSUME IInv, NEW t \in Thread, NEW e \in Entry, Unmarks(t, e), Moves(t),
         weak' = [weak EXCEPT ![e].mutex = None],
         Final(todo'[t]).op \notin {"unmark", "unmarklock", "weakmark"},
         \A z \in Entry : entry'[z].st = entry[z].st
  PROVE  /\ WeakInv' /\ ~Marked(e)' /\ weak' \in [Entry -> WeakRec]
         /\ \A z \in Entry : z # e => (Marked(z)' <=> Marked(z))
         /\ \A z \in Entry : weak'[z].n = weak[z].n
<1>0. TypeOK /\ WeakInv /\ weak \in [Entry -> WeakRec] BY Parts, Types
<1>1. /\ weak[e].mutex = t /\ weak[e].n = 0 /\ weak[e].entry /\ weak[e].st = "live"
      /\ entry[e].st = "live" /\ \A u \in Thread : (Unmarks(u, e) => u = t) /\ ~Marks(u, e)
  BY UnmarkFacts
<1>2. \A u \in Thread : \A z : u # t => (Unmarks(u, z)' <=> Unmarks(u, z)) /\ (Marks(u, z)' <=> Marks(u, z))
  BY DEF Moves, OnlyTodo, Unmarks, Marks, Ends
<1>3. \A z : ~Unmarks(t, z)' /\ ~Marks(t, z)' BY StepEq DEF Unmarks, Marks, Ends
<1>4. \A z : ~Marks(t, z) /\ (z # e => ~Unmarks(t, z)) BY StepEq DEF Unmarks, Marks, Ends
<1>5. /\ \A z \in Entry : z # e => weak'[z] = weak[z]
      /\ weak'[e].mutex = None /\ weak'[e].n = weak[e].n /\ weak'[e].entry = weak[e].entry
      /\ weak'[e].st = weak[e].st /\ weak' \in [Entry -> WeakRec]
  BY <1>0 DEF WeakRec
<1>6. \A u \in Thread : ~Unmarks(u, e)' /\ ~Marks(u, e)' BY <1>1, <1>2, <1>3
<1>7. WeakAt(e)'
  <2>1. \A u \in Thread : u # None BY ConstantsAssumption
  <2>. QED BY <1>1, <1>5, <1>6, <2>1 DEF WeakAt
<1>8. /\ \A u \in Thread : \A z : z # e => (Unmarks(u, z)' <=> Unmarks(u, z))
      /\ \A u \in Thread : \A z : z # e => (Marks(u, z)' <=> Marks(u, z))
  BY <1>2, <1>3, <1>4
<1>9. WeakInv' /\ \A z \in Entry : z # e => (Marked(z)' <=> Marked(z))
  BY <1>0, <1>5, <1>7, <1>8, WeakChange
<1>10. ~Marked(e)' BY <1>1, <1>5, <1>6 DEF Marked
<1>. QED BY <1>5, <1>9, <1>10

\* A weak reference is counted, and the weak state exists.
LEMMA WeakMore ==
  ASSUME TypeOK, NEW e \in Entry,
         weak' = [weak EXCEPT ![e].n = @ + 1, ![e].st = "live", ![e].entry = TRUE]
  PROVE  /\ \A z \in Entry : z # e => weak'[z] = weak[z]
         /\ weak'[e].n = weak[e].n + 1 /\ weak'[e].st = "live" /\ weak'[e].entry
         /\ weak'[e].mutex = weak[e].mutex
         /\ weak' \in [Entry -> WeakRec]
<1>0. weak \in [Entry -> WeakRec] BY Types
<1>1. PICK r \in WeakRec : r = weak[e] BY <1>0
<1>2. \A q \in WeakRec, m \in Nat :
          LET s == [q EXCEPT !.n = m, !.st = "live", !.entry = TRUE]
          IN  s \in WeakRec /\ s.n = m /\ s.st = "live" /\ s.entry /\ s.mutex = q.mutex
  BY DEF WeakRec, State
<1>m. PICK m \in Nat : m = r.n + 1 BY DEF WeakRec
<1>s. PICK s : s = [r EXCEPT !.n = m, !.st = "live", !.entry = TRUE] OBVIOUS
<1>3. s \in WeakRec /\ s.n = m /\ s.st = "live" /\ s.entry /\ s.mutex = r.mutex BY <1>2, <1>s
<1>4. weak' = [weak EXCEPT ![e] = s] BY <1>0, <1>1, <1>m, <1>s
<1>5. (\A z \in Entry : z # e => weak'[z] = weak[z]) /\ weak'[e] = s /\ weak' \in [Entry -> WeakRec]
  BY <1>3, <1>4, WeakIs
<1>. QED BY <1>1, <1>m, <1>3, <1>5

\* The count of an entry loses its weak references, and a strong one remains.
LEMMA UnmarkKeeps ==
  ASSUME IInv, NEW t \in Thread, NEW op \in {"unmark", "unmarklock"}, At(t, op), NEW e \in Entry, e = Arg(t),
         entry[e].refs > 1, entry' = [entry EXCEPT ![e].refs = entry[e].refs - 1],
         weak' = [weak EXCEPT ![e].mutex = None], Return(t),
         UNCHANGED << pool, caches, cache, queue, lru, victims, held >>
  PROVE  IInv'
<1>d. /\ At(t, op) /\ Return(t) /\ e = Arg(t) /\ entry[e].refs > 1
      /\ entry' = [entry EXCEPT ![e].refs = entry[e].refs - 1] /\ weak' = [weak EXCEPT ![e].mutex = None]
      /\ UNCHANGED << pool, caches, cache, queue, lru, victims, held >>
  OBVIOUS
<1>e. OnlyTodo(t) /\ Alone(todo[t], op, e) /\ Alone(todo'[t], "none", None)
  BY Parts, <1>d, Returns DEF Inner
<1>m. Moves(t) BY <1>d, <1>e, MovesOnly
<1>f. Unmarks(t, e) BY <1>e DEF Unmarks, Ends, Alone
<1>g. entry[e].st = "live" /\ entry[e].listed /\ Marked(e) BY <1>f, UnmarkFacts
<1>x. /\ \A z \in Entry : z # e => entry'[z] = entry[z]
      /\ entry'[e].refs = entry[e].refs - 1 /\ entry'[e].refs > 0
      /\ \A z \in Entry : /\ entry'[z].st = entry[z].st /\ entry'[z].cache = entry[z].cache
                          /\ entry'[z].key = entry[z].key /\ entry'[z].listed = entry[z].listed
                          /\ entry'[z].bytes = entry[z].bytes
      /\ entry' \in [Entry -> EntryRec] /\ EntriesKept /\ ListedKept
  <2>1. entry[e].refs \in Nat BY Records DEF EntryRec
  <2>2. entry[e].refs - 1 \in Nat /\ entry[e].refs - 1 > 0 BY <1>d, <2>1
  <2>. QED BY Parts, <1>d, <2>2, EntryRefs
<1>k. CachesKept /\ VictimsKept /\ UsedCaches' = UsedCaches
  BY Parts, <1>d, <1>x, CacheSame, VictimsUnmoved
<1>q. TodoInv' /\ LruInv' /\ \A c : IsPinned(c)' <=> IsPinned(c)
  BY <1>d, <1>e, <1>m, <1>k, QuietStep DEF VictimsKept
<1>s. /\ PoolUsers' = PoolUsers
      /\ PoolWeakPtrs' = PoolWeakPtrs
      /\ PoolWeakReleases' = PoolWeakReleases
      /\ Inserting' = Inserting
      /\ (\A c : CachePtrs(c)' = CachePtrs(c))
      /\ (\A c : CacheReleases(c)' = CacheReleases(c))
      /\ (\A ee : Users(ee)' = Users(ee))
      /\ (\A ee : WeakUsers(ee)' = WeakUsers(ee))
      /\ (\A u \in Thread : \A ee : Marks(u, ee)' <=> Marks(u, ee))
  BY <1>e, <1>m, <1>d, SameSets DEF NeverEnds, Alone
<1>u. \A c : UsedEntries(c)' = UsedEntries(c)
  <2>1. \A x \in Entry : entry'[x].cache = entry[x].cache BY <1>x
  <2>. QED BY <1>s, <2>1, UsedKept
<1>v. /\ WeakInv' /\ ~Marked(e)' /\ weak' \in [Entry -> WeakRec]
      /\ (\A z \in Entry : z # e => (Marked(z)' <=> Marked(z)))
      /\ \A z \in Entry : weak'[z].n = weak[z].n
  <2>1. \A z \in Entry : entry'[z].st = entry[z].st BY <1>x
  <2>. QED BY <1>d, <1>e, <1>f, <1>m, <2>1, UnmarkAfter DEF Alone
<1>1. HeldInv' BY Parts, <1>d, <1>e, <1>m, HeldOver DEF Alone
<1>2. PoolCount' BY Parts, <1>d, <1>k, <1>s, PoolKept
<1>3. CacheCount' BY Parts, <1>d, <1>s, <1>u, CacheKept
<1>4. EntryCount'
  <2>1. One(Marked(e)) = 1 /\ One(Marked(e))' = 0 BY <1>g, <1>v DEF One
  <2>2. One(entry[e].listed /\ IsPinned(entry[e].cache))' = One(entry[e].listed /\ IsPinned(entry[e].cache))
    BY <1>q, <1>x DEF One, IsPinned, Doing
  <2>5. entry[e].refs = 2 * Cardinality(Users(e)) + One(Marked(e))
                        + 2 * One(entry[e].listed /\ IsPinned(entry[e].cache))
    BY Parts DEF EntryCount
  <2>6. Users(e)' = Users(e) /\ Cardinality(Users(e)) \in Nat /\ One(entry[e].listed /\ IsPinned(entry[e].cache)) \in {0, 1}
    BY <1>s, Counts DEF One
  <2>3. entry'[e].refs = 2 * Cardinality(Users(e)') + One(Marked(e))'
                         + 2 * One(entry[e].listed /\ IsPinned(entry[e].cache))'
    BY <1>x, <2>1, <2>2, <2>5, <2>6
  <2>4. \A z \in Entry : z # e => /\ entry'[z].refs = entry[z].refs /\ entry'[z].listed = entry[z].listed
                                  /\ entry'[z].cache = entry[z].cache
    BY <1>x
  <2>. QED BY Parts, <1>s, <1>q, <1>v, <2>3, <2>4, EntryChange
<1>5. WeakCount'
  <2>1. \A z : WeakUsers(z)' = WeakUsers(z) BY <1>s
  <2>. QED BY Parts, <1>v, <2>1, WeakCountKept
<1>6. WeakInv' BY <1>v
<1>7. ObjectInv'
  <2>1. Cardinality(Inserting') <= Cardinality(Inserting) BY <1>s, InsertingCount
  <2>. QED BY Parts, <1>d, <1>g, <1>x, <1>k, <2>1, ObjectKept
<1>8. RemoveInv' /\ ShardInv' /\ QueueInv' /\ SizeInv'
  <2>1. /\ \A z \in Entry : entry'[z].bytes = entry[z].bytes
        /\ \A z \in Entry : entry[z].listed /\ entry'[z].refs = 0 => entry[z].refs = 0
        /\ \A z \in Entry : entry[z].st = "live" /\ ~entry[z].listed => entry'[z].refs = entry[z].refs
    BY <1>x, <1>g
  <2>. QED BY <1>d, <1>e, <1>m, <1>k, <1>x, <2>1, QuietEntries
<1>9. KillInv' /\ TableInv' BY <1>x, <1>d, <1>e, <1>m, <1>k, QuietCaches
<1>10. TypeOK' BY Records, <1>x, <1>v, <1>d, TypesNext
<1>. QED BY <1>q, <1>1, <1>2, <1>3, <1>4, <1>5, <1>6, <1>7, <1>8, <1>9, <1>10 DEF IInv

\* The weak reference may have been the last reference.
LEMMA UnmarkWaits ==
  ASSUME IInv, NEW t \in Thread, At(t, "unmark"), Goto(t, << Step("unmarklock", Arg(t)) >>),
         UNCHANGED << pool, caches, cache, entry, weak, queue, lru, victims, held >>
  PROVE  IInv'
<1>p. PICK e \in Entry : e = Arg(t) BY Parts, AtFirst, StepFields
<1>d. /\ At(t, "unmark") /\ Goto(t, << Step("unmarklock", e) >>) /\ e = Arg(t)
      /\ UNCHANGED << pool, caches, cache, entry, weak, queue, lru, victims, held >>
  BY <1>p
<1>e. OnlyTodo(t) /\ Alone(todo[t], "unmark", e) /\ Alone(todo'[t], "unmarklock", e)
  BY Parts, <1>d, Proceeds, StepFields, StepEq, IsStep DEF Inner
<1>m. Moves(t) BY <1>d, <1>e, MovesOnly
<1>k. EntriesKept /\ ListedKept /\ CachesKept /\ VictimsKept /\ UsedCaches' = UsedCaches
  BY Parts, <1>d, EntrySame, CacheSame, VictimsUnmoved
<1>q. TodoInv' /\ LruInv' /\ \A c : IsPinned(c)' <=> IsPinned(c)
  BY <1>d, <1>e, <1>m, <1>k, QuietStep DEF VictimsKept
<1>s. /\ PoolUsers' = PoolUsers
      /\ PoolWeakPtrs' = PoolWeakPtrs
      /\ PoolWeakReleases' = PoolWeakReleases
      /\ Inserting' = Inserting
      /\ (\A c : CachePtrs(c)' = CachePtrs(c))
      /\ (\A c : CacheReleases(c)' = CacheReleases(c))
      /\ (\A ee : Users(ee)' = Users(ee))
      /\ (\A ee : WeakUsers(ee)' = WeakUsers(ee))
      /\ (\A u \in Thread : \A ee : Marks(u, ee)' <=> Marks(u, ee))
  BY <1>e, <1>m, <1>d, SameSets DEF NeverEnds, Alone
<1>w. \A u \in Thread : \A z : Unmarks(u, z)' <=> Unmarks(u, z)
  <2>1. \A z : Unmarks(t, z)' <=> Unmarks(t, z) BY <1>e, StepEq DEF Unmarks, Ends, Alone
  <2>2. \A u \in Thread : \A z : u # t => (Unmarks(u, z)' <=> Unmarks(u, z))
    BY <1>m DEF Moves, OnlyTodo, Unmarks, Ends
  <2>. QED BY <2>1, <2>2
<1>u. \A c : UsedEntries(c)' = UsedEntries(c) BY <1>s, <1>d, UsedKept
<1>v. \A ee \in Entry : Marked(ee)' <=> Marked(ee) BY <1>s, <1>w, <1>d, MarkedKept
<1>1. HeldInv'
  <2>1. \A o, z : Ends(t, o, z)' <=> o = "unmarklock" /\ z = e BY <1>e, StepEq DEF Ends, Alone
  <2>2. Holds(t)
    <3>1. Ends(t, "unmark", e) BY <1>e DEF Ends, Alone
    <3>. QED BY Parts, <3>1 DEF HeldInv, HeldAt
  <2>3. HeldAt(t)' BY <1>d, <2>1, <2>2 DEF HeldAt, Holds, HasPool
  <2>. QED BY Parts, <1>m, <2>3, HeldKept
<1>2. PoolCount' BY Parts, <1>d, <1>k, <1>s, PoolKept
<1>3. CacheCount' BY Parts, <1>d, <1>s, <1>u, CacheKept
<1>4. EntryCount' BY Parts, <1>d, <1>q, <1>s, <1>v, EntryKept
<1>5. WeakCount' BY Parts, <1>d, <1>s, WeakCountKept
<1>6. WeakInv' BY Parts, <1>d, <1>s, <1>w, WeakKept
<1>7. ObjectInv'
  <2>1. Cardinality(Inserting') <= Cardinality(Inserting) BY <1>s, InsertingCount
  <2>. QED BY Parts, <1>d, <1>k, <2>1, ObjectKept
<1>8. RemoveInv' /\ ShardInv' /\ QueueInv' /\ SizeInv' BY <1>d, <1>e, <1>m, <1>k, QuietEntries
<1>9. KillInv' /\ TableInv' BY <1>d, <1>e, <1>m, <1>k, QuietCaches
<1>10. TypeOK' BY Records, <1>d, TypesNext
<1>. QED BY <1>q, <1>1, <1>2, <1>3, <1>4, <1>5, <1>6, <1>7, <1>8, <1>9, <1>10 DEF IInv

\* The first weak reference to an entry is acquired.
LEMMA AcquireFirstWeakKeeps ==
  ASSUME IInv, NEW t \in Thread, NEW e \in Entry, e = held[t].entry, Idle(t), held[t].weakentry = None,
         weak[e].mutex = None, weak[e].n = 0, Start(t, << Step("weakmark", e) >>),
         weak' = [weak EXCEPT ![e].n = @ + 1, ![e].st = "live", ![e].entry = TRUE],
         held' = [held EXCEPT ![t].weakentry = e],
         UNCHANGED << pool, caches, cache, entry, queue, lru, victims >>
  PROVE  IInv'
<1>d. /\ Idle(t) /\ Start(t, << Step("weakmark", e) >>) /\ held' = [held EXCEPT ![t].weakentry = e]
      /\ UNCHANGED << pool, caches, cache, entry, queue, lru, victims >>
  OBVIOUS
<1>h. /\ held' \in [Thread -> HeldRec] /\ held'[t].weakentry = e
      /\ held'[t].strong = held[t].strong /\ held'[t].weak = held[t].weak
      /\ held'[t].cache = held[t].cache /\ held'[t].entry = held[t].entry
      /\ \A u \in Thread : u # t => held'[u] = held[u]
  BY Parts, <1>d, HeldFields
<1>e. OnlyTodo(t) /\ Alone(todo[t], "none", None) /\ Alone(todo'[t], "weakmark", e)
  BY Parts, <1>d, Starts, StepFields, StepEq, IsStep DEF Inner
<1>m. Moves(t) BY <1>d, <1>e, <1>h DEF Moves
<1>k. EntriesKept /\ ListedKept /\ CachesKept /\ VictimsKept /\ UsedCaches' = UsedCaches
  BY Parts, <1>d, EntrySame, CacheSame, VictimsUnmoved
<1>q. TodoInv' /\ LruInv' /\ \A c : IsPinned(c)' <=> IsPinned(c)
  BY <1>d, <1>e, <1>m, <1>k, QuietStep DEF VictimsKept
<1>s. /\ PoolUsers' = PoolUsers
      /\ PoolWeakPtrs' = PoolWeakPtrs
      /\ PoolWeakReleases' = PoolWeakReleases
      /\ Inserting' = Inserting
      /\ (\A c : CachePtrs(c)' = CachePtrs(c))
      /\ (\A c : CacheReleases(c)' = CacheReleases(c))
      /\ (\A ee : Users(ee)' = Users(ee))
      /\ (\A u \in Thread : \A ee : Unmarks(u, ee)' <=> Unmarks(u, ee))
  BY <1>e, <1>m, <1>d, <1>h, SameSets DEF NeverEnds, Alone
<1>u. \A c : UsedEntries(c)' = UsedEntries(c) BY <1>s, <1>d, UsedKept
<1>f. /\ Users(e) # {} /\ entry[e].st = "live" /\ \A u \in Thread : ~Unmarks(u, e)
  <2>1. Users(e) # {} BY DEF Users
  <2>2. \A u \in Thread : u # None BY ConstantsAssumption
  <2>3. entry[e].st = "live" BY <2>1, UsedEntry
  <2>4. \A u \in Thread : ~Unmarks(u, e)
    <3>1. \A u \in Thread : weak[e].mutex = u <=> Unmarks(u, e) BY Parts DEF WeakInv
    <3>. QED BY <2>2, <3>1
  <2>. QED BY <2>1, <2>3, <2>4
<1>w. /\ \A z \in Entry : z # e => weak'[z] = weak[z]
      /\ weak'[e].n = weak[e].n + 1 /\ weak'[e].st = "live" /\ weak'[e].entry /\ weak'[e].mutex = None
      /\ weak' \in [Entry -> WeakRec]
  BY Parts, WeakMore
<1>b. /\ Cardinality(WeakUsers(e)') = Cardinality(WeakUsers(e)) + 1
      /\ \A z \in Entry : z # e => WeakUsers(z)' = WeakUsers(z)
  <2>1. \A z \in Entry : None # z BY ConstantsAssumption DEF Entry, None
  <2>2. \A z \in Entry : \A u \in Thread : u # t => (u \in WeakUsers(z)' <=> u \in WeakUsers(z))
    BY <1>m DEF Moves, OnlyTodo, WeakUsers, Ends
  <2>3. \A z \in Entry : t \notin WeakUsers(z) /\ (t \in WeakUsers(z)' <=> z = e)
    BY <1>e, <1>h, <2>1, StepEq DEF WeakUsers, Ends, Alone
  <2>4. Cardinality(WeakUsers(e)') = Cardinality(WeakUsers(e)) + One(t \in WeakUsers(e)') - One(t \in WeakUsers(e))
    BY <1>m, CountsAt
  <2>5. Cardinality(WeakUsers(e)) \in Nat BY Counts
  <2>6. \A z \in Entry : z # e => WeakUsers(z)' = WeakUsers(z) BY <2>2, <2>3 DEF WeakUsers
  <2>. QED BY <2>3, <2>4, <2>5, <2>6 DEF One
<1>n. /\ \A u \in Thread : ~Marks(u, e)
      /\ \A u \in Thread : (Marks(u, e)' <=> u = t)
      /\ \A u \in Thread : \A z : z # e => (Marks(u, z)' <=> Marks(u, z))
  <2>1. ASSUME NEW u \in Thread, Marks(u, e) PROVE FALSE
    <3>1. u \in WeakUsers(e) BY Parts, <2>1 DEF HeldInv, HeldAt, Marks, WeakUsers
    <3>2. Cardinality(WeakUsers(e)) # 0 BY <3>1, Counts
    <3>. QED BY Parts, <3>2 DEF WeakCount
  <2>2. \A u \in Thread : \A z : u # t => (Marks(u, z)' <=> Marks(u, z))
    BY <1>m DEF Moves, OnlyTodo, Marks, Ends
  <2>3. \A z : (Marks(t, z)' <=> z = e) /\ ~Marks(t, z) BY <1>e, StepEq DEF Marks, Ends, Alone
  <2>. QED BY <2>1, <2>2, <2>3
<1>z. /\ WeakInv' /\ (\A z \in Entry : z # e => (Marked(z)' <=> Marked(z)))
  <2>1. WeakAt(e)'
    <3>1. /\ \A u \in Thread : ~Unmarks(u, e)' /\ u # None
          /\ \A u, v \in Thread : Marks(u, e)' /\ Marks(v, e)' => u = v
      BY <1>f, <1>s, <1>n, ConstantsAssumption
    <3>2. /\ entry'[e].st = "live" /\ weak'[e].st = "live" /\ weak'[e].entry /\ weak'[e].mutex = None
      BY <1>d, <1>f, <1>w
    <3>. QED BY <3>1, <3>2 DEF WeakAt
  <2>2. /\ \A z \in Entry : z # e => weak'[z] = weak[z]
        /\ \A z \in Entry : entry'[z].st = entry[z].st
    BY <1>d, <1>w
  <2>. QED BY Parts, <1>n, <1>s, <2>1, <2>2, WeakChange
<1>v. WeakInv' /\ \A z \in Entry : Marked(z)' <=> Marked(z)
  <2>1. ~Marked(e) BY <1>f DEF Marked
  <2>2. ~Marked(e)' BY <1>f, <1>s, <1>n DEF Marked
  <2>. QED BY <1>z, <2>1, <2>2
<1>1. HeldInv'
  <2>1. \A o, z : Ends(t, o, z)' <=> o = "weakmark" /\ z = e BY <1>e, StepEq DEF Ends, Alone
  <2>2. held'[t].entry = e /\ held'[t].weakentry = e /\ e # None
    BY <1>h, ConstantsAssumption DEF Entry, None
  <2>3. HeldAt(t)' BY <2>1, <2>2 DEF HeldAt, Holds
  <2>. QED BY Parts, <1>m, <2>3, HeldKept
<1>2. PoolCount' BY Parts, <1>d, <1>k, <1>s, PoolKept
<1>3. CacheCount' BY Parts, <1>d, <1>s, <1>u, CacheKept
<1>4. EntryCount' BY Parts, <1>d, <1>q, <1>s, <1>v, EntryKept
<1>5. WeakCount'
  <2>1. ASSUME NEW z \in Entry, z # e PROVE weak'[z].n = Cardinality(WeakUsers(z)')
    BY Parts, <1>w, <1>b, <2>1 DEF WeakCount
  <2>2. weak'[e].n = Cardinality(WeakUsers(e)') BY Parts, <1>w, <1>b DEF WeakCount
  <2>. QED BY <2>1, <2>2 DEF WeakCount
<1>6. WeakInv' BY <1>v
<1>7. ObjectInv'
  <2>1. Cardinality(Inserting') <= Cardinality(Inserting) BY <1>s, InsertingCount
  <2>. QED BY Parts, <1>d, <1>k, <2>1, ObjectKept
<1>8. RemoveInv' /\ ShardInv' /\ QueueInv' /\ SizeInv' BY <1>d, <1>e, <1>m, <1>k, QuietEntries
<1>9. KillInv' /\ TableInv' BY <1>d, <1>e, <1>m, <1>k, QuietCaches
<1>10. TypeOK' BY Records, <1>h, <1>w, <1>d, TypesNext
<1>. QED BY <1>q, <1>1, <1>2, <1>3, <1>4, <1>5, <1>6, <1>7, <1>8, <1>9, <1>10 DEF IInv

\* Another weak reference to an entry is acquired.
LEMMA AcquireWeakKeeps ==
  ASSUME IInv, NEW t \in Thread, NEW e \in Entry, e = held[t].entry, Idle(t), held[t].weakentry = None,
         weak[e].mutex = None, weak[e].n # 0, Start(t, << >>),
         weak' = [weak EXCEPT ![e].n = @ + 1, ![e].st = "live", ![e].entry = TRUE],
         held' = [held EXCEPT ![t].weakentry = e],
         UNCHANGED << pool, caches, cache, entry, queue, lru, victims >>
  PROVE  IInv'
<1>d. /\ Idle(t) /\ Start(t, << >>) /\ held' = [held EXCEPT ![t].weakentry = e]
      /\ UNCHANGED << pool, caches, cache, entry, queue, lru, victims >>
  OBVIOUS
<1>h. /\ held' \in [Thread -> HeldRec] /\ held'[t].weakentry = e
      /\ held'[t].strong = held[t].strong /\ held'[t].weak = held[t].weak
      /\ held'[t].cache = held[t].cache /\ held'[t].entry = held[t].entry
      /\ \A u \in Thread : u # t => held'[u] = held[u]
  BY Parts, <1>d, HeldFields
<1>e. OnlyTodo(t) /\ Alone(todo[t], "none", None) /\ Alone(todo'[t], "none", None)
  BY Parts, <1>d, StaysIdle, StepFields, StepEq, IsStep DEF Inner
<1>m. Moves(t) BY <1>d, <1>e, <1>h DEF Moves
<1>k. EntriesKept /\ ListedKept /\ CachesKept /\ VictimsKept /\ UsedCaches' = UsedCaches
  BY Parts, <1>d, EntrySame, CacheSame, VictimsUnmoved
<1>q. TodoInv' /\ LruInv' /\ \A c : IsPinned(c)' <=> IsPinned(c)
  BY <1>d, <1>e, <1>m, <1>k, QuietStep DEF VictimsKept
<1>s. /\ PoolUsers' = PoolUsers
      /\ PoolWeakPtrs' = PoolWeakPtrs
      /\ PoolWeakReleases' = PoolWeakReleases
      /\ Inserting' = Inserting
      /\ (\A c : CachePtrs(c)' = CachePtrs(c))
      /\ (\A c : CacheReleases(c)' = CacheReleases(c))
      /\ (\A ee : Users(ee)' = Users(ee))
      /\ (\A u \in Thread : \A ee : Unmarks(u, ee)' <=> Unmarks(u, ee))
      /\ (\A u \in Thread : \A ee : Marks(u, ee)' <=> Marks(u, ee))
  BY <1>e, <1>m, <1>d, <1>h, SameSets DEF NeverEnds, Alone
<1>u. \A c : UsedEntries(c)' = UsedEntries(c) BY <1>s, <1>d, UsedKept
<1>f. /\ Users(e) # {} /\ entry[e].st = "live" /\ \A u \in Thread : ~Unmarks(u, e)
  <2>1. Users(e) # {} BY DEF Users
  <2>2. \A u \in Thread : u # None BY ConstantsAssumption
  <2>3. entry[e].st = "live" BY <2>1, UsedEntry
  <2>4. \A u \in Thread : ~Unmarks(u, e)
    <3>1. \A u \in Thread : weak[e].mutex = u <=> Unmarks(u, e) BY Parts DEF WeakInv
    <3>. QED BY <2>2, <3>1
  <2>. QED BY <2>1, <2>3, <2>4
<1>w. /\ \A z \in Entry : z # e => weak'[z] = weak[z]
      /\ weak'[e].n = weak[e].n + 1 /\ weak'[e].st = "live" /\ weak'[e].entry /\ weak'[e].mutex = None
      /\ weak' \in [Entry -> WeakRec]
  BY Parts, WeakMore
<1>b. /\ Cardinality(WeakUsers(e)') = Cardinality(WeakUsers(e)) + 1
      /\ \A z \in Entry : z # e => WeakUsers(z)' = WeakUsers(z)
  <2>1. \A z \in Entry : None # z BY ConstantsAssumption DEF Entry, None
  <2>2. \A z \in Entry : \A u \in Thread : u # t => (u \in WeakUsers(z)' <=> u \in WeakUsers(z))
    BY <1>m DEF Moves, OnlyTodo, WeakUsers, Ends
  <2>3. \A z \in Entry : t \notin WeakUsers(z) /\ (t \in WeakUsers(z)' <=> z = e)
    BY <1>e, <1>h, <2>1, StepEq DEF WeakUsers, Ends, Alone
  <2>4. Cardinality(WeakUsers(e)') = Cardinality(WeakUsers(e)) + One(t \in WeakUsers(e)') - One(t \in WeakUsers(e))
    BY <1>m, CountsAt
  <2>5. Cardinality(WeakUsers(e)) \in Nat BY Counts
  <2>6. \A z \in Entry : z # e => WeakUsers(z)' = WeakUsers(z) BY <2>2, <2>3 DEF WeakUsers
  <2>. QED BY <2>3, <2>4, <2>5, <2>6 DEF One
<1>g. weak[e].n > 0 /\ weak[e].entry /\ weak[e].st = "live"
  <2>1. weak[e].n > 0 BY Records DEF WeakRec
  <2>2. weak[e].st = "live" BY <2>1, NoObject
  <2>. QED BY Parts, <1>f, <2>1, <2>2 DEF WeakInv
<1>z. /\ WeakInv' /\ (\A z \in Entry : z # e => (Marked(z)' <=> Marked(z)))
  <2>1. WeakAt(e)'
    <3>1. /\ \A u \in Thread : ~Unmarks(u, e)' /\ u # None
          /\ \A u, v \in Thread : Marks(u, e)' /\ Marks(v, e)' => u = v
      <4>1. \A u \in Thread : u # None BY ConstantsAssumption
      <4>2. \A u, v \in Thread : Marks(u, e) /\ Marks(v, e) => u = v BY Parts DEF WeakInv
      <4>. QED BY <1>f, <1>s, <4>1, <4>2
    <3>2. /\ entry'[e].st = "live" /\ weak'[e].st = "live" /\ weak'[e].entry /\ weak'[e].mutex = None
      BY <1>d, <1>f, <1>w
    <3>. QED BY <3>1, <3>2 DEF WeakAt
  <2>2. /\ \A z \in Entry : z # e => weak'[z] = weak[z]
        /\ \A z \in Entry : entry'[z].st = entry[z].st
    BY <1>d, <1>w
  <2>. QED BY Parts, <1>s, <2>1, <2>2, WeakChange
<1>v. WeakInv' /\ \A z \in Entry : Marked(z)' <=> Marked(z)
  <2>1. Marked(e)' <=> Marked(e)
    <3>1. weak[e].n \in Nat /\ weak'[e].n > 0
      <4>1. weak[e] \in WeakRec BY Records, ZenonT(60)
      <4>2. weak[e].n \in Nat BY <4>1, ZenonT(60) DEF WeakRec
      <4>3. weak[e].n + 1 > 0 BY <4>2, Positive, ZenonT(60)
      <4>4. weak'[e].n = weak[e].n + 1 BY <1>w, ZenonT(60)
      <4>. QED BY <4>2, <4>3, <4>4, ZenonT(60)
    <3>. QED BY <1>s, <1>g, <1>w, <3>1 DEF Marked
  <2>. QED BY <1>z, <2>1
<1>1. HeldInv' BY Parts, <1>d, <1>e, <1>m, HeldOver DEF Alone
<1>2. PoolCount' BY Parts, <1>d, <1>k, <1>s, PoolKept
<1>3. CacheCount' BY Parts, <1>d, <1>s, <1>u, CacheKept
<1>4. EntryCount' BY Parts, <1>d, <1>q, <1>s, <1>v, EntryKept
<1>5. WeakCount'
  <2>1. ASSUME NEW z \in Entry, z # e PROVE weak'[z].n = Cardinality(WeakUsers(z)')
    <3>1. weak'[z] = weak[z] /\ WeakUsers(z)' = WeakUsers(z) BY <1>w, <1>b, <2>1, ZenonT(60)
    <3>2. weak[z].n = Cardinality(WeakUsers(z)) BY Parts, ZenonT(60) DEF WeakCount
    <3>. QED BY <3>1, <3>2, ZenonT(60)
  <2>2. weak'[e].n = Cardinality(WeakUsers(e)') BY Parts, <1>w, <1>b DEF WeakCount
  <2>. QED BY <2>1, <2>2 DEF WeakCount
<1>6. WeakInv' BY <1>v
<1>7. ObjectInv'
  <2>1. Cardinality(Inserting') <= Cardinality(Inserting) BY <1>s, InsertingCount
  <2>. QED BY Parts, <1>d, <1>k, <2>1, ObjectKept
<1>8. RemoveInv' /\ ShardInv' /\ QueueInv' /\ SizeInv' BY <1>d, <1>e, <1>m, <1>k, QuietEntries
<1>9. KillInv' /\ TableInv' BY <1>d, <1>e, <1>m, <1>k, QuietCaches
<1>10. TypeOK' BY Records, <1>h, <1>w, <1>d, TypesNext
<1>. QED BY <1>q, <1>1, <1>2, <1>3, <1>4, <1>5, <1>6, <1>7, <1>8, <1>9, <1>10 DEF IInv

-----------------------------------------------------------------------------
(* Weak references are released.                                           *)

\* The only thread of a set.
LEMMA OnlyOne ==
  ASSUME NEW S \in SUBSET Thread, Cardinality(S) = 1, NEW t \in S, NEW u \in S
  PROVE  u = t
<1>1. IsFiniteSet(S) /\ Cardinality(S \ {t}) = Cardinality(S) - 1
  BY ConstantsAssumption, FS_Subset, OneLess
<1>2. S \ {t} \in SUBSET Thread OBVIOUS
<1>3. S \ {t} = {} BY <1>1, <1>2, ThreadsFinite
<1>. QED BY <1>3

\* The weak state of an entry after one of its references was released.
LEMMA WeakLess ==
  ASSUME TypeOK, NEW e \in Entry, weak[e].n > 0, NEW m \in Thread \cup {None},
         weak' = [weak EXCEPT ![e] = [weak[e] EXCEPT !.n = @ - 1, !.mutex = m]]
  PROVE  /\ \A z \in Entry : z # e => weak'[z] = weak[z]
         /\ weak'[e].n = weak[e].n - 1 /\ weak'[e].st = weak[e].st
         /\ (weak'[e].entry <=> weak[e].entry) /\ weak'[e].mutex = m
         /\ weak' \in [Entry -> WeakRec]
<1>0. weak \in [Entry -> WeakRec] BY Types
<1>1. PICK r \in WeakRec : r = weak[e] BY <1>0
<1>2. \A q \in WeakRec, k \in Nat :
          LET s == [q EXCEPT !.n = k, !.mutex = m]
          IN  s \in WeakRec /\ s.n = k /\ s.st = q.st /\ (s.entry <=> q.entry) /\ s.mutex = m
  BY DEF WeakRec, State
<1>k. PICK k \in Nat : k = r.n - 1 BY <1>1 DEF WeakRec
<1>s. PICK s : s = [r EXCEPT !.n = k, !.mutex = m] OBVIOUS
<1>3. s \in WeakRec /\ s.n = k /\ s.st = r.st /\ (s.entry <=> r.entry) /\ s.mutex = m
  BY <1>2, <1>s
<1>4. weak' = [weak EXCEPT ![e] = s]
  <2>1. weak' = [weak EXCEPT ![e] = [weak[e] EXCEPT !.n = weak[e].n - 1, !.mutex = m]] BY <1>0
  <2>2. [weak[e] EXCEPT !.n = weak[e].n - 1, !.mutex = m] = s BY <1>1, <1>k, <1>s
  <2>. QED BY <2>1, <2>2
<1>5. (\A z \in Entry : z # e => weak'[z] = weak[z]) /\ weak'[e] = s /\ weak' \in [Entry -> WeakRec]
  BY <1>3, <1>4, WeakIs
<1>. QED BY <1>1, <1>k, <1>3, <1>5

\* A weak reference to an entry is released, and another one remains.
LEMMA WeakUserLeavesKeeps ==
  ASSUME IInv, NEW t \in Thread, NEW e \in Entry, NEW o, NEW x, Moves(t),
         Alone(todo[t], o, x), Alone(todo'[t], "none", None), held' \in [Thread -> HeldRec],
         held'[t].weakentry = None, held'[t].strong = held[t].strong, held'[t].weak = held[t].weak,
         held'[t].cache = held[t].cache, held'[t].entry = held[t].entry,
         (held[t].weakentry = e /\ o = "none") \/ (held[t].weakentry = None /\ o = "weaklock" /\ x = e),
         weak[e].n > 1, weak[e].mutex = None, weak' = [weak EXCEPT ![e] = [weak[e] EXCEPT !.n = @ - 1, !.mutex = None]],
         UNCHANGED << pool, caches, cache, entry, queue, lru, victims >>
  PROVE  IInv'
<1>d. UNCHANGED << pool, caches, cache, entry, queue, lru, victims >> OBVIOUS
<1>m. Moves(t) OBVIOUS
<1>e. Alone(todo[t], o, x) /\ Alone(todo'[t], "none", None) /\ OnlyTodo(t) BY DEF Moves
<1>h. /\ held' \in [Thread -> HeldRec] /\ held'[t].weakentry = None
      /\ (held[t].weakentry = e /\ o = "none") \/ (held[t].weakentry = None /\ o = "weaklock" /\ x = e)
  OBVIOUS
<1>a. t \in WeakUsers(e) /\ t \notin WeakUsers(e)' /\ \A z \in Entry : z # e => WeakUsers(z)' = WeakUsers(z)
  <2>1. \A z \in Entry : None # z BY ConstantsAssumption DEF Entry, None
  <2>2. \A z \in Entry : \A u \in Thread : u # t => (u \in WeakUsers(z)' <=> u \in WeakUsers(z))
    BY <1>m DEF Moves, OnlyTodo, WeakUsers, Ends
  <2>3. \A z \in Entry : t \notin WeakUsers(z)' /\ (t \in WeakUsers(z) <=> z = e)
    BY <1>e, <1>h, <2>1, StepEq DEF WeakUsers, Ends, Alone
  <2>. QED BY <2>2, <2>3 DEF WeakUsers
<1>b. /\ weak[e].n = Cardinality(WeakUsers(e)) /\ Cardinality(WeakUsers(e)) \in Nat /\ weak[e].n > 0
      /\ Cardinality(WeakUsers(e)') = weak[e].n - 1
  <2>1. Cardinality(WeakUsers(e)') = Cardinality(WeakUsers(e)) + One(t \in WeakUsers(e)') - One(t \in WeakUsers(e))
    BY <1>m, CountsAt
  <2>2. Cardinality(WeakUsers(e)) \in Nat /\ Cardinality(WeakUsers(e)) # 0 BY <1>a, Counts
  <2>3. weak[e].n = Cardinality(WeakUsers(e)) BY Parts DEF WeakCount
  <2>. QED BY <1>a, <2>1, <2>2, <2>3 DEF One
<1>l. weak[e].st = "live" BY <1>b, NoObject
<1>k. EntriesKept /\ ListedKept /\ CachesKept /\ VictimsKept /\ UsedCaches' = UsedCaches
  BY Parts, <1>d, EntrySame, CacheSame, VictimsUnmoved
<1>q. TodoInv' /\ LruInv' /\ \A c : IsPinned(c)' <=> IsPinned(c)
  BY <1>d, <1>e, <1>m, <1>k, QuietStep DEF VictimsKept
<1>s. /\ PoolUsers' = PoolUsers
      /\ PoolWeakPtrs' = PoolWeakPtrs
      /\ PoolWeakReleases' = PoolWeakReleases
      /\ Inserting' = Inserting
      /\ (\A c : CachePtrs(c)' = CachePtrs(c))
      /\ (\A c : CacheReleases(c)' = CacheReleases(c))
      /\ (\A ee : Users(ee)' = Users(ee))
      /\ (\A u \in Thread : \A ee : Unmarks(u, ee)' <=> Unmarks(u, ee))
      /\ (\A u \in Thread : \A ee : Marks(u, ee)' <=> Marks(u, ee))
  BY <1>e, <1>m, <1>d, SameSets DEF NeverEnds, Alone
<1>u. \A c : UsedEntries(c)' = UsedEntries(c) BY <1>s, <1>d, UsedKept
<1>w. /\ \A z \in Entry : z # e => weak'[z] = weak[z]
      /\ weak'[e].n = weak[e].n - 1 /\ weak'[e].st = weak[e].st /\ (weak'[e].entry <=> weak[e].entry)
      /\ weak'[e].mutex = None /\ weak' \in [Entry -> WeakRec]
  BY Parts, <1>b, WeakLess
<1>z. /\ WeakInv' /\ (\A z \in Entry : z # e => (Marked(z)' <=> Marked(z)))
  <2>1. WeakAt(e) BY Parts, WeakParts
  <2>2. WeakAt(e)'
    <3>1. weak'[e].n > 0 /\ weak'[e].st = "live" BY <1>b, <1>l, <1>w
    <3>. QED BY <1>d, <1>s, <1>w, <1>l, <2>1, <3>1 DEF WeakAt
  <2>3. \A z \in Entry : entry'[z].st = entry[z].st BY <1>d
  <2>. QED BY Parts, <1>s, <1>w, <2>2, <2>3, WeakChange
<1>v. \A z \in Entry : Marked(z)' <=> Marked(z)
  <2>1. weak[e].n > 0 /\ weak'[e].n > 0 BY <1>b, <1>w
  <2>2. Marked(e)' <=> Marked(e) BY <1>s, <1>w, <2>1 DEF Marked
  <2>. QED BY <1>z, <2>2
<1>1. HeldInv' BY Parts, <1>d, <1>e, <1>m, HeldOver DEF Alone
<1>2. PoolCount' BY Parts, <1>d, <1>k, <1>s, PoolKept
<1>3. CacheCount' BY Parts, <1>d, <1>s, <1>u, CacheKept
<1>4. EntryCount' BY Parts, <1>d, <1>q, <1>s, <1>v, EntryKept
<1>5. WeakCount'
  <2>1. \A z \in Entry : z # e => weak'[z].n = Cardinality(WeakUsers(z)')
    BY Parts, <1>w, <1>a DEF WeakCount
  <2>2. weak'[e].n = Cardinality(WeakUsers(e)') BY <1>w, <1>b
  <2>. QED BY <2>1, <2>2 DEF WeakCount
<1>6. WeakInv' BY <1>z
<1>7. ObjectInv'
  <2>1. Cardinality(Inserting') <= Cardinality(Inserting) BY <1>s, InsertingCount
  <2>. QED BY Parts, <1>d, <1>k, <2>1, ObjectKept
<1>8. RemoveInv' /\ ShardInv' /\ QueueInv' /\ SizeInv' BY <1>d, <1>e, <1>m, <1>k, QuietEntries
<1>9. KillInv' /\ TableInv' BY <1>d, <1>e, <1>m, <1>k, QuietCaches
<1>10. TypeOK' BY Records, <1>h, <1>w, <1>d, TypesNext
<1>. QED BY <1>q, <1>1, <1>2, <1>3, <1>4, <1>5, <1>6, <1>7, <1>8, <1>9, <1>10 DEF IInv

\* The last weak reference is released after the entry has gone.
LEMMA WeakStateGoesKeeps ==
  ASSUME IInv, NEW t \in Thread, At(t, "weaklock"), NEW e \in Entry, e = Arg(t),
         weak[e].n = 1, ~weak[e].entry, weak[e].mutex = None, weak' = [weak EXCEPT ![e] = Deleted(NoWeakState)],
         Return(t), UNCHANGED << pool, caches, cache, entry, queue, lru, victims, held >>
  PROVE  IInv'
<1>d. /\ At(t, "weaklock") /\ e = Arg(t) /\ Return(t)
      /\ UNCHANGED << pool, caches, cache, entry, queue, lru, victims, held >>
  OBVIOUS
<1>e. OnlyTodo(t) /\ Alone(todo[t], "weaklock", e) /\ Alone(todo'[t], "none", None)
  BY Parts, <1>d, Returns, StepFields, StepEq, IsStep DEF Inner
<1>m. Moves(t) BY <1>d, <1>e, MovesOnly
<1>h. held[t].weakentry = None /\ held'[t].weakentry = None /\ Holds(t) /\ Holds(t)'
  <2>1. Ends(t, "weaklock", e) BY <1>e DEF Ends, Alone
  <2>. QED BY Parts, <1>d, <2>1 DEF HeldInv, HeldAt, Holds, HasPool
<1>a. t \in WeakUsers(e) /\ t \notin WeakUsers(e)' /\ \A z \in Entry : z # e => WeakUsers(z)' = WeakUsers(z)
  <2>1. \A z \in Entry : None # z BY ConstantsAssumption DEF Entry, None
  <2>2. \A z \in Entry : \A u \in Thread : u # t => (u \in WeakUsers(z)' <=> u \in WeakUsers(z))
    BY <1>m DEF Moves, OnlyTodo, WeakUsers, Ends
  <2>3. \A z \in Entry : t \notin WeakUsers(z)' /\ (t \in WeakUsers(z) <=> z = e)
    BY <1>e, <1>h, <2>1, StepEq DEF WeakUsers, Ends, Alone
  <2>. QED BY <2>2, <2>3 DEF WeakUsers
<1>b. /\ weak[e].n = Cardinality(WeakUsers(e)) /\ Cardinality(WeakUsers(e)) \in Nat /\ weak[e].n > 0
      /\ Cardinality(WeakUsers(e)') = weak[e].n - 1
  <2>1. Cardinality(WeakUsers(e)') = Cardinality(WeakUsers(e)) + One(t \in WeakUsers(e)') - One(t \in WeakUsers(e))
    BY <1>m, CountsAt
  <2>2. Cardinality(WeakUsers(e)) \in Nat /\ Cardinality(WeakUsers(e)) # 0 BY <1>a, Counts
  <2>3. weak[e].n = Cardinality(WeakUsers(e)) BY Parts DEF WeakCount
  <2>. QED BY <1>a, <2>1, <2>2, <2>3 DEF One
<1>l. weak[e].st = "live" BY <1>b, NoObject
<1>k. EntriesKept /\ ListedKept /\ CachesKept /\ VictimsKept /\ UsedCaches' = UsedCaches
  BY Parts, <1>d, EntrySame, CacheSame, VictimsUnmoved
<1>q. TodoInv' /\ LruInv' /\ \A c : IsPinned(c)' <=> IsPinned(c)
  BY <1>d, <1>e, <1>m, <1>k, QuietStep DEF VictimsKept
<1>s. /\ PoolUsers' = PoolUsers
      /\ PoolWeakPtrs' = PoolWeakPtrs
      /\ PoolWeakReleases' = PoolWeakReleases
      /\ Inserting' = Inserting
      /\ (\A c : CachePtrs(c)' = CachePtrs(c))
      /\ (\A c : CacheReleases(c)' = CacheReleases(c))
      /\ (\A ee : Users(ee)' = Users(ee))
      /\ (\A u \in Thread : \A ee : Unmarks(u, ee)' <=> Unmarks(u, ee))
      /\ (\A u \in Thread : \A ee : Marks(u, ee)' <=> Marks(u, ee))
  BY <1>e, <1>m, <1>d, SameSets DEF NeverEnds, Alone
<1>u. \A c : UsedEntries(c)' = UsedEntries(c) BY <1>s, <1>d, UsedKept
<1>w. /\ \A z \in Entry : z # e => weak'[z] = weak[z]
      /\ weak'[e].n = weak[e].n - 1 /\ weak'[e].st = "dead" /\ ~weak'[e].entry /\ weak'[e].mutex = None
      /\ weak'[e] = [NoWeakState EXCEPT !.st = weak'[e].st]
      /\ weak' \in [Entry -> WeakRec]
  <2>1. LET w == Deleted(NoWeakState)
        IN  /\ w \in WeakRec /\ w.n = 0 /\ w.st = "dead" /\ ~w.entry /\ w.mutex = None
            /\ w = [NoWeakState EXCEPT !.st = w.st]
    BY DEF Deleted, NoWeakState, WeakRec, State
  <2>2. /\ \A z \in Entry : z # e => weak'[z] = weak[z]
        /\ weak'[e] = Deleted(NoWeakState) /\ weak' \in [Entry -> WeakRec]
    BY Parts, <2>1, WeakIs
  <2>. QED BY <2>1, <2>2
<1>z. /\ WeakInv' /\ (\A z \in Entry : z # e => (Marked(z)' <=> Marked(z)))
  <2>1. WeakAt(e) BY Parts, WeakParts
  <2>2. WeakAt(e)'
    <3>1. entry[e].st # "live" /\ entry[e].st # "new" /\ \A u \in Thread : ~Unmarks(u, e) /\ u # None
      BY <1>l, <2>1, ConstantsAssumption DEF WeakAt
    <3>2. \A u, v \in Thread : Marks(u, e) /\ Marks(v, e) => u = v BY <2>1 DEF WeakAt
    <3>. QED BY <1>d, <1>s, <1>w, <3>1, <3>2 DEF WeakAt
  <2>3. \A z \in Entry : entry'[z].st = entry[z].st BY <1>d
  <2>. QED BY Parts, <1>s, <1>w, <2>2, <2>3, WeakChange
<1>v. \A z \in Entry : Marked(z)' <=> Marked(z)
  <2>2. Marked(e)' <=> Marked(e) BY <1>s, <1>w DEF Marked
  <2>. QED BY <1>z, <2>2
<1>1. HeldInv' BY Parts, <1>d, <1>e, <1>m, HeldOver DEF Alone
<1>2. PoolCount' BY Parts, <1>d, <1>k, <1>s, PoolKept
<1>3. CacheCount' BY Parts, <1>d, <1>s, <1>u, CacheKept
<1>4. EntryCount' BY Parts, <1>d, <1>q, <1>s, <1>v, EntryKept
<1>5. WeakCount'
  <2>1. \A z \in Entry : z # e => weak'[z].n = Cardinality(WeakUsers(z)')
    BY Parts, <1>w, <1>a DEF WeakCount
  <2>2. weak'[e].n = Cardinality(WeakUsers(e)') BY <1>w, <1>b
  <2>. QED BY <2>1, <2>2 DEF WeakCount
<1>6. WeakInv' BY <1>z
<1>7. ObjectInv'
  <2>1. Cardinality(Inserting') <= Cardinality(Inserting) BY <1>s, InsertingCount
  <2>. QED BY Parts, <1>d, <1>k, <2>1, ObjectKept
<1>8. RemoveInv' /\ ShardInv' /\ QueueInv' /\ SizeInv' BY <1>d, <1>e, <1>m, <1>k, QuietEntries
<1>9. KillInv' /\ TableInv' BY <1>d, <1>e, <1>m, <1>k, QuietCaches
<1>10. TypeOK' BY Records, <1>w, <1>d, TypesNext
<1>. QED BY <1>q, <1>1, <1>2, <1>3, <1>4, <1>5, <1>6, <1>7, <1>8, <1>9, <1>10 DEF IInv

\* The last weak reference is released while the entry exists.
LEMMA LastWeakKeeps ==
  ASSUME IInv, NEW t \in Thread, At(t, "weaklock"), NEW e \in Entry, e = Arg(t),
         weak[e].n = 1, weak[e].entry, weak[e].mutex = None,
         weak' = [weak EXCEPT ![e] = [weak[e] EXCEPT !.n = @ - 1, !.mutex = t]],
         Goto(t, << Step("unmark", e) >>), UNCHANGED << pool, caches, cache, entry, queue, lru, victims, held >>
  PROVE  IInv'
<1>d. /\ At(t, "weaklock") /\ e = Arg(t) /\ Goto(t, << Step("unmark", e) >>)
      /\ UNCHANGED << pool, caches, cache, entry, queue, lru, victims, held >>
  OBVIOUS
<1>e. OnlyTodo(t) /\ Alone(todo[t], "weaklock", e) /\ Alone(todo'[t], "unmark", e)
  BY Parts, <1>d, Proceeds, StepFields, StepEq, IsStep DEF Inner
<1>m. Moves(t) BY <1>d, <1>e, MovesOnly
<1>h. held[t].weakentry = None /\ held'[t].weakentry = None /\ Holds(t) /\ Holds(t)'
  <2>1. Ends(t, "weaklock", e) BY <1>e DEF Ends, Alone
  <2>. QED BY Parts, <1>d, <2>1 DEF HeldInv, HeldAt, Holds, HasPool
<1>a. t \in WeakUsers(e) /\ t \notin WeakUsers(e)' /\ \A z \in Entry : z # e => WeakUsers(z)' = WeakUsers(z)
  <2>1. \A z \in Entry : None # z BY ConstantsAssumption DEF Entry, None
  <2>2. \A z \in Entry : \A u \in Thread : u # t => (u \in WeakUsers(z)' <=> u \in WeakUsers(z))
    BY <1>m DEF Moves, OnlyTodo, WeakUsers, Ends
  <2>3. \A z \in Entry : t \notin WeakUsers(z)' /\ (t \in WeakUsers(z) <=> z = e)
    BY <1>e, <1>h, <2>1, StepEq DEF WeakUsers, Ends, Alone
  <2>. QED BY <2>2, <2>3 DEF WeakUsers
<1>b. /\ weak[e].n = Cardinality(WeakUsers(e)) /\ Cardinality(WeakUsers(e)) \in Nat /\ weak[e].n > 0
      /\ Cardinality(WeakUsers(e)') = weak[e].n - 1
  <2>1. Cardinality(WeakUsers(e)') = Cardinality(WeakUsers(e)) + One(t \in WeakUsers(e)') - One(t \in WeakUsers(e))
    BY <1>m, CountsAt
  <2>2. Cardinality(WeakUsers(e)) \in Nat /\ Cardinality(WeakUsers(e)) # 0 BY <1>a, Counts
  <2>3. weak[e].n = Cardinality(WeakUsers(e)) BY Parts DEF WeakCount
  <2>. QED BY <1>a, <2>1, <2>2, <2>3 DEF One
<1>l. weak[e].st = "live" BY <1>b, NoObject
<1>k. EntriesKept /\ ListedKept /\ CachesKept /\ VictimsKept /\ UsedCaches' = UsedCaches
  BY Parts, <1>d, EntrySame, CacheSame, VictimsUnmoved
<1>q. TodoInv' /\ LruInv' /\ \A c : IsPinned(c)' <=> IsPinned(c)
  BY <1>d, <1>e, <1>m, <1>k, QuietStep DEF VictimsKept
<1>s. /\ PoolUsers' = PoolUsers
      /\ PoolWeakPtrs' = PoolWeakPtrs
      /\ PoolWeakReleases' = PoolWeakReleases
      /\ Inserting' = Inserting
      /\ (\A c : CachePtrs(c)' = CachePtrs(c))
      /\ (\A c : CacheReleases(c)' = CacheReleases(c))
      /\ (\A ee : Users(ee)' = Users(ee))
      /\ (\A u \in Thread : \A ee : Marks(u, ee)' <=> Marks(u, ee))
  BY <1>e, <1>m, <1>d, SameSets DEF NeverEnds, Alone
<1>u. \A c : UsedEntries(c)' = UsedEntries(c) BY <1>s, <1>d, UsedKept
<1>w. /\ \A z \in Entry : z # e => weak'[z] = weak[z]
      /\ weak'[e].n = weak[e].n - 1 /\ weak'[e].st = weak[e].st /\ (weak'[e].entry <=> weak[e].entry)
      /\ weak'[e].mutex = t /\ weak' \in [Entry -> WeakRec]
  BY Parts, <1>b, WeakLess
<1>n. /\ \A u \in Thread : ~Marks(u, e) /\ ~Unmarks(u, e) /\ u # None
      /\ \A u \in Thread : Unmarks(u, e)' <=> u = t
      /\ \A u \in Thread : \A z : z # e => (Unmarks(u, z)' <=> Unmarks(u, z))
  <2>1. ASSUME NEW u \in Thread, Marks(u, e) PROVE FALSE
    <3>1. u \in WeakUsers(e) /\ u # t
      BY Parts, <1>h, <2>1, ConstantsAssumption DEF HeldInv, HeldAt, Marks, WeakUsers, Entry, None
    <3>2. WeakUsers(e) \in SUBSET Thread /\ Cardinality(WeakUsers(e)) = 1 BY <1>b DEF WeakUsers
    <3>. QED BY <1>a, <3>1, <3>2, OnlyOne
  <2>2. \A u \in Thread : u # None BY ConstantsAssumption
  <2>3. \A u \in Thread : weak[e].mutex = u <=> Unmarks(u, e) BY Parts DEF WeakInv
  <2>4. \A z : (Unmarks(t, z)' <=> z = e) /\ ~Unmarks(t, z)
    BY <1>e, StepEq DEF Unmarks, Ends, Alone
  <2>5. \A u \in Thread : \A z : u # t => (Unmarks(u, z)' <=> Unmarks(u, z))
    BY <1>m DEF Moves, OnlyTodo, Unmarks, Ends
  <2>. QED BY <2>1, <2>2, <2>3, <2>4, <2>5
<1>z. /\ WeakInv' /\ (\A z \in Entry : z # e => (Marked(z)' <=> Marked(z)))
  <2>1. WeakAt(e) BY Parts, WeakParts
  <2>2. WeakAt(e)'
    <3>1. weak'[e].n = 0 /\ weak'[e].entry /\ weak'[e].st = "live" /\ weak'[e].mutex = t
      BY <1>b, <1>l, <1>w
    <3>2. entry'[e].st = "live" /\ (\A u \in Thread : ~Marks(u, e)') /\ \A u \in Thread : Unmarks(u, e)' <=> u = t
      BY <1>d, <1>n, <1>s, <2>1 DEF WeakAt
    <3>. QED BY <3>1, <3>2 DEF WeakAt
  <2>3. \A z \in Entry : entry'[z].st = entry[z].st BY <1>d
  <2>. QED BY Parts, <1>n, <1>s, <1>w, <2>2, <2>3, WeakChange
<1>v. \A z \in Entry : Marked(z)' <=> Marked(z)
  <2>1. Marked(e) BY <1>b, <1>n DEF Marked
  <2>2. Marked(e)' BY <1>n DEF Marked
  <2>. QED BY <1>z, <2>1, <2>2
<1>1. HeldInv'
  <2>1. \A o, z : Ends(t, o, z)' <=> o = "unmark" /\ z = e BY <1>e, StepEq DEF Ends, Alone
  <2>3. HeldAt(t)' BY <1>h, <2>1 DEF HeldAt
  <2>. QED BY Parts, <1>m, <2>3, HeldKept
<1>2. PoolCount' BY Parts, <1>d, <1>k, <1>s, PoolKept
<1>3. CacheCount' BY Parts, <1>d, <1>s, <1>u, CacheKept
<1>4. EntryCount' BY Parts, <1>d, <1>q, <1>s, <1>v, EntryKept
<1>5. WeakCount'
  <2>1. \A z \in Entry : z # e => weak'[z].n = Cardinality(WeakUsers(z)')
    BY Parts, <1>w, <1>a DEF WeakCount
  <2>2. weak'[e].n = Cardinality(WeakUsers(e)') BY <1>w, <1>b
  <2>. QED BY <2>1, <2>2 DEF WeakCount
<1>6. WeakInv' BY <1>z
<1>7. ObjectInv'
  <2>1. Cardinality(Inserting') <= Cardinality(Inserting) BY <1>s, InsertingCount
  <2>. QED BY Parts, <1>d, <1>k, <2>1, ObjectKept
<1>8. RemoveInv' /\ ShardInv' /\ QueueInv' /\ SizeInv' BY <1>d, <1>e, <1>m, <1>k, QuietEntries
<1>9. KillInv' /\ TableInv' BY <1>d, <1>e, <1>m, <1>k, QuietCaches
<1>10. TypeOK' BY Records, <1>w, <1>d, TypesNext
<1>. QED BY <1>q, <1>1, <1>2, <1>3, <1>4, <1>5, <1>6, <1>7, <1>8, <1>9, <1>10 DEF IInv

=============================================================================
