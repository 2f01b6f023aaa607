-------------------------- MODULE AsyncCacheProofs --------------------------
(***************************************************************************)
(* The nodes of the transactions that write back to the entries of an      *)
(* AsyncCache, for every set of threads, readers, transactions and entries,*)
(* and whatever the kvstore answers: what each node's state says about the *)
(* calls made on it, how far each commit has come, and what each queue     *)
(* holds.  The second part goes on with the reads.                         *)
(***************************************************************************)
EXTENDS AsyncCache, FiniteSetTheorems, SequenceTheorems, WellFoundedInduction, TLAPS

-----------------------------------------------------------------------------
(* The calls that threads still have to make.                              *)

NodeOperation == {"Loop", "PrepareForCommit", "PrepareReturned", "PrepareDone",
                  "ReadyForCommit", "CommitDone"}

Items == [op : NodeOperation, arg : Node] \cup [op : {"DoRead"}, arg : Entry]
           \cup [op : {"EndOfPhase"}, arg : Transaction]
           \cup [op : {"SetResult"}, arg : SUBSET Reader, result : {"ok", "assumed", "error"}]

The(op, arg) == [op |-> op, arg |-> arg]

Owes(x) == \E t \in Thread : \E i \in DOMAIN work[t] : work[t][i] = x

\* A call is not owed twice.
Once(x) ==
  \A t, u \in Thread : \A i \in DOMAIN work[t], j \in DOMAIN work[u] :
    work[t][i] = x /\ work[u][j] = x => t = u /\ i = j

WorkOK == work \in [Thread -> Seq(Items)]

\* The call that a step of t makes.
Popped(t) == IF Idle(t) THEN {} ELSE {Head(work[t])}

Single(s, x) == \A i, j \in DOMAIN s : s[i] = x /\ s[j] = x => i = j

\* What a step does to a call: nothing, make it, or leave it for later.
Keeps(x) == (Owes(x)' <=> Owes(x)) /\ (Once(x) => Once(x)')
Makes(x) == Once(x) => Once(x)' /\ ~ Owes(x)'
Plans(x) == Owes(x)' /\ (~ Owes(x) => Once(x)')

\* The work that a thread has left.
LEMMA RestShape ==
  ASSUME WorkOK, NEW t \in Thread
  PROVE  /\ Rest(t) \in Seq(Items) /\ Len(Rest(t)) \in Nat
         /\ DOMAIN Rest(t) = 1 .. Len(Rest(t))
         /\ Len(work[t]) \in Nat /\ DOMAIN work[t] = 1 .. Len(work[t])
         /\ Idle(t) => Len(Rest(t)) = 0 /\ Len(work[t]) = 0
         /\ ~ Idle(t) => /\ Len(work[t]) = Len(Rest(t)) + 1
                         /\ \A i \in 1 .. Len(Rest(t)) : Rest(t)[i] = work[t][i + 1]
                         /\ Head(work[t]) = work[t][1]
<1>1. work[t] \in Seq(Items) BY DEF WorkOK
<1>2. CASE Idle(t) BY <1>1, <1>2, EmptySeq, LenProperties DEF Idle, Rest
<1>3. CASE ~ Idle(t)
  <2>1. /\ Rest(t) = Tail(work[t]) /\ Tail(work[t]) \in Seq(Items)
        /\ Len(Tail(work[t])) = Len(work[t]) - 1
        /\ \A i \in 1 .. Len(Tail(work[t])) : Tail(work[t])[i] = work[t][i + 1]
        /\ Head(work[t]) = work[t][1]
    BY <1>1, <1>3, HeadTailProperties DEF Idle, Rest
  <2>2. Len(work[t]) \in Nat /\ Len(Tail(work[t])) \in Nat BY <1>1, <2>1, LenProperties
  <2>. QED BY <1>1, <1>3, <2>1, <2>2, LenProperties
<1>. QED BY <1>2, <1>3

\* Where a call that a thread goes on to owe was before.
LEMMA OldPlace ==
  ASSUME WorkOK, NEW t \in Thread, NEW items \in Seq(Items), Do(t, items)
  PROVE  /\ work' \in [Thread -> Seq(Items)]
         /\ Len(items) \in Nat /\ DOMAIN items = 1 .. Len(items)
         /\ DOMAIN work'[t] = 1 .. (Len(items) + Len(Rest(t)))
         /\ \A i \in 1 .. Len(items) : work'[t][i] = items[i]
         /\ \A i \in 1 .. Len(Rest(t)) : work'[t][i + Len(items)] = Rest(t)[i]
         /\ \A u \in Thread \ {t} : work'[u] = work[u]
<1>1. Rest(t) \in Seq(Items) /\ Len(Rest(t)) \in Nat BY RestShape
<1>. DEFINE new == items \o Rest(t)
<1>2. /\ new \in Seq(Items) /\ Len(new) = Len(items) + Len(Rest(t))
      /\ \A i \in 1 .. Len(items) + Len(Rest(t)) :
           new[i] = IF i <= Len(items) THEN items[i] ELSE Rest(t)[i - Len(items)]
  BY <1>1, ConcatProperties
<1>3. Len(items) \in Nat /\ DOMAIN items = 1 .. Len(items) /\ DOMAIN new = 1 .. Len(new)
  BY <1>2, LenProperties
<1>. HIDE DEF new
<1>4. work' = [work EXCEPT ![t] = new] BY DEF Do, new
<1>5. work' \in [Thread -> Seq(Items)] /\ work'[t] = new /\ \A u \in Thread \ {t} : work'[u] = work[u]
  BY <1>2, <1>4 DEF WorkOK
<1>6. \A i \in 1 .. Len(items) : new[i] = items[i] BY <1>1, <1>2, <1>3
<1>7. ASSUME NEW i \in 1 .. Len(Rest(t))
      PROVE  new[i + Len(items)] = Rest(t)[i]
  <2>1. /\ i + Len(items) \in 1 .. Len(items) + Len(Rest(t)) /\ ~ (i + Len(items) <= Len(items))
        /\ (i + Len(items)) - Len(items) = i
    BY <1>1, <1>3
  <2>. QED BY <1>2, <2>1
<1>. QED BY <1>2, <1>3, <1>5, <1>6, <1>7

\* What a step of t does to call x, when it leaves `items` for later.
LEMMA DoEffect ==
  ASSUME WorkOK, NEW t \in Thread, NEW items \in Seq(Items), Do(t, items), NEW x
  PROVE  /\ WorkOK'
         /\ x \notin Range(items) /\ x \notin Popped(t) => Keeps(x)
         /\ x \notin Range(items) /\ x \in Popped(t) => Makes(x)
         /\ x \in Range(items) /\ Single(items, x) => Plans(x)
         /\ x \notin Range(items) => (Owes(x)' => Owes(x))
<1>. DEFINE r == Rest(t)
            k == Len(items)
            w == work[t]
<1>1. /\ WorkOK' /\ k \in Nat /\ DOMAIN items = 1 .. k
      /\ DOMAIN work'[t] = 1 .. (k + Len(r))
      /\ \A i \in 1 .. k : work'[t][i] = items[i]
      /\ \A i \in 1 .. Len(r) : work'[t][i + k] = r[i]
      /\ \A u \in Thread \ {t} : work'[u] = work[u]
  BY OldPlace DEF WorkOK
<1>2. /\ Len(r) \in Nat /\ Len(w) \in Nat /\ DOMAIN w = 1 .. Len(w)
      /\ Idle(t) => Len(r) = 0 /\ Len(w) = 0
      /\ ~ Idle(t) => /\ Len(w) = Len(r) + 1
                      /\ \A i \in 1 .. Len(r) : r[i] = w[i + 1]
                      /\ Head(w) = w[1]
  BY RestShape
<1>. DEFINE old(u, i) == IF u = t THEN i - k + 1 ELSE i
<1>. HIDE DEF r, k
\* Where x was.
<1>3. ASSUME x \notin Range(items), NEW u \in Thread, NEW i \in DOMAIN work'[u], work'[u][i] = x
      PROVE  /\ old(u, i) \in DOMAIN work[u] /\ work[u][old(u, i)] = x
             /\ u = t => ~ Idle(t) /\ i > k
  <2>1. CASE u # t BY <1>1, <1>3, <2>1
  <2>2. CASE u = t
    <3>1. i \in 1 .. (k + Len(r)) /\ i \in Int BY <1>1, <1>3, <2>2
    <3>2. i \notin 1 .. k BY <1>1, <1>3, <2>2 DEF Range
    <3>3. i - k \in 1 .. Len(r) /\ (i - k) + k = i /\ i > k BY <1>1, <1>2, <3>1, <3>2
    <3>4. work'[t][i] = r[i - k] BY <1>1, <3>3
    <3>5. ~ Idle(t) BY <1>2, <3>3
    <3>6. i - k + 1 \in 1 .. Len(w) /\ w[i - k + 1] = r[i - k] BY <1>1, <1>2, <3>3, <3>5
    <3>. QED BY <1>2, <1>3, <2>2, <3>3, <3>4, <3>5, <3>6
  <2>. QED BY <2>1, <2>2
\* Where x is now.
<1>4. ASSUME x \notin Popped(t), NEW u \in Thread, NEW i \in DOMAIN work[u], work[u][i] = x
      PROVE  Owes(x)'
  <2>1. CASE u # t BY <1>1, <1>4, <2>1 DEF Owes
  <2>2. CASE u = t
    <3>1. i \in 1 .. Len(w) /\ ~ Idle(t) BY <1>2, <1>4, <2>2
    <3>2. i # 1 BY <1>2, <1>4, <2>2, <3>1 DEF Popped
    <3>3. /\ i - 1 \in 1 .. Len(r) /\ (i - 1) + 1 = i /\ (i - 1) + k \in 1 .. (k + Len(r))
      BY <1>1, <1>2, <3>1, <3>2
    <3>4. work'[t][(i - 1) + k] = x BY <1>1, <1>2, <1>4, <2>2, <3>1, <3>3
    <3>. QED BY <1>1, <3>3, <3>4 DEF Owes
  <2>. QED BY <2>1, <2>2
<1>5. x \notin Range(items) => (Owes(x)' => Owes(x)) BY <1>3 DEF Owes
<1>6. x \notin Range(items) => (Once(x) => Once(x)')
  <2>. SUFFICES ASSUME x \notin Range(items), Once(x), NEW u \in Thread, NEW v \in Thread,
                       NEW i \in DOMAIN work'[u], NEW j \in DOMAIN work'[v],
                       work'[u][i] = x, work'[v][j] = x
                PROVE  u = v /\ i = j
    BY DEF Once
  <2>1. u = v /\ old(u, i) = old(v, j) BY <1>3 DEF Once
  <2>2. u = t => i \in Int /\ j \in Int BY <1>1, <2>1
  <2>. QED BY <1>1, <2>1, <2>2
<1>7. x \notin Range(items) /\ x \in Popped(t) => Makes(x)
  <2>. SUFFICES ASSUME x \notin Range(items), x \in Popped(t), Once(x), Owes(x)'
                PROVE  FALSE
    BY <1>6 DEF Makes
  <2>1. ~ Idle(t) /\ w[1] = x /\ 1 \in DOMAIN w BY <1>2 DEF Popped
  <2>2. PICK u \in Thread : \E i \in DOMAIN work'[u] : work'[u][i] = x BY DEF Owes
  <2>3. PICK i \in DOMAIN work'[u] : work'[u][i] = x BY <2>2
  <2>4. u = t /\ old(u, i) = 1 BY <1>3, <2>1, <2>3 DEF Once
  <2>5. i \in Int /\ i > k /\ i - k + 1 = 1 BY <1>1, <1>3, <2>3, <2>4
  <2>. QED BY <1>1, <2>5
<1>8. x \in Range(items) /\ Single(items, x) => Plans(x)
  <2>. SUFFICES ASSUME x \in Range(items), Single(items, x) PROVE Plans(x) OBVIOUS
  <2>1. PICK a \in 1 .. k : items[a] = x BY <1>1 DEF Range
  <2>2. Owes(x)'
    <3>1. a \in DOMAIN work'[t] /\ work'[t][a] = x BY <1>1, <1>2, <2>1
    <3>. QED BY <3>1 DEF Owes
  <2>3. ASSUME ~ Owes(x), NEW u \in Thread, NEW i \in DOMAIN work'[u], work'[u][i] = x
        PROVE  u = t /\ i = a
    <3>1. u = t BY <1>1, <2>3 DEF Owes
    <3>2. CASE i \in 1 .. k BY <1>1, <2>1, <2>3, <3>1, <3>2 DEF Single
    <3>3. CASE i \notin 1 .. k
      <4>1. i \in 1 .. (k + Len(r)) /\ i \in Int BY <1>1, <2>3, <3>1
      <4>2. i - k \in 1 .. Len(r) /\ (i - k) + k = i BY <1>1, <1>2, <3>3, <4>1
      <4>3. ~ Idle(t) BY <1>2, <4>2
      <4>4. i - k + 1 \in 1 .. Len(w) /\ w[i - k + 1] = x BY <1>1, <1>2, <2>3, <3>1, <4>2, <4>3
      <4>. QED BY <1>2, <2>3, <4>4 DEF Owes
    <3>. QED BY <3>2, <3>3
  <2>4. ASSUME ~ Owes(x) PROVE Once(x)' BY <2>3, <2>4 DEF Once
  <2>. QED BY <2>2, <2>4 DEF Plans
<1>. QED BY <1>1, <1>4, <1>5, <1>6, <1>7, <1>8 DEF Keeps, Owes

\* Sequences of calls.
LEMMA ConcatItems ==
  ASSUME NEW s \in Seq(Items), NEW u \in Seq(Items)
  PROVE  /\ s \o u \in Seq(Items) /\ Range(s \o u) = Range(s) \cup Range(u)
         /\ \A x : Single(s, x) /\ x \notin Range(u) => Single(s \o u, x)
         /\ \A x : Single(u, x) /\ x \notin Range(s) => Single(s \o u, x)
<1>. DEFINE v == s \o u
<1>1. /\ v \in Seq(Items) /\ Len(v) = Len(s) + Len(u)
      /\ \A i \in 1 .. Len(s) + Len(u) : v[i] = IF i <= Len(s) THEN s[i] ELSE u[i - Len(s)]
  BY ConcatProperties
<1>2. /\ Len(s) \in Nat /\ DOMAIN s = 1 .. Len(s) /\ Len(u) \in Nat /\ DOMAIN u = 1 .. Len(u)
      /\ DOMAIN v = 1 .. Len(s) + Len(u)
  BY <1>1, LenProperties
<1>3. Range(s \o u) = Range(s) \cup Range(u) BY RangeConcatenation
<1>. HIDE DEF v
<1>4. ASSUME NEW x, Single(s, x), x \notin Range(u), NEW i \in DOMAIN v, NEW j \in DOMAIN v,
             v[i] = x, v[j] = x
      PROVE  i = j
  <2>1. ASSUME NEW k \in DOMAIN v, v[k] = x PROVE k \in 1 .. Len(s) /\ s[k] = x
    <3>1. CASE k <= Len(s) BY <1>1, <1>2, <2>1, <3>1
    <3>2. CASE ~ (k <= Len(s))
      <4>1. k - Len(s) \in 1 .. Len(u) /\ u[k - Len(s)] = x BY <1>1, <1>2, <2>1, <3>2
      <4>. QED BY <1>2, <1>4, <4>1 DEF Range
    <3>. QED BY <3>1, <3>2
  <2>. QED BY <1>2, <1>4, <2>1 DEF Single
<1>5. ASSUME NEW x, Single(u, x), x \notin Range(s), NEW i \in DOMAIN v, NEW j \in DOMAIN v,
             v[i] = x, v[j] = x
      PROVE  i = j
  <2>1. ASSUME NEW k \in DOMAIN v, v[k] = x
        PROVE  k \in Int /\ k - Len(s) \in 1 .. Len(u) /\ u[k - Len(s)] = x
    <3>1. CASE k <= Len(s)
      <4>1. k \in 1 .. Len(s) /\ s[k] = x BY <1>1, <1>2, <2>1, <3>1
      <4>. QED BY <1>2, <1>5, <4>1 DEF Range
    <3>2. CASE ~ (k <= Len(s)) BY <1>1, <1>2, <2>1, <3>2
    <3>. QED BY <3>1, <3>2
  <2>2. i - Len(s) = j - Len(s) BY <1>2, <1>5, <2>1 DEF Single
  <2>. QED BY <1>2, <1>5, <2>1, <2>2
<1>. QED BY <1>1, <1>3, <1>4, <1>5 DEF Single, v

LEMMA NoItems ==
  /\ <<>> \in Seq(Items) /\ Range(<<>>) = {} /\ \A x : Single(<<>>, x)
BY EmptySeq DEF Range, Single

LEMMA OneItem ==
  ASSUME NEW y \in Items
  PROVE  /\ <<y>> \in Seq(Items) /\ Range(<<y>>) = {y} /\ \A x : Single(<<y>>, x)
BY DEF Range, Single

LEMMA IfItem ==
  ASSUME NEW c \in BOOLEAN, NEW y, c => y \in Items
  PROVE  /\ If(c, <<y>>) \in Seq(Items)
         /\ Range(If(c, <<y>>)) = (IF c THEN {y} ELSE {})
         /\ \A x : Single(If(c, <<y>>), x)
<1>1. CASE c BY <1>1, OneItem DEF If
<1>2. CASE ~ c BY <1>2, NoItems DEF If
<1>. QED BY <1>1, <1>2

\* Calls of different kinds, and of different nodes, are different.
LEMMA DifferentItems ==
  /\ \A a, b, n, m : The(a, n) = The(b, m) <=> a = b /\ n = m
  /\ \A n \in Node, a \in NodeOperation : The(a, n) \in Items
  /\ \A e \in Entry : The("DoRead", e) \in Items
  /\ \A x \in Transaction : The("EndOfPhase", x) \in Items
  /\ \A a, n : Item(a, n) = <<The(a, n)>>
<1>1. ASSUME NEW a, NEW b, NEW n, NEW m, The(a, n) = The(b, m)
      PROVE  a = b /\ n = m
  <2>1. The(a, n).op = a /\ The(b, m).op = b /\ The(a, n).arg = n /\ The(b, m).arg = m
    BY DEF The
  <2>. QED BY <1>1, <2>1
<1>. QED BY <1>1 DEF The, Items, Item

\* The call that a thread makes.
LEMMA PoppedCall ==
  ASSUME WorkOK, NEW t \in Thread, NEW op, At(t, op)
  PROVE  /\ Head(work[t]) \in Items /\ Popped(t) = {Head(work[t])} /\ Owes(Head(work[t]))
         /\ op \in NodeOperation => Arg(t) \in Node /\ Head(work[t]) = The(op, Arg(t))
         /\ op = "DoRead" => Arg(t) \in Entry /\ Head(work[t]) = The(op, Arg(t))
         /\ op = "EndOfPhase" => Arg(t) \in Transaction /\ Head(work[t]) = The(op, Arg(t))
         /\ op = "SetResult" => Arg(t) \subseteq Reader /\ Head(work[t]).result \in {"ok", "assumed", "error"}
<1>. DEFINE h == Head(work[t])
<1>1. work[t] \in Seq(Items) /\ work[t] # <<>> BY DEF WorkOK, At
<1>2. h \in Items /\ 1 \in DOMAIN work[t] /\ h = work[t][1]
  BY <1>1, HeadTailProperties, LenProperties
<1>3. Popped(t) = {h} /\ Owes(h) /\ h.op = op /\ Arg(t) = h.arg
  BY <1>1, <1>2 DEF Popped, Idle, Owes, At, Arg
<1>. HIDE DEF h
<1>4. op \in NodeOperation => h \in [op : NodeOperation, arg : Node]
  BY <1>2, <1>3 DEF Items, NodeOperation
<1>5. op = "DoRead" => h \in [op : {"DoRead"}, arg : Entry]
  BY <1>2, <1>3 DEF Items, NodeOperation
<1>6. op = "EndOfPhase" => h \in [op : {"EndOfPhase"}, arg : Transaction]
  BY <1>2, <1>3 DEF Items, NodeOperation
<1>7. op = "SetResult" => h \in [op : {"SetResult"}, arg : SUBSET Reader, result : {"ok", "assumed", "error"}]
  BY <1>2, <1>3 DEF Items, NodeOperation
<1>8. op \in NodeOperation => h.arg \in Node /\ h = The(op, h.arg) BY <1>3, <1>4 DEF The
<1>9. op = "DoRead" => h.arg \in Entry /\ h = The(op, h.arg) BY <1>3, <1>5 DEF The
<1>10. op = "EndOfPhase" => h.arg \in Transaction /\ h = The(op, h.arg) BY <1>3, <1>6 DEF The
<1>. QED BY <1>2, <1>3, <1>7, <1>8, <1>9, <1>10 DEF h

-----------------------------------------------------------------------------
(* MaybeStartReadOrWriteback.                                              *)

\* What a turn of the loop decides for node c, and which calls it leaves.
TurnEffect(c, q, issued, items) ==
  /\ items \in Seq(Items)
  /\ prepare_state' = [prepare_state EXCEPT ![c] =
       IF prepare_state[c] # "kReadyForCommitCalled" /\ issued
         THEN "kPrepareDoneCalled" ELSE "kReadyForCommitCalled"]
  /\ \A x \in Range(items) :
       \/ x \in {The("PrepareDone", c), The("ReadyForCommit", c)}
       \/ \E m \in Range(q) : m.txn = c.txn /\ x = The("Loop", m)
  /\ The("PrepareDone", c) \in Range(items) <=> prepare_state[c] = "kNone"
  /\ The("ReadyForCommit", c) \in Range(items)
       <=> (prepare_state[c] # "kReadyForCommitCalled" /\ ~ issued)
  /\ Single(items, The("PrepareDone", c)) /\ Single(items, The("ReadyForCommit", c))

Looks(t, c, q, issued, after) ==
  \E items : TurnEffect(c, q, issued, items) /\ Do(t, items \o after)

\* The list is circular.
LEMMA NextIsInQueue ==
  ASSUME NEW q \in Seq(Node), NEW c, Contains(q, c)
  PROVE  NextInQueue(q, c) \in Range(q) /\ NextInQueue(q, c) \in Node
<1>1. PICK i \in 1 .. Len(q) : q[i] = c BY DEF Contains
<1>2. Position(q, c) \in 1 .. Len(q) BY <1>1 DEF Position
<1>3. Len(q) \in Nat /\ DOMAIN q = 1 .. Len(q) BY LenProperties
<1>4. ASSUME NEW p \in 1 .. Len(q) PROVE (p % Len(q)) + 1 \in 1 .. Len(q) BY <1>3
<1>5. (Position(q, c) % Len(q)) + 1 \in DOMAIN q BY <1>2, <1>3, <1>4
<1>. QED BY <1>3, <1>5, ElementOfSeq DEF NextInQueue, Range

LEMMA TurnLooks ==
  ASSUME NEW t \in Thread, NEW e, NEW c \in Node, NEW q \in Seq(Node), Contains(q, c),
         prepare_state \in [Node -> PrepareState],
         NEW s, s.issued \in BOOLEAN, NEW after \in Seq(Items), Turn(t, e, c, q, s, after)
  PROVE  Looks(t, c, q, s.issued, after)
<1>. DEFINE old == prepare_state[c]
            next == NextInQueue(q, c)
            pd == The("PrepareDone", c)
            rc == The("ReadyForCommit", c)
            lp == The("Loop", next)
            return == s.issued /\ old # "kReadyForCommitCalled"
            more == /\ next # c /\ next.txn = c.txn
                    /\ prepare_state[next] # "kReadyForCommitCalled"
            a == If(old = "kNone", <<pd>>)
            b == If(old # "kReadyForCommitCalled" /\ ~ return, <<rc>>)
            d == If(more /\ ~ return, <<lp>>)
            items == (a \o b) \o d
<1>1. next \in Range(q) /\ next \in Node BY NextIsInQueue
<1>2. pd \in Items /\ rc \in Items /\ lp \in Items /\ pd # rc /\ pd # lp /\ rc # lp
  BY <1>1, DifferentItems DEF NodeOperation
<1>3. /\ prepare_state' = [prepare_state EXCEPT ![c] =
           IF old # "kReadyForCommitCalled" /\ s.issued
             THEN "kPrepareDoneCalled" ELSE "kReadyForCommitCalled"]
      /\ Do(t, items \o after)
  BY DifferentItems, Zenon DEF Turn
<1>. HIDE DEF pd, rc, lp, next
<1>4. /\ a \in Seq(Items) /\ Range(a) = (IF old = "kNone" THEN {pd} ELSE {})
      /\ \A x : Single(a, x)
  BY <1>2, IfItem
<1>5. /\ b \in Seq(Items) /\ \A x : Single(b, x)
      /\ Range(b) = (IF old # "kReadyForCommitCalled" /\ ~ return THEN {rc} ELSE {})
  BY <1>2, IfItem
<1>6. /\ d \in Seq(Items) /\ \A x : Single(d, x)
      /\ Range(d) = (IF more /\ ~ return THEN {lp} ELSE {})
  BY <1>2, IfItem
<1>7. /\ a \o b \in Seq(Items) /\ Range(a \o b) = Range(a) \cup Range(b)
      /\ Single(a \o b, pd) /\ Single(a \o b, rc)
  <2>. HIDE DEF a, b
  <2>1. pd \notin Range(b) /\ rc \notin Range(a) BY <1>2, <1>4, <1>5
  <2>. QED BY <1>4, <1>5, <2>1, ConcatItems
<1>8. /\ items \in Seq(Items) /\ Range(items) = Range(a) \cup Range(b) \cup Range(d)
      /\ Single(items, pd) /\ Single(items, rc)
  <2>. HIDE DEF a, b, d
  <2>1. pd \notin Range(d) /\ rc \notin Range(d) BY <1>2, <1>6
  <2>. QED BY <1>6, <1>7, <2>1, ConcatItems
<1>9. pd \in Range(items) <=> old = "kNone"
  <2>. HIDE DEF items, a, b, d
  <2>. QED BY <1>2, <1>4, <1>5, <1>6, <1>8
<1>10. rc \in Range(items) <=> (old # "kReadyForCommitCalled" /\ ~ s.issued)
  <2>. HIDE DEF items, a, b, d
  <2>. QED BY <1>2, <1>4, <1>5, <1>6, <1>8
<1>11. ASSUME NEW x \in Range(items)
       PROVE  x \in {pd, rc} \/ \E m \in Range(q) : m.txn = c.txn /\ x = The("Loop", m)
  <2>1. x \in {pd, rc} \/ (more /\ x = lp)
    <3>. HIDE DEF items, a, b, d, more
    <3>. QED BY <1>4, <1>5, <1>6, <1>8, <1>11
  <2>. QED BY <1>1, <2>1 DEF lp
<1>12. TurnEffect(c, q, s.issued, items)
  <2>. HIDE DEF items
  <2>. QED BY <1>3, <1>8, <1>9, <1>10, <1>11 DEF TurnEffect, pd, rc
<1>. QED BY <1>3, <1>12 DEF Looks

TurnOperation == {"PrepareDone", "ReadyForCommit", "Loop"}

\* What happens to each call when a thread looks at node c.
LEMMA LooksEffect ==
  ASSUME WorkOK, prepare_state \in [Node -> PrepareState],
         NEW t \in Thread, NEW c \in Node, NEW q \in Seq(Node), NEW issued \in BOOLEAN,
         NEW after \in Seq(Items), \A y \in Range(after) : y.op \notin TurnOperation,
         \A y \in Popped(t) : y.op \notin {"PrepareDone", "ReadyForCommit"},
         Looks(t, c, q, issued, after)
  PROVE  /\ WorkOK' /\ prepare_state' \in [Node -> PrepareState]
         /\ \A n \in Node \ {c} : /\ prepare_state'[n] = prepare_state[n]
                                  /\ Keeps(The("PrepareDone", n)) /\ Keeps(The("ReadyForCommit", n))
         /\ prepare_state'[c] = (IF prepare_state[c] # "kReadyForCommitCalled" /\ issued
                                   THEN "kPrepareDoneCalled" ELSE "kReadyForCommitCalled")
         /\ prepare_state[c] = "kNone" => Plans(The("PrepareDone", c))
         /\ prepare_state[c] # "kNone" => Keeps(The("PrepareDone", c))
         /\ prepare_state[c] # "kReadyForCommitCalled" /\ ~ issued => Plans(The("ReadyForCommit", c))
         /\ prepare_state[c] = "kReadyForCommitCalled" \/ issued => Keeps(The("ReadyForCommit", c))
         /\ \A m : Owes(The("Loop", m))' =>
              Owes(The("Loop", m)) \/ (m \in Range(q) /\ m.txn = c.txn)
         /\ \A y : /\ y.op \notin TurnOperation /\ y \notin Range(after) /\ y \notin Popped(t)
                   => Keeps(y)
         /\ \A y : /\ y.op \notin TurnOperation /\ y \notin Range(after) /\ y \in Popped(t)
                   => Makes(y)
         /\ \A y : /\ y.op \notin TurnOperation /\ y \in Range(after) /\ Single(after, y)
                   => Plans(y)
<1>1. PICK items : TurnEffect(c, q, issued, items) /\ Do(t, items \o after) BY DEF Looks
<1>. DEFINE all == items \o after
<1>2. items \in Seq(Items) BY <1>1 DEF TurnEffect
<1>3. /\ all \in Seq(Items) /\ Range(all) = Range(items) \cup Range(after)
      /\ \A x : Single(items, x) /\ x \notin Range(after) => Single(all, x)
      /\ \A x : Single(after, x) /\ x \notin Range(items) => Single(all, x)
  BY <1>2, ConcatItems
<1>4. Do(t, all) BY <1>1
<1>. HIDE DEF all
<1>5. ASSUME NEW x
      PROVE  /\ WorkOK'
             /\ x \notin Range(all) /\ x \notin Popped(t) => Keeps(x)
             /\ x \notin Range(all) /\ x \in Popped(t) => Makes(x)
             /\ x \in Range(all) /\ Single(all, x) => Plans(x)
             /\ x \notin Range(all) => (Owes(x)' => Owes(x))
  BY <1>3, <1>4, DoEffect
<1>6. /\ \A x \in Range(items) :
           \/ x \in {The("PrepareDone", c), The("ReadyForCommit", c)}
           \/ \E m \in Range(q) : m.txn = c.txn /\ x = The("Loop", m)
      /\ The("PrepareDone", c) \in Range(items) <=> prepare_state[c] = "kNone"
      /\ The("ReadyForCommit", c) \in Range(items)
           <=> (prepare_state[c] # "kReadyForCommitCalled" /\ ~ issued)
      /\ Single(items, The("PrepareDone", c)) /\ Single(items, The("ReadyForCommit", c))
      /\ prepare_state' = [prepare_state EXCEPT ![c] =
           IF prepare_state[c] # "kReadyForCommitCalled" /\ issued
             THEN "kPrepareDoneCalled" ELSE "kReadyForCommitCalled"]
  BY <1>1 DEF TurnEffect
<1>7. \A a, n : The(a, n).op = a BY DEF The
<1>8. /\ \A y \in Range(after) : \A n : y # The("PrepareDone", n) /\ y # The("ReadyForCommit", n)
                                          /\ y # The("Loop", n)
      /\ \A y \in Popped(t) : \A n : y # The("PrepareDone", n) /\ y # The("ReadyForCommit", n)
  BY <1>7 DEF TurnOperation
<1>9. \A x \in Range(items) : x.op \in TurnOperation BY <1>6, <1>7 DEF TurnOperation
<1>10. ASSUME NEW n \in Node \ {c}
       PROVE  /\ prepare_state'[n] = prepare_state[n]
              /\ Keeps(The("PrepareDone", n)) /\ Keeps(The("ReadyForCommit", n))
  <2>1. The("PrepareDone", n) \notin Range(items) /\ The("ReadyForCommit", n) \notin Range(items)
    BY <1>6, DifferentItems
  <2>. QED BY <1>3, <1>5, <1>6, <1>8, <2>1
<1>11. /\ prepare_state[c] = "kNone" => Plans(The("PrepareDone", c))
       /\ prepare_state[c] # "kNone" => Keeps(The("PrepareDone", c))
  BY <1>3, <1>5, <1>6, <1>8
<1>12. /\ prepare_state[c] # "kReadyForCommitCalled" /\ ~ issued => Plans(The("ReadyForCommit", c))
       /\ prepare_state[c] = "kReadyForCommitCalled" \/ issued => Keeps(The("ReadyForCommit", c))
  BY <1>3, <1>5, <1>6, <1>8
<1>13. ASSUME NEW m, Owes(The("Loop", m))'
       PROVE  Owes(The("Loop", m)) \/ (m \in Range(q) /\ m.txn = c.txn)
  <2>1. CASE The("Loop", m) \in Range(items) BY <1>6, <2>1, DifferentItems
  <2>2. CASE The("Loop", m) \notin Range(items) BY <1>3, <1>5, <1>8, <1>13, <2>2
  <2>. QED BY <2>1, <2>2
<1>14. prepare_state' \in [Node -> PrepareState] BY <1>6 DEF PrepareState
<1>15. ASSUME NEW y, y.op \notin TurnOperation
       PROVE  /\ y \notin Range(after) /\ y \notin Popped(t) => Keeps(y)
              /\ y \notin Range(after) /\ y \in Popped(t) => Makes(y)
              /\ y \in Range(after) /\ Single(after, y) => Plans(y)
  BY <1>3, <1>5, <1>9, <1>15
<1>16. WorkOK' BY <1>5
<1>17. prepare_state'[c] = (IF prepare_state[c] # "kReadyForCommitCalled" /\ issued
                                   THEN "kPrepareDoneCalled" ELSE "kReadyForCommitCalled")
  BY <1>6
<1>. QED BY <1>10, <1>11, <1>12, <1>13, <1>14, <1>15, <1>16, <1>17

\* The states that StartRead can leave.
Unread(s) == [s EXCEPT !.queued = FALSE, !.queued_time = 0, !.deferred = TRUE]
Started(s) == [Unread(s) EXCEPT !.issued = TRUE, !.issued_time = s.queued_time]

\* StartRead has nothing to do, drops a read that nobody wants, or issues it.
NoRead(t, e, s, readers, after) ==
  /\ s.issued \/ s.deferred
  /\ request' = [request EXCEPT ![e] = s] /\ reader' = readers /\ Do(t, after)

DropsRead(t, e, s, readers, after) ==
  /\ ~ s.issued /\ ~ s.deferred /\ On(readers, e, "queued") = {}
  /\ request' = [request EXCEPT ![e] = Unread(s)] /\ reader' = Unbatch(readers, e)
  /\ Do(t, after)

IssuesRead(t, e, s, readers, after) ==
  /\ ~ s.issued /\ ~ s.deferred /\ On(readers, e, "queued") # {}
  /\ request' = [request EXCEPT ![e] = Started(s)]
  /\ reader' = Unbatch(Move(readers, On(readers, e, "queued"), "issued"), e)
  /\ Do(t, <<The("DoRead", e)>> \o after)

Empty(q) == q = <<>>

LEMMA MaybeStartQueued ==
  ASSUME NEW t \in Thread, NEW e \in Entry, NEW s, s.issued \in BOOLEAN, NEW q \in Seq(Node),
         NEW readers, NEW after \in Seq(Items), prepare_state \in [Node -> PrepareState],
         MaybeStartReadOrWriteback(t, e, s, q, readers, after), ~ Empty(q)
  PROVE  /\ queue' = [queue EXCEPT ![e] = q]
         /\ Looks(t, Head(q), q, s.issued, after) /\ Contains(q, Head(q))
         /\ Head(q) \in Node /\ Head(q) = q[1]
         /\ request' = [request EXCEPT ![e] = s] /\ reader' = readers
<1>0. queue' = [queue EXCEPT ![e] = q] BY DEF MaybeStartReadOrWriteback
<1>1. Head(q) \in Node /\ Head(q) = q[1] /\ Len(q) \in Nat \ {0}
  BY HeadTailProperties, LenProperties, EmptySeq DEF Empty
<1>2. Contains(q, Head(q)) BY <1>1 DEF Contains
<1>3. Turn(t, e, Head(q), q, s, after) /\ request' = [request EXCEPT ![e] = s] /\ reader' = readers
  BY DEF MaybeStartReadOrWriteback, Empty
<1>. QED BY <1>0, <1>1, <1>2, <1>3, TurnLooks

LEMMA MaybeStartEmpty ==
  ASSUME NEW t \in Thread, NEW e \in Entry, NEW s, s.issued \in BOOLEAN, NEW q \in Seq(Node),
         NEW readers, NEW after \in Seq(Items), prepare_state \in [Node -> PrepareState],
         MaybeStartReadOrWriteback(t, e, s, q, readers, after), Empty(q)
  PROVE  /\ queue' = [queue EXCEPT ![e] = q] /\ prepare_state' = prepare_state
         /\ \/ NoRead(t, e, s, readers, after)
            \/ DropsRead(t, e, s, readers, after)
            \/ IssuesRead(t, e, s, readers, after)
<1>0. queue' = [queue EXCEPT ![e] = q] BY DEF MaybeStartReadOrWriteback
<1>1. /\ prepare_state' = prepare_state
      /\ s.issued => request' = [request EXCEPT ![e] = s] /\ reader' = readers /\ Do(t, after)
      /\ ~ s.issued => StartRead(t, e, s, readers, after)
  BY Zenon DEF MaybeStartReadOrWriteback, Empty
<1>2. CASE s.issued BY <1>0, <1>1, <1>2 DEF NoRead
<1>3. CASE ~ s.issued
  <2>1. StartRead(t, e, s, readers, after) BY <1>1, <1>3
  <2>2. Item("DoRead", e) = <<The("DoRead", e)>> BY DifferentItems
  <2>. QED
    BY <1>0, <1>1, <1>3, <2>1, <2>2, Zenon DEF StartRead, NoRead, DropsRead, IssuesRead, Unread, Started
<1>. QED BY <1>0, <1>1, <1>2, <1>3

-----------------------------------------------------------------------------
(* Types.                                                                  *)

ReaderState == [entry : Entry, on : Promise, batch : BOOLEAN, bound : Time]

Types ==
  /\ now \in Time
  /\ request \in [Entry -> RequestState]
  /\ reading \in [Entry -> BOOLEAN]
  /\ queue \in [Entry -> Seq(Node)]
  /\ prepare_state \in [Node -> PrepareState]
  /\ called \in [Node -> SUBSET NodeCall]
  /\ pending \in [Transaction -> Int] /\ waiting \in [Transaction -> BOOLEAN]
  /\ reader \in [Reader -> ReaderState]
  /\ WorkOK

LEMMA RequestTypes ==
  ASSUME NEW s \in RequestState
  PROVE  /\ s.issued \in BOOLEAN /\ s.queued \in BOOLEAN /\ s.deferred \in BOOLEAN /\ s.stale \in BOOLEAN
         /\ s.time \in Time /\ s.issued_time \in Time /\ s.queued_time \in Time
         /\ Unread(s) \in RequestState /\ Started(s) \in RequestState
         /\ Unqueued(s) \in RequestState
         /\ \A b \in BOOLEAN : /\ [s EXCEPT !.issued = b] \in RequestState
                               /\ [s EXCEPT !.deferred = b] \in RequestState
                               /\ [s EXCEPT !.stale = b] \in RequestState
         /\ \A a \in Time : /\ [s EXCEPT !.queued_time = a] \in RequestState
                            /\ [s EXCEPT !.time = a, !.stale = FALSE] \in RequestState
         /\ \A b, d \in BOOLEAN : [s EXCEPT !.queued = b, !.deferred = d] \in RequestState
<1>1. 0 \in Time BY AsyncCacheAssumption DEF Time
<1>. QED BY <1>1 DEF RequestState, Unread, Started, Unqueued

LEMMA ReaderTypes ==
  ASSUME NEW readers \in [Reader -> ReaderState]
  PROVE  /\ \A e : Unbatch(readers, e) \in [Reader -> ReaderState]
         /\ \A who : \A p \in Promise : Move(readers, who, p) \in [Reader -> ReaderState]
<1>1. ASSUME NEW r \in Reader
      PROVE  /\ [readers[r] EXCEPT !.batch = FALSE] \in ReaderState
             /\ \A p \in Promise : [readers[r] EXCEPT !.on = p] \in ReaderState
  BY DEF ReaderState
<1>. QED BY <1>1 DEF Unbatch, Move

\* The readers that are told a result.
LEMMA ResolutionItems ==
  ASSUME NEW who \in SUBSET Reader, NEW result \in {"ok", "assumed", "error"}
  PROVE  /\ Resolution(who, result) \in Seq(Items)
         /\ \A y \in Range(Resolution(who, result)) :
              y = [op |-> "SetResult", arg |-> who, result |-> result]
         /\ \A y \in Range(Resolution(who, result)) : y.op = "SetResult"
<1>. DEFINE y == [op |-> "SetResult", arg |-> who, result |-> result]
<1>1. y \in Items BY DEF Items
<1>2. /\ If(who # {}, <<y>>) \in Seq(Items)
      /\ Range(If(who # {}, <<y>>)) = (IF who # {} THEN {y} ELSE {})
  BY <1>1, IfItem
<1>. QED BY <1>2 DEF Resolution

LEMMA MaybeStartTypes ==
  ASSUME Types, NEW t \in Thread, NEW e \in Entry, NEW s \in RequestState, NEW q \in Seq(Node),
         NEW readers \in [Reader -> ReaderState], NEW after \in Seq(Items),
         \A y \in Range(after) : y.op \notin TurnOperation,
         \A y \in Popped(t) : y.op \notin {"PrepareDone", "ReadyForCommit"},
         MaybeStartReadOrWriteback(t, e, s, q, readers, after)
  PROVE  /\ queue' \in [Entry -> Seq(Node)] /\ prepare_state' \in [Node -> PrepareState]
         /\ request' \in [Entry -> RequestState] /\ reader' \in [Reader -> ReaderState]
         /\ WorkOK'
<1>0. /\ s.issued \in BOOLEAN /\ prepare_state \in [Node -> PrepareState] /\ WorkOK
      /\ request \in [Entry -> RequestState] /\ queue \in [Entry -> Seq(Node)]
  BY RequestTypes DEF Types
<1>1. queue' = [queue EXCEPT ![e] = q] /\ queue' \in [Entry -> Seq(Node)]
  BY <1>0 DEF MaybeStartReadOrWriteback
<1>2. CASE ~ Empty(q)
  <2>1. /\ Looks(t, Head(q), q, s.issued, after) /\ Head(q) \in Node
        /\ request' = [request EXCEPT ![e] = s] /\ reader' = readers
    BY <1>0, <1>2, MaybeStartQueued
  <2>2. WorkOK' /\ prepare_state' \in [Node -> PrepareState]
    <3>. DEFINE c == Head(q)
                i == s.issued
    <3>1. c \in Node /\ i \in BOOLEAN /\ Looks(t, c, q, i, after) BY <1>0, <2>1
    <3>. HIDE DEF c, i
    <3>. QED BY <1>0, <3>1, LooksEffect
  <2>. QED BY <1>0, <1>1, <2>1, <2>2
<1>3. CASE Empty(q)
  <2>1. /\ prepare_state' = prepare_state
        /\ \/ NoRead(t, e, s, readers, after)
           \/ DropsRead(t, e, s, readers, after)
           \/ IssuesRead(t, e, s, readers, after)
    BY <1>0, <1>3, MaybeStartEmpty
  <2>2. /\ <<The("DoRead", e)>> \in Seq(Items)
        /\ <<The("DoRead", e)>> \o after \in Seq(Items)
    BY DifferentItems, OneItem, ConcatItems
  <2>3. WorkOK' BY <1>0, <2>1, <2>2, DoEffect DEF NoRead, DropsRead, IssuesRead
  <2>4. request' \in [Entry -> RequestState]
    BY <1>0, <2>1, RequestTypes DEF NoRead, DropsRead, IssuesRead
  <2>5. reader' \in [Reader -> ReaderState]
    <3>1. "issued" \in Promise BY DEF Promise
    <3>2. /\ Unbatch(readers, e) \in [Reader -> ReaderState]
          /\ Move(readers, On(readers, e, "queued"), "issued") \in [Reader -> ReaderState]
      BY <3>1, ReaderTypes
    <3>3. Unbatch(Move(readers, On(readers, e, "queued"), "issued"), e) \in [Reader -> ReaderState]
      BY <3>2, ReaderTypes
    <3>. QED BY <2>1, <3>2, <3>3 DEF NoRead, DropsRead, IssuesRead
  <2>. QED BY <1>0, <1>1, <2>1, <2>3, <2>4, <2>5
<1>. QED BY <1>2, <1>3

LEMMA TypesInit == Init => Types
<1>. SUFFICES ASSUME Init PROVE Types OBVIOUS
<1>1. 0 \in Time /\ 1 \in Time BY AsyncCacheAssumption DEF Time
<1>2. request \in [Entry -> RequestState] BY <1>1 DEF Init, RequestState
<1>3. reader \in [Reader -> ReaderState] BY <1>1 DEF Init, ReaderState, Promise
<1>4. WorkOK BY NoItems DEF Init, WorkOK
<1>5. called \in [Node -> SUBSET NodeCall] BY DEF Init, NodeCall
<1>6. queue \in [Entry -> Seq(Node)] /\ prepare_state \in [Node -> PrepareState]
  BY DEF Init, PrepareState
<1>. QED BY <1>1, <1>2, <1>3, <1>4, <1>5, <1>6 DEF Init, Types

\* A thread that is idle, or at a call of kind op.
LEMMA PoppedKinds ==
  ASSUME WorkOK, NEW t \in Thread
  PROVE  /\ Idle(t) => Popped(t) = {}
         /\ \A op : At(t, op) => \A y \in Popped(t) : y.op = op
BY DEF Popped, Idle, At

\* The steps that end with MaybeStartReadOrWriteback and leave the transactions alone:
\* reads, submitted batches, answers to reads.
Looking(t, e, s, readers, after) ==
  /\ Idle(t) /\ UNCHANGED <<now, called, pending, waiting>>
  /\ s \in RequestState /\ readers \in [Reader -> ReaderState]
  /\ after \in Seq(Items) /\ \A y \in Range(after) : y.op = "SetResult"
  /\ MaybeStartReadOrWriteback(t, e, s, queue[e], readers, after)

\* What Read puts in the request state and in the reader.
Limit(e, bound, strict) ==
  IF request[e].time # 0 /\ request[e].time >= bound /\ strict /\ request[e].stale
    THEN request[e].time + 1 ELSE bound

AskedTime(e, bound, strict) ==
  Later(request[e].queued_time, Earlier(Limit(e, bound, strict), now))

Asked(e, bound, strict) == [request[e] EXCEPT !.queued_time = AskedTime(e, bound, strict)]

NewReader(e, on, batch, bound, strict) ==
  [entry |-> e, on |-> on, batch |-> batch, bound |-> Earlier(Limit(e, bound, strict), now)]

\* The three cases of Read: the cached data will do, the issued read will, or a read is queued.
ReadCached(r, e, bound, strict) ==
  /\ request[e].time # 0 /\ request[e].time >= bound /\ ~ (strict /\ request[e].stale)
  /\ reader' = [reader EXCEPT ![r] = NewReader(e, "ok", FALSE, bound, strict)]
  /\ UNCHANGED <<request, queue, prepare_state, work>>

ReadIssued(r, e, bound, strict) ==
  /\ request[e].time = 0 \/ request[e].time < bound \/ (strict /\ request[e].stale)
  /\ request[e].issued /\ request[e].issued_time >= Limit(e, bound, strict)
  /\ reader' = [reader EXCEPT ![r] = NewReader(e, "issued", FALSE, bound, strict)]
  /\ request' = [request EXCEPT ![e] = Asked(e, bound, strict)]
  /\ UNCHANGED <<queue, prepare_state, work>>

ReadQueued(t, r, e, bound, strict) ==
  \E before \in {reader, Unbatch(reader, e)}, defer \in BOOLEAN :
    /\ request[e].time = 0 \/ request[e].time < bound \/ (strict /\ request[e].stale)
    /\ ~ (request[e].issued /\ request[e].issued_time >= Limit(e, bound, strict))
    /\ Looking(t, e, [Asked(e, bound, strict) EXCEPT !.queued = TRUE, !.deferred = defer],
               [before EXCEPT ![r] = NewReader(e, "queued", defer, bound, strict)], <<>>)

LEMMA LimitTypes ==
  ASSUME Types, NEW e \in Entry, NEW bound \in Time, NEW strict \in BOOLEAN
  PROVE  /\ Earlier(Limit(e, bound, strict), now) \in Time
         /\ AskedTime(e, bound, strict) \in Time
         /\ Asked(e, bound, strict) \in RequestState
         /\ \A on \in Promise, b \in BOOLEAN : NewReader(e, on, b, bound, strict) \in ReaderState
<1>1. /\ MaxTime \in Nat \ {0} /\ Time = 0 .. MaxTime /\ now \in Time
      /\ request[e] \in RequestState
  BY AsyncCacheAssumption DEF Types, Time
<1>2. request[e].time \in Time /\ request[e].queued_time \in Time BY <1>1, RequestTypes
<1>3. Limit(e, bound, strict) \in Nat BY <1>1, <1>2 DEF Limit
<1>4. Earlier(Limit(e, bound, strict), now) \in Time BY <1>1, <1>3 DEF Earlier
<1>5. AskedTime(e, bound, strict) \in Time BY <1>1, <1>2, <1>4 DEF AskedTime, Later
<1>. QED BY <1>1, <1>4, <1>5, RequestTypes DEF Asked, NewReader, ReaderState

LEMMA ReadKinds ==
  ASSUME Types, NEW t \in Thread, NEW r \in Reader, NEW e \in Entry, NEW bound \in Time,
         NEW strict \in BOOLEAN, NEW batch \in BOOLEAN, Read(t, r, e, bound, strict, batch)
  PROVE  /\ Idle(t) /\ reader[r].on = "none" /\ UNCHANGED <<now, reading, called, pending, waiting>>
         /\ \/ ReadCached(r, e, bound, strict)
            \/ ReadIssued(r, e, bound, strict)
            \/ ReadQueued(t, r, e, bound, strict)
<1>. DEFINE s == request[e]
            cached == s.time # 0 /\ s.time >= bound
            forced == cached /\ strict /\ s.stale
            limit == IF forced THEN s.time + 1 ELSE bound
            asked == [s EXCEPT !.queued_time = Later(@, Earlier(limit, now))]
            fresh == ~s.queued \/ On(reader, e, "queued") = {}
            defer == batch /\ s.deferred
            before == IF fresh THEN Unbatch(reader, e) ELSE reader
            mine == [entry |-> e, on |-> "queued", batch |-> defer, bound |-> Earlier(limit, now)]
<1>1. /\ request[e] \in RequestState /\ now \in Time /\ reader \in [Reader -> ReaderState]
  BY DEF Types
<1>2. s.time \in Int /\ s.queued_time \in Time /\ s.deferred \in BOOLEAN /\ bound \in Int
  <2>1. s.time \in Time /\ s.queued_time \in Time /\ s.deferred \in BOOLEAN
    BY <1>1, RequestTypes
  <2>. QED BY <2>1, AsyncCacheAssumption DEF Time
<1>3. limit = Limit(e, bound, strict) BY DEF Limit
<1>4. asked = Asked(e, bound, strict) BY <1>3 DEF Asked, AskedTime
<1>5. ~ (cached /\ ~ forced) => s.time = 0 \/ s.time < bound \/ (strict /\ s.stale) BY <1>2
<1>6. /\ Idle(t) /\ reader[r].on = "none" /\ UNCHANGED <<now, reading, called, pending, waiting>>
      /\ \/ /\ cached /\ ~forced
            /\ reader' = [reader EXCEPT ![r] = [entry |-> e, on |-> "ok", batch |-> FALSE,
                                                bound |-> Earlier(limit, now)]]
            /\ UNCHANGED <<request, queue, prepare_state, work>>
         \/ /\ ~cached \/ forced
            /\ s.issued /\ s.issued_time >= limit
            /\ reader' = [reader EXCEPT ![r] = [entry |-> e, on |-> "issued", batch |-> FALSE,
                                                bound |-> Earlier(limit, now)]]
            /\ request' = [request EXCEPT ![e] = asked]
            /\ UNCHANGED <<queue, prepare_state, work>>
         \/ /\ ~cached \/ forced
            /\ ~ (s.issued /\ s.issued_time >= limit)
            /\ MaybeStartReadOrWriteback(t, e, [asked EXCEPT !.queued = TRUE, !.deferred = defer],
                     queue[e], [before EXCEPT ![r] = mine], <<>>)
  BY Zenon DEF Read, transactions
<1>7. CASE /\ cached /\ ~forced
           /\ reader' = [reader EXCEPT ![r] = [entry |-> e, on |-> "ok", batch |-> FALSE,
                                               bound |-> Earlier(limit, now)]]
           /\ UNCHANGED <<request, queue, prepare_state, work>>
  BY <1>3, <1>6, <1>7 DEF ReadCached, NewReader
<1>8. CASE /\ ~cached \/ forced
           /\ s.issued /\ s.issued_time >= limit
           /\ reader' = [reader EXCEPT ![r] = [entry |-> e, on |-> "issued", batch |-> FALSE,
                                               bound |-> Earlier(limit, now)]]
           /\ request' = [request EXCEPT ![e] = asked]
           /\ UNCHANGED <<queue, prepare_state, work>>
  <2>1. s.time = 0 \/ s.time < bound \/ (strict /\ s.stale) BY <1>5, <1>8
  <2>. HIDE DEF limit, asked
  <2>. QED BY <1>3, <1>4, <1>6, <1>8, <2>1 DEF ReadIssued, NewReader
<1>9. CASE /\ ~cached \/ forced
           /\ ~ (s.issued /\ s.issued_time >= limit)
           /\ MaybeStartReadOrWriteback(t, e, [asked EXCEPT !.queued = TRUE, !.deferred = defer],
                     queue[e], [before EXCEPT ![r] = mine], <<>>)
  <2>1. s.time = 0 \/ s.time < bound \/ (strict /\ s.stale) BY <1>5, <1>9
  <2>2. mine = NewReader(e, "queued", defer, bound, strict) /\ defer \in BOOLEAN
    BY <1>2, <1>3 DEF NewReader
  <2>3. before \in {reader, Unbatch(reader, e)} /\ before \in [Reader -> ReaderState]
    BY <1>1, ReaderTypes
  <2>4. NewReader(e, "queued", defer, bound, strict) \in ReaderState /\ Asked(e, bound, strict) \in RequestState
    BY <2>2, LimitTypes DEF Promise
  <2>. DEFINE s2 == [Asked(e, bound, strict) EXCEPT !.queued = TRUE, !.deferred = defer]
              readers == [before EXCEPT ![r] = NewReader(e, "queued", defer, bound, strict)]
  <2>5. s2 \in RequestState /\ readers \in [Reader -> ReaderState]
    BY <2>2, <2>3, <2>4, RequestTypes
  <2>. HIDE DEF asked, mine, before, defer
  <2>6. MaybeStartReadOrWriteback(t, e, s2, queue[e], readers, <<>>) BY <1>4, <1>9, <2>2
  <2>. HIDE DEF s2, readers
  <2>7. Looking(t, e, s2, readers, <<>>) BY <1>6, <2>5, <2>6, NoItems DEF Looking
  <2>8. ~ (request[e].issued /\ request[e].issued_time >= Limit(e, bound, strict)) BY <1>3, <1>9
  <2>9. ReadQueued(t, r, e, bound, strict) BY <2>1, <2>2, <2>3, <2>7, <2>8 DEF ReadQueued, s2, readers
  <2>. QED BY <1>6, <2>9
<1>. HIDE DEF cached, forced, limit, asked, before, mine, defer, fresh
<1>. QED BY <1>6, <1>7, <1>8, <1>9

-----------------------------------------------------------------------------
(* What steps do to the calls of nodes.                                    *)

\* No node is looked at.
StatesKept ==
  /\ prepare_state' = prepare_state
  /\ \A n \in Node : Keeps(The("PrepareDone", n)) /\ Keeps(The("ReadyForCommit", n))
  /\ \A m : Owes(The("Loop", m))' => Owes(The("Loop", m))

\* Node c is looked at, in the critical section of its entry.
LooksAt(c, q, issued) ==
  /\ \A n \in Node \ {c} : /\ prepare_state'[n] = prepare_state[n]
                           /\ Keeps(The("PrepareDone", n)) /\ Keeps(The("ReadyForCommit", n))
  /\ prepare_state'[c] = (IF prepare_state[c] # "kReadyForCommitCalled" /\ issued
                            THEN "kPrepareDoneCalled" ELSE "kReadyForCommitCalled")
  /\ prepare_state[c] = "kNone" => Plans(The("PrepareDone", c))
  /\ prepare_state[c] # "kNone" => Keeps(The("PrepareDone", c))
  /\ prepare_state[c] # "kReadyForCommitCalled" /\ ~ issued => Plans(The("ReadyForCommit", c))
  /\ prepare_state[c] = "kReadyForCommitCalled" \/ issued => Keeps(The("ReadyForCommit", c))
  /\ \A m : Owes(The("Loop", m))' =>
       Owes(The("Loop", m)) \/ (m \in Range(q) /\ m.txn = c.txn)

Look(q, issued) ==
  \/ Empty(q) /\ StatesKept
  \/ \E c \in Node : Contains(q, c) /\ c = Head(q) /\ LooksAt(c, q, issued)

\* What happens to a call that MaybeStartReadOrWriteback does not make itself.
OtherCall(t, y, after) ==
  /\ y \notin Range(after) /\ y \notin Popped(t) => Keeps(y)
  /\ y \notin Range(after) /\ y \in Popped(t) => Makes(y)
  /\ y \in Range(after) /\ Single(after, y) => Plans(y)

StartOperation == TurnOperation \cup {"DoRead"}

OtherCalls(t, after) == \A y : y.op \notin StartOperation => OtherCall(t, y, after)

NotOf(items, kinds) == \A y \in items : y.op \notin kinds

LEMMA TheOp == \A a, n : The(a, n).op = a /\ The(a, n).arg = n
BY DEF The

\* Calls of kinds that a step neither makes nor leaves.
LEMMA DoKeeps ==
  ASSUME WorkOK, NEW t \in Thread, NEW items \in Seq(Items), Do(t, items), NEW kinds,
         \A y \in Range(items) : y.op \notin kinds,
         \A y \in Popped(t) : y.op \notin kinds
  PROVE  \A op \in kinds : \A a : Keeps(The(op, a))
<1>. TAKE op \in kinds
<1>. TAKE a
<1>1. The(op, a) \notin Range(items) /\ The(op, a) \notin Popped(t) BY TheOp
<1>. QED BY <1>1, DoEffect

\* A step that does not look at any node.
LEMMA DoStates ==
  ASSUME WorkOK, NEW t \in Thread, NEW items \in Seq(Items), Do(t, items),
         prepare_state' = prepare_state,
         \A y \in Range(items) : y.op \notin TurnOperation,
         \A y \in Popped(t) : y.op \notin {"PrepareDone", "ReadyForCommit"}
  PROVE  StatesKept
<1>1. \A op \in {"PrepareDone", "ReadyForCommit"} : \A a : Keeps(The(op, a))
  <2>1. \A y \in Range(items) : y.op \notin {"PrepareDone", "ReadyForCommit"}
    BY DEF TurnOperation
  <2>. DEFINE kinds == {"PrepareDone", "ReadyForCommit"}
  <2>2. /\ \A y \in Range(items) : y.op \notin kinds
        /\ \A y \in Popped(t) : y.op \notin kinds
    BY <2>1
  <2>3. \A op \in kinds : \A a : Keeps(The(op, a))
    <3>. HIDE DEF kinds
    <3>. QED BY <2>2, DoKeeps
  <2>. QED BY <2>3
<1>2. ASSUME NEW m, Owes(The("Loop", m))' PROVE Owes(The("Loop", m))
  <2>1. The("Loop", m) \notin Range(items) BY TheOp DEF TurnOperation
  <2>. QED BY <1>2, <2>1, DoEffect
<1>. QED BY <1>1, <1>2 DEF StatesKept

\* The calls that MaybeStartReadOrWriteback leaves for later.
LEMMA StartLooks ==
  ASSUME WorkOK, prepare_state \in [Node -> PrepareState],
         NEW t \in Thread, NEW e \in Entry, NEW s, NEW i \in BOOLEAN, s.issued = i, NEW q \in Seq(Node),
         NEW readers, NEW after \in Seq(Items),
         NotOf(Range(after), StartOperation),
         NotOf(Popped(t), {"PrepareDone", "ReadyForCommit"}),
         MaybeStartReadOrWriteback(t, e, s, q, readers, after)
  PROVE  /\ queue' = [queue EXCEPT ![e] = q]
         /\ Look(q, i)
         /\ OtherCalls(t, after)
<1>0. \A y \in Range(after) : y.op \notin TurnOperation /\ y.op # "DoRead"
  BY DEF StartOperation, NotOf
<1>00. \A y \in Popped(t) : y.op \notin {"PrepareDone", "ReadyForCommit"} BY DEF NotOf
<1>1. queue' = [queue EXCEPT ![e] = q] BY DEF MaybeStartReadOrWriteback
<1>2. CASE ~ Empty(q)
  <2>. DEFINE c == Head(q)
  <2>1. c \in Node /\ i \in BOOLEAN /\ Looks(t, c, q, i, after) /\ Contains(q, c)
    BY <1>2, MaybeStartQueued
  <2>2. LooksAt(c, q, i) /\ \A y : y.op \notin TurnOperation => OtherCall(t, y, after)
    <3>. HIDE DEF c
    <3>. QED BY <1>0, <1>00, <2>1, LooksEffect DEF LooksAt, OtherCall
  <2>. QED BY <1>1, <2>1, <2>2 DEF Look, StartOperation, OtherCalls
<1>3. CASE Empty(q)
  <2>1. /\ prepare_state' = prepare_state
        /\ \/ NoRead(t, e, s, readers, after)
           \/ DropsRead(t, e, s, readers, after)
           \/ IssuesRead(t, e, s, readers, after)
    BY <1>3, MaybeStartEmpty
  <2>. DEFINE items == IF Do(t, after) THEN after ELSE <<The("DoRead", e)>> \o after
  <2>2. /\ <<The("DoRead", e)>> \in Seq(Items) /\ Range(<<The("DoRead", e)>>) = {The("DoRead", e)}
    BY DifferentItems, OneItem
  <2>3. /\ <<The("DoRead", e)>> \o after \in Seq(Items)
        /\ Range(<<The("DoRead", e)>> \o after) = {The("DoRead", e)} \cup Range(after)
        /\ \A x : Single(after, x) /\ x # The("DoRead", e) => Single(<<The("DoRead", e)>> \o after, x)
    BY <2>2, ConcatItems
  <2>4. /\ items \in Seq(Items) /\ Do(t, items)
        /\ Range(items) \subseteq {The("DoRead", e)} \cup Range(after)
        /\ Range(after) \subseteq Range(items)
        /\ \A x : Single(after, x) /\ x # The("DoRead", e) => Single(items, x)
    BY <2>1, <2>3 DEF NoRead, DropsRead, IssuesRead
  <2>. HIDE DEF items
  <2>5. \A y \in Range(items) : y.op \notin TurnOperation BY <1>0, <2>4, TheOp DEF TurnOperation
  <2>6. StatesKept BY <1>00, <2>1, <2>4, <2>5, DoStates
  <2>7. ASSUME NEW y, y.op \notin StartOperation PROVE OtherCall(t, y, after)
    <3>1. y # The("DoRead", e) BY <2>7, TheOp DEF StartOperation
    <3>. QED BY <2>4, <3>1, DoEffect DEF OtherCall
  <2>. QED BY <1>1, <1>3, <2>6, <2>7 DEF Look, OtherCalls
<1>. QED BY <1>2, <1>3

-----------------------------------------------------------------------------
(* Steps that leave transactions and queues alone.                         *)

\* Calls that move a commit along.
CommitOperation == {"PrepareForCommit", "PrepareReturned", "EndOfPhase"}
KeepsCommits == \A op \in CommitOperation : \A a : Keeps(The(op, a))

\* At most, a node that is in a queue is looked at.
Aside ==
  /\ UNCHANGED <<called, pending, waiting, queue>>
  /\ KeepsCommits
  /\ \/ StatesKept
     \/ \E e \in Entry, c \in Node :
          /\ Contains(queue[e], c) /\ (c = Head(queue[e]) \/ Owes(The("Loop", c)))
          /\ LooksAt(c, queue[e], request'[e].issued)

LEMMA DoAside ==
  ASSUME Types, NEW t \in Thread, Do(t, <<>>), NEW op \in {"DoRead", "SetResult", "Loop", "CommitDone"},
         At(t, op), prepare_state' = prepare_state
  PROVE  WorkOK' /\ KeepsCommits /\ StatesKept
<1>0. WorkOK /\ \A y \in Popped(t) : y.op = op BY PoppedKinds DEF Types
<1>1. WorkOK' BY <1>0, NoItems, DoEffect
<1>2. KeepsCommits
  <2>1. \A y \in Popped(t) : y.op \notin CommitOperation BY <1>0 DEF CommitOperation
  <2>. QED BY <1>0, <2>1, NoItems, DoKeeps DEF KeepsCommits
<1>3. StatesKept
  <2>1. \A y \in Popped(t) : y.op \notin {"PrepareDone", "ReadyForCommit"} BY <1>0
  <2>. QED BY <1>0, <2>1, NoItems, DoStates
<1>. QED BY <1>1, <1>2, <1>3

LEMMA SameAside ==
  ASSUME work' = work, prepare_state' = prepare_state
  PROVE  KeepsCommits /\ StatesKept
<1>1. \A y : Keeps(y) /\ (Owes(y)' <=> Owes(y)) BY DEF Keeps, Owes, Once
<1>. QED BY <1>1 DEF KeepsCommits, StatesKept

LEMMA LookingAside ==
  ASSUME Types, NEW t \in Thread, NEW e \in Entry, NEW s, NEW readers, NEW after,
         Looking(t, e, s, readers, after), reading' \in [Entry -> BOOLEAN]
  PROVE  Types' /\ Aside
<1>. SUFFICES ASSUME NEW q, q = queue[e], NEW i, i = s.issued
              PROVE  Types' /\ Aside
  OBVIOUS
<1>1. /\ Idle(t) /\ UNCHANGED <<now, called, pending, waiting>>
      /\ s \in RequestState /\ readers \in [Reader -> ReaderState]
      /\ after \in Seq(Items) /\ \A y \in Range(after) : y.op = "SetResult"
      /\ MaybeStartReadOrWriteback(t, e, s, q, readers, after)
  BY DEF Looking
<1>2. /\ WorkOK /\ prepare_state \in [Node -> PrepareState] /\ q \in Seq(Node)
      /\ queue \in [Entry -> Seq(Node)] /\ request \in [Entry -> RequestState]
  BY DEF Types
<1>3. /\ s.issued \in BOOLEAN /\ i \in BOOLEAN /\ s.issued = i /\ Popped(t) = {}
      /\ NotOf(Range(after), StartOperation) /\ NotOf(Popped(t), {"PrepareDone", "ReadyForCommit"})
      /\ \A y \in Range(after) : y.op \notin TurnOperation
  BY <1>1, <1>2, PoppedKinds, RequestTypes DEF StartOperation, TurnOperation, NotOf
<1>4. /\ queue' \in [Entry -> Seq(Node)] /\ prepare_state' \in [Node -> PrepareState]
      /\ request' \in [Entry -> RequestState] /\ reader' \in [Reader -> ReaderState]
      /\ WorkOK'
  BY <1>1, <1>2, <1>3, MaybeStartTypes
<1>5. Types' BY <1>1, <1>4 DEF Types
<1>6. /\ queue' = [queue EXCEPT ![e] = q] /\ Look(q, i)
      /\ OtherCalls(t, after)
  <2>1. WorkOK /\ prepare_state \in [Node -> PrepareState] /\ i \in BOOLEAN /\ s.issued = i /\ q \in Seq(Node)
    BY <1>2, <1>3
  <2>2. after \in Seq(Items) /\ NotOf(Range(after), StartOperation)
        /\ NotOf(Popped(t), {"PrepareDone", "ReadyForCommit"})
    BY <1>1, <1>3
  <2>3. MaybeStartReadOrWriteback(t, e, s, q, readers, after) BY <1>1
  <2>. QED BY <2>1, <2>2, <2>3, StartLooks
<1>7. queue' = queue BY <1>2, <1>6
<1>8. KeepsCommits
  <2>. SUFFICES ASSUME NEW op \in CommitOperation, NEW a PROVE Keeps(The(op, a))
    BY DEF KeepsCommits
  <2>1. The(op, a).op \notin StartOperation /\ The(op, a) \notin Range(after)
    BY <1>1, TheOp DEF CommitOperation, StartOperation, TurnOperation
  <2>. QED BY <1>3, <1>6, <2>1 DEF OtherCall, OtherCalls
<1>9. ASSUME NEW c \in Node, Contains(q, c), c = Head(q), LooksAt(c, q, i)
      PROVE  LooksAt(c, q, request'[e].issued)
  <2>1. ~ Empty(q) BY <1>9 DEF Empty, Contains
  <2>2. request' = [request EXCEPT ![e] = s] BY <1>1, <1>2, <1>3, <2>1, MaybeStartQueued
  <2>3. request'[e] = s BY <1>2, <2>2
  <2>. QED BY <1>3, <1>9, <2>3
<1>10. \/ StatesKept
       \/ \E c \in Node : Contains(q, c) /\ c = Head(q) /\ LooksAt(c, q, request'[e].issued)
  BY <1>6, <1>9 DEF Look
<1>. QED BY <1>1, <1>5, <1>7, <1>8, <1>10 DEF Aside

SubmitState(e) == [request[e] EXCEPT !.deferred = FALSE]
SubmitReaders(r) == [reader EXCEPT ![r].batch = FALSE]

LEMMA SubmitLooking ==
  ASSUME Types, NEW t \in Thread, NEW r \in Reader, Submit(t, r)
  PROVE  /\ reader[r].entry \in Entry /\ reading' = reading /\ Idle(t) /\ reader[r].batch
         /\ Looking(t, reader[r].entry, SubmitState(reader[r].entry), SubmitReaders(r), <<>>)
<1>1. /\ reader \in [Reader -> ReaderState] /\ reader[r] \in ReaderState
      /\ request \in [Entry -> RequestState]
  BY DEF Types
<1>2. reader[r].entry \in Entry /\ [reader[r] EXCEPT !.batch = FALSE] \in ReaderState
  BY <1>1 DEF ReaderState
<1>3. SubmitReaders(r) \in [Reader -> ReaderState] BY <1>1, <1>2 DEF SubmitReaders
<1>4. SubmitState(reader[r].entry) \in RequestState BY <1>1, <1>2, RequestTypes DEF SubmitState
<1>5. /\ Idle(t) /\ reader[r].batch /\ UNCHANGED <<now, reading, called, pending, waiting>>
      /\ MaybeStartReadOrWriteback(t, reader[r].entry, SubmitState(reader[r].entry),
           queue[reader[r].entry], SubmitReaders(r), <<>>)
  BY DEF Submit, transactions, SubmitState, SubmitReaders
<1>. QED BY <1>2, <1>3, <1>4, <1>5, NoItems DEF Looking

\* What ResolveIssuedRead leaves.
Also(e, take) == IF take THEN On(reader, e, "queued") ELSE {}
Resolved(s) == [(IF TakesQueued(s, s.time) THEN Unqueued(s) ELSE s) EXCEPT !.issued = FALSE]
Left(e, who, take) ==
  IF take THEN Unbatch(Move(reader, who, "taken"), e) ELSE Move(reader, who, "taken")
ResolvedReaders(e, s) ==
  Left(e, On(reader, e, "issued") \cup Also(e, TakesQueued(s, s.time)), TakesQueued(s, s.time))
Results(e, s, result) ==
  Resolution(On(reader, e, "issued"), result) \o Resolution(Also(e, TakesQueued(s, s.time)), "ok")

LEMMA LeftTypes ==
  ASSUME Types, NEW e \in Entry, NEW who \in SUBSET Reader, NEW take
  PROVE  /\ Left(e, who, take) \in [Reader -> ReaderState]
         /\ Also(e, take) \in SUBSET Reader /\ \A p : On(reader, e, p) \in SUBSET Reader
<1>1. reader \in [Reader -> ReaderState] /\ "taken" \in Promise BY DEF Types, Promise
<1>2. Move(reader, who, "taken") \in [Reader -> ReaderState] BY <1>1, ReaderTypes
<1>3. Unbatch(Move(reader, who, "taken"), e) \in [Reader -> ReaderState] BY <1>2, ReaderTypes
<1>. QED BY <1>2, <1>3 DEF Left, Also, On

LEMMA ResolveLooking ==
  ASSUME Types, NEW t \in Thread, NEW e \in Entry, NEW s \in RequestState,
         NEW result \in {"ok", "assumed", "error"}, Idle(t), UNCHANGED <<now, called, pending, waiting>>,
         ResolveIssuedRead(t, e, s, result)
  PROVE  Looking(t, e, Resolved(s), ResolvedReaders(e, s), Results(e, s, result))
<1>1. MaybeStartReadOrWriteback(t, e, Resolved(s), queue[e], ResolvedReaders(e, s), Results(e, s, result))
  BY DEF ResolveIssuedRead, Resolved, ResolvedReaders, Results, Left, Also
<1>2. Resolved(s) \in RequestState
  <2>. DEFINE u == IF TakesQueued(s, s.time) THEN Unqueued(s) ELSE s
  <2>1. u \in RequestState BY RequestTypes
  <2>. HIDE DEF u
  <2>2. [u EXCEPT !.issued = FALSE] \in RequestState BY <2>1, RequestTypes
  <2>. QED BY <2>2 DEF Resolved, u
<1>3. ResolvedReaders(e, s) \in [Reader -> ReaderState]
  <2>1. On(reader, e, "issued") \cup Also(e, TakesQueued(s, s.time)) \in SUBSET Reader
    BY DEF On, Also
  <2>. QED BY <2>1, LeftTypes DEF ResolvedReaders
<1>4. Results(e, s, result) \in Seq(Items) /\ \A y \in Range(Results(e, s, result)) : y.op = "SetResult"
  <2>. DEFINE a == Resolution(On(reader, e, "issued"), result)
              b == Resolution(Also(e, TakesQueued(s, s.time)), "ok")
  <2>1. On(reader, e, "issued") \in SUBSET Reader /\ Also(e, TakesQueued(s, s.time)) \in SUBSET Reader
    BY DEF On, Also
  <2>2. /\ a \in Seq(Items) /\ \A y \in Range(a) : y.op = "SetResult"
        /\ b \in Seq(Items) /\ \A y \in Range(b) : y.op = "SetResult"
    BY <2>1, ResolutionItems
  <2>. HIDE DEF a, b
  <2>3. a \o b \in Seq(Items) /\ Range(a \o b) = Range(a) \cup Range(b) BY <2>2, ConcatItems
  <2>. QED BY <2>2, <2>3 DEF Results, a, b
<1>. QED BY <1>1, <1>2, <1>3, <1>4 DEF Looking

\* The request state after SetReadState.
Answered(e, time) == [request[e] EXCEPT !.time = time, !.stale = FALSE]

LEMMA AnswerLooking ==
  ASSUME Types, NEW t \in Thread, NEW e \in Entry
  PROVE  /\ \A time \in request[e].issued_time .. now : ReadSuccess(t, e, time) =>
              /\ reading[e] /\ reading' = [reading EXCEPT ![e] = FALSE]
              /\ time \in Time /\ Answered(e, time) \in RequestState
              /\ Looking(t, e, Resolved(Answered(e, time)), ResolvedReaders(e, Answered(e, time)),
                         Results(e, Answered(e, time), "ok"))
         /\ ReadError(t, e) =>
              /\ reading[e] /\ reading' = [reading EXCEPT ![e] = FALSE]
              /\ Looking(t, e, Resolved(request[e]), ResolvedReaders(e, request[e]),
                         Results(e, request[e], "error"))
<1>1. request[e] \in RequestState /\ now \in Time BY DEF Types
<1>2. request[e].issued_time \in Time BY <1>1, RequestTypes
<1>3. ASSUME NEW time \in request[e].issued_time .. now, ReadSuccess(t, e, time)
      PROVE  /\ reading[e] /\ reading' = [reading EXCEPT ![e] = FALSE]
             /\ time \in Time /\ Answered(e, time) \in RequestState
             /\ Looking(t, e, Resolved(Answered(e, time)), ResolvedReaders(e, Answered(e, time)),
                        Results(e, Answered(e, time), "ok"))
  <2>1. time \in Time BY <1>1, <1>2, AsyncCacheAssumption DEF Time
  <2>2. Answered(e, time) \in RequestState BY <1>1, <2>1, RequestTypes DEF Answered
  <2>3. /\ Idle(t) /\ UNCHANGED <<now, called, pending, waiting>>
        /\ reading[e] /\ reading' = [reading EXCEPT ![e] = FALSE]
        /\ ResolveIssuedRead(t, e, Answered(e, time), "ok")
    BY <1>3 DEF ReadSuccess, transactions, Answered
  <2>. QED BY <2>1, <2>2, <2>3, ResolveLooking
<1>4. ASSUME ReadError(t, e)
      PROVE  /\ reading[e] /\ reading' = [reading EXCEPT ![e] = FALSE]
             /\ Looking(t, e, Resolved(request[e]), ResolvedReaders(e, request[e]),
                        Results(e, request[e], "error"))
  <2>1. /\ Idle(t) /\ UNCHANGED <<now, called, pending, waiting>>
        /\ reading[e] /\ reading' = [reading EXCEPT ![e] = FALSE]
        /\ ResolveIssuedRead(t, e, request[e], "error")
    BY <1>4 DEF ReadError, transactions
  <2>. QED BY <1>1, <2>1, ResolveLooking
<1>. QED BY <1>3, <1>4

LEMMA LoopAside ==
  ASSUME Types, NEW t \in Thread, Loop(t)
  PROVE  Types' /\ Aside /\ UNCHANGED <<now, request, reading, reader>>
<1>1. /\ WorkOK /\ prepare_state \in [Node -> PrepareState] /\ queue \in [Entry -> Seq(Node)]
      /\ request \in [Entry -> RequestState]
  BY DEF Types
<1>2. At(t, "Loop") /\ UNCHANGED <<now, request, reading, queue, called, pending, waiting, reader>>
  BY DEF Loop, transactions
<1>3. Arg(t) \in Node /\ Owes(The("Loop", Arg(t))) /\ \A y \in Popped(t) : y.op = "Loop"
  BY <1>1, <1>2, PoppedCall, PoppedKinds DEF NodeOperation
<1>. SUFFICES ASSUME NEW c \in Node, c = Arg(t), NEW e \in Entry, e = c.entry, NEW q, q = queue[e],
                     NEW s, s = request[e], NEW i, i = s.issued,
                     NEW none \in Seq(Items), Empty(none), Range(none) = {}
              PROVE  Types' /\ Aside /\ UNCHANGED <<now, request, reading, reader>>
  BY <1>3, NoItems DEF Node, Empty
<1>4. q \in Seq(Node) /\ s \in RequestState /\ i \in BOOLEAN BY <1>1, RequestTypes
<1>5. CASE Contains(q, c)
  <2>1. Turn(t, e, c, q, s, none) BY <1>5 DEF Loop, Empty
  <2>2. Looks(t, c, q, i, none)
    <3>1. s.issued \in BOOLEAN /\ Looks(t, c, q, s.issued, none)
      BY <1>1, <1>4, <1>5, <2>1, TurnLooks
    <3>. QED BY <3>1
  <2>3. /\ \A y \in Range(none) : y.op \notin TurnOperation
        /\ \A y \in Popped(t) : y.op \notin {"PrepareDone", "ReadyForCommit"}
    BY <1>3
  <2>4. /\ WorkOK' /\ prepare_state' \in [Node -> PrepareState] /\ LooksAt(c, q, i)
        /\ \A y : y.op \notin TurnOperation /\ y \notin Range(none) /\ y \notin Popped(t) => Keeps(y)
    BY <1>1, <1>4, <2>2, <2>3, LooksEffect DEF LooksAt
  <2>5. KeepsCommits
    <3>. SUFFICES ASSUME NEW op \in CommitOperation, NEW a PROVE Keeps(The(op, a))
      BY DEF KeepsCommits
    <3>1. The(op, a).op \notin TurnOperation /\ The(op, a) \notin Popped(t)
      BY <1>3, TheOp DEF CommitOperation, TurnOperation
    <3>. QED BY <2>3, <2>4, <3>1
  <2>6. request'[e].issued = i BY <1>2
  <2>7. Types' BY <1>2, <2>4 DEF Types
  <2>8. LooksAt(c, queue[e], request'[e].issued) BY <2>4, <2>6
  <2>. QED BY <1>2, <1>3, <1>5, <2>5, <2>7, <2>8 DEF Aside
<1>6. CASE ~ Contains(q, c)
  <2>1. Do(t, <<>>) /\ prepare_state' = prepare_state BY <1>6 DEF Loop
  <2>2. WorkOK' /\ KeepsCommits /\ StatesKept BY <1>2, <2>1, DoAside
  <2>. QED BY <1>2, <2>1, <2>2 DEF Aside, Types
<1>. QED BY <1>5, <1>6

LEMMA DoReadAside ==
  ASSUME Types, NEW t \in Thread, DoRead(t)
  PROVE  Types' /\ Aside
<1>1. /\ At(t, "DoRead") /\ reading' = [reading EXCEPT ![Arg(t)] = TRUE] /\ Do(t, <<>>)
      /\ UNCHANGED <<now, request, queue, prepare_state, called, pending, waiting, reader>>
  BY DEF DoRead, transactions
<1>2. WorkOK' /\ KeepsCommits /\ StatesKept BY <1>1, DoAside
<1>3. reading' \in [Entry -> BOOLEAN] BY <1>1 DEF Types
<1>. QED BY <1>1, <1>2, <1>3 DEF Aside, Types

LEMMA SetResultAside ==
  ASSUME Types, NEW t \in Thread, SetResult(t)
  PROVE  Types' /\ Aside
<1>1. /\ At(t, "SetResult") /\ reader' = Move(reader, Arg(t), Head(work[t]).result) /\ Do(t, <<>>)
      /\ UNCHANGED <<now, request, reading, queue, prepare_state, called, pending, waiting>>
  BY DEF SetResult, transactions, cache
<1>2. WorkOK' /\ KeepsCommits /\ StatesKept BY <1>1, DoAside
<1>3. reader' \in [Reader -> ReaderState]
  <2>1. WorkOK /\ reader \in [Reader -> ReaderState] BY DEF Types
  <2>2. Head(work[t]).result \in Promise BY <1>1, <2>1, PoppedCall DEF Promise
  <2>. QED BY <1>1, <2>1, <2>2, ReaderTypes
<1>. QED BY <1>1, <1>2, <1>3 DEF Aside, Types

\* Steps that owe nothing new.
LEMMA OtherAside ==
  ASSUME Types,
         \/ \E r \in Reader : DropFuture(r)
         \/ \E e \in Markable : MarkStale(e)
         \/ Tick
         \/ UNCHANGED vars
  PROVE  Types' /\ Aside
<1>1. UNCHANGED <<reading, queue, prepare_state, called, pending, waiting, work>>
  BY DEF DropFuture, MarkStale, Tick, vars, cache, transactions
<1>2. KeepsCommits /\ StatesKept BY <1>1, SameAside
<1>3. now' \in Time
  <2>1. CASE Tick BY <2>1, AsyncCacheAssumption DEF Tick, Types, Time
  <2>2. CASE now' = now BY <2>2 DEF Types
  <2>. QED BY <2>1, <2>2 DEF DropFuture, MarkStale, vars
<1>4. request' \in [Entry -> RequestState]
  <2>1. request \in [Entry -> RequestState] BY DEF Types
  <2>2. CASE request' = request BY <2>1, <2>2
  <2>3. CASE \E e \in Markable : MarkStale(e)
    <3>1. PICK e \in Markable : request' = [request EXCEPT ![e].stale = TRUE]
      BY <2>3 DEF MarkStale
    <3>2. e \in Entry /\ request[e] \in RequestState BY <2>1, AsyncCacheAssumption
    <3>3. [request[e] EXCEPT !.stale = TRUE] \in RequestState BY <3>2, RequestTypes
    <3>. QED BY <2>1, <3>1, <3>3
  <2>. QED BY <2>2, <2>3 DEF DropFuture, Tick, vars, cache
<1>5. reader' \in [Reader -> ReaderState]
  <2>1. reader \in [Reader -> ReaderState] /\ "dropped" \in Promise BY DEF Types, Promise
  <2>2. \A who : Move(reader, who, "dropped") \in [Reader -> ReaderState] BY <2>1, ReaderTypes
  <2>. QED BY <2>1, <2>2 DEF DropFuture, MarkStale, Tick, vars
<1>6. WorkOK' BY <1>1 DEF Types, WorkOK
<1>. QED BY <1>1, <1>2, <1>3, <1>4, <1>5, <1>6 DEF Aside, Types

LEMMA ReadAside ==
  ASSUME Types, NEW t \in Thread, NEW r \in Reader, NEW e \in Entry, NEW bound \in Time,
         NEW strict \in BOOLEAN, NEW batch \in BOOLEAN, Read(t, r, e, bound, strict, batch)
  PROVE  Types' /\ Aside
<1>1. /\ Idle(t) /\ reader[r].on = "none" /\ UNCHANGED <<now, reading, called, pending, waiting>>
      /\ \/ ReadCached(r, e, bound, strict)
         \/ ReadIssued(r, e, bound, strict)
         \/ ReadQueued(t, r, e, bound, strict)
  BY ReadKinds
<1>2. reading' \in [Entry -> BOOLEAN] BY <1>1 DEF Types
<1>3. CASE ReadCached(r, e, bound, strict) \/ ReadIssued(r, e, bound, strict)
  <2>1. UNCHANGED <<queue, prepare_state, work>> BY <1>3 DEF ReadCached, ReadIssued
  <2>2. KeepsCommits /\ StatesKept BY <2>1, SameAside
  <2>3. /\ Asked(e, bound, strict) \in RequestState
        /\ NewReader(e, "ok", FALSE, bound, strict) \in ReaderState
        /\ NewReader(e, "issued", FALSE, bound, strict) \in ReaderState
    BY LimitTypes DEF Promise
  <2>4. request' \in [Entry -> RequestState] /\ reader' \in [Reader -> ReaderState]
    BY <1>3, <2>3 DEF ReadCached, ReadIssued, Types
  <2>5. WorkOK' BY <2>1 DEF Types, WorkOK
  <2>. QED BY <1>1, <2>1, <2>2, <2>4, <2>5 DEF Aside, Types
<1>4. CASE ReadQueued(t, r, e, bound, strict)
  <2>1. \E s, readers : Looking(t, e, s, readers, <<>>) BY <1>4 DEF ReadQueued
  <2>2. PICK s, readers : Looking(t, e, s, readers, <<>>) BY <2>1
  <2>. QED BY <1>2, <2>2, LookingAside
<1>. QED BY <1>1, <1>3, <1>4

-----------------------------------------------------------------------------
(* Steps of a commit.                                                      *)

KeepsCommitsBut(calls) ==
  \A op \in CommitOperation : \A a : The(op, a) \notin calls => Keeps(The(op, a))

\* A value given a name.
Is(a, b) == a = b

Requests(x, n) ==
  /\ n \in First(x) /\ "RequestCommit" \notin called[n]
  /\ called' = [called EXCEPT ![n] = @ \cup {"RequestCommit"}]
  /\ pending' = [pending EXCEPT ![x] = 1] /\ UNCHANGED <<waiting, queue>>
  /\ StatesKept /\ Plans(The("PrepareForCommit", n))
  /\ KeepsCommitsBut({The("PrepareForCommit", n)})

LEMMA RequestStep ==
  ASSUME Types, NEW t \in Thread, NEW x \in Transaction, RequestCommit(t, x)
  PROVE  /\ Types' /\ UNCHANGED <<now, request, reading, reader>>
         /\ \E n \in Node : n.txn = x /\ Requests(x, n)
<1>1. PICK n \in First(x) : /\ "RequestCommit" \notin called[n] /\ Mark(n, "RequestCommit")
                            /\ Do(t, Item("PrepareForCommit", n))
  BY DEF RequestCommit
<1>2. /\ Idle(t) /\ pending' = [pending EXCEPT ![x] = 1]
      /\ UNCHANGED <<now, request, reading, queue, prepare_state, waiting, reader>>
  BY DEF RequestCommit, cache
<1>3. n \in Node /\ n.txn = x BY DEF First, Registered
<1>4. WorkOK /\ called \in [Node -> SUBSET NodeCall] /\ pending \in [Transaction -> Int]
  BY DEF Types
<1>5. called' = [called EXCEPT ![n] = @ \cup {"RequestCommit"}] BY <1>1 DEF Mark
<1>. SUFFICES ASSUME NEW call, call = The("PrepareForCommit", n), NEW items, items = <<call>>
              PROVE  Types' /\ Requests(x, n)
  BY <1>2, <1>3
<1>6. /\ items \in Seq(Items) /\ Range(items) = {call} /\ Single(items, call) /\ Do(t, items)
  <2>1. call \in Items /\ Item("PrepareForCommit", n) = <<call>>
    BY <1>3, DifferentItems DEF NodeOperation
  <2>. QED BY <1>1, <2>1, OneItem
<1>7. Popped(t) = {} /\ \A y \in Range(items) : y.op = "PrepareForCommit"
  BY <1>2, <1>4, <1>6, PoppedKinds, TheOp
<1>8. WorkOK' /\ Plans(call) BY <1>4, <1>6, DoEffect
<1>9. KeepsCommitsBut({call}) BY <1>4, <1>6, <1>7, DoEffect DEF KeepsCommitsBut
<1>10. StatesKept
  <2>1. \A y \in Range(items) : y.op \notin TurnOperation BY <1>7 DEF TurnOperation
  <2>. QED BY <1>2, <1>4, <1>6, <1>7, <2>1, DoStates
<1>11. called' \in [Node -> SUBSET NodeCall] /\ pending' \in [Transaction -> Int]
  <2>1. "RequestCommit" \in NodeCall BY DEF NodeCall
  <2>2. called' \in [Node -> SUBSET NodeCall] BY <1>4, <1>5, <2>1
  <2>3. pending' \in [Transaction -> Int] BY <1>2, <1>4
  <2>. QED BY <2>2, <2>3
<1>12. Types' BY <1>2, <1>8, <1>11 DEF Types
<1>13. Requests(x, n) BY <1>1, <1>2, <1>5, <1>8, <1>9, <1>10 DEF Requests
<1>. QED BY <1>12, <1>13

\* What PrepareForCommit does to the queue of the node's entry.
JoinsBehind(n, q) ==
  /\ ~ Empty(q) /\ Head(q).txn # n.txn
  /\ queue' = [queue EXCEPT ![n.entry] = Append(q, n)] /\ StatesKept

JoinsInFront(n, q, issued) ==
  /\ Empty(q) \/ Head(q).txn = n.txn
  /\ queue' = [queue EXCEPT ![n.entry] = <<n>> \o q]
  /\ LooksAt(n, <<n>> \o q, issued)

Prepares(n) ==
  /\ Owes(The("PrepareForCommit", n))
  /\ called' = [called EXCEPT ![n] = @ \cup {"PrepareForCommit"}]
  /\ pending' = [pending EXCEPT ![n.txn] = @ + 1]
  /\ waiting' = [waiting EXCEPT ![n.txn] = TRUE]
  /\ Makes(The("PrepareForCommit", n)) /\ Plans(The("PrepareReturned", n))
  /\ KeepsCommitsBut({The("PrepareForCommit", n), The("PrepareReturned", n)})
  /\ JoinsBehind(n, queue[n.entry]) \/ JoinsInFront(n, queue[n.entry], request[n.entry].issued)

LEMMA PrepareStep ==
  ASSUME Types, NEW t \in Thread, PrepareForCommit(t)
  PROVE  /\ Types' /\ UNCHANGED <<now, reading>> /\ \E n \in Node : Prepares(n)
         /\ UNCHANGED <<request, reader>>
<1>1. /\ WorkOK /\ called \in [Node -> SUBSET NodeCall] /\ pending \in [Transaction -> Int]
      /\ waiting \in [Transaction -> BOOLEAN] /\ prepare_state \in [Node -> PrepareState]
      /\ queue \in [Entry -> Seq(Node)] /\ request \in [Entry -> RequestState]
      /\ reader \in [Reader -> ReaderState]
  BY DEF Types
<1>2. At(t, "PrepareForCommit") /\ UNCHANGED <<now, reading>> BY DEF PrepareForCommit
<1>3. /\ Arg(t) \in Node /\ Head(work[t]) = The("PrepareForCommit", Arg(t))
      /\ Popped(t) = {The("PrepareForCommit", Arg(t))}
      /\ Owes(The("PrepareForCommit", Arg(t)))
  BY <1>1, <1>2, PoppedCall DEF NodeOperation
<1>. SUFFICES ASSUME NEW n \in Node, n = Arg(t), NEW e \in Entry, e = n.entry, NEW q, q = queue[e],
                     NEW s, s = request[e], NEW i, i = s.issued,
                     NEW call, call = The("PrepareForCommit", n),
                     NEW ret, ret = The("PrepareReturned", n), NEW items, Is(items, <<ret>>)
              PROVE  Types' /\ Prepares(n) /\ UNCHANGED <<request, reader>>
  <2>1. Arg(t).entry \in Entry BY <1>3 DEF Node
  <2>. QED BY <1>2, <1>3, <2>1 DEF Is
<1>4. /\ Mark(n, "PrepareForCommit")
      /\ pending' = [pending EXCEPT ![n.txn] = @ + 1]
      /\ waiting' = [waiting EXCEPT ![n.txn] = TRUE]
      /\ IF q # <<>> /\ Head(q).txn # n.txn
           THEN /\ queue' = [queue EXCEPT ![e] = Append(q, n)]
                /\ Do(t, Item("PrepareReturned", n))
                /\ UNCHANGED <<request, prepare_state, reader>>
           ELSE MaybeStartReadOrWriteback(t, e, s, <<n>> \o q, reader, Item("PrepareReturned", n))
  BY DEF PrepareForCommit
<1>5. q \in Seq(Node) /\ s \in RequestState /\ i \in BOOLEAN /\ n.txn \in Transaction
  BY <1>1, RequestTypes DEF Node
<1>6. /\ Item("PrepareReturned", n) = items /\ items \in Seq(Items) /\ Range(items) = {ret}
      /\ Single(items, ret) /\ call # ret
      /\ \A y \in Range(items) : y.op = "PrepareReturned"
  <2>1. /\ Item("PrepareReturned", n) = <<ret>> /\ ret \in Items /\ call # ret /\ ret.op = "PrepareReturned"
    BY DifferentItems, TheOp DEF NodeOperation
  <2>2. <<ret>> \in Seq(Items) /\ Range(<<ret>>) = {ret} /\ Single(<<ret>>, ret)
    BY <2>1, OneItem
  <2>. QED BY <2>1, <2>2 DEF Is
<1>7. /\ Popped(t) = {call} /\ call.op = "PrepareForCommit"
      /\ NotOf(Popped(t), {"PrepareDone", "ReadyForCommit"})
      /\ NotOf(Range(items), StartOperation) /\ NotOf(Range(items), TurnOperation)
  BY <1>3, <1>6, TheOp DEF NotOf, StartOperation, TurnOperation
<1>8. /\ called' = [called EXCEPT ![n] = @ \cup {"PrepareForCommit"}]
      /\ called' \in [Node -> SUBSET NodeCall] /\ pending' \in [Transaction -> Int]
      /\ waiting' \in [Transaction -> BOOLEAN]
  BY <1>1, <1>4, <1>5 DEF Mark, NodeCall
<1>9. CASE ~ Empty(q) /\ Head(q).txn # n.txn
  <2>1. /\ queue' = [queue EXCEPT ![e] = Append(q, n)] /\ Do(t, items)
        /\ UNCHANGED <<request, prepare_state, reader>>
    BY <1>4, <1>6, <1>9 DEF Empty
  <2>2. WorkOK' /\ Makes(call) /\ Plans(ret) BY <1>1, <1>6, <1>7, <2>1, DoEffect
  <2>3. KeepsCommitsBut({call, ret}) BY <1>1, <1>6, <1>7, <2>1, DoEffect DEF KeepsCommitsBut
  <2>4. StatesKept
    <3>1. /\ \A y \in Range(items) : y.op \notin TurnOperation
          /\ \A y \in Popped(t) : y.op \notin {"PrepareDone", "ReadyForCommit"}
      BY <1>7 DEF NotOf
    <3>. QED BY <1>1, <1>6, <2>1, <3>1, DoStates
  <2>5. queue' \in [Entry -> Seq(Node)] BY <1>1, <1>5, <2>1, AppendProperties
  <2>6. JoinsBehind(n, queue[n.entry]) BY <1>9, <2>1, <2>4 DEF JoinsBehind
  <2>7. Types' BY <1>1, <1>2, <1>8, <2>1, <2>2, <2>5 DEF Types
  <2>8. Prepares(n) BY <1>3, <1>4, <1>8, <2>2, <2>3, <2>6 DEF Prepares
  <2>. QED BY <2>1, <2>7, <2>8
<1>10. CASE Empty(q) \/ Head(q).txn = n.txn
  <2>. SUFFICES ASSUME NEW p, Is(p, <<n>> \o q), NEW readers, readers = reader
                PROVE  Types' /\ Prepares(n) /\ UNCHANGED <<request, reader>>
    BY DEF Is
  <2>1. MaybeStartReadOrWriteback(t, e, s, p, readers, items) BY <1>4, <1>6, <1>10 DEF Empty, Is
  <2>2. p \in Seq(Node) /\ ~ Empty(p) /\ Head(p) = n
    <3>1. <<n>> \in Seq(Node) /\ Len(<<n>>) = 1 /\ <<n>>[1] = n /\ Len(q) \in Nat
      BY <1>5, LenProperties
    <3>2. p \in Seq(Node) /\ Len(p) = 1 + Len(q) /\ p[1] = n
      BY <1>5, <3>1, ConcatProperties DEF Is
    <3>. QED BY <3>1, <3>2, EmptySeq, HeadTailProperties DEF Empty
  <2>3. /\ queue' = [queue EXCEPT ![e] = p] /\ Look(p, i) /\ OtherCalls(t, items)
    <3>1. /\ WorkOK /\ prepare_state \in [Node -> PrepareState] /\ i \in BOOLEAN /\ s.issued = i
          /\ p \in Seq(Node) /\ items \in Seq(Items)
      BY <1>1, <1>5, <1>6, <2>2
    <3>2. /\ NotOf(Popped(t), {"PrepareDone", "ReadyForCommit"})
          /\ NotOf(Range(items), StartOperation)
      BY <1>7
    <3>. QED BY <2>1, <3>1, <3>2, StartLooks
  <2>4. LooksAt(n, p, i) BY <2>2, <2>3 DEF Look
  <2>5. request' = [request EXCEPT ![e] = s] /\ reader' = reader
    <3>1. /\ prepare_state \in [Node -> PrepareState] /\ s.issued \in BOOLEAN
          /\ p \in Seq(Node) /\ ~ Empty(p) /\ items \in Seq(Items)
      BY <1>1, <1>5, <1>6, <2>2
    <3>2. request' = [request EXCEPT ![e] = s] /\ reader' = readers
      BY <2>1, <3>1, MaybeStartQueued
    <3>. QED BY <3>2
  <2>6. request' = request BY <1>1, <2>5
  <2>7. Makes(call) /\ Plans(ret)
    <3>1. call.op \notin StartOperation /\ ret.op \notin StartOperation
      BY TheOp DEF StartOperation, TurnOperation
    <3>. QED BY <1>6, <1>7, <2>3, <3>1 DEF OtherCalls, OtherCall
  <2>8. KeepsCommitsBut({call, ret})
    <3>. SUFFICES ASSUME NEW op \in CommitOperation, NEW a, The(op, a) \notin {call, ret}
                  PROVE  Keeps(The(op, a))
      BY DEF KeepsCommitsBut
    <3>1. The(op, a).op \notin StartOperation
      BY TheOp DEF CommitOperation, StartOperation, TurnOperation
    <3>. QED BY <1>6, <1>7, <2>3, <3>1 DEF OtherCalls, OtherCall
  <2>9. /\ queue' \in [Entry -> Seq(Node)] /\ prepare_state' \in [Node -> PrepareState] /\ WorkOK'
    <3>1. /\ \A y \in Range(items) : y.op \notin TurnOperation
          /\ \A y \in Popped(t) : y.op \notin {"PrepareDone", "ReadyForCommit"}
      BY <1>7 DEF NotOf
    <3>. QED BY <1>1, <1>5, <1>6, <2>1, <2>2, <3>1, MaybeStartTypes
  <2>10. JoinsInFront(n, queue[n.entry], request[n.entry].issued)
    BY <1>10, <2>3, <2>4 DEF JoinsInFront, Is
  <2>11. Types' BY <1>1, <1>2, <1>8, <2>5, <2>6, <2>9 DEF Types
  <2>12. Prepares(n) BY <1>3, <1>4, <1>8, <2>7, <2>8, <2>10 DEF Prepares
  <2>. QED BY <2>5, <2>6, <2>11, <2>12
<1>. QED BY <1>9, <1>10

\* The call that goes on with the node after n.
NextCall(n) ==
  IF After(n) = {} THEN The("EndOfPhase", n.txn)
  ELSE The("PrepareForCommit", CHOOSE m \in After(n) : TRUE)

\* No node is looked at, and `call` is made.
StatesKeptBut(call) ==
  /\ prepare_state' = prepare_state
  /\ \A op \in {"PrepareDone", "ReadyForCommit"} : \A n : The(op, n) # call => Keeps(The(op, n))
  /\ \A m : Owes(The("Loop", m))' => Owes(The("Loop", m))

\* `call`, the return from PrepareForCommit(n) or PrepareDone(n), is made, and
\* the later of the two goes on with the next node.
MovesOn(n, call) ==
  /\ Owes(call) /\ Makes(call) /\ StatesKeptBut(call)
  /\ waiting[n.txn] => KeepsCommitsBut({call})
  /\ ~ waiting[n.txn] => \A next : next = NextCall(n) => Plans(next) /\ KeepsCommitsBut({call, next})
  /\ waiting' = [waiting EXCEPT ![n.txn] = FALSE]
  /\ UNCHANGED <<pending, queue>>

LEMMA NextCallItem ==
  ASSUME NEW n \in Node
  PROVE  /\ NextCall(n) \in Items /\ NextCall(n).op \in {"EndOfPhase", "PrepareForCommit"}
         /\ Continue(n) = <<NextCall(n)>>
<1>1. n.txn \in Transaction BY DEF Node
<1>2. CASE After(n) = {} BY <1>1, <1>2, DifferentItems, TheOp DEF NextCall, Continue
<1>3. CASE After(n) # {}
  <2>1. (CHOOSE m \in After(n) : TRUE) \in Node BY <1>3 DEF After, Registered
  <2>. QED BY <1>3, <2>1, DifferentItems, TheOp DEF NextCall, Continue, NodeOperation
<1>. QED BY <1>2, <1>3

LEMMA MovesOnStep ==
  ASSUME Types, NEW t \in Thread, NEW op \in {"PrepareReturned", "PrepareDone"}, At(t, op),
         NEW n \in Node, n = Arg(t), Do(t, If(~ waiting[n.txn], Continue(n))),
         waiting' = [waiting EXCEPT ![n.txn] = FALSE], UNCHANGED <<prepare_state, pending, queue>>
  PROVE  WorkOK' /\ MovesOn(n, The(op, n)) /\ waiting' \in [Transaction -> BOOLEAN]
<1>. SUFFICES ASSUME NEW call, call = The(op, n), NEW next, next = NextCall(n), NEW items,
                     Is(items, If(~ waiting[n.txn], Continue(n)))
              PROVE  WorkOK' /\ MovesOn(n, call) /\ waiting' \in [Transaction -> BOOLEAN]
  BY DEF Is
<1>1. WorkOK /\ waiting \in [Transaction -> BOOLEAN] /\ n.txn \in Transaction BY DEF Types, Node
<1>2. Popped(t) = {call} /\ Owes(call) /\ call.op = op
  BY <1>1, PoppedCall, TheOp DEF NodeOperation
<1>3. /\ next \in Items /\ next.op \in {"EndOfPhase", "PrepareForCommit"}
      /\ Continue(n) = <<next>>
  BY NextCallItem
<1>4. /\ items \in Seq(Items) /\ \A x : Single(items, x)
      /\ Range(items) = (IF ~ waiting[n.txn] THEN {next} ELSE {})
  <2>1. CASE waiting[n.txn]
    <3>1. Empty(items) BY <2>1 DEF Is, If, Empty
    <3>. QED BY <2>1, <3>1, NoItems DEF Empty
  <2>2. CASE ~ waiting[n.txn]
    <3>1. Is(items, <<next>>) BY <1>3, <2>2 DEF Is, If
    <3>. QED BY <1>3, <2>2, <3>1, OneItem DEF Is
  <2>. QED BY <2>1, <2>2
<1>5. Do(t, items) BY DEF Is
<1>6. next # call BY <1>2, <1>3
<1>7. WorkOK' /\ Makes(call) BY <1>1, <1>2, <1>4, <1>5, <1>6, DoEffect
<1>8. waiting[n.txn] => KeepsCommitsBut({call})
  BY <1>1, <1>2, <1>4, <1>5, DoEffect DEF KeepsCommitsBut
<1>9. ~ waiting[n.txn] => KeepsCommitsBut({call, next})
  BY <1>1, <1>2, <1>4, <1>5, DoEffect DEF KeepsCommitsBut
<1>10. ~ waiting[n.txn] => Plans(next) BY <1>1, <1>4, <1>5, DoEffect
<1>11. StatesKeptBut(call)
  <2>1. ASSUME NEW o \in {"PrepareDone", "ReadyForCommit"}, NEW m, The(o, m) # call
        PROVE  Keeps(The(o, m))
    <3>1. The(o, m) # next BY <1>3, TheOp
    <3>. QED BY <1>1, <1>2, <1>4, <1>5, <2>1, <3>1, DoEffect
  <2>2. ASSUME NEW m, Owes(The("Loop", m))' PROVE Owes(The("Loop", m))
    <3>1. The("Loop", m) # next BY <1>3, TheOp
    <3>. QED BY <1>1, <1>4, <1>5, <2>2, <3>1, DoEffect
  <2>. QED BY <2>1, <2>2 DEF StatesKeptBut
<1>12. waiting' \in [Transaction -> BOOLEAN] BY <1>1
<1>13. ~ waiting[n.txn] => \A m : m = next => Plans(m) /\ KeepsCommitsBut({call, m})
  BY <1>9, <1>10
<1>. QED BY <1>2, <1>7, <1>8, <1>11, <1>12, <1>13 DEF MovesOn

LEMMA ReturnedStep ==
  ASSUME Types, NEW t \in Thread, PrepareReturned(t)
  PROVE  /\ Types' /\ UNCHANGED <<now, request, reading, reader>>
         /\ \E n \in Node : MovesOn(n, The("PrepareReturned", n)) /\ called' = called
<1>1. /\ At(t, "PrepareReturned") /\ waiting' = [waiting EXCEPT ![Arg(t).txn] = FALSE]
      /\ Do(t, If(~ waiting[Arg(t).txn], Continue(Arg(t))))
      /\ UNCHANGED <<now, request, reading, queue, prepare_state, called, pending, reader>>
  BY DEF PrepareReturned, cache
<1>2. Arg(t) \in Node BY <1>1, PoppedCall DEF NodeOperation, Types
<1>. SUFFICES ASSUME NEW n \in Node, n = Arg(t)
              PROVE  Types' /\ MovesOn(n, The("PrepareReturned", n))
  BY <1>1, <1>2
<1>3. /\ WorkOK' /\ MovesOn(n, The("PrepareReturned", n)) /\ waiting' \in [Transaction -> BOOLEAN]
  BY <1>1, MovesOnStep
<1>. QED BY <1>1, <1>3 DEF Types

LEMMA DoneStep ==
  ASSUME Types, NEW t \in Thread, PrepareDone(t)
  PROVE  /\ Types' /\ UNCHANGED <<now, request, reading, reader>>
         /\ \E n \in Node : /\ MovesOn(n, The("PrepareDone", n))
                            /\ called' = [called EXCEPT ![n] = @ \cup {"PrepareDone"}]
<1>1. /\ At(t, "PrepareDone") /\ waiting' = [waiting EXCEPT ![Arg(t).txn] = FALSE]
      /\ Do(t, If(~ waiting[Arg(t).txn], Continue(Arg(t))))
      /\ called' = [called EXCEPT ![Arg(t)] = @ \cup {"PrepareDone"}]
      /\ UNCHANGED <<now, request, reading, queue, prepare_state, pending, reader>>
  BY DEF PrepareDone, cache, Mark
<1>2. Arg(t) \in Node BY <1>1, PoppedCall DEF NodeOperation, Types
<1>. SUFFICES ASSUME NEW n \in Node, n = Arg(t)
              PROVE  Types' /\ MovesOn(n, The("PrepareDone", n))
  BY <1>1, <1>2
<1>3. /\ WorkOK' /\ MovesOn(n, The("PrepareDone", n)) /\ waiting' \in [Transaction -> BOOLEAN]
  BY <1>1, MovesOnStep
<1>4. called' \in [Node -> SUBSET NodeCall] BY <1>1 DEF Types, NodeCall
<1>. QED BY <1>1, <1>3, <1>4 DEF Types

\* The last decrement of nodes_pending_commit_.
Ends(x) ==
  /\ Owes(The("EndOfPhase", x)) /\ Makes(The("EndOfPhase", x))
  /\ KeepsCommitsBut({The("EndOfPhase", x)}) /\ StatesKept
  /\ Decrement(x, called) /\ UNCHANGED <<waiting, queue>>

Readies(n) ==
  /\ Owes(The("ReadyForCommit", n)) /\ Makes(The("ReadyForCommit", n))
  /\ KeepsCommits /\ StatesKeptBut(The("ReadyForCommit", n))
  /\ Decrement(n.txn, [called EXCEPT ![n] = @ \cup {"ReadyForCommit"}])
  /\ UNCHANGED <<waiting, queue>>

LEMMA DecrementTypes ==
  ASSUME Types, NEW x \in Transaction, NEW marked \in [Node -> SUBSET NodeCall], Decrement(x, marked)
  PROVE  called' \in [Node -> SUBSET NodeCall] /\ pending' \in [Transaction -> Int]
<1>1. "Commit" \in NodeCall /\ pending \in [Transaction -> Int] BY DEF NodeCall, Types
<1>2. pending' \in [Transaction -> Int] BY <1>1 DEF Decrement
<1>3. called' \in [Node -> SUBSET NodeCall] BY <1>1 DEF Decrement
<1>. QED BY <1>2, <1>3

LEMMA EndStep ==
  ASSUME Types, NEW t \in Thread, EndOfPhase(t)
  PROVE  /\ Types' /\ UNCHANGED <<now, request, reading, reader>>
         /\ \E x \in Transaction : Ends(x)
<1>1. /\ At(t, "EndOfPhase") /\ Decrement(Arg(t), called) /\ Do(t, <<>>)
      /\ UNCHANGED <<now, request, reading, queue, prepare_state, waiting, reader>>
  BY DEF EndOfPhase, cache
<1>2. WorkOK /\ called \in [Node -> SUBSET NodeCall] BY DEF Types
<1>3. Arg(t) \in Transaction /\ Popped(t) = {The("EndOfPhase", Arg(t))} /\ Owes(The("EndOfPhase", Arg(t)))
  BY <1>1, <1>2, PoppedCall
<1>. SUFFICES ASSUME NEW x \in Transaction, x = Arg(t), NEW call, call = The("EndOfPhase", x)
              PROVE  Types' /\ Ends(x)
  BY <1>1, <1>3
<1>4. WorkOK' /\ Makes(call) BY <1>1, <1>2, <1>3, NoItems, DoEffect
<1>5. KeepsCommitsBut({call}) BY <1>1, <1>2, <1>3, NoItems, DoEffect DEF KeepsCommitsBut
<1>6. StatesKept
  <2>1. \A y \in Popped(t) : y.op \notin {"PrepareDone", "ReadyForCommit"} BY <1>3, TheOp
  <2>. QED BY <1>1, <1>2, <2>1, NoItems, DoStates
<1>7. called' \in [Node -> SUBSET NodeCall] /\ pending' \in [Transaction -> Int]
  BY <1>1, <1>2, DecrementTypes
<1>8. Types' BY <1>1, <1>4, <1>7 DEF Types
<1>. QED BY <1>1, <1>3, <1>4, <1>5, <1>6, <1>8 DEF Ends

LEMMA ReadyStep ==
  ASSUME Types, NEW t \in Thread, ReadyForCommit(t)
  PROVE  /\ Types' /\ UNCHANGED <<now, request, reading, reader>>
         /\ \E n \in Node : Readies(n)
<1>1. /\ At(t, "ReadyForCommit") /\ Do(t, <<>>)
      /\ Decrement(Arg(t).txn, [called EXCEPT ![Arg(t)] = @ \cup {"ReadyForCommit"}])
      /\ UNCHANGED <<now, request, reading, queue, prepare_state, waiting, reader>>
  BY DEF ReadyForCommit, cache
<1>2. WorkOK /\ called \in [Node -> SUBSET NodeCall] BY DEF Types
<1>3. /\ Arg(t) \in Node /\ Popped(t) = {The("ReadyForCommit", Arg(t))}
      /\ Owes(The("ReadyForCommit", Arg(t)))
  BY <1>1, <1>2, PoppedCall DEF NodeOperation
<1>. SUFFICES ASSUME NEW n \in Node, n = Arg(t), NEW call, call = The("ReadyForCommit", n)
              PROVE  Types' /\ Readies(n)
  BY <1>1, <1>3
<1>4. WorkOK' /\ Makes(call) BY <1>1, <1>2, <1>3, NoItems, DoEffect
<1>5. KeepsCommits
  <2>1. \A y \in Popped(t) : y.op \notin CommitOperation BY <1>3, TheOp DEF CommitOperation
  <2>. QED BY <1>1, <1>2, <2>1, NoItems, DoKeeps DEF KeepsCommits
<1>6. StatesKeptBut(call) BY <1>1, <1>2, <1>3, NoItems, DoEffect DEF StatesKeptBut
<1>7. called' \in [Node -> SUBSET NodeCall] /\ pending' \in [Transaction -> Int]
  <2>1. n.txn \in Transaction /\ "ReadyForCommit" \in NodeCall BY DEF Node, NodeCall
  <2>2. [called EXCEPT ![n] = @ \cup {"ReadyForCommit"}] \in [Node -> SUBSET NodeCall]
    BY <1>2, <2>1
  <2>. QED BY <1>1, <2>1, <2>2, DecrementTypes
<1>8. Types' BY <1>1, <1>4, <1>7 DEF Types
<1>. QED BY <1>1, <1>3, <1>4, <1>5, <1>6, <1>8 DEF Readies

\* Unlink removes one place of the queue.
LEMMA Unlinked ==
  ASSUME NEW q \in Seq(Node), NEW n
  PROVE  /\ Unlink(q, n) \in Seq(Node)
         /\ ~ Contains(q, n) => Unlink(q, n) = q
         /\ Contains(q, n) => \E k \in 1 .. Len(q) :
              /\ q[k] = n /\ Len(Unlink(q, n)) = Len(q) - 1
              /\ \A j \in 1 .. Len(q) - 1 : Unlink(q, n)[j] = IF j < k THEN q[j] ELSE q[j + 1]
<1>1. Len(q) \in Nat /\ DOMAIN q = 1 .. Len(q) BY LenProperties
<1>2. CASE ~ Contains(q, n) BY <1>2 DEF Unlink
<1>3. CASE Contains(q, n)
  <2>1. PICK i \in 1 .. Len(q) : q[i] = n BY <1>3 DEF Contains
  <2>2. Position(q, n) \in 1 .. Len(q) /\ q[Position(q, n)] = n BY <2>1 DEF Position
  <2>. SUFFICES ASSUME NEW k, k = Position(q, n)
                PROVE  /\ Unlink(q, n) \in Seq(Node) /\ Len(Unlink(q, n)) = Len(q) - 1
                       /\ \A j \in 1 .. Len(q) - 1 : Unlink(q, n)[j] = IF j < k THEN q[j] ELSE q[j + 1]
    BY <1>3, <2>2
  <2>. DEFINE a == SubSeq(q, 1, k - 1)
              b == SubSeq(q, k + 1, Len(q))
              p == a \o b
  <2>3. k \in Int /\ k >= 1 /\ k <= Len(q) BY <1>1, <2>2
  <2>4. a \in Seq(Node) /\ Len(a) = k - 1 /\ \A j \in 1 .. k - 1 : a[j] = q[j]
    <3>1. a \in Seq(Node) /\ Len(a) = (IF 1 <= k - 1 THEN (k - 1) - 1 + 1 ELSE 0)
          /\ \A j \in 1 .. (k - 1) - 1 + 1 : a[j] = q[1 + j - 1]
      <4>1. 1 \in Int /\ k - 1 \in Int /\ (1 .. k - 1) \subseteq 1 .. Len(q) BY <1>1, <2>3
      <4>. QED BY <1>1, <2>3, <4>1
    <3>2. \A j \in 1 .. k - 1 : 1 + j - 1 = j /\ j \in 1 .. (k - 1) - 1 + 1 BY <2>3
    <3>. QED BY <2>3, <3>1, <3>2
  <2>5. b \in Seq(Node) /\ Len(b) = Len(q) - k /\ \A j \in 1 .. Len(q) - k : b[j] = q[k + j]
    <3>1. b \in Seq(Node) /\ Len(b) = (IF k + 1 <= Len(q) THEN Len(q) - (k + 1) + 1 ELSE 0)
          /\ \A j \in 1 .. Len(q) - (k + 1) + 1 : b[j] = q[(k + 1) + j - 1]
      <4>1. k + 1 \in Int /\ Len(q) \in Int /\ (k + 1 .. Len(q)) \subseteq 1 .. Len(q)
        BY <1>1, <2>3
      <4>. QED BY <1>1, <2>3, <4>1
    <3>2. \A j \in 1 .. Len(q) - k : (k + 1) + j - 1 = k + j /\ j \in 1 .. Len(q) - (k + 1) + 1
      BY <1>1, <2>3
    <3>. QED BY <1>1, <2>3, <3>1, <3>2
  <2>. HIDE DEF a, b
  <2>6. p \in Seq(Node) /\ Len(p) = Len(a) + Len(b)
        /\ \A j \in 1 .. Len(a) + Len(b) : p[j] = IF j <= Len(a) THEN a[j] ELSE b[j - Len(a)]
    BY <2>4, <2>5, ConcatProperties
  <2>7. Unlink(q, n) = p BY <1>3 DEF Unlink, RemoveAt, a, b
  <2>. HIDE DEF p
  <2>8. Len(p) = Len(q) - 1 BY <1>1, <2>3, <2>4, <2>5, <2>6
  <2>9. ASSUME NEW j \in 1 .. Len(q) - 1 PROVE p[j] = IF j < k THEN q[j] ELSE q[j + 1]
    <3>1. j \in 1 .. Len(a) + Len(b) /\ Len(a) = k - 1 BY <1>1, <2>3, <2>4, <2>5
    <3>2. CASE j < k BY <1>1, <2>3, <2>4, <2>6, <3>1, <3>2
    <3>3. CASE ~ (j < k)
      <4>1. j - (k - 1) \in 1 .. Len(q) - k /\ k + (j - (k - 1)) = j + 1 /\ ~ (j <= k - 1)
        BY <1>1, <2>3, <3>3
      <4>. QED BY <2>5, <2>6, <3>1, <3>3, <4>1
    <3>. QED BY <3>2, <3>3
  <2>. QED BY <2>6, <2>7, <2>8, <2>9
<1>. QED BY <1>2, <1>3

\* The end of a writeback, with what it leaves.
Writing(t, n, s, readers, after) ==
  /\ Idle(t) /\ WritingBack(n) /\ UNCHANGED <<now, reading, pending, waiting>>
  /\ called' = [called EXCEPT ![n] = @ \cup {"Writeback"}]
  /\ s \in RequestState /\ readers \in [Reader -> ReaderState]
  /\ after \in Seq(Items) /\ \A y \in Range(after) : y.op = "SetResult"
  /\ MaybeStartReadOrWriteback(t, n.entry, s, Unlink(queue[n.entry], n), readers,
                               Item("CommitDone", n) \o after)

Writes(n) ==
  /\ WritingBack(n) /\ called' = [called EXCEPT ![n] = @ \cup {"Writeback"}]
  /\ UNCHANGED <<pending, waiting>>
  /\ queue' = [queue EXCEPT ![n.entry] = Unlink(queue[n.entry], n)]
  /\ KeepsCommits
  /\ \/ Empty(Unlink(queue[n.entry], n)) /\ StatesKept
     \/ \E c \in Node : /\ Contains(Unlink(queue[n.entry], n), c) /\ c = Head(Unlink(queue[n.entry], n))
                        /\ LooksAt(c, Unlink(queue[n.entry], n), request'[n.entry].issued)

LEMMA WritingWrites ==
  ASSUME Types, NEW t \in Thread, NEW n \in Node, NEW s, NEW readers, NEW after,
         Writing(t, n, s, readers, after)
  PROVE  Types' /\ Writes(n)
<1>1. /\ WorkOK /\ called \in [Node -> SUBSET NodeCall] /\ prepare_state \in [Node -> PrepareState]
      /\ queue \in [Entry -> Seq(Node)] /\ request \in [Entry -> RequestState]
  BY DEF Types
<1>2. n.entry \in Entry BY DEF Node
<1>. SUFFICES ASSUME NEW e \in Entry, e = n.entry, NEW q, q = queue[e], NEW p, p = Unlink(q, n),
                     NEW i, i = s.issued, NEW mine, Is(mine, Item("CommitDone", n)),
                     NEW items, Is(items, mine \o after)
              PROVE  Types' /\ Writes(n)
  BY <1>2 DEF Is
<1>3. /\ Idle(t) /\ WritingBack(n) /\ UNCHANGED <<now, reading, pending, waiting>>
      /\ called' = [called EXCEPT ![n] = @ \cup {"Writeback"}]
      /\ s \in RequestState /\ readers \in [Reader -> ReaderState]
      /\ after \in Seq(Items) /\ \A y \in Range(after) : y.op = "SetResult"
  BY DEF Writing
<1>4. MaybeStartReadOrWriteback(t, e, s, p, readers, items) BY DEF Writing, Is
<1>5. p \in Seq(Node) BY <1>1, Unlinked
<1>6. i \in BOOLEAN /\ s.issued = i /\ s.issued \in BOOLEAN BY <1>3, RequestTypes
<1>7. mine \in Seq(Items) /\ \A y \in Range(mine) : y.op = "CommitDone"
  <2>1. Is(mine, <<The("CommitDone", n)>>) /\ The("CommitDone", n) \in Items /\ The("CommitDone", n).op = "CommitDone"
    BY DifferentItems, TheOp DEF NodeOperation, Is
  <2>. QED BY <2>1, OneItem DEF Is
<1>8. items \in Seq(Items) /\ \A y \in Range(items) : y.op \in {"CommitDone", "SetResult"}
  <2>1. items \in Seq(Items) /\ Range(items) = Range(mine) \cup Range(after)
    BY <1>3, <1>7, ConcatItems DEF Is
  <2>. QED BY <1>3, <1>7, <2>1
<1>9. Popped(t) = {} /\ NotOf(Popped(t), {"PrepareDone", "ReadyForCommit"})
      /\ NotOf(Range(items), StartOperation) /\ NotOf(Range(items), CommitOperation)
  BY <1>1, <1>3, <1>8, PoppedKinds DEF NotOf, StartOperation, TurnOperation, CommitOperation
<1>10. queue' = [queue EXCEPT ![e] = p] /\ Look(p, i) /\ OtherCalls(t, items)
  <2>1. /\ WorkOK /\ prepare_state \in [Node -> PrepareState] /\ items \in Seq(Items)
    BY <1>1, <1>8
  <2>2. NotOf(Popped(t), {"PrepareDone", "ReadyForCommit"}) /\ NotOf(Range(items), StartOperation)
    BY <1>9
  <2>. QED BY <1>4, <1>5, <1>6, <2>1, <2>2, StartLooks
<1>11. /\ queue' \in [Entry -> Seq(Node)] /\ prepare_state' \in [Node -> PrepareState]
       /\ request' \in [Entry -> RequestState] /\ reader' \in [Reader -> ReaderState]
       /\ WorkOK'
  <2>1. s \in RequestState /\ readers \in [Reader -> ReaderState] /\ items \in Seq(Items)
    BY <1>3, <1>8
  <2>2. /\ \A y \in Range(items) : y.op \notin TurnOperation
        /\ \A y \in Popped(t) : y.op \notin {"PrepareDone", "ReadyForCommit"}
    BY <1>9 DEF NotOf, StartOperation
  <2>. QED BY <1>4, <1>5, <2>1, <2>2, MaybeStartTypes
<1>12. Types'
  <2>1. called' \in [Node -> SUBSET NodeCall] BY <1>1, <1>3 DEF NodeCall
  <2>. QED BY <1>3, <1>11, <2>1 DEF Types
<1>13. KeepsCommits
  <2>. SUFFICES ASSUME NEW op \in CommitOperation, NEW a PROVE Keeps(The(op, a))
    BY DEF KeepsCommits
  <2>1. The(op, a).op \notin StartOperation /\ The(op, a) \notin Range(items)
    BY <1>9, TheOp DEF CommitOperation, StartOperation, TurnOperation, NotOf
  <2>. QED BY <1>9, <1>10, <2>1 DEF OtherCall, OtherCalls
<1>14. ASSUME NEW c \in Node, Contains(p, c), c = Head(p), LooksAt(c, p, i)
       PROVE  LooksAt(c, p, request'[e].issued)
  <2>1. ~ Empty(p) BY <1>14 DEF Empty, Contains
  <2>2. request' = [request EXCEPT ![e] = s]
    <3>1. prepare_state \in [Node -> PrepareState] /\ items \in Seq(Items) BY <1>1, <1>8
    <3>. QED BY <1>4, <1>5, <1>6, <2>1, <3>1, MaybeStartQueued
  <2>3. request'[e] = s BY <1>1, <2>2
  <2>. QED BY <1>14, <2>3
<1>15. \/ Empty(p) /\ StatesKept
       \/ \E c \in Node : Contains(p, c) /\ c = Head(p) /\ LooksAt(c, p, request'[e].issued)
  BY <1>10, <1>14 DEF Look
<1>16. Writes(n) BY <1>3, <1>10, <1>13, <1>15 DEF Writes
<1>. QED BY <1>12, <1>16

\* The request state after WritebackSuccess.
Written(e, known, time) ==
  IF known THEN Answered(e, time)
  ELSE IF time > request[e].time THEN [request[e] EXCEPT !.stale = TRUE]
  ELSE request[e]

WrittenTakes(e, known, time) == TakesQueued(Written(e, known, time), time)

LEMMA WrittenTypes ==
  ASSUME Types, NEW e \in Entry, NEW known, NEW time \in Time
  PROVE  Written(e, known, time) \in RequestState /\ Unqueued(Written(e, known, time)) \in RequestState
<1>1. request[e] \in RequestState BY DEF Types
<1>2. Answered(e, time) \in RequestState /\ [request[e] EXCEPT !.stale = TRUE] \in RequestState
  BY <1>1, RequestTypes DEF Answered
<1>3. Written(e, known, time) \in RequestState BY <1>1, <1>2 DEF Written
<1>. QED BY <1>3, RequestTypes

\* What the readers are told that a writeback takes along.
Told(known) == IF known THEN "ok" ELSE "assumed"

LEMMA WriteWriting ==
  ASSUME Types, NEW t \in Thread, NEW n \in Node, WriteAnswer(t, n)
  PROVE  \/ Writing(t, n, request[n.entry], reader, <<>>)
         \/ \E outcome \in Outcome, stamp \in 1 .. now : \E known \in BOOLEAN, time \in Time, take \in BOOLEAN :
              /\ known <=> outcome = "cached"
              /\ time = (IF outcome = "unmodified" THEN 0 ELSE stamp)
              /\ stamp \in Time /\ stamp > 0 /\ stamp >= request[n.entry].time
              /\ take <=> WrittenTakes(n.entry, known, time)
              /\ Writing(t, n,
                   IF take THEN Unqueued(Written(n.entry, known, time)) ELSE Written(n.entry, known, time),
                   IF take THEN Left(n.entry, Also(n.entry, TRUE), TRUE) ELSE reader,
                   Resolution(Also(n.entry, take), Told(known)))
<1>1. /\ request \in [Entry -> RequestState] /\ reader \in [Reader -> ReaderState] /\ now \in Time
      /\ n.entry \in Entry
  BY DEF Types, Node
<1>2. CASE WritebackError(t, n)
  <2>1. /\ Idle(t) /\ WritingBack(n) /\ UNCHANGED <<now, reading, pending, waiting>>
        /\ called' = [called EXCEPT ![n] = @ \cup {"Writeback"}]
        /\ MaybeStartReadOrWriteback(t, n.entry, request[n.entry], Unlink(queue[n.entry], n), reader,
                                     Item("CommitDone", n) \o <<>>)
    BY <1>2 DEF WritebackError, ResolveIssuedWriteback, Mark
  <2>2. Writing(t, n, request[n.entry], reader, <<>>) BY <1>1, <2>1, NoItems DEF Writing
  <2>. QED BY <2>2
<1>3. ASSUME NEW outcome \in Outcome, NEW stamp \in 1 .. now, WritebackSuccess(t, n, outcome, stamp)
      PROVE  \E known \in BOOLEAN, time \in Time, take \in BOOLEAN :
              /\ known <=> outcome = "cached"
              /\ time = (IF outcome = "unmodified" THEN 0 ELSE stamp)
              /\ stamp \in Time /\ stamp > 0 /\ stamp >= request[n.entry].time
              /\ take <=> WrittenTakes(n.entry, known, time)
              /\ Writing(t, n,
                   IF take THEN Unqueued(Written(n.entry, known, time)) ELSE Written(n.entry, known, time),
                   IF take THEN Left(n.entry, Also(n.entry, TRUE), TRUE) ELSE reader,
                   Resolution(Also(n.entry, take), Told(known)))
  <2>. DEFINE e == n.entry
              known == outcome = "cached"
              time == IF outcome = "unmodified" THEN 0 ELSE stamp
              take == WrittenTakes(e, known, time)
              new == Written(e, known, time)
              also == Also(e, take)
              s == IF take THEN Unqueued(new) ELSE new
              readers == IF take THEN Left(e, Also(e, TRUE), TRUE) ELSE reader
              after == Resolution(also, Told(known))
  <2>1. stamp \in Time /\ time \in Time /\ known \in BOOLEAN
    BY <1>1, AsyncCacheAssumption DEF Time
  <2>2. /\ KvsWritebackSuccess(outcome, stamp).known = known
        /\ KvsWritebackSuccess(outcome, stamp).time = time
    BY DEF KvsWritebackSuccess
  <2>3. /\ Idle(t) /\ WritingBack(n) /\ stamp > 0 /\ stamp >= request[e].time
        /\ UNCHANGED <<now, reading, pending, waiting>>
        /\ ResolveIssuedWriteback(t, n, s, readers, after)
    BY <1>3, <2>2 DEF WritebackSuccess, Written, WrittenTakes, Also, Left, Answered, Told
  <2>4. take \in BOOLEAN
    <3>1. new \in RequestState BY <1>1, <2>1, WrittenTypes
    <3>2. new.queued \in BOOLEAN BY <3>1, RequestTypes
    <3>. QED BY <3>2 DEF WrittenTakes, TakesQueued
  <2>5. s \in RequestState BY <1>1, <2>1, WrittenTypes
  <2>6. readers \in [Reader -> ReaderState] BY <1>1, LeftTypes DEF Also, On
  <2>7. after \in Seq(Items) /\ \A y \in Range(after) : y.op = "SetResult"
    <3>1. also \in SUBSET Reader /\ Told(known) \in {"ok", "assumed", "error"} BY DEF Also, On, Told
    <3>. HIDE DEF also
    <3>. QED BY <3>1, ResolutionItems
  <2>. HIDE DEF known, time, take, new, also, s, readers, after
  <2>8. Writing(t, n, s, readers, after)
    BY <2>3, <2>5, <2>6, <2>7 DEF Writing, ResolveIssuedWriteback, Mark
  <2>9. /\ known <=> outcome = "cached"
        /\ time = (IF outcome = "unmodified" THEN 0 ELSE stamp)
        /\ take <=> WrittenTakes(n.entry, known, time)
    BY DEF known, time, take
  <2>10. Writing(t, n,
                   IF take THEN Unqueued(Written(n.entry, known, time)) ELSE Written(n.entry, known, time),
                   IF take THEN Left(n.entry, Also(n.entry, TRUE), TRUE) ELSE reader,
                   Resolution(Also(n.entry, take), Told(known)))
    BY <2>8 DEF s, readers, after, also, new
  <2>. QED BY <2>1, <2>3, <2>4, <2>9, <2>10
<1>. QED BY <1>2, <1>3 DEF WriteAnswer

\* CommitDone of a node.
Finishes(n) ==
  /\ called' = [called EXCEPT ![n] = @ \cup {"CommitDone"}]
  /\ KeepsCommits /\ StatesKept /\ UNCHANGED <<pending, waiting, queue>>

LEMMA FinishStep ==
  ASSUME Types, NEW t \in Thread, CommitDone(t)
  PROVE  /\ Types' /\ UNCHANGED <<now, request, reading, reader>>
         /\ \E n \in Node : Finishes(n)
<1>1. /\ At(t, "CommitDone") /\ Do(t, <<>>) /\ called' = [called EXCEPT ![Arg(t)] = @ \cup {"CommitDone"}]
      /\ UNCHANGED <<now, request, reading, queue, prepare_state, pending, waiting, reader>>
  BY DEF CommitDone, cache, Mark
<1>2. Arg(t) \in Node BY <1>1, PoppedCall DEF NodeOperation, Types
<1>3. WorkOK' /\ KeepsCommits /\ StatesKept BY <1>1, DoAside
<1>4. called' \in [Node -> SUBSET NodeCall] BY <1>1 DEF Types, NodeCall
<1>5. Types' BY <1>1, <1>3, <1>4 DEF Types
<1>. QED BY <1>1, <1>2, <1>3, <1>5 DEF Finishes

\* Every step is one of these.
Returned(n) == MovesOn(n, The("PrepareReturned", n)) /\ called' = called
Done(n) == /\ MovesOn(n, The("PrepareDone", n))
           /\ called' = [called EXCEPT ![n] = @ \cup {"PrepareDone"}]

NodeStep ==
  \/ Aside
  \/ \E n \in Node : \/ Requests(n.txn, n) \/ Prepares(n) \/ Returned(n) \/ Done(n)
                     \/ Ends(n.txn) \/ Readies(n) \/ Writes(n) \/ Finishes(n)
  \/ \E x \in Transaction : Ends(x)

LEMMA StepKinds ==
  ASSUME Types, [Next]_vars
  PROVE  Types' /\ NodeStep
<1>1. CASE \/ Quiescent /\ UNCHANGED vars
           \/ \E r \in Reader : DropFuture(r)
           \/ \E e \in Markable : MarkStale(e)
           \/ Tick
           \/ UNCHANGED vars
  BY <1>1, OtherAside DEF NodeStep
<1>2. ASSUME NEW t \in Thread, Call(t) PROVE Types' /\ NodeStep
  <2>1. CASE Loop(t) \/ DoRead(t) \/ SetResult(t)
    BY <2>1, LoopAside, DoReadAside, SetResultAside DEF NodeStep
  <2>2. CASE PrepareForCommit(t) BY <2>2, PrepareStep DEF NodeStep
  <2>3. CASE PrepareReturned(t) BY <2>3, ReturnedStep DEF NodeStep, Returned
  <2>4. CASE PrepareDone(t) BY <2>4, DoneStep DEF NodeStep, Done
  <2>5. CASE EndOfPhase(t) BY <2>5, EndStep DEF NodeStep
  <2>6. CASE ReadyForCommit(t) BY <2>6, ReadyStep DEF NodeStep
  <2>7. CASE CommitDone(t) BY <2>7, FinishStep DEF NodeStep
  <2>. QED BY <1>2, <2>1, <2>2, <2>3, <2>4, <2>5, <2>6, <2>7 DEF Call
<1>3. ASSUME NEW t \in Thread, NEW r \in Reader, Submit(t, r) PROVE Types' /\ NodeStep
  <2>1. /\ reader[r].entry \in Entry /\ reading' = reading
        /\ Looking(t, reader[r].entry, SubmitState(reader[r].entry), SubmitReaders(r), <<>>)
    BY <1>3, SubmitLooking
  <2>2. reading' \in [Entry -> BOOLEAN] BY <2>1 DEF Types
  <2>. QED BY <2>1, <2>2, LookingAside DEF NodeStep
<1>4. ASSUME NEW t \in Thread, NEW r \in Reader, NEW bound \in Time,
             NEW strict \in BOOLEAN, NEW batch \in BOOLEAN, Read(t, r, reader[r].entry, bound, strict, batch)
      PROVE  Types' /\ NodeStep
  <2>1. reader[r].entry \in Entry BY DEF Types, ReaderState
  <2>. QED BY <1>4, <2>1, ReadAside DEF NodeStep
<1>5. ASSUME NEW t \in Thread, NEW e \in Entry, ReadAnswer(t, e) PROVE Types' /\ NodeStep
  <2>1. \E s, readers, after : Looking(t, e, s, readers, after) /\ reading' = [reading EXCEPT ![e] = FALSE]
    BY <1>5, AnswerLooking DEF ReadAnswer
  <2>2. reading' \in [Entry -> BOOLEAN] BY <2>1 DEF Types
  <2>. QED BY <2>1, <2>2, LookingAside DEF NodeStep
<1>6. ASSUME NEW t \in Thread, NEW x \in Transaction, RequestCommit(t, x) PROVE Types' /\ NodeStep
  BY <1>6, RequestStep DEF NodeStep
<1>7. ASSUME NEW t \in Thread, NEW n \in Node, WriteAnswer(t, n) PROVE Types' /\ NodeStep
  <2>1. \E s, readers, after : Writing(t, n, s, readers, after) BY <1>7, WriteWriting
  <2>2. PICK s, readers, after : Writing(t, n, s, readers, after) BY <2>1
  <2>. QED BY <2>2, WritingWrites DEF NodeStep
<1>. QED BY <1>1, <1>2, <1>3, <1>4, <1>5, <1>6, <1>7 DEF Next

-----------------------------------------------------------------------------
(* Callbacks: the state of a node says which of its calls were decided on. *)

Callbacks(n) ==
  /\ Once(The("PrepareDone", n)) /\ Once(The("ReadyForCommit", n))
  /\ Owes(The("PrepareDone", n)) => "PrepareDone" \notin called[n]
  /\ Owes(The("ReadyForCommit", n)) => "ReadyForCommit" \notin called[n]
  /\ prepare_state[n] # "kNone" <=> (Owes(The("PrepareDone", n)) \/ "PrepareDone" \in called[n])
  /\ prepare_state[n] = "kReadyForCommitCalled"
       <=> (Owes(The("ReadyForCommit", n)) \/ "ReadyForCommit" \in called[n])

CallbackInv == \A n \in Node : Callbacks(n)

Callback == {"PrepareDone", "ReadyForCommit"}

\* A node that is not called, and whose state stays.
LEMMA CallbacksSame ==
  ASSUME NEW n \in Node, Callbacks(n), prepare_state'[n] = prepare_state[n],
         Keeps(The("PrepareDone", n)), Keeps(The("ReadyForCommit", n)),
         "PrepareDone" \in called'[n] <=> "PrepareDone" \in called[n],
         "ReadyForCommit" \in called'[n] <=> "ReadyForCommit" \in called[n]
  PROVE  Callbacks(n)'
BY DEF Callbacks, Keeps

SameCallbacks == \A n \in Node : \A l \in Callback : l \in called'[n] <=> l \in called[n]

LEMMA CallbacksKept ==
  ASSUME CallbackInv, SameCallbacks, StatesKept
  PROVE  CallbackInv'
BY CallbacksSame DEF CallbackInv, StatesKept, SameCallbacks, Callback

LEMMA CallbacksLook ==
  ASSUME CallbackInv, SameCallbacks, NEW c \in Node, NEW q, NEW issued, LooksAt(c, q, issued),
         prepare_state[c] \in PrepareState, issued \in BOOLEAN
  PROVE  CallbackInv'
<1>. SUFFICES ASSUME NEW n \in Node PROVE Callbacks(n)' BY DEF CallbackInv
<1>0. /\ Callbacks(n)
      /\ "PrepareDone" \in called'[n] <=> "PrepareDone" \in called[n]
      /\ "ReadyForCommit" \in called'[n] <=> "ReadyForCommit" \in called[n]
  BY DEF CallbackInv, SameCallbacks, Callback
<1>1. CASE n # c BY <1>0, <1>1, CallbacksSame DEF LooksAt
<1>2. CASE n = c
  <2>. SUFFICES ASSUME NEW old, old = prepare_state[n], NEW new, new = prepare_state'[n],
                       NEW pd, pd = The("PrepareDone", n), NEW rc, rc = The("ReadyForCommit", n)
                PROVE  Callbacks(n)'
    OBVIOUS
  <2>1. /\ new = (IF old # "kReadyForCommitCalled" /\ issued
                            THEN "kPrepareDoneCalled" ELSE "kReadyForCommitCalled")
        /\ old = "kNone" => Plans(pd)
        /\ old # "kNone" => Keeps(pd)
        /\ old # "kReadyForCommitCalled" /\ ~ issued => Plans(rc)
        /\ old = "kReadyForCommitCalled" \/ issued => Keeps(rc)
    BY <1>2 DEF LooksAt
  <2>2. /\ Once(pd) /\ Once(rc)
        /\ Owes(pd) => "PrepareDone" \notin called[n]
        /\ Owes(rc) => "ReadyForCommit" \notin called[n]
        /\ old # "kNone" <=> (Owes(pd) \/ "PrepareDone" \in called[n])
        /\ old = "kReadyForCommitCalled" <=> (Owes(rc) \/ "ReadyForCommit" \in called[n])
    BY <1>0 DEF Callbacks
  <2>3. /\ Once(pd)' /\ (Owes(pd)' => "PrepareDone" \notin called[n])
        /\ Owes(pd)' \/ "PrepareDone" \in called[n]
    BY <2>1, <2>2 DEF Keeps, Plans
  <2>4. new # "kNone" BY <2>1
  <2>5. CASE old = "kReadyForCommitCalled"
    BY <1>0, <2>1, <2>2, <2>3, <2>4, <2>5 DEF Callbacks, Keeps
  <2>6. CASE old # "kReadyForCommitCalled" /\ issued
    BY <1>0, <2>1, <2>2, <2>3, <2>4, <2>6 DEF Callbacks, Keeps
  <2>7. CASE old # "kReadyForCommitCalled" /\ ~ issued
    BY <1>0, <2>1, <2>2, <2>3, <2>4, <2>7 DEF Callbacks, Plans
  <2>. QED BY <2>5, <2>6, <2>7
<1>. QED BY <1>1, <1>2

LEMMA MarkedCallbacks ==
  ASSUME Types, NEW n \in Node, NEW l, l \notin Callback,
         called' = [called EXCEPT ![n] = @ \cup {l}]
  PROVE  SameCallbacks
BY DEF SameCallbacks, Types

LEMMA KeptStates ==
  ASSUME NEW call, \A op \in Callback : \A n : The(op, n) # call, StatesKeptBut(call)
  PROVE  StatesKept
BY DEF StatesKept, StatesKeptBut, Callback

\* The calls of a node other than its callbacks.
LEMMA OtherThanCallbacks ==
  /\ \A n, m : \A op \in Callback : The(op, m) # The("PrepareReturned", n)
  /\ \A m, n : The("PrepareDone", m) = The("PrepareDone", n) => m = n
  /\ \A m, n : The("ReadyForCommit", m) = The("ReadyForCommit", n) => m = n
  /\ \A m, n : The("ReadyForCommit", m) # The("PrepareDone", n)
BY DifferentItems DEF Callback

\* A callback is made.
LEMMA CallbackMade ==
  ASSUME CallbackInv, NEW n \in Node, NEW op \in Callback, Owes(The(op, n)), Makes(The(op, n)),
         StatesKeptBut(The(op, n)), op \in called'[n],
         \A m \in Node : \A l \in Callback : (m # n \/ l # op) => (l \in called'[m] <=> l \in called[m])
  PROVE  CallbackInv'
<1>. SUFFICES ASSUME NEW m \in Node PROVE Callbacks(m)' BY DEF CallbackInv
<1>1. Callbacks(m) /\ prepare_state'[m] = prepare_state[m] BY DEF CallbackInv, StatesKeptBut
<1>2. /\ \A l \in Callback : (m # n \/ l # op) => Keeps(The(l, m))
  BY DifferentItems DEF StatesKeptBut, Callback
<1>3. CASE m # n BY <1>1, <1>2, <1>3, CallbacksSame DEF Callback
<1>4. CASE m = n /\ op = "PrepareDone"
  <2>1. /\ Keeps(The("ReadyForCommit", n))
        /\ "ReadyForCommit" \in called'[n] <=> "ReadyForCommit" \in called[n]
    BY <1>2, <1>4 DEF Callback
  <2>. QED BY <1>1, <1>4, <2>1 DEF Callbacks, Keeps, Makes
<1>5. CASE m = n /\ op = "ReadyForCommit"
  <2>1. /\ Keeps(The("PrepareDone", n))
        /\ "PrepareDone" \in called'[n] <=> "PrepareDone" \in called[n]
    BY <1>2, <1>5 DEF Callback
  <2>. QED BY <1>1, <1>5, <2>1 DEF Callbacks, Keeps, Makes
<1>. QED BY <1>3, <1>4, <1>5 DEF Callback

\* What Decrement does to the calls of nodes.
LEMMA DecrementMarks ==
  ASSUME Types, NEW x, NEW marked \in [Node -> SUBSET NodeCall], Decrement(x, marked)
  PROVE  \A m \in Node : \A l : l # "Commit" => (l \in called'[m] <=> l \in marked[m])
BY DEF Decrement

LEMMA CallbackStep ==
  ASSUME Types, CallbackInv, NodeStep, Types'
  PROVE  CallbackInv'
<1>0. /\ called \in [Node -> SUBSET NodeCall] /\ prepare_state \in [Node -> PrepareState]
      /\ request \in [Entry -> RequestState]
  BY DEF Types
<1>00. \A e \in Entry : request[e].issued \in BOOLEAN /\ request'[e].issued \in BOOLEAN
  <2>1. request' \in [Entry -> RequestState] BY DEF Types
  <2>. QED BY <1>0, <2>1, RequestTypes
<1>1. CASE Aside
  <2>1. SameCallbacks BY <1>1 DEF Aside, SameCallbacks
  <2>2. CASE StatesKept BY <2>1, <2>2, CallbacksKept
  <2>3. ASSUME NEW e \in Entry, NEW c \in Node, LooksAt(c, queue[e], request'[e].issued)
        PROVE  CallbackInv'
    <3>. SUFFICES ASSUME NEW q, q = queue[e], NEW i, i = request'[e].issued PROVE CallbackInv'
      OBVIOUS
    <3>1. LooksAt(c, q, i) /\ i \in BOOLEAN /\ prepare_state[c] \in PrepareState
      BY <1>0, <1>00, <2>3
    <3>. QED BY <2>1, <3>1, CallbacksLook
  <2>. QED BY <1>1, <2>2, <2>3 DEF Aside
<1>2. ASSUME NEW n \in Node, Requests(n.txn, n) \/ Finishes(n) PROVE CallbackInv'
  <2>1. \E l : l \notin Callback /\ called' = [called EXCEPT ![n] = @ \cup {l}]
    BY <1>2 DEF Requests, Finishes, Callback
  <2>2. SameCallbacks BY <2>1, MarkedCallbacks
  <2>3. StatesKept BY <1>2 DEF Requests, Finishes
  <2>. QED BY <2>2, <2>3, CallbacksKept
<1>3. ASSUME NEW n \in Node, Prepares(n) PROVE CallbackInv'
  <2>1. SameCallbacks
    <3>1. called' = [called EXCEPT ![n] = @ \cup {"PrepareForCommit"}] /\ "PrepareForCommit" \notin Callback
      BY <1>3 DEF Prepares, Callback
    <3>. QED BY <3>1, MarkedCallbacks
  <2>2. CASE JoinsBehind(n, queue[n.entry]) BY <2>1, <2>2, CallbacksKept DEF JoinsBehind
  <2>3. CASE JoinsInFront(n, queue[n.entry], request[n.entry].issued)
    <3>. SUFFICES ASSUME NEW q, Is(q, <<n>> \o queue[n.entry]), NEW i, i = request[n.entry].issued
                  PROVE  CallbackInv'
      BY DEF Is
    <3>1. n.entry \in Entry BY DEF Node
    <3>2. LooksAt(n, q, i) /\ i \in BOOLEAN /\ prepare_state[n] \in PrepareState
      BY <1>0, <1>00, <2>3, <3>1 DEF JoinsInFront, Is
    <3>. QED BY <2>1, <3>2, CallbacksLook
  <2>. QED BY <1>3, <2>2, <2>3 DEF Prepares
<1>4. ASSUME NEW n \in Node, Returned(n) PROVE CallbackInv'
  <2>1. SameCallbacks BY <1>4 DEF Returned, SameCallbacks
  <2>2. StatesKept
    <3>. SUFFICES ASSUME NEW call, call = The("PrepareReturned", n) PROVE StatesKept OBVIOUS
    <3>1. StatesKeptBut(call) /\ \A op \in Callback : \A m : The(op, m) # call
      BY <1>4, OtherThanCallbacks DEF Returned, MovesOn
    <3>. QED BY <3>1, KeptStates
  <2>. QED BY <2>1, <2>2, CallbacksKept
<1>5. ASSUME NEW n \in Node, Done(n) PROVE CallbackInv'
  <2>1. "PrepareDone" \in called'[n] BY <1>0, <1>5 DEF Done
  <2>2. \A m \in Node : \A l \in Callback : (m # n \/ l # "PrepareDone") => (l \in called'[m] <=> l \in called[m])
    BY <1>0, <1>5 DEF Done
  <2>. QED BY <1>5, <2>1, <2>2, CallbackMade DEF Done, MovesOn, Callback
<1>6. ASSUME NEW x, Ends(x) PROVE CallbackInv'
  <2>1. SameCallbacks BY <1>0, <1>6, DecrementMarks DEF Ends, SameCallbacks, Callback
  <2>. QED BY <1>6, <2>1, CallbacksKept DEF Ends
<1>7. ASSUME NEW n \in Node, Readies(n) PROVE CallbackInv'
  <2>. SUFFICES ASSUME NEW marked, marked = [called EXCEPT ![n] = @ \cup {"ReadyForCommit"}]
                PROVE  CallbackInv'
    OBVIOUS
  <2>1. marked \in [Node -> SUBSET NodeCall] /\ Decrement(n.txn, marked)
    BY <1>0, <1>7 DEF Readies, NodeCall
  <2>2. \A m \in Node : \A l : l # "Commit" => (l \in called'[m] <=> l \in marked[m])
    <3>. SUFFICES ASSUME NEW x, x = n.txn PROVE  \A m \in Node : \A l : l # "Commit" => (l \in called'[m] <=> l \in marked[m])
      OBVIOUS
    <3>. QED BY <2>1, DecrementMarks
  <2>3. "ReadyForCommit" \in called'[n] BY <1>0, <2>2
  <2>4. \A m \in Node : \A l \in Callback : (m # n \/ l # "ReadyForCommit") => (l \in called'[m] <=> l \in called[m])
    BY <1>0, <2>2 DEF Callback
  <2>. QED BY <1>7, <2>3, <2>4, CallbackMade DEF Readies, Callback
<1>8. ASSUME NEW n \in Node, Writes(n) PROVE CallbackInv'
  <2>1. SameCallbacks BY <1>8, MarkedCallbacks DEF Writes, Callback
  <2>2. CASE StatesKept BY <2>1, <2>2, CallbacksKept
  <2>. SUFFICES ASSUME NEW q, q = Unlink(queue[n.entry], n), NEW i, i = request'[n.entry].issued,
                       NEW c \in Node, LooksAt(c, q, i)
                PROVE  CallbackInv'
    BY <1>8, <2>2 DEF Writes
  <2>3. n.entry \in Entry BY DEF Node
  <2>4. i \in BOOLEAN /\ prepare_state[c] \in PrepareState BY <1>0, <1>00, <2>3
  <2>. QED BY <2>1, <2>4, CallbacksLook
<1>. QED BY <1>1, <1>2, <1>3, <1>4, <1>5, <1>6, <1>7, <1>8 DEF NodeStep

LEMMA NothingOwed ==
  ASSUME Init
  PROVE  \A x : ~ Owes(x) /\ Once(x)
<1>1. \A t \in Thread : DOMAIN work[t] = {} BY DEF Init
<1>. QED BY <1>1 DEF Owes, Once

LEMMA CallbackInit == Init => CallbackInv
<1>. SUFFICES ASSUME Init, NEW n \in Node PROVE Callbacks(n) BY DEF CallbackInv
<1>1. prepare_state[n] = "kNone" /\ called[n] \in {{}, {"Register"}} BY DEF Init
<1>. QED BY <1>1, NothingOwed DEF Callbacks

\* At most one callback of a kind, made or still to be made, per node.
LEMMA CallbacksCounted ==
  ASSUME Types, CallbackInv
  PROVE  CallbacksOnce
<1>. SUFFICES ASSUME NEW n \in Node, NEW op \in {"PrepareDone", "ReadyForCommit"}
              PROVE  Cardinality(Owed(op, n)) + (IF op \in called[n] THEN 1 ELSE 0) <= 1
  BY DEF CallbacksOnce
<1>1. /\ Once(The(op, n))
      /\ Owes(The(op, n)) => op \notin called[n]
  BY DEF CallbackInv, Callbacks
<1>2. ASSUME NEW y \in Items, y.op = op, y.arg = n PROVE y = The(op, n)
  BY <1>2 DEF Items, NodeOperation, The
<1>3. ASSUME NEW p \in Owed(op, n)
      PROVE  \E t \in Thread : \E i \in DOMAIN work[t] : p = <<t, i>> /\ work[t][i] = The(op, n)
  <2>1. PICK t \in Thread : p \in {t} \X {i \in DOMAIN work[t] : work[t][i].op = op /\ work[t][i].arg = n}
    BY DEF Owed
  <2>2. PICK i \in DOMAIN work[t] : p = <<t, i>> /\ work[t][i].op = op /\ work[t][i].arg = n
    BY <2>1
  <2>3. work[t][i] \in Items BY ElementOfSeq DEF Types, WorkOK
  <2>. QED BY <1>2, <2>2, <2>3
<1>4. \A p, r \in Owed(op, n) : p = r
  <2>. SUFFICES ASSUME NEW p \in Owed(op, n), NEW r \in Owed(op, n) PROVE p = r OBVIOUS
  <2>1. PICK t \in Thread : \E i \in DOMAIN work[t] : p = <<t, i>> /\ work[t][i] = The(op, n)
    BY <1>3
  <2>2. PICK i \in DOMAIN work[t] : p = <<t, i>> /\ work[t][i] = The(op, n) BY <2>1
  <2>3. PICK u \in Thread : \E j \in DOMAIN work[u] : r = <<u, j>> /\ work[u][j] = The(op, n)
    BY <1>3
  <2>4. PICK j \in DOMAIN work[u] : r = <<u, j>> /\ work[u][j] = The(op, n) BY <2>3
  <2>5. t = u /\ i = j BY <1>1, <2>2, <2>4 DEF Once
  <2>. QED BY <2>2, <2>4, <2>5
<1>5. CASE Owed(op, n) = {} BY <1>5, FS_EmptySet
<1>6. CASE Owed(op, n) # {}
  <2>1. PICK p \in Owed(op, n) : TRUE BY <1>6
  <2>2. Owed(op, n) = {p} BY <1>4, <2>1
  <2>3. Cardinality(Owed(op, n)) = 1 BY <2>2, FS_Singleton
  <2>4. op \notin called[n]
    <3>1. \E t \in Thread : \E i \in DOMAIN work[t] : work[t][i] = The(op, n) BY <1>3, <2>1
    <3>2. Owes(The(op, n)) BY <3>1, Zenon DEF Owes
    <3>. QED BY <1>1, <3>2
  <2>. QED BY <2>3, <2>4
<1>. QED BY <1>5, <1>6

-----------------------------------------------------------------------------
(* Preparing the nodes of a transaction, one after the other.              *)

NodesOf(x) == {n \in Node : n.txn = x}

Label == {"Register", "RequestCommit", "PrepareForCommit", "PrepareDone", "ReadyForCommit", "Commit"}

\* None of the calls of a commit was made on n.
Fresh(n) ==
  \A l \in {"PrepareForCommit", "PrepareDone", "ReadyForCommit", "Commit"} : l \notin called[n]

\* PrepareForCommit(n) was not called, and is not about to be.
Untouched(n) ==
  Fresh(n) /\ ~ Owes(The("PrepareReturned", n)) /\ ~ Owes(The("PrepareForCommit", n))

\* PrepareForCommit(n) is the next call.
Entering(n) ==
  /\ Fresh(n) /\ ~ Owes(The("PrepareReturned", n))
  /\ Owes(The("PrepareForCommit", n)) /\ Once(The("PrepareForCommit", n))

\* PrepareForCommit(n) has not returned, or PrepareDone(n) was not called.
Within(n) ==
  /\ "PrepareForCommit" \in called[n] /\ ~ Owes(The("PrepareForCommit", n))
  /\ Once(The("PrepareReturned", n))
  /\ Owes(The("PrepareReturned", n)) \/ "PrepareDone" \notin called[n]
  /\ waiting[n.txn] <=> (Owes(The("PrepareReturned", n)) /\ "PrepareDone" \notin called[n])

\* PrepareForCommit(n) has returned and PrepareDone(n) was called.
Passed(n) ==
  /\ "PrepareForCommit" \in called[n] /\ "PrepareDone" \in called[n]
  /\ ~ Owes(The("PrepareReturned", n)) /\ ~ Owes(The("PrepareForCommit", n))

\* Nodes that nodes_pending_commit_ counts.
Unready(x) == {n \in NodesOf(x) : /\ "PrepareForCommit" \in called[n]
                                  /\ "ReadyForCommit" \notin called[n]}

Committed(x) == \E n \in NodesOf(x) : "Commit" \in called[n]

FirstRequested(x) == \A m \in First(x) : "RequestCommit" \in called[m]

Unrequested(x) ==
  /\ \A n \in NodesOf(x) : Untouched(n) /\ "RequestCommit" \notin called[n]
  /\ ~ Owes(The("EndOfPhase", x))
  /\ pending[x] = 0

\* The commit of x has come to node n.
CommitAt(x, n) ==
  /\ n \in Registered(x) /\ (Entering(n) \/ Within(n))
  /\ \A m \in NodesOf(x) \ {n} :
       IF m \in Registered(x) /\ NodeBefore(m, n) THEN Passed(m) ELSE Untouched(m)
  /\ FirstRequested(x)
  /\ ~ Committed(x) /\ ~ Owes(The("EndOfPhase", x))
  /\ pending[x] = Cardinality(Unready(x)) + 1

\* All nodes of x are prepared.
AllPrepared(x) ==
  /\ \A m \in NodesOf(x) : IF m \in Registered(x) THEN Passed(m) ELSE Untouched(m)
  /\ FirstRequested(x)
  /\ Once(The("EndOfPhase", x))
  /\ Owes(The("EndOfPhase", x)) => ~ Committed(x) /\ pending[x] = Cardinality(Unready(x)) + 1
  /\ ~ Owes(The("EndOfPhase", x)) => pending[x] = Cardinality(Unready(x))
  /\ Committed(x) => Unready(x) = {}

Progress(x) == Unrequested(x) \/ (\E n \in NodesOf(x) : CommitAt(x, n)) \/ AllPrepared(x)

ProgressInv == \A x \in Transaction : Progress(x)

\* What other transactions see of a step.
SameNode(n) ==
  /\ \A l \in Label : l \in called'[n] <=> l \in called[n]
  /\ Keeps(The("PrepareForCommit", n)) /\ Keeps(The("PrepareReturned", n))

SameTransaction(x) ==
  /\ pending'[x] = pending[x] /\ (waiting'[x] <=> waiting[x]) /\ Keeps(The("EndOfPhase", x))
  /\ \A n \in NodesOf(x) : SameNode(n)

LEMMA SameStatus ==
  ASSUME NEW n, SameNode(n), waiting'[n.txn] <=> waiting[n.txn]
  PROVE  /\ Untouched(n) => Untouched(n)'
         /\ Entering(n) => Entering(n)'
         /\ Within(n) => Within(n)'
         /\ Passed(n) => Passed(n)'
<1>1. /\ \A l \in Label : l \in called'[n] <=> l \in called[n]
      /\ Keeps(The("PrepareForCommit", n)) /\ Keeps(The("PrepareReturned", n))
  BY DEF SameNode
<1>2. Fresh(n)' <=> Fresh(n) BY <1>1 DEF Fresh, Label
<1>3. /\ "PrepareForCommit" \in called'[n] <=> "PrepareForCommit" \in called[n]
      /\ "PrepareDone" \in called'[n] <=> "PrepareDone" \in called[n]
  BY <1>1 DEF Label
<1>. QED BY <1>1, <1>2, <1>3 DEF Untouched, Entering, Within, Passed, Keeps

\* The tree of a transaction does not change once it commits.
SameTree(x) == Registered(x)' = Registered(x) /\ First(x)' = First(x)

LEMMA TreeSame ==
  ASSUME NEW x, \A n \in NodesOf(x) : "Register" \in called'[n] <=> "Register" \in called[n]
  PROVE  SameTree(x)
<1>1. Registered(x)' = Registered(x) BY DEF Registered, NodesOf
<1>. QED BY <1>1 DEF SameTree, First

LEMMA ProgressFrame ==
  ASSUME NEW x, Progress(x), SameTransaction(x)
  PROVE  Progress(x)'
<1>1. /\ pending'[x] = pending[x] /\ (waiting'[x] <=> waiting[x])
      /\ \A n \in NodesOf(x) : SameNode(n)
      /\ Owes(The("EndOfPhase", x))' <=> Owes(The("EndOfPhase", x))
      /\ Once(The("EndOfPhase", x)) => Once(The("EndOfPhase", x))'
  BY DEF SameTransaction, Keeps
<1>2. \A n \in NodesOf(x) : \A l \in Label : l \in called'[n] <=> l \in called[n]
  BY <1>1 DEF SameNode
<1>3. Registered(x)' = Registered(x) /\ First(x)' = First(x)
  BY <1>2, TreeSame DEF Label, SameTree
<1>4. \A n \in NodesOf(x) : /\ Untouched(n) => Untouched(n)'
                            /\ Entering(n) => Entering(n)'
                            /\ Within(n) => Within(n)'
                            /\ Passed(n) => Passed(n)'
  BY <1>1, SameStatus DEF NodesOf
<1>5. Unready(x)' = Unready(x) /\ (Committed(x)' <=> Committed(x))
  BY <1>2 DEF Unready, Committed, Label, NodesOf
<1>6. FirstRequested(x) => FirstRequested(x)'
  <2>1. First(x) \subseteq NodesOf(x) BY DEF First, Registered, NodesOf
  <2>. QED BY <1>2, <1>3, <2>1 DEF FirstRequested, Label
<1>7. CASE Unrequested(x)
  <2>1. Unrequested(x)' BY <1>1, <1>2, <1>4, <1>7 DEF Unrequested, Label, NodesOf
  <2>. QED BY <2>1 DEF Progress
<1>8. ASSUME NEW n \in NodesOf(x), CommitAt(x, n) PROVE CommitAt(x, n)'
  <2>1. \A m \in NodesOf(x) \ {n} :
       IF m \in Registered(x)' /\ NodeBefore(m, n) THEN Passed(m)' ELSE Untouched(m)'
    BY <1>3, <1>4, <1>8 DEF CommitAt
  <2>2. Cardinality(Unready(x))' = Cardinality(Unready(x)) BY <1>5
  <2>. QED BY <1>1, <1>3, <1>4, <1>5, <1>6, <1>8, <2>1, <2>2 DEF CommitAt, NodesOf, NodeBefore
<1>9. CASE AllPrepared(x)
  <2>1. \A m \in NodesOf(x) : IF m \in Registered(x)' THEN Passed(m)' ELSE Untouched(m)'
    BY <1>3, <1>4, <1>9 DEF AllPrepared
  <2>2. Cardinality(Unready(x))' = Cardinality(Unready(x)) BY <1>5
  <2>3. AllPrepared(x)' BY <1>1, <1>5, <1>6, <1>9, <2>1, <2>2 DEF AllPrepared, NodesOf
  <2>. QED BY <2>3 DEF Progress
<1>. QED BY <1>7, <1>8, <1>9 DEF Progress, NodesOf

LEMMA NodeFields ==
  ASSUME NEW m \in Node
  PROVE  /\ m.txn \in Transaction /\ m.entry \in Entry /\ m.copy \in 1 .. Copies
         /\ m.entry \in Nat /\ m.copy \in Nat
         /\ m = [txn |-> m.txn, entry |-> m.entry, copy |-> m.copy]
<1>1. /\ m.txn \in Transaction /\ m.entry \in Entry /\ m.copy \in 1 .. Copies
      /\ m = [txn |-> m.txn, entry |-> m.entry, copy |-> m.copy]
  BY DEF Node
<1>2. Entry \subseteq Nat /\ Copies \in Nat BY AsyncCacheAssumption
<1>. QED BY <1>1, <1>2

\* The order of the nodes in a tree.
LEMMA TreeOrder ==
  ASSUME NEW x
  PROVE  /\ \A m, n \in NodesOf(x) : m = n \/ NodeBefore(m, n) \/ NodeBefore(n, m)
         /\ \A m, n \in NodesOf(x) : NodeBefore(m, n) => ~ NodeBefore(n, m) /\ m # n
         /\ \A m, n, k \in NodesOf(x) : NodeBefore(m, n) /\ NodeBefore(n, k) => NodeBefore(m, k)
<1>1. \A m \in NodesOf(x) : /\ m.entry \in Nat /\ m.copy \in Nat
                            /\ m = [txn |-> x, entry |-> m.entry, copy |-> m.copy]
  BY NodeFields DEF NodesOf
<1>2. \A m, n \in NodesOf(x) : m.entry = n.entry /\ m.copy = n.copy => m = n BY <1>1
<1>3. ASSUME NEW m \in NodesOf(x), NEW n \in NodesOf(x)
      PROVE  /\ m = n \/ NodeBefore(m, n) \/ NodeBefore(n, m)
             /\ NodeBefore(m, n) => ~ NodeBefore(n, m) /\ m # n
             /\ \A k \in NodesOf(x) : NodeBefore(m, n) /\ NodeBefore(n, k) => NodeBefore(m, k)
  <2>1. /\ m.entry \in Nat /\ m.copy \in Nat /\ n.entry \in Nat /\ n.copy \in Nat
        /\ m.entry = n.entry /\ m.copy = n.copy => m = n
    BY <1>1, <1>2
  <2>2. /\ m = n \/ NodeBefore(m, n) \/ NodeBefore(n, m)
        /\ NodeBefore(m, n) => ~ NodeBefore(n, m)
    BY <2>1 DEF NodeBefore
  <2>3. NodeBefore(m, n) => m # n BY <2>1 DEF NodeBefore
  <2>4. ASSUME NEW k \in NodesOf(x), NodeBefore(m, n), NodeBefore(n, k) PROVE NodeBefore(m, k)
    <3>1. k.entry \in Nat /\ k.copy \in Nat BY <1>1
    <3>. QED BY <2>1, <2>4, <3>1 DEF NodeBefore
  <2>. QED BY <2>2, <2>3, <2>4
<1>. QED BY <1>3

\* A set of numbers that is not empty has a least element.
LEMMA LeastNumber ==
  ASSUME NEW S, S \subseteq Nat, S # {}
  PROVE  \E k \in S : \A j \in S : k <= j
<1>1. PICK k \in S : \A j \in S : ~ (<<j, k>> \in OpToRel(<, Nat))
  BY NatLessThanWellFounded, WFMin
<1>2. \A j \in S : ~ (j < k) /\ k \in Nat /\ j \in Nat BY <1>1 DEF OpToRel
<1>. QED BY <1>2

\* A set of nodes of a tree that is not empty has a first node.
LEMMA FirstNode ==
  ASSUME NEW x, NEW S \in SUBSET NodesOf(x), S # {}
  PROVE  \E m \in S : \A k \in S : k = m \/ NodeBefore(m, k)
<1>0. S \subseteq NodesOf(x) OBVIOUS
<1>1. \A m \in S : /\ m.entry \in Nat /\ m.copy \in Nat
                   /\ m = [txn |-> x, entry |-> m.entry, copy |-> m.copy]
  BY <1>0, NodeFields DEF NodesOf
<1>. DEFINE E == {m.entry : m \in S}
<1>2. PICK e \in E : \A f \in E : e <= f
  <2>1. E # {} /\ E \subseteq Nat BY <1>1
  <2>. HIDE DEF E
  <2>. QED BY <2>1, LeastNumber
<1>. DEFINE C == {m.copy : m \in {k \in S : k.entry = e}}
<1>3. PICK c \in C : \A d \in C : c <= d
  <2>1. C # {} /\ C \subseteq Nat BY <1>1, <1>2
  <2>. HIDE DEF C
  <2>. QED BY <2>1, LeastNumber
<1>4. PICK m \in S : m.entry = e /\ m.copy = c BY <1>3
<1>5. ASSUME NEW k \in S PROVE k = m \/ NodeBefore(m, k)
  <2>1. m.entry <= k.entry BY <1>2, <1>4
  <2>2. k.entry = m.entry => m.copy <= k.copy BY <1>3, <1>4
  <2>3. k.entry = m.entry /\ k.copy = m.copy => k = m BY <1>1
  <2>. QED BY <1>1, <2>1, <2>2, <2>3 DEF NodeBefore
<1>. QED BY <1>4, <1>5

LEMMA FiniteNodes ==
  ASSUME NEW x, NEW S \in SUBSET NodesOf(x)
  PROVE  IsFiniteSet(S) /\ Cardinality(S) \in Nat /\ (Cardinality(S) = 0 <=> S = {})
<1>. DEFINE P == Entry \X (1 .. Copies)
            f == [n \in NodesOf(x) |-> <<n.entry, n.copy>>]
<1>1. IsFiniteSet(P)
  <2>1. Copies \in Int /\ 1 \in Int /\ IsFiniteSet(Entry) BY AsyncCacheAssumption
  <2>2. IsFiniteSet(1 .. Copies) BY <2>1, FS_Interval
  <2>. QED BY <2>1, <2>2, FS_Product
<1>2. \A n \in NodesOf(x) : /\ n \in [txn : Transaction, entry : Entry, copy : 1 .. Copies]
                            /\ n.txn = x
  BY DEF NodesOf, Node
<1>3. f \in Injection(NodesOf(x), P)
  <2>1. f \in [NodesOf(x) -> P] BY <1>2
  <2>2. ASSUME NEW m \in NodesOf(x), NEW n \in NodesOf(x), f[m] = f[n] PROVE m = n BY <1>2, <2>2
  <2>. QED BY <2>1, <2>2 DEF Injection, IsInjective
<1>4. IsFiniteSet(NodesOf(x))
  <2>. HIDE DEF f, P
  <2>. QED BY <1>1, <1>3, FS_Injection
<1>5. IsFiniteSet(S) BY <1>4, FS_Subset
<1>. QED BY <1>5, FS_CardinalityType, FS_EmptySet

\* Where a call or a label says the commit is.
LEMMA Tokens ==
  ASSUME NEW x, Progress(x), NEW n \in NodesOf(x)
  PROVE  /\ Owes(The("PrepareForCommit", n)) => CommitAt(x, n) /\ Entering(n)
         /\ Owes(The("PrepareReturned", n)) => CommitAt(x, n) /\ Within(n)
         /\ "PrepareForCommit" \in called[n] /\ "PrepareDone" \notin called[n] => CommitAt(x, n) /\ Within(n)
         /\ Owes(The("EndOfPhase", x)) => AllPrepared(x)
         /\ "PrepareForCommit" \in called[n] => ~ Unrequested(x)
         /\ "Commit" \in called[n] => /\ AllPrepared(x) /\ n \in Registered(x)
                                      /\ "ReadyForCommit" \in called[n] /\ "PrepareForCommit" \in called[n]
<1>1. Untouched(n) => /\ ~ Owes(The("PrepareForCommit", n)) /\ ~ Owes(The("PrepareReturned", n))
                      /\ "PrepareForCommit" \notin called[n] /\ "Commit" \notin called[n]
  BY DEF Untouched, Fresh
<1>2. Passed(n) => /\ ~ Owes(The("PrepareForCommit", n)) /\ ~ Owes(The("PrepareReturned", n))
                   /\ "PrepareDone" \in called[n] /\ "PrepareForCommit" \in called[n]
  BY DEF Passed
<1>3. Entering(n) => /\ Owes(The("PrepareForCommit", n)) /\ ~ Owes(The("PrepareReturned", n))
                     /\ "PrepareForCommit" \notin called[n] /\ "Commit" \notin called[n]
  BY DEF Entering, Fresh
<1>4. Within(n) => ~ Owes(The("PrepareForCommit", n)) BY DEF Within
<1>5. CASE Unrequested(x) BY <1>1, <1>5 DEF Unrequested
<1>6. ASSUME NEW k \in NodesOf(x), CommitAt(x, k)
      PROVE  /\ n = k => Entering(n) \/ Within(n)
             /\ n # k => Passed(n) \/ Untouched(n)
             /\ "Commit" \notin called[n] /\ ~ Owes(The("EndOfPhase", x)) /\ ~ Unrequested(x)
  <2>1. /\ n = k => Entering(n) \/ Within(n)
        /\ n # k => Passed(n) \/ Untouched(n)
        /\ ~ Owes(The("EndOfPhase", x))
    BY <1>6 DEF CommitAt
  <2>2. "Commit" \notin called[n] BY <1>6 DEF CommitAt, Committed
  <2>3. ~ Untouched(k) BY <1>6 DEF CommitAt, Entering, Within, Untouched, Fresh
  <2>. QED BY <2>1, <2>2, <2>3 DEF Unrequested
<1>7. ASSUME NEW k \in NodesOf(x), CommitAt(x, k)
      PROVE  /\ Owes(The("PrepareForCommit", n)) => CommitAt(x, n) /\ Entering(n)
             /\ Owes(The("PrepareReturned", n)) => CommitAt(x, n) /\ Within(n)
             /\ "PrepareForCommit" \in called[n] /\ "PrepareDone" \notin called[n] => CommitAt(x, n) /\ Within(n)
             /\ "PrepareForCommit" \in called[n] => ~ Unrequested(x)
             /\ ~ Owes(The("EndOfPhase", x)) /\ "Commit" \notin called[n]
  BY <1>1, <1>2, <1>3, <1>4, <1>6, <1>7
<1>8. CASE AllPrepared(x)
  <2>1. Passed(n) \/ Untouched(n) BY <1>8 DEF AllPrepared
  <2>2. "PrepareForCommit" \in called[n] => ~ Unrequested(x) BY <1>1 DEF Unrequested
  <2>3. "Commit" \in called[n] => n \in Registered(x) BY <1>1, <1>8 DEF AllPrepared
  <2>4. "Commit" \in called[n] => "ReadyForCommit" \in called[n] /\ "PrepareForCommit" \in called[n]
    <3>1. "Commit" \in called[n] => Committed(x) /\ Passed(n) BY <1>1, <2>1 DEF Committed
    <3>2. "Commit" \in called[n] => n \notin Unready(x) BY <1>8, <3>1 DEF AllPrepared
    <3>. QED BY <1>2, <3>1, <3>2 DEF Unready
  <2>. QED BY <1>1, <1>2, <1>8, <2>1, <2>2, <2>3, <2>4
<1>. QED BY <1>5, <1>7, <1>8 DEF Progress

\* A step that only touches transaction x.
Elsewhere(x) == \A y \in Transaction \ {x} : SameTransaction(y)

LEMMA ProgressElsewhere ==
  ASSUME ProgressInv, NEW x, Elsewhere(x), Progress(x)'
  PROVE  ProgressInv'
BY ProgressFrame DEF ProgressInv, Elsewhere

LEMMA OthersElsewhere ==
  ASSUME NEW x, NEW calls, KeepsCommitsBut(calls),
         \A y \in Transaction \ {x} : /\ pending'[y] = pending[y] /\ waiting'[y] = waiting[y]
                                      /\ The("EndOfPhase", y) \notin calls,
         \A n \in Node : n.txn # x => /\ The("PrepareForCommit", n) \notin calls
                                      /\ The("PrepareReturned", n) \notin calls
                                      /\ \A l \in Label : l \in called'[n] <=> l \in called[n]
  PROVE  Elsewhere(x)
<1>1. \A op \in CommitOperation : \A a : The(op, a) \notin calls => Keeps(The(op, a))
  BY DEF KeepsCommitsBut
<1>2. ASSUME NEW n \in Node, n.txn # x PROVE SameNode(n)
  BY <1>1, <1>2 DEF SameNode, CommitOperation
<1>3. ASSUME NEW y \in Transaction \ {x} PROVE SameTransaction(y)
  <2>1. Keeps(The("EndOfPhase", y)) BY <1>1 DEF CommitOperation
  <2>2. \A n \in NodesOf(y) : SameNode(n) BY <1>2 DEF NodesOf
  <2>. QED BY <2>1, <2>2 DEF SameTransaction
<1>. QED BY <1>3 DEF Elsewhere

\* Calls of different transactions are different.
LEMMA CallsApart ==
  /\ \A n, m \in Node : n.txn # m.txn => /\ The("PrepareForCommit", n) # The("PrepareForCommit", m)
                                         /\ The("PrepareReturned", n) # The("PrepareReturned", m)
  /\ \A n, m : /\ The("PrepareForCommit", n) = The("PrepareForCommit", m) => n = m
               /\ The("PrepareReturned", n) = The("PrepareReturned", m) => n = m
               /\ The("EndOfPhase", n) = The("EndOfPhase", m) => n = m
               /\ The("PrepareForCommit", n) # The("PrepareReturned", m)
               /\ The("PrepareForCommit", n) # The("EndOfPhase", m)
               /\ The("PrepareForCommit", n) # The("PrepareDone", m)
               /\ The("PrepareReturned", n) # The("PrepareDone", m)
               /\ The("EndOfPhase", n) # The("PrepareReturned", m)
               /\ The("EndOfPhase", n) # The("PrepareDone", m)
BY DifferentItems

\* A node that is kept as it is.
LEMMA KeptStatus ==
  ASSUME NEW n, Keeps(The("PrepareForCommit", n)), Keeps(The("PrepareReturned", n)),
         called'[n] = called[n]
  PROVE  /\ Untouched(n) => Untouched(n)'
         /\ Entering(n) => Entering(n)'
         /\ Passed(n) => Passed(n)'
<1>1. Fresh(n)' <=> Fresh(n) BY DEF Fresh
<1>. QED BY <1>1 DEF Untouched, Entering, Passed, Keeps

LEMMA RequestsProgress ==
  ASSUME Types, NEW n \in Node, NEW x, x = n.txn, Progress(x), Requests(x, n)
  PROVE  Elsewhere(x) /\ Progress(x)'
<1>0. /\ called \in [Node -> SUBSET NodeCall] /\ pending \in [Transaction -> Int] /\ x \in Transaction
      /\ waiting \in [Transaction -> BOOLEAN] /\ n \in NodesOf(x)
  BY NodeFields DEF Types, NodesOf
<1>1. /\ n \in First(x) /\ "RequestCommit" \notin called[n]
      /\ called' = [called EXCEPT ![n] = @ \cup {"RequestCommit"}]
      /\ pending' = [pending EXCEPT ![x] = 1] /\ waiting' = waiting
      /\ Plans(The("PrepareForCommit", n))
      /\ KeepsCommitsBut({The("PrepareForCommit", n)})
  BY DEF Requests
<1>2. /\ \A m : m # n => Keeps(The("PrepareForCommit", m))
      /\ \A m : Keeps(The("PrepareReturned", m)) /\ Keeps(The("EndOfPhase", m))
  BY <1>1, CallsApart DEF KeepsCommitsBut, CommitOperation
<1>3. /\ called'[n] = called[n] \cup {"RequestCommit"}
      /\ \A m \in Node \ {n} : called'[m] = called[m]
  BY <1>0, <1>1
<1>4. Elsewhere(x)
  <2>. SUFFICES ASSUME NEW calls, calls = {The("PrepareForCommit", n)} PROVE Elsewhere(x)
    OBVIOUS
  <2>1. \A y \in Transaction \ {x} : /\ pending'[y] = pending[y] /\ waiting'[y] = waiting[y]
                                      /\ The("EndOfPhase", y) \notin calls
    BY <1>0, <1>1, CallsApart
  <2>2. \A m \in Node : m.txn # x => /\ The("PrepareForCommit", m) \notin calls
                                     /\ The("PrepareReturned", m) \notin calls
                                     /\ \A l \in Label : l \in called'[m] <=> l \in called[m]
    BY <1>3, CallsApart
  <2>3. KeepsCommitsBut(calls) BY <1>1
  <2>. QED BY <2>1, <2>2, <2>3, OthersElsewhere
<1>5. Unrequested(x) BY <1>1 DEF Progress, CommitAt, AllPrepared, FirstRequested
<1>6. /\ \A m \in NodesOf(x) : Untouched(m) /\ m \in Node
      /\ ~ Owes(The("EndOfPhase", x))
  BY <1>5 DEF Unrequested, NodesOf
<1>7. \A m \in NodesOf(x) : "Register" \in called'[m] <=> "Register" \in called[m]
  BY <1>3 DEF NodesOf
<1>8. Registered(x)' = Registered(x) /\ First(x)' = First(x) BY <1>7, TreeSame DEF SameTree
<1>9. \A m \in NodesOf(x) : Fresh(m)' BY <1>3, <1>6 DEF Untouched, Fresh
<1>10. Entering(n)' BY <1>0, <1>1, <1>2, <1>6, <1>9 DEF Entering, Untouched, Plans, Keeps
<1>11. \A m \in NodesOf(x) \ {n} : Untouched(m)' BY <1>2, <1>3, <1>6, KeptStatus
<1>12. \A m \in NodesOf(x) \ {n} : m \in Registered(x) => ~ NodeBefore(m, n)
  BY <1>0, <1>1, TreeOrder DEF First
<1>13. FirstRequested(x)'
  <2>1. \A m \in First(x) : m = n
    <3>1. \A m \in First(x) : m \in NodesOf(x) /\ (m = n \/ NodeBefore(m, n))
      BY <1>1 DEF First, Registered, NodesOf
    <3>2. \A m \in First(x) : m = n \/ NodeBefore(n, m) BY <1>1 DEF First
    <3>. QED BY <1>0, <3>1, <3>2, TreeOrder
  <2>. QED BY <1>3, <1>8, <2>1 DEF FirstRequested
<1>14. ~ Committed(x)' /\ Unready(x)' = {} BY <1>9 DEF Committed, Unready, Fresh, NodesOf
<1>15. pending'[x] = Cardinality(Unready(x))' + 1
  <2>1. Cardinality(Unready(x))' = 0 BY <1>14, FS_EmptySet
  <2>2. pending'[x] = 1 BY <1>0, <1>1
  <2>. QED BY <2>1, <2>2
<1>16. n \in Registered(x) /\ ~ Owes(The("EndOfPhase", x))' BY <1>1, <1>2, <1>6 DEF First, Keeps
<1>17. CommitAt(x, n)'
  BY <1>8, <1>10, <1>11, <1>12, <1>13, <1>14, <1>15, <1>16 DEF CommitAt, NodesOf, NodeBefore
<1>. QED BY <1>0, <1>4, <1>17 DEF Progress, NodesOf

LEMMA PreparesProgress ==
  ASSUME Types, NEW n \in Node, NEW x, x = n.txn, Progress(x), Prepares(n)
  PROVE  Elsewhere(x) /\ Progress(x)'
<1>0. /\ called \in [Node -> SUBSET NodeCall] /\ pending \in [Transaction -> Int] /\ x \in Transaction
      /\ waiting \in [Transaction -> BOOLEAN] /\ n \in NodesOf(x)
  BY NodeFields DEF Types, NodesOf
<1>1. /\ Owes(The("PrepareForCommit", n))
      /\ called' = [called EXCEPT ![n] = @ \cup {"PrepareForCommit"}]
      /\ pending' = [pending EXCEPT ![x] = @ + 1]
      /\ waiting' = [waiting EXCEPT ![x] = TRUE]
      /\ Makes(The("PrepareForCommit", n)) /\ Plans(The("PrepareReturned", n))
      /\ KeepsCommitsBut({The("PrepareForCommit", n), The("PrepareReturned", n)})
  BY DEF Prepares
<1>2. /\ \A m : m # n => Keeps(The("PrepareForCommit", m)) /\ Keeps(The("PrepareReturned", m))
      /\ \A m : Keeps(The("EndOfPhase", m))
  BY <1>1, CallsApart DEF KeepsCommitsBut, CommitOperation
<1>3. /\ called'[n] = called[n] \cup {"PrepareForCommit"}
      /\ \A m \in Node \ {n} : called'[m] = called[m]
  BY <1>0, <1>1
<1>4. Elsewhere(x)
  <2>. SUFFICES ASSUME NEW calls, calls = {The("PrepareForCommit", n), The("PrepareReturned", n)}
                PROVE  Elsewhere(x)
    OBVIOUS
  <2>1. \A y \in Transaction \ {x} : /\ pending'[y] = pending[y] /\ waiting'[y] = waiting[y]
                                      /\ The("EndOfPhase", y) \notin calls
    BY <1>0, <1>1, CallsApart
  <2>2. \A m \in Node : m.txn # x => /\ The("PrepareForCommit", m) \notin calls
                                     /\ The("PrepareReturned", m) \notin calls
                                     /\ \A l \in Label : l \in called'[m] <=> l \in called[m]
    BY <1>3, CallsApart
  <2>3. KeepsCommitsBut(calls) BY <1>1
  <2>. QED BY <2>1, <2>2, <2>3, OthersElsewhere
<1>5. CommitAt(x, n) /\ Entering(n) BY <1>0, <1>1, Tokens
<1>6. \A m \in NodesOf(x) : "Register" \in called'[m] <=> "Register" \in called[m]
  BY <1>3 DEF NodesOf
<1>7. Registered(x)' = Registered(x) /\ First(x)' = First(x) BY <1>6, TreeSame DEF SameTree
<1>8. /\ "PrepareDone" \notin called[n] /\ "ReadyForCommit" \notin called[n]
      /\ "PrepareForCommit" \notin called[n] /\ "Commit" \notin called[n]
  BY <1>5 DEF Entering, Fresh
<1>9. Within(n)'
  <2>1. ~ Owes(The("PrepareForCommit", n))' /\ Owes(The("PrepareReturned", n))' /\ Once(The("PrepareReturned", n))'
    BY <1>1, <1>5 DEF Entering, Makes, Plans
  <2>2. "PrepareForCommit" \in called'[n] /\ "PrepareDone" \notin called'[n] BY <1>3, <1>8
  <2>3. waiting'[n.txn] BY <1>0, <1>1
  <2>. QED BY <2>1, <2>2, <2>3 DEF Within
<1>10. \A m \in NodesOf(x) \ {n} :
         IF m \in Registered(x)' /\ NodeBefore(m, n) THEN Passed(m)' ELSE Untouched(m)'
  <2>1. \A m \in NodesOf(x) \ {n} : /\ Passed(m) => Passed(m)'
                                    /\ Untouched(m) => Untouched(m)'
    BY <1>2, <1>3, KeptStatus DEF NodesOf
  <2>. QED BY <1>5, <1>7, <2>1 DEF CommitAt
<1>11. FirstRequested(x)' BY <1>3, <1>5, <1>7 DEF FirstRequested, CommitAt, First, Registered
<1>12. ~ Committed(x)' BY <1>3, <1>5 DEF CommitAt, Committed, NodesOf
<1>13. pending'[x] = Cardinality(Unready(x))' + 1
  <2>1. Unready(x)' = Unready(x) \cup {n} /\ n \notin Unready(x)
    BY <1>0, <1>3, <1>8 DEF Unready, NodesOf
  <2>2. Unready(x) \in SUBSET NodesOf(x) BY DEF Unready
  <2>3. IsFiniteSet(Unready(x)) /\ Cardinality(Unready(x)) \in Nat BY <2>2, FiniteNodes
  <2>4. Cardinality(Unready(x) \cup {n}) = Cardinality(Unready(x)) + 1
    BY <2>1, <2>3, FS_AddElement
  <2>5. Cardinality(Unready(x))' = Cardinality(Unready(x)) + 1 BY <2>1, <2>4
  <2>6. pending'[x] = pending[x] + 1 /\ pending[x] = Cardinality(Unready(x)) + 1
    BY <1>0, <1>1, <1>5 DEF CommitAt
  <2>. QED BY <2>3, <2>5, <2>6
<1>14. n \in Registered(x)' /\ ~ Owes(The("EndOfPhase", x))'
  BY <1>2, <1>5, <1>7 DEF CommitAt, Keeps
<1>15. CommitAt(x, n)'
  BY <1>9, <1>10, <1>11, <1>12, <1>13, <1>14 DEF CommitAt, NodesOf, NodeBefore
<1>. QED BY <1>0, <1>4, <1>15 DEF Progress, NodesOf

LEMMA LabelStatus ==
  ASSUME NEW n, Keeps(The("PrepareForCommit", n)), Keeps(The("PrepareReturned", n)),
         "PrepareForCommit" \in called'[n] <=> "PrepareForCommit" \in called[n],
         "PrepareDone" \in called'[n] <=> "PrepareDone" \in called[n]
  PROVE  /\ Passed(n) => Passed(n)'
         /\ (waiting'[n.txn] <=> waiting[n.txn]) => (Within(n) => Within(n)')
         /\ (Fresh(n) => Fresh(n)') => (Untouched(n) => Untouched(n)') /\ (Entering(n) => Entering(n)')
<1>1. Passed(n) => Passed(n)' BY DEF Passed, Keeps
<1>2. (waiting'[n.txn] <=> waiting[n.txn]) => (Within(n) => Within(n)') BY DEF Within, Keeps
<1>3. (Fresh(n) => Fresh(n)') => (Untouched(n) => Untouched(n)') /\ (Entering(n) => Entering(n)')
  BY DEF Untouched, Entering, Keeps
<1>. QED BY <1>1, <1>2, <1>3

\* The node after n.
LEMMA AfterNode ==
  ASSUME NEW x, NEW n \in NodesOf(x)
  PROVE  /\ After(n) = {} => \A m \in Registered(x) : m = n \/ NodeBefore(m, n)
         /\ \A k \in After(n) : /\ k \in Registered(x) /\ k \in NodesOf(x) /\ NodeBefore(n, k) /\ k # n
                                /\ ~ NodeBefore(k, n)
                                /\ \A m \in Registered(x) :
                                     NodeBefore(m, k) => m = n \/ NodeBefore(m, n)
                                /\ \A m \in NodesOf(x) :
                                     m # k /\ m # n /\ ~ NodeBefore(m, k) => ~ NodeBefore(m, n)
<1>. DEFINE later == {m \in Registered(n.txn) : NodeBefore(n, m)}
<1>1. n.txn = x /\ Registered(x) \subseteq NodesOf(x) BY DEF NodesOf, Registered
<1>2. After(n) = {m \in later : \A k \in later : k = m \/ NodeBefore(m, k)} BY DEF After
<1>3. later \in SUBSET NodesOf(x) BY <1>1
<1>4. ASSUME After(n) = {}, NEW m \in Registered(x) PROVE m = n \/ NodeBefore(m, n)
  <2>1. later = {}
    <3>. SUFFICES ASSUME later # {} PROVE FALSE OBVIOUS
    <3>. HIDE DEF later
    <3>1. \E k \in later : \A j \in later : j = k \/ NodeBefore(k, j) BY <1>3, FirstNode
    <3>. QED BY <1>2, <1>4, <3>1
  <2>2. ~ NodeBefore(n, m) BY <1>1, <2>1
  <2>. QED BY <1>1, <2>2, TreeOrder
<1>5. ASSUME NEW k \in After(n)
      PROVE  /\ k \in Registered(x) /\ k \in NodesOf(x) /\ NodeBefore(n, k) /\ k # n
             /\ ~ NodeBefore(k, n)
             /\ \A m \in Registered(x) : NodeBefore(m, k) => m = n \/ NodeBefore(m, n)
             /\ \A m \in NodesOf(x) : m # k /\ m # n /\ ~ NodeBefore(m, k) => ~ NodeBefore(m, n)
  <2>1. k \in Registered(x) /\ k \in NodesOf(x) /\ NodeBefore(n, k) BY <1>1, <1>2
  <2>2. k # n /\ ~ NodeBefore(k, n) BY <2>1, TreeOrder
  <2>3. ASSUME NEW m \in Registered(x), NodeBefore(m, k) PROVE m = n \/ NodeBefore(m, n)
    <3>. SUFFICES ASSUME NodeBefore(n, m) PROVE FALSE BY <1>1, TreeOrder
    <3>1. m = k \/ NodeBefore(k, m) BY <1>1, <1>2
    <3>. QED BY <1>1, <2>1, <2>3, <3>1, TreeOrder
  <2>4. ASSUME NEW m \in NodesOf(x), NodeBefore(m, n) PROVE NodeBefore(m, k)
    BY <2>1, <2>4, TreeOrder
  <2>. QED BY <2>1, <2>2, <2>3, <2>4
<1>. QED BY <1>4, <1>5

\* What is kept when the commit of x moves on at node n.
Onward(x, n) ==
  /\ pending' = pending
  /\ \A m \in Node \ {n} : called'[m] = called[m]
  /\ \A l \in Label \ {"PrepareDone"} : l \in called'[n] <=> l \in called[n]

LEMMA OnwardKept ==
  ASSUME NEW x, NEW n \in NodesOf(x), CommitAt(x, n), Onward(x, n)
  PROVE  /\ Registered(x)' = Registered(x) /\ FirstRequested(x)' /\ ~ Committed(x)'
         /\ pending'[x] = Cardinality(Unready(x))' + 1
<1>1. \A m \in NodesOf(x) : \A l \in Label \ {"PrepareDone"} : l \in called'[m] <=> l \in called[m]
  BY DEF Onward, NodesOf
<1>2. Registered(x)' = Registered(x) /\ First(x)' = First(x)
  BY <1>1, TreeSame DEF Label, SameTree
<1>3. FirstRequested(x)'
  BY <1>1, <1>2 DEF FirstRequested, CommitAt, First, Registered, NodesOf, Label
<1>4. ~ Committed(x)' BY <1>1 DEF CommitAt, Committed, Label, NodesOf
<1>5. Unready(x)' = Unready(x) BY <1>1 DEF Unready, Label, NodesOf
<1>6. Cardinality(Unready(x))' = Cardinality(Unready(x)) BY <1>5
<1>. QED BY <1>2, <1>3, <1>4, <1>6 DEF CommitAt, Onward

LEMMA StayAt ==
  ASSUME NEW x, NEW n \in NodesOf(x), CommitAt(x, n), Onward(x, n), Within(n)',
         NEW call, call \in {The("PrepareReturned", n), The("PrepareDone", n)}, KeepsCommitsBut({call})
  PROVE  CommitAt(x, n)'
<1>1. /\ \A m : m # n => Keeps(The("PrepareForCommit", m)) /\ Keeps(The("PrepareReturned", m))
      /\ Keeps(The("EndOfPhase", x))
  BY CallsApart DEF KeepsCommitsBut, CommitOperation
<1>2. /\ Registered(x)' = Registered(x) /\ FirstRequested(x)' /\ ~ Committed(x)'
      /\ pending'[x] = Cardinality(Unready(x))' + 1
  BY OnwardKept
<1>3. \A m \in NodesOf(x) \ {n} : /\ Passed(m) => Passed(m)'
                                  /\ Untouched(m) => Untouched(m)'
  BY <1>1, KeptStatus DEF NodesOf, Onward
<1>4. \A m \in NodesOf(x) \ {n} :
        IF m \in Registered(x)' /\ NodeBefore(m, n) THEN Passed(m)' ELSE Untouched(m)'
  BY <1>2, <1>3 DEF CommitAt
<1>5. n \in Registered(x)' /\ ~ Owes(The("EndOfPhase", x))' BY <1>1, <1>2 DEF CommitAt, Keeps
<1>. QED BY <1>2, <1>4, <1>5 DEF CommitAt, NodesOf, NodeBefore

LEMMA Advance ==
  ASSUME NEW x, NEW n \in NodesOf(x), CommitAt(x, n), Onward(x, n), Passed(n)',
         NEW call, call \in {The("PrepareReturned", n), The("PrepareDone", n)},
         NEW next, next = NextCall(n), Plans(next), KeepsCommitsBut({call, next})
  PROVE  Progress(x)'
<1>0. n.txn = x BY DEF NodesOf
<1>1. /\ Registered(x)' = Registered(x) /\ FirstRequested(x)' /\ ~ Committed(x)'
      /\ pending'[x] = Cardinality(Unready(x))' + 1
  BY OnwardKept
<1>2. CASE After(n) = {}
  <2>1. next = The("EndOfPhase", x) BY <1>0, <1>2 DEF NextCall
  <2>2. /\ \A m : m # n => Keeps(The("PrepareForCommit", m)) /\ Keeps(The("PrepareReturned", m))
    BY <2>1, CallsApart DEF KeepsCommitsBut, CommitOperation
  <2>3. Owes(The("EndOfPhase", x))' /\ Once(The("EndOfPhase", x))' BY <2>1 DEF Plans, CommitAt
  <2>4. \A m \in NodesOf(x) \ {n} : /\ Passed(m) => Passed(m)'
                                    /\ Untouched(m) => Untouched(m)'
    BY <2>2, KeptStatus DEF NodesOf, Onward
  <2>5. \A m \in Registered(x) : m = n \/ NodeBefore(m, n) BY <1>2, AfterNode
  <2>6. n \in Registered(x) /\ \A m \in NodesOf(x) \ {n} :
          IF m \in Registered(x) /\ NodeBefore(m, n) THEN Passed(m) ELSE Untouched(m)
    BY DEF CommitAt
  <2>7. \A m \in NodesOf(x) : IF m \in Registered(x)' THEN Passed(m)' ELSE Untouched(m)'
    BY <1>1, <2>4, <2>5, <2>6
  <2>8. AllPrepared(x)' BY <1>1, <2>3, <2>7 DEF AllPrepared, NodesOf
  <2>. QED BY <2>8 DEF Progress
<1>3. CASE After(n) # {}
  <2>. SUFFICES ASSUME NEW k, k = CHOOSE m \in After(n) : TRUE PROVE Progress(x)' OBVIOUS
  <2>1. k \in After(n) /\ next = The("PrepareForCommit", k) BY <1>3 DEF NextCall
  <2>2. /\ k \in Registered(x) /\ k \in NodesOf(x) /\ NodeBefore(n, k) /\ k # n /\ ~ NodeBefore(k, n)
        /\ \A m \in Registered(x) : NodeBefore(m, k) => m = n \/ NodeBefore(m, n)
        /\ \A m \in NodesOf(x) : m # k /\ m # n /\ ~ NodeBefore(m, k) => ~ NodeBefore(m, n)
    BY <2>1, AfterNode
  <2>3. /\ \A m : m # n /\ m # k => Keeps(The("PrepareForCommit", m))
        /\ \A m : m # n => Keeps(The("PrepareReturned", m))
        /\ Keeps(The("EndOfPhase", x))
    BY <2>1, CallsApart DEF KeepsCommitsBut, CommitOperation
  <2>4. \A m \in NodesOf(x) \ {n, k} : /\ Passed(m) => Passed(m)'
                                       /\ Untouched(m) => Untouched(m)'
    BY <2>3, KeptStatus DEF NodesOf, Onward
  <2>5. \A m \in NodesOf(x) \ {n} :
          IF m \in Registered(x) /\ NodeBefore(m, n) THEN Passed(m) ELSE Untouched(m)
    BY DEF CommitAt
  <2>6. Untouched(k) BY <2>2, <2>5
  <2>7. Entering(k)'
    <3>1. Owes(The("PrepareForCommit", k))' /\ Once(The("PrepareForCommit", k))'
      BY <2>1, <2>6 DEF Plans, Untouched
    <3>2. ~ Owes(The("PrepareReturned", k))' BY <2>2, <2>3, <2>6 DEF Keeps, Untouched
    <3>3. Fresh(k)' BY <2>2, <2>6 DEF Untouched, Fresh, Onward, NodesOf
    <3>. QED BY <3>1, <3>2, <3>3 DEF Entering
  <2>8. \A m \in NodesOf(x) \ {k} :
          IF m \in Registered(x)' /\ NodeBefore(m, k) THEN Passed(m)' ELSE Untouched(m)'
    <3>. SUFFICES ASSUME NEW m \in NodesOf(x) \ {k}
                  PROVE  IF m \in Registered(x) /\ NodeBefore(m, k) THEN Passed(m)' ELSE Untouched(m)'
      BY <1>1
    <3>1. CASE m = n BY <2>2, <3>1 DEF CommitAt
    <3>2. CASE m # n BY <2>2, <2>4, <2>5, <3>2
    <3>. QED BY <3>1, <3>2
  <2>9. k \in Registered(x)' /\ ~ Owes(The("EndOfPhase", x))'
    BY <1>1, <2>2, <2>3 DEF CommitAt, Keeps
  <2>10. CommitAt(x, k)' BY <1>1, <2>7, <2>8, <2>9 DEF CommitAt, NodesOf, NodeBefore
  <2>. QED BY <2>2, <2>10 DEF Progress, NodesOf
<1>. QED BY <1>2, <1>3

\* The return from PrepareForCommit(n), or PrepareDone(n).
LEMMA MovesOnProgress ==
  ASSUME Types, NEW n \in Node, NEW x, x = n.txn, CommitAt(x, n), Within(n),
         NEW call, call \in {The("PrepareReturned", n), The("PrepareDone", n)},
         MovesOn(n, call), Onward(x, n), \A m \in Node : m.txn # x => called'[m] = called[m],
         waiting[x] => Within(n)', ~ waiting[x] => Passed(n)'
  PROVE  Elsewhere(x) /\ Progress(x)'
<1>0. /\ waiting \in [Transaction -> BOOLEAN] /\ n \in NodesOf(x) /\ x \in Transaction
  BY NodeFields DEF Types, NodesOf
<1>1. /\ waiting[x] => KeepsCommitsBut({call})
      /\ ~ waiting[x] => \A next : next = NextCall(n) => Plans(next) /\ KeepsCommitsBut({call, next})
      /\ waiting' = [waiting EXCEPT ![x] = FALSE] /\ pending' = pending
  BY DEF MovesOn
<1>2. ASSUME NEW calls, KeepsCommitsBut(calls),
             \A y \in Transaction \ {x} : The("EndOfPhase", y) \notin calls,
             \A m \in Node : m.txn # x => /\ The("PrepareForCommit", m) \notin calls
                                          /\ The("PrepareReturned", m) \notin calls
      PROVE  Elsewhere(x)
  <2>1. \A y \in Transaction \ {x} : /\ pending'[y] = pending[y] /\ waiting'[y] = waiting[y]
                                     /\ The("EndOfPhase", y) \notin calls
    BY <1>0, <1>1, <1>2
  <2>2. \A m \in Node : m.txn # x => /\ The("PrepareForCommit", m) \notin calls
                                     /\ The("PrepareReturned", m) \notin calls
                                     /\ \A l \in Label : l \in called'[m] <=> l \in called[m]
    BY <1>2
  <2>. QED BY <1>2, <2>1, <2>2, OthersElsewhere
<1>3. /\ \A y : The("EndOfPhase", y) # call
      /\ \A m \in Node : m.txn # x => /\ The("PrepareForCommit", m) # call
                                      /\ The("PrepareReturned", m) # call
  BY CallsApart
<1>4. CASE waiting[x]
  <2>1. Elsewhere(x)
    <3>. SUFFICES ASSUME NEW calls, calls = {call} PROVE Elsewhere(x) OBVIOUS
    <3>1. KeepsCommitsBut(calls) BY <1>1, <1>4
    <3>2. /\ \A y \in Transaction \ {x} : The("EndOfPhase", y) \notin calls
          /\ \A m \in Node : m.txn # x => /\ The("PrepareForCommit", m) \notin calls
                                          /\ The("PrepareReturned", m) \notin calls
      BY <1>3
    <3>. QED BY <1>2, <3>1, <3>2
  <2>2. CommitAt(x, n)' BY <1>0, <1>1, <1>4, StayAt
  <2>. QED BY <1>0, <2>1, <2>2 DEF Progress, NodesOf
<1>5. CASE ~ waiting[x]
  <2>. SUFFICES ASSUME NEW next, next = NextCall(n) PROVE Elsewhere(x) /\ Progress(x)' OBVIOUS
  <2>1. Plans(next) /\ KeepsCommitsBut({call, next}) BY <1>1, <1>5
  <2>2. Elsewhere(x)
    <3>. SUFFICES ASSUME NEW calls, calls = {call, next} PROVE Elsewhere(x) OBVIOUS
    <3>1. KeepsCommitsBut(calls) BY <2>1
    <3>2. /\ \A y : y # x => The("EndOfPhase", y) # next
          /\ \A m \in Node : m.txn # x => /\ The("PrepareForCommit", m) # next
                                          /\ The("PrepareReturned", m) # next
      <4>1. CASE After(n) = {}
        <5>1. next = The("EndOfPhase", x) BY <4>1 DEF NextCall
        <5>. QED BY <5>1, CallsApart
      <4>2. CASE After(n) # {}
        <5>1. PICK k \in After(n) : next = The("PrepareForCommit", k) BY <4>2 DEF NextCall
        <5>2. k.txn = x BY DEF After, Registered
        <5>. QED BY <5>1, <5>2, CallsApart
      <4>. QED BY <4>1, <4>2
    <3>3. /\ \A y \in Transaction \ {x} : The("EndOfPhase", y) \notin calls
          /\ \A m \in Node : m.txn # x => /\ The("PrepareForCommit", m) \notin calls
                                          /\ The("PrepareReturned", m) \notin calls
      BY <1>3, <3>2
    <3>. QED BY <1>2, <3>1, <3>3
  <2>3. Progress(x)' BY <1>0, <1>5, <2>1, Advance
  <2>. QED BY <2>2, <2>3
<1>. QED BY <1>4, <1>5

LEMMA ReturnedProgress ==
  ASSUME Types, NEW n \in Node, NEW x, x = n.txn, Progress(x), Returned(n)
  PROVE  Elsewhere(x) /\ Progress(x)'
<1>. SUFFICES ASSUME NEW call, call = The("PrepareReturned", n) PROVE Elsewhere(x) /\ Progress(x)'
  OBVIOUS
<1>0. n \in NodesOf(x) /\ waiting \in [Transaction -> BOOLEAN] /\ x \in Transaction
  BY NodeFields DEF NodesOf, Types
<1>1. MovesOn(n, call) /\ called' = called /\ Owes(call) /\ Makes(call) BY DEF Returned, MovesOn
<1>2. CommitAt(x, n) /\ Within(n) BY <1>0, <1>1, Tokens
<1>3. Onward(x, n) BY <1>1 DEF Onward, MovesOn
<1>4. Keeps(The("PrepareForCommit", n))
  <2>1. The("PrepareForCommit", n) # call BY CallsApart
  <2>2. CASE waiting[x]
    <3>1. KeepsCommitsBut({call}) BY <1>1, <2>2 DEF MovesOn
    <3>. QED BY <2>1, <3>1 DEF KeepsCommitsBut, CommitOperation
  <2>3. CASE ~ waiting[x]
    <3>. SUFFICES ASSUME NEW next, next = NextCall(n) PROVE Keeps(The("PrepareForCommit", n))
      OBVIOUS
    <3>1. KeepsCommitsBut({call, next}) BY <1>1, <2>3 DEF MovesOn
    <3>2. next # The("PrepareForCommit", n)
      <4>1. CASE After(n) = {} BY <4>1, CallsApart DEF NextCall
      <4>2. CASE After(n) # {}
        <5>1. PICK k \in After(n) : next = The("PrepareForCommit", k) BY <4>2 DEF NextCall
        <5>2. k # n BY <1>0, AfterNode
        <5>. QED BY <5>1, <5>2, CallsApart
      <4>. QED BY <4>1, <4>2
    <3>. QED BY <2>1, <3>1, <3>2 DEF KeepsCommitsBut, CommitOperation
  <2>. QED BY <2>2, <2>3
<1>5. ~ Owes(call)' /\ Once(call)' /\ ~ Owes(The("PrepareForCommit", n))'
  BY <1>1, <1>2, <1>4 DEF Within, Makes, Keeps
<1>6. waiting[x] => "PrepareDone" \notin called[n] BY <1>2 DEF Within
<1>7. ~ waiting[x] => "PrepareDone" \in called[n] BY <1>1, <1>2 DEF Within
<1>8. ~ waiting'[x] BY <1>0, <1>1 DEF MovesOn
<1>9. waiting[x] => Within(n)' BY <1>1, <1>2, <1>5, <1>6, <1>8 DEF Within
<1>10. ~ waiting[x] => Passed(n)' BY <1>1, <1>2, <1>5, <1>7 DEF Within, Passed
<1>. QED BY <1>1, <1>2, <1>3, <1>9, <1>10, MovesOnProgress

LEMMA DoneProgress ==
  ASSUME Types, NEW n \in Node, NEW x, x = n.txn, Progress(x), Done(n),
         "PrepareForCommit" \in called[n], "PrepareDone" \notin called[n]
  PROVE  Elsewhere(x) /\ Progress(x)'
<1>. SUFFICES ASSUME NEW call, call = The("PrepareDone", n) PROVE Elsewhere(x) /\ Progress(x)'
  OBVIOUS
<1>0. /\ n \in NodesOf(x) /\ waiting \in [Transaction -> BOOLEAN] /\ x \in Transaction
      /\ called \in [Node -> SUBSET NodeCall]
  BY NodeFields DEF NodesOf, Types
<1>1. MovesOn(n, call) /\ called' = [called EXCEPT ![n] = @ \cup {"PrepareDone"}] BY DEF Done
<1>2. CommitAt(x, n) /\ Within(n) BY <1>0, Tokens
<1>3. /\ \A m \in Node \ {n} : called'[m] = called[m]
      /\ called'[n] = called[n] \cup {"PrepareDone"}
  BY <1>0, <1>1
<1>4. Onward(x, n) BY <1>1, <1>3 DEF Onward, MovesOn, Label
<1>5. Keeps(The("PrepareForCommit", n)) /\ Keeps(The("PrepareReturned", n))
  <2>1. The("PrepareForCommit", n) # call /\ The("PrepareReturned", n) # call BY CallsApart
  <2>2. CASE waiting[x]
    <3>1. KeepsCommitsBut({call}) BY <1>1, <2>2 DEF MovesOn
    <3>. QED BY <2>1, <3>1 DEF KeepsCommitsBut, CommitOperation
  <2>3. CASE ~ waiting[x]
    <3>. SUFFICES ASSUME NEW next, next = NextCall(n)
                  PROVE  Keeps(The("PrepareForCommit", n)) /\ Keeps(The("PrepareReturned", n))
      OBVIOUS
    <3>1. KeepsCommitsBut({call, next}) BY <1>1, <2>3 DEF MovesOn
    <3>2. next # The("PrepareForCommit", n) /\ next # The("PrepareReturned", n)
      <4>1. CASE After(n) = {} BY <4>1, CallsApart DEF NextCall
      <4>2. CASE After(n) # {}
        <5>1. PICK k \in After(n) : next = The("PrepareForCommit", k) BY <4>2 DEF NextCall
        <5>2. k # n BY <1>0, AfterNode
        <5>. QED BY <5>1, <5>2, CallsApart
      <4>. QED BY <4>1, <4>2
    <3>. QED BY <2>1, <3>1, <3>2 DEF KeepsCommitsBut, CommitOperation
  <2>. QED BY <2>2, <2>3
<1>6. ~ waiting'[x] BY <1>0, <1>1 DEF MovesOn
<1>7. waiting[x] <=> Owes(The("PrepareReturned", n)) BY <1>2 DEF Within
<1>8. waiting[x] => Within(n)' BY <1>2, <1>3, <1>5, <1>6, <1>7 DEF Within, Keeps
<1>9. ~ waiting[x] => Passed(n)' BY <1>2, <1>3, <1>5, <1>7 DEF Within, Passed, Keeps
<1>. QED BY <1>1, <1>2, <1>3, <1>4, <1>8, <1>9, MovesOnProgress

\* What a decrement of nodes_pending_commit_ does.
LEMMA Decremented ==
  ASSUME Types, NEW x \in Transaction, NEW marked \in [Node -> SUBSET NodeCall], Decrement(x, marked)
  PROVE  /\ pending'[x] = pending[x] - 1 /\ \A y \in Transaction \ {x} : pending'[y] = pending[y]
         /\ \A m \in Node : \A l : l # "Commit" => (l \in called'[m] <=> l \in marked[m])
         /\ \A m \in Node : "Commit" \in called'[m] =>
              "Commit" \in marked[m] \/ (pending[x] = 1 /\ m \in Registered(x))
         /\ \A m \in Node \ Registered(x) : called'[m] = marked[m]
<1>1. pending \in [Transaction -> Int] /\ pending' = [pending EXCEPT ![x] = @ - 1]
  BY DEF Types, Decrement
<1>2. /\ pending[x] = 1 => called' = [n \in Node |-> IF n \in Registered(x)
                                                       THEN marked[n] \cup {"Commit"} ELSE marked[n]]
      /\ pending[x] # 1 => called' = marked
  BY DEF Decrement
<1>3. pending'[x] = pending[x] - 1 /\ \A y \in Transaction \ {x} : pending'[y] = pending[y]
  BY <1>1
<1>. QED BY <1>2, <1>3

LEMMA EndsProgress ==
  ASSUME Types, NEW x \in Transaction, Progress(x), Ends(x)
  PROVE  Elsewhere(x) /\ Progress(x)'
<1>. SUFFICES ASSUME NEW call, call = The("EndOfPhase", x) PROVE Elsewhere(x) /\ Progress(x)'
  OBVIOUS
<1>0. called \in [Node -> SUBSET NodeCall] /\ waiting' = waiting /\ pending[x] \in Int
  BY DEF Types, Ends
<1>1. Owes(call) /\ Makes(call) /\ KeepsCommitsBut({call}) /\ Decrement(x, called) BY DEF Ends
<1>2. /\ pending'[x] = pending[x] - 1 /\ \A y \in Transaction \ {x} : pending'[y] = pending[y]
      /\ \A m \in Node : \A l : l # "Commit" => (l \in called'[m] <=> l \in called[m])
      /\ \A m \in Node : "Commit" \in called'[m] =>
           "Commit" \in called[m] \/ (pending[x] = 1 /\ m \in Registered(x))
      /\ \A m \in Node \ Registered(x) : called'[m] = called[m]
  BY <1>0, <1>1, Decremented
<1>3. Elsewhere(x)
  <2>. SUFFICES ASSUME NEW calls, calls = {call} PROVE Elsewhere(x) OBVIOUS
  <2>1. \A y \in Transaction \ {x} : /\ pending'[y] = pending[y] /\ waiting'[y] = waiting[y]
                                     /\ The("EndOfPhase", y) \notin calls
    BY <1>0, <1>2, CallsApart
  <2>2. \A m \in Node : m.txn # x => /\ The("PrepareForCommit", m) \notin calls
                                     /\ The("PrepareReturned", m) \notin calls
                                     /\ \A l \in Label : l \in called'[m] <=> l \in called[m]
    BY <1>2, CallsApart DEF Registered
  <2>3. KeepsCommitsBut(calls) BY <1>1
  <2>. QED BY <2>1, <2>2, <2>3, OthersElsewhere
<1>4. AllPrepared(x) BY <1>1 DEF Progress, Unrequested, CommitAt
<1>5. Once(call)' /\ ~ Owes(call)' /\ ~ Committed(x) /\ pending[x] = Cardinality(Unready(x)) + 1
  BY <1>1, <1>4 DEF AllPrepared, Makes
<1>6. \A m : Keeps(The("PrepareForCommit", m)) /\ Keeps(The("PrepareReturned", m))
  BY <1>1, CallsApart DEF KeepsCommitsBut, CommitOperation
<1>7. Registered(x)' = Registered(x) /\ First(x)' = First(x)
  BY <1>2, TreeSame DEF SameTree, NodesOf
<1>8. \A m \in NodesOf(x) : IF m \in Registered(x) THEN Passed(m)' ELSE Untouched(m)'
  <2>. SUFFICES ASSUME NEW m \in NodesOf(x) PROVE IF m \in Registered(x) THEN Passed(m)' ELSE Untouched(m)'
    OBVIOUS
  <2>1. IF m \in Registered(x) THEN Passed(m) ELSE Untouched(m) BY <1>4 DEF AllPrepared
  <2>2. m \in Node /\ Keeps(The("PrepareForCommit", m)) /\ Keeps(The("PrepareReturned", m))
    BY <1>6 DEF NodesOf
  <2>3. CASE m \in Registered(x)
    <3>1. /\ "PrepareForCommit" \in called'[m] <=> "PrepareForCommit" \in called[m]
          /\ "PrepareDone" \in called'[m] <=> "PrepareDone" \in called[m]
      BY <1>2, <2>2
    <3>. QED BY <2>1, <2>2, <2>3, <3>1, LabelStatus
  <2>4. CASE m \notin Registered(x) BY <1>2, <2>1, <2>2, <2>4, KeptStatus
  <2>. QED BY <2>3, <2>4
<1>9. FirstRequested(x)' BY <1>2, <1>4, <1>7 DEF AllPrepared, FirstRequested, First, Registered
<1>10. Unready(x)' = Unready(x) BY <1>2 DEF Unready, NodesOf
<1>11. Cardinality(Unready(x))' = Cardinality(Unready(x)) BY <1>10
<1>12. Cardinality(Unready(x)) \in Nat /\ (Cardinality(Unready(x)) = 0 <=> Unready(x) = {})
  <2>1. Unready(x) \in SUBSET NodesOf(x) BY DEF Unready
  <2>. QED BY <2>1, FiniteNodes
<1>13. pending'[x] = Cardinality(Unready(x))' BY <1>0, <1>2, <1>5, <1>11, <1>12
<1>14. Committed(x)' => Unready(x)' = {}
  <2>1. Committed(x)' => pending[x] = 1 BY <1>2, <1>5 DEF Committed, NodesOf
  <2>. QED BY <1>5, <1>10, <1>12, <2>1
<1>15. AllPrepared(x)' BY <1>5, <1>7, <1>8, <1>9, <1>13, <1>14 DEF AllPrepared, NodesOf
<1>. QED BY <1>3, <1>15 DEF Progress

LEMMA ReadiesProgress ==
  ASSUME Types, NEW n \in Node, NEW x, x = n.txn, Progress(x), Readies(n),
         "PrepareForCommit" \in called[n], "ReadyForCommit" \notin called[n]
  PROVE  Elsewhere(x) /\ Progress(x)'
<1>. SUFFICES ASSUME NEW marked, Is(marked, [called EXCEPT ![n] = @ \cup {"ReadyForCommit"}])
              PROVE  Elsewhere(x) /\ Progress(x)'
  BY DEF Is
<1>0. /\ called \in [Node -> SUBSET NodeCall] /\ waiting' = waiting /\ x \in Transaction
      /\ n \in NodesOf(x) /\ pending[x] \in Int
  BY NodeFields DEF Types, Readies, NodesOf
<1>1. /\ KeepsCommits /\ Decrement(x, marked) BY DEF Readies, Is
<1>2. /\ marked \in [Node -> SUBSET NodeCall] /\ marked[n] = called[n] \cup {"ReadyForCommit"}
      /\ \A m \in Node \ {n} : marked[m] = called[m]
  BY <1>0 DEF NodeCall, Is
<1>3. /\ pending'[x] = pending[x] - 1 /\ \A y \in Transaction \ {x} : pending'[y] = pending[y]
      /\ \A m \in Node : \A l : l # "Commit" => (l \in called'[m] <=> l \in marked[m])
      /\ \A m \in Node : "Commit" \in called'[m] =>
           "Commit" \in marked[m] \/ (pending[x] = 1 /\ m \in Registered(x))
      /\ \A m \in Node \ Registered(x) : called'[m] = marked[m]
  BY <1>0, <1>1, <1>2, Decremented
<1>4. /\ \A m \in Node \ {n} : \A l : l # "Commit" => (l \in called'[m] <=> l \in called[m])
      /\ \A l : l \notin {"Commit", "ReadyForCommit"} => (l \in called'[n] <=> l \in called[n])
      /\ "ReadyForCommit" \in called'[n]
      /\ \A m \in Node : "Commit" \in called'[m] =>
           "Commit" \in called[m] \/ (pending[x] = 1 /\ m \in Registered(x))
  BY <1>2, <1>3
<1>5. /\ \A m : /\ Keeps(The("PrepareForCommit", m)) /\ Keeps(The("PrepareReturned", m))
                /\ Keeps(The("EndOfPhase", m))
  BY <1>1 DEF KeepsCommits, CommitOperation
<1>6. Elsewhere(x)
  <2>1. \A m \in Node : m.txn # x => \A l \in Label : l \in called'[m] <=> l \in called[m]
    BY <1>0, <1>2, <1>3 DEF Registered
  <2>2. \A m \in Node : m.txn # x => SameNode(m) BY <1>5, <2>1 DEF SameNode
  <2>3. ASSUME NEW y \in Transaction \ {x} PROVE SameTransaction(y)
    <3>1. \A m \in NodesOf(y) : SameNode(m) BY <2>2 DEF NodesOf
    <3>. QED BY <1>0, <1>3, <1>5, <3>1 DEF SameTransaction
  <2>. QED BY <2>3 DEF Elsewhere
<1>7. Registered(x)' = Registered(x) /\ First(x)' = First(x)
  <2>1. \A m \in NodesOf(x) : "Register" \in called'[m] <=> "Register" \in called[m]
    BY <1>4 DEF NodesOf
  <2>. QED BY <2>1, TreeSame DEF SameTree
<1>8. FirstRequested(x) => FirstRequested(x)'
  BY <1>4, <1>7 DEF FirstRequested, First, Registered
<1>9. Unready(x)' = Unready(x) \ {n} /\ n \in Unready(x)
  <2>1. Unready(x)' = {m \in NodesOf(x) : "PrepareForCommit" \in called'[m] /\ "ReadyForCommit" \notin called'[m]}
    BY DEF Unready, NodesOf
  <2>2. ASSUME NEW m \in NodesOf(x) PROVE m \in Unready(x)' <=> m \in Unready(x) \ {n}
    BY <1>0, <1>4, <2>1 DEF Unready, NodesOf
  <2>. QED BY <1>0, <2>1, <2>2 DEF Unready
<1>10. /\ Cardinality(Unready(x)) \in Nat /\ Cardinality(Unready(x)) >= 1
       /\ Cardinality(Unready(x))' = Cardinality(Unready(x)) - 1
       /\ Cardinality(Unready(x))' = 0 => Unready(x)' = {}
  <2>1. Unready(x) \in SUBSET NodesOf(x) /\ Unready(x) \ {n} \in SUBSET NodesOf(x)
    BY DEF Unready
  <2>2. IsFiniteSet(Unready(x)) /\ Cardinality(Unready(x)) \in Nat
        /\ (Cardinality(Unready(x)) = 0 <=> Unready(x) = {})
        /\ (Cardinality(Unready(x) \ {n}) = 0 <=> Unready(x) \ {n} = {})
    BY <2>1, FiniteNodes
  <2>3. Cardinality(Unready(x) \ {n}) = Cardinality(Unready(x)) - 1
    BY <1>9, <2>2, FS_RemoveElement
  <2>. QED BY <1>9, <2>2, <2>3
\* The status of the nodes, when none is told to commit, or all are.
<1>11. ASSUME NEW m \in NodesOf(x)
       PROVE  /\ Passed(m) => Passed(m)'
              /\ Within(m) => Within(m)'
              /\ (pending[x] # 1 \/ m \notin Registered(x)) => /\ Untouched(m) => Untouched(m)'
                                                               /\ Entering(m) => Entering(m)'
  <2>1. /\ m \in Node /\ m.txn = x /\ Keeps(The("PrepareForCommit", m)) /\ Keeps(The("PrepareReturned", m))
        /\ "PrepareForCommit" \in called'[m] <=> "PrepareForCommit" \in called[m]
        /\ "PrepareDone" \in called'[m] <=> "PrepareDone" \in called[m]
    BY <1>4, <1>5 DEF NodesOf
  <2>2. ASSUME pending[x] # 1 \/ m \notin Registered(x), Fresh(m) PROVE Fresh(m)'
    <3>1. m # n BY <2>2 DEF Fresh
    <3>2. "Commit" \notin called'[m] /\ "ReadyForCommit" \notin called'[m]
      BY <1>4, <2>1, <2>2, <3>1 DEF Fresh
    <3>. QED BY <2>1, <2>2, <3>2 DEF Fresh
  <2>3. /\ Passed(m) => Passed(m)'
        /\ (waiting'[m.txn] <=> waiting[m.txn]) => (Within(m) => Within(m)')
        /\ (Fresh(m) => Fresh(m)') => (Untouched(m) => Untouched(m)') /\ (Entering(m) => Entering(m)')
    BY <2>1, LabelStatus
  <2>. QED BY <1>0, <2>1, <2>2, <2>3
<1>12. ~ Unrequested(x) BY <1>0, Tokens
<1>13. ASSUME NEW k \in NodesOf(x), CommitAt(x, k) PROVE CommitAt(x, k)'
  <2>1. /\ k \in Registered(x) /\ (Entering(k) \/ Within(k)) /\ FirstRequested(x) /\ ~ Committed(x)
        /\ ~ Owes(The("EndOfPhase", x)) /\ pending[x] = Cardinality(Unready(x)) + 1
        /\ \A m \in NodesOf(x) \ {k} :
             IF m \in Registered(x) /\ NodeBefore(m, k) THEN Passed(m) ELSE Untouched(m)
    BY <1>13 DEF CommitAt
  <2>2. pending[x] # 1 /\ pending'[x] = Cardinality(Unready(x))' + 1 BY <1>3, <1>10, <2>1
  <2>3. ~ Committed(x)' BY <1>4, <2>1, <2>2 DEF Committed, NodesOf
  <2>4. \A m \in NodesOf(x) \ {k} :
          IF m \in Registered(x)' /\ NodeBefore(m, k) THEN Passed(m)' ELSE Untouched(m)'
    BY <1>7, <1>11, <2>1, <2>2
  <2>5. ~ Owes(The("EndOfPhase", x))' BY <1>5, <2>1 DEF Keeps
  <2>6. Entering(k)' \/ Within(k)' BY <1>11, <2>1, <2>2
  <2>. QED BY <1>7, <1>8, <2>1, <2>2, <2>3, <2>4, <2>5, <2>6 DEF CommitAt, NodesOf, NodeBefore
<1>14. CASE AllPrepared(x)
  <2>1. /\ \A m \in NodesOf(x) : IF m \in Registered(x) THEN Passed(m) ELSE Untouched(m)
        /\ FirstRequested(x) /\ Once(The("EndOfPhase", x))
        /\ Owes(The("EndOfPhase", x)) => pending[x] = Cardinality(Unready(x)) + 1
        /\ ~ Owes(The("EndOfPhase", x)) => pending[x] = Cardinality(Unready(x))
        /\ ~ Committed(x)
    BY <1>9, <1>14 DEF AllPrepared
  <2>2. \A m \in NodesOf(x) : IF m \in Registered(x)' THEN Passed(m)' ELSE Untouched(m)'
    BY <1>7, <1>11, <2>1
  <2>3. Once(The("EndOfPhase", x))' /\ (Owes(The("EndOfPhase", x))' <=> Owes(The("EndOfPhase", x)))
    BY <1>5, <2>1 DEF Keeps
  <2>4. Committed(x)' => pending[x] = 1 BY <1>4, <2>1 DEF Committed, NodesOf
  <2>5. /\ Owes(The("EndOfPhase", x))' => ~ Committed(x)' /\ pending'[x] = Cardinality(Unready(x))' + 1
        /\ ~ Owes(The("EndOfPhase", x))' => pending'[x] = Cardinality(Unready(x))'
    BY <1>3, <1>10, <2>1, <2>3, <2>4
  <2>6. Committed(x)' => Unready(x)' = {} BY <1>10, <2>1, <2>3, <2>4, <2>5
  <2>7. AllPrepared(x)' BY <1>8, <2>1, <2>2, <2>3, <2>5, <2>6 DEF AllPrepared, NodesOf
  <2>. QED BY <1>6, <2>7 DEF Progress
<1>. QED BY <1>6, <1>12, <1>13, <1>14 DEF Progress, NodesOf

\* A step that no transaction sees.
LEMMA ProgressSame ==
  ASSUME ProgressInv, KeepsCommits, pending' = pending, waiting' = waiting,
         \A n \in Node : \A l \in Label : l \in called'[n] <=> l \in called[n]
  PROVE  ProgressInv'
<1>1. \A m : /\ Keeps(The("PrepareForCommit", m)) /\ Keeps(The("PrepareReturned", m))
             /\ Keeps(The("EndOfPhase", m))
  BY DEF KeepsCommits, CommitOperation
<1>2. ASSUME NEW x \in Transaction PROVE SameTransaction(x)
  BY <1>1 DEF SameTransaction, SameNode, NodesOf
<1>. QED BY <1>2, ProgressFrame DEF ProgressInv

\* PrepareForCommit was called on a node that was told something, or is looked at.
StateInv ==
  \A n \in Node : prepare_state[n] # "kNone" \/ Owes(The("Loop", n)) => "PrepareForCommit" \in called[n]

LEMMA ProgressStep ==
  ASSUME Types, CallbackInv, StateInv, ProgressInv, NodeStep
  PROVE  ProgressInv'
<1>0. called \in [Node -> SUBSET NodeCall] /\ \A n \in Node : n.txn \in Transaction
  BY NodeFields DEF Types
<1>00. \A x \in Transaction : Progress(x) BY DEF ProgressInv
<1>1. CASE Aside BY <1>1, ProgressSame DEF Aside
<1>2. ASSUME NEW n \in Node, NEW l, l \notin Label, called' = [called EXCEPT ![n] = @ \cup {l}],
             KeepsCommits, UNCHANGED <<pending, waiting>>
      PROVE  ProgressInv'
  <2>1. \A m \in Node : \A k \in Label : k \in called'[m] <=> k \in called[m] BY <1>0, <1>2
  <2>. QED BY <1>2, <2>1, ProgressSame
<1>3. ASSUME NEW n \in Node, Requests(n.txn, n) \/ Prepares(n) \/ Returned(n) PROVE ProgressInv'
  <2>. SUFFICES ASSUME NEW x, x = n.txn PROVE ProgressInv' OBVIOUS
  <2>1. x \in Transaction /\ Progress(x) BY <1>0, <1>00
  <2>2. Elsewhere(x) /\ Progress(x)'
    BY <1>3, <2>1, RequestsProgress, PreparesProgress, ReturnedProgress
  <2>. QED BY <2>2, ProgressElsewhere
<1>4. ASSUME NEW n \in Node, Done(n) PROVE ProgressInv'
  <2>. SUFFICES ASSUME NEW x, x = n.txn PROVE ProgressInv' OBVIOUS
  <2>1. x \in Transaction /\ Progress(x) BY <1>0, <1>00
  <2>2. Owes(The("PrepareDone", n)) BY <1>4 DEF Done, MovesOn
  <2>3. prepare_state[n] # "kNone" /\ "PrepareDone" \notin called[n]
    BY <2>2 DEF CallbackInv, Callbacks
  <2>4. "PrepareForCommit" \in called[n] BY <2>3 DEF StateInv
  <2>5. Elsewhere(x) /\ Progress(x)' BY <1>4, <2>1, <2>3, <2>4, DoneProgress
  <2>. QED BY <2>5, ProgressElsewhere
<1>5. ASSUME NEW x \in Transaction, Ends(x) PROVE ProgressInv'
  <2>1. Elsewhere(x) /\ Progress(x)' BY <1>00, <1>5, EndsProgress
  <2>. QED BY <2>1, ProgressElsewhere
<1>6. ASSUME NEW n \in Node, Readies(n) PROVE ProgressInv'
  <2>. SUFFICES ASSUME NEW x, x = n.txn PROVE ProgressInv' OBVIOUS
  <2>1. x \in Transaction /\ Progress(x) BY <1>0, <1>00
  <2>2. Owes(The("ReadyForCommit", n)) BY <1>6 DEF Readies
  <2>3. prepare_state[n] = "kReadyForCommitCalled" /\ "ReadyForCommit" \notin called[n]
    BY <2>2 DEF CallbackInv, Callbacks
  <2>4. "PrepareForCommit" \in called[n] BY <2>3 DEF StateInv
  <2>5. Elsewhere(x) /\ Progress(x)' BY <1>6, <2>1, <2>3, <2>4, ReadiesProgress
  <2>. QED BY <2>5, ProgressElsewhere
<1>7. ASSUME NEW n \in Node, Writes(n) \/ Finishes(n) PROVE ProgressInv'
  <2>1. "Writeback" \notin Label /\ "CommitDone" \notin Label BY DEF Label
  <2>2. CASE Writes(n) BY <1>2, <2>1, <2>2 DEF Writes
  <2>3. CASE Finishes(n) BY <1>2, <2>1, <2>3 DEF Finishes
  <2>. QED BY <1>7, <2>2, <2>3
<1>8. ASSUME NEW n \in Node, Ends(n.txn) PROVE ProgressInv'
  <2>. SUFFICES ASSUME NEW x, x = n.txn PROVE ProgressInv' OBVIOUS
  <2>. QED BY <1>0, <1>5, <1>8
<1>. QED BY <1>1, <1>3, <1>4, <1>5, <1>6, <1>7, <1>8 DEF NodeStep

LEMMA ProgressInit == Init => ProgressInv
<1>. SUFFICES ASSUME Init, NEW x \in Transaction PROVE Unrequested(x)
  BY DEF ProgressInv, Progress
<1>1. pending[x] = 0 /\ \A n \in Node : called[n] \in {{}, {"Register"}} BY DEF Init
<1>2. \A n \in Node : Fresh(n) /\ "RequestCommit" \notin called[n] BY <1>1 DEF Fresh
<1>. QED BY <1>1, <1>2, NothingOwed DEF Unrequested, Untouched, NodesOf

-----------------------------------------------------------------------------
(* The queue of an entry.                                                  *)

\* The nodes of the transaction whose turn it is come first; others have one each.
InLine(q, e) ==
  /\ \A i \in 1 .. Len(q) : q[i].entry = e
  /\ \A i, j \in 1 .. Len(q) : q[i] = q[j] => i = j
  /\ \A i, j \in 1 .. Len(q) : i < j /\ q[j].txn = q[1].txn => q[i].txn = q[1].txn
  /\ \A i, j \in 1 .. Len(q) : i # j /\ q[i].txn = q[j].txn => q[i].txn = q[1].txn

\* Who is in the queue: from PrepareForCommit to the end of the writeback.
Enqueued(n) == "PrepareForCommit" \in called[n] /\ "Writeback" \notin called[n]

QueueMembers(e) ==
  /\ InLine(queue[e], e)
  /\ \A n \in Node : n.entry = e => (Contains(queue[e], n) <=> Enqueued(n))

\* Only nodes of that transaction have been told anything, or are looked at.
QueueTurn(e) ==
  \A n \in Node : Contains(queue[e], n) =>
    (prepare_state[n] # "kNone" \/ Owes(The("Loop", n)) => n.txn = queue[e][1].txn)

QueueInv == \A e \in Entry : QueueMembers(e) /\ QueueTurn(e)

WrittenInv == \A n \in Node : "Writeback" \in called[n] => "Commit" \in called[n]

LEMMA HeadOfQueue ==
  ASSUME NEW q \in Seq(Node)
  PROVE  /\ Len(q) \in Nat /\ (Empty(q) <=> Len(q) = 0)
         /\ ~ Empty(q) => Head(q) = q[1] /\ 1 \in 1 .. Len(q)
         /\ \A n : Contains(q, n) <=> \E i \in 1 .. Len(q) : q[i] = n
         /\ \A n : n \in Range(q) <=> Contains(q, n)
         /\ \A n : Contains(q, n) => n \in Node /\ ~ Empty(q)
<1>1. Len(q) \in Nat /\ DOMAIN q = 1 .. Len(q) /\ (q = <<>> <=> Len(q) = 0)
  BY LenProperties, EmptySeq
<1>2. \A i \in 1 .. Len(q) : q[i] \in Node BY ElementOfSeq
<1>3. Head(q) = q[1] OBVIOUS
<1>4. \A n : Contains(q, n) <=> \E i \in 1 .. Len(q) : q[i] = n BY DEF Contains
<1>5. \A n : n \in Range(q) <=> Contains(q, n) BY <1>1, <1>4 DEF Range
<1>. QED BY <1>1, <1>2, <1>3, <1>4, <1>5 DEF Empty

LEMMA JoinLine ==
  ASSUME NEW q \in Seq(Node), NEW n \in Node, NEW e, n.entry = e, InLine(q, e), ~ Empty(q),
         \A m : Contains(q, m) => m.txn # n.txn,
         NEW p, Is(p, Append(q, n))
  PROVE  InLine(p, e) /\ p[1] = q[1] /\ \A m : Contains(p, m) <=> Contains(q, m) \/ m = n
<1>1. /\ p \in Seq(Node) /\ Len(p) = Len(q) + 1 /\ p[Len(q) + 1] = n
      /\ \A i \in 1 .. Len(q) : p[i] = q[i]
  BY AppendProperties DEF Is
<1>2. Len(q) \in Nat /\ Len(q) # 0 BY HeadOfQueue
<1>. SUFFICES ASSUME NEW k \in Nat, k = Len(q), k # 0, Len(p) = k + 1, p[k + 1] = n
              PROVE  InLine(p, e) /\ p[1] = q[1] /\ \A m : Contains(p, m) <=> Contains(q, m) \/ m = n
  BY <1>1, <1>2
<1>3. \A i \in 1 .. k : q[i].txn # n.txn /\ q[i] # n /\ p[i] = q[i] BY <1>1, HeadOfQueue
<1>4. p[1] = q[1] /\ p[1].txn # n.txn BY <1>3
<1>5. /\ \A i \in 1 .. k + 1 : i \in 1 .. k \/ i = k + 1
      /\ \A i \in 1 .. k : i < k + 1 /\ i # k + 1 /\ i \in 1 .. k + 1
  OBVIOUS
<1>6. \A m : Contains(p, m) <=> Contains(q, m) \/ m = n BY <1>1, <1>3, <1>5, HeadOfQueue
<1>7. /\ \A i \in 1 .. k : q[i].entry = e
      /\ \A i, j \in 1 .. k : q[i] = q[j] => i = j
      /\ \A i, j \in 1 .. k : i < j /\ q[j].txn = q[1].txn => q[i].txn = q[1].txn
      /\ \A i, j \in 1 .. k : i # j /\ q[i].txn = q[j].txn => q[i].txn = q[1].txn
  BY DEF InLine
<1>8. \A i \in 1 .. k + 1 : p[i].entry = e BY <1>3, <1>5, <1>7
<1>9. \A i, j \in 1 .. k + 1 : p[i] = p[j] => i = j BY <1>3, <1>5, <1>7
<1>10. \A i, j \in 1 .. k + 1 : i < j /\ p[j].txn = p[1].txn => p[i].txn = p[1].txn
  <2>. SUFFICES ASSUME NEW i \in 1 .. k + 1, NEW j \in 1 .. k + 1, i < j, p[j].txn = p[1].txn
                PROVE  p[i].txn = p[1].txn
    OBVIOUS
  <2>1. j # k + 1 /\ i # k + 1 BY <1>4
  <2>. QED BY <1>3, <1>4, <1>5, <1>7, <2>1
<1>11. \A i, j \in 1 .. k + 1 : i # j /\ p[i].txn = p[j].txn => p[i].txn = p[1].txn
  <2>. SUFFICES ASSUME NEW i \in 1 .. k + 1, NEW j \in 1 .. k + 1, i # j, p[i].txn = p[j].txn
                PROVE  p[i].txn = p[1].txn
    OBVIOUS
  <2>1. j # k + 1 /\ i # k + 1 BY <1>3, <1>5
  <2>. QED BY <1>3, <1>4, <1>5, <1>7, <2>1
<1>. QED BY <1>4, <1>6, <1>8, <1>9, <1>10, <1>11 DEF InLine

LEMMA LeadLine ==
  ASSUME NEW q \in Seq(Node), NEW n \in Node, NEW e, n.entry = e, InLine(q, e),
         Empty(q) \/ q[1].txn = n.txn, ~ Contains(q, n),
         NEW p, Is(p, <<n>> \o q)
  PROVE  /\ p \in Seq(Node) /\ InLine(p, e) /\ p[1] = n
         /\ \A m : Contains(p, m) <=> Contains(q, m) \/ m = n
<1>1. Len(q) \in Nat /\ <<n>> \in Seq(Node) /\ Len(<<n>>) = 1 /\ <<n>>[1] = n BY HeadOfQueue
<1>2. /\ p \in Seq(Node) /\ Len(p) = 1 + Len(q)
      /\ \A i \in 1 .. 1 + Len(q) : p[i] = IF i <= 1 THEN <<n>>[i] ELSE q[i - 1]
  BY <1>1, ConcatProperties DEF Is
<1>. SUFFICES ASSUME NEW k \in Nat, k = Len(q), Len(p) = k + 1
              PROVE  InLine(p, e) /\ p[1] = n /\ \A m : Contains(p, m) <=> Contains(q, m) \/ m = n
  BY <1>1, <1>2
<1>3. p[1] = n /\ \A i \in 1 .. k : p[i + 1] = q[i] BY <1>1, <1>2
<1>4. /\ \A i \in 1 .. k + 1 : i = 1 \/ (i - 1 \in 1 .. k /\ (i - 1) + 1 = i)
      /\ \A i \in 1 .. k : i + 1 \in 1 .. k + 1
      /\ 1 \in 1 .. k + 1
  OBVIOUS
<1>5. \A i \in 1 .. k + 1 : i = 1 \/ (i - 1 \in 1 .. k /\ p[i] = q[i - 1]) BY <1>3, <1>4
<1>6. \A m : Contains(p, m) <=> Contains(q, m) \/ m = n
  <2>0. /\ \A m : Contains(p, m) <=> \E j \in 1 .. k + 1 : p[j] = m
        /\ \A m : Contains(q, m) <=> \E j \in 1 .. k : q[j] = m
    BY <1>2, HeadOfQueue
  <2>1. \A m : Contains(p, m) => Contains(q, m) \/ m = n BY <1>3, <1>5, <2>0
  <2>2. \A m : Contains(q, m) \/ m = n => Contains(p, m) BY <1>3, <1>4, <2>0
  <2>. QED BY <2>1, <2>2
<1>7. /\ \A i \in 1 .. k : q[i].entry = e
      /\ \A i, j \in 1 .. k : q[i] = q[j] => i = j
      /\ \A i, j \in 1 .. k : i < j /\ q[j].txn = q[1].txn => q[i].txn = q[1].txn
      /\ \A i, j \in 1 .. k : i # j /\ q[i].txn = q[j].txn => q[i].txn = q[1].txn
  BY DEF InLine
<1>8. /\ \A i \in 1 .. k : q[i] # n
      /\ k # 0 => q[1].txn = n.txn
  BY HeadOfQueue
<1>9. \A i \in 1 .. k + 1 : p[i].entry = e BY <1>3, <1>5, <1>7
<1>10. \A i, j \in 1 .. k + 1 : p[i] = p[j] => i = j
  <2>. SUFFICES ASSUME NEW i \in 1 .. k + 1, NEW j \in 1 .. k + 1, p[i] = p[j] PROVE i = j
    OBVIOUS
  <2>1. i = 1 <=> j = 1 BY <1>3, <1>5, <1>8
  <2>2. i # 1 => i - 1 = j - 1 BY <1>5, <1>7, <2>1
  <2>. QED BY <2>1, <2>2
<1>11. \A i, j \in 1 .. k + 1 : i < j /\ p[j].txn = p[1].txn => p[i].txn = p[1].txn
  <2>. SUFFICES ASSUME NEW i \in 1 .. k + 1, NEW j \in 1 .. k + 1, i < j, p[j].txn = p[1].txn, i # 1
                PROVE  p[i].txn = p[1].txn
    OBVIOUS
  <2>1. /\ i - 1 \in 1 .. k /\ p[i] = q[i - 1] /\ j - 1 \in 1 .. k /\ p[j] = q[j - 1]
        /\ i - 1 < j - 1 /\ k # 0
    BY <1>5
  <2>2. q[1].txn = n.txn BY <1>8, <2>1
  <2>. QED BY <1>3, <1>7, <2>1, <2>2
<1>12. \A i, j \in 1 .. k + 1 : i # j /\ p[i].txn = p[j].txn => p[i].txn = p[1].txn
  <2>. SUFFICES ASSUME NEW i \in 1 .. k + 1, NEW j \in 1 .. k + 1, i # j, p[j].txn = p[i].txn, i # 1, j # 1
                PROVE  p[i].txn = p[1].txn
    OBVIOUS
  <2>1. /\ i - 1 \in 1 .. k /\ p[i] = q[i - 1] /\ j - 1 \in 1 .. k /\ p[j] = q[j - 1]
        /\ i - 1 # j - 1 /\ k # 0
    BY <1>5
  <2>2. q[1].txn = n.txn BY <1>8, <2>1
  <2>. QED BY <1>3, <1>7, <2>1, <2>2
<1>. QED BY <1>2, <1>3, <1>6, <1>9, <1>10, <1>11, <1>12 DEF InLine

\* The node that leaves the queue is of the transaction whose turn it is.
LEMMA LeaveLine ==
  ASSUME NEW q \in Seq(Node), NEW n \in Node, NEW e, InLine(q, e), Contains(q, n), n.txn = q[1].txn,
         NEW p, Is(p, Unlink(q, n))
  PROVE  /\ p \in Seq(Node) /\ InLine(p, e)
         /\ \A m : Contains(p, m) <=> Contains(q, m) /\ m # n
         /\ \A m : Contains(p, m) /\ m.txn = q[1].txn => m.txn = p[1].txn
<1>1. p \in Seq(Node) BY Unlinked DEF Is
<1>2. PICK k \in 1 .. Len(q) :
           /\ q[k] = n /\ Len(p) = Len(q) - 1
           /\ \A j \in 1 .. Len(q) - 1 : p[j] = IF j < k THEN q[j] ELSE q[j + 1]
  <2>1. PICK k \in 1 .. Len(q) :
           /\ q[k] = n /\ Len(Unlink(q, n)) = Len(q) - 1
           /\ \A j \in 1 .. Len(q) - 1 : Unlink(q, n)[j] = IF j < k THEN q[j] ELSE q[j + 1]
    BY Unlinked
  <2>. QED BY <2>1 DEF Is
<1>3. Len(q) \in Nat /\ Len(p) \in Nat BY <1>1, HeadOfQueue
<1>. SUFFICES ASSUME NEW l \in Nat, l + 1 = Len(q), Len(p) = l, k \in 1 .. l + 1
              PROVE  /\ InLine(p, e)
                     /\ \A m : Contains(p, m) <=> Contains(q, m) /\ m # n
                     /\ \A m : Contains(p, m) /\ m.txn = q[1].txn => m.txn = p[1].txn
  BY <1>1, <1>2, <1>3
<1>. DEFINE f(j) == IF j < k THEN j ELSE j + 1
<1>4. \A j \in 1 .. l : p[j] = q[f(j)] /\ f(j) \in 1 .. l + 1 /\ f(j) # k BY <1>2
<1>5. /\ \A i, j \in 1 .. l : (f(i) < f(j) <=> i < j) /\ (f(i) = f(j) <=> i = j)
      /\ \A i \in 1 .. l + 1 : i # k => \E j \in 1 .. l : f(j) = i
  <2>1. \A i, j \in 1 .. l : (f(i) < f(j) <=> i < j) /\ (f(i) = f(j) <=> i = j) OBVIOUS
  <2>2. ASSUME NEW i \in 1 .. l + 1, i # k PROVE \E j \in 1 .. l : f(j) = i
    <3>1. CASE i < k
      <4>1. i \in 1 .. l /\ f(i) = i BY <3>1
      <4>. QED BY <4>1
    <3>2. CASE ~ (i < k)
      <4>1. i - 1 \in 1 .. l /\ f(i - 1) = i BY <2>2, <3>2
      <4>. QED BY <4>1
    <3>. QED BY <3>1, <3>2
  <2>. QED BY <2>1, <2>2
<1>6. f(1) = (IF k = 1 THEN 2 ELSE 1) /\ 1 \in 1 .. l + 1 OBVIOUS
<1>. HIDE DEF f
<1>7. /\ \A i \in 1 .. l + 1 : q[i].entry = e
      /\ \A i, j \in 1 .. l + 1 : q[i] = q[j] => i = j
      /\ \A i, j \in 1 .. l + 1 : i < j /\ q[j].txn = q[1].txn => q[i].txn = q[1].txn
      /\ \A i, j \in 1 .. l + 1 : i # j /\ q[i].txn = q[j].txn => q[i].txn = q[1].txn
  BY DEF InLine
<1>8. \A m : Contains(p, m) <=> Contains(q, m) /\ m # n
  <2>1. \A m : Contains(p, m) <=> \E j \in 1 .. l : p[j] = m BY <1>1, HeadOfQueue
  <2>2. \A m : Contains(q, m) <=> \E j \in 1 .. l + 1 : q[j] = m BY HeadOfQueue
  <2>3. ASSUME NEW m, Contains(p, m) PROVE Contains(q, m) /\ m # n
    BY <1>2, <1>4, <1>7, <2>1, <2>2, <2>3
  <2>4. ASSUME NEW m, Contains(q, m), m # n PROVE Contains(p, m)
    <3>1. PICK i \in 1 .. l + 1 : q[i] = m BY <2>2, <2>4
    <3>2. i # k BY <1>2, <2>4, <3>1
    <3>3. PICK j \in 1 .. l : f(j) = i BY <1>5, <3>2
    <3>. QED BY <1>4, <2>1, <3>1, <3>3
  <2>. QED BY <2>3, <2>4
\* The turn stays with the transaction as long as it has nodes.
<1>9. ASSUME NEW j \in 1 .. l, p[j].txn = q[1].txn PROVE p[1].txn = q[1].txn
  <2>1. 1 \in 1 .. l /\ p[1] = q[f(1)] /\ f(1) \in 1 .. l + 1 BY <1>4
  <2>2. j = 1 \/ f(1) < f(j) BY <1>5, <2>1
  <2>. QED BY <1>4, <1>7, <1>9, <2>1, <2>2
<1>10. \A m : Contains(p, m) /\ m.txn = q[1].txn => m.txn = p[1].txn
  <2>1. \A m : Contains(p, m) <=> \E j \in 1 .. l : p[j] = m BY <1>1, HeadOfQueue
  <2>. QED BY <1>9, <2>1
<1>11. ASSUME NEW i \in 1 .. l, NEW j \in 1 .. l, i # j, p[i].txn = p[j].txn
       PROVE  p[i].txn = p[1].txn
  <2>1. f(i) # f(j) /\ f(i) \in 1 .. l + 1 /\ f(j) \in 1 .. l + 1 /\ p[i] = q[f(i)] /\ p[j] = q[f(j)]
    BY <1>4, <1>5, <1>11
  <2>2. p[i].txn = q[1].txn BY <1>7, <1>11, <2>1
  <2>. QED BY <1>9, <2>2
<1>12. ASSUME NEW i \in 1 .. l, NEW j \in 1 .. l, i < j, p[j].txn = p[1].txn
       PROVE  p[i].txn = p[1].txn
  <2>1. 1 \in 1 .. l /\ j # 1 BY <1>12
  <2>2. p[j].txn = q[1].txn
    <3>1. f(j) # f(1) /\ f(1) \in 1 .. l + 1 /\ f(j) \in 1 .. l + 1 /\ p[1] = q[f(1)] /\ p[j] = q[f(j)]
      BY <1>4, <1>5, <2>1
    <3>. QED BY <1>7, <1>12, <3>1
  <2>3. f(i) < f(j) /\ f(i) \in 1 .. l + 1 /\ f(j) \in 1 .. l + 1 /\ p[i] = q[f(i)] /\ p[j] = q[f(j)]
    BY <1>4, <1>5, <1>12
  <2>4. p[i].txn = q[1].txn BY <1>7, <2>2, <2>3
  <2>. QED BY <1>12, <2>2, <2>4
<1>13. /\ \A i \in 1 .. l : p[i].entry = e
       /\ \A i, j \in 1 .. l : p[i] = p[j] => i = j
  BY <1>4, <1>5, <1>7
<1>. QED BY <1>8, <1>10, <1>11, <1>12, <1>13 DEF InLine

LEMMA InLineEntry ==
  ASSUME NEW q \in Seq(Node), NEW e, InLine(q, e), NEW n, Contains(q, n)
  PROVE  n.entry = e
BY HeadOfQueue DEF InLine

\* The head of the queue, or another node of its transaction, is looked at.
LEMMA LookTurn ==
  ASSUME NEW q \in Seq(Node), NEW e, InLine(q, e), NEW c \in Node, Contains(q, c), c.txn = q[1].txn,
         NEW i, LooksAt(c, q, i),
         \A n \in Node : Contains(q, n) =>
           (prepare_state[n] # "kNone" \/ Owes(The("Loop", n)) => n.txn = q[1].txn)
  PROVE  /\ \A n \in Node : Contains(q, n) =>
              (prepare_state'[n] # "kNone" \/ Owes(The("Loop", n))' => n.txn = q[1].txn)
         /\ \A n \in Node : n.entry # e => /\ prepare_state'[n] = prepare_state[n]
                                           /\ Owes(The("Loop", n))' => Owes(The("Loop", n))
         /\ \A n \in Node : n # c => prepare_state'[n] = prepare_state[n]
         /\ \A n : Owes(The("Loop", n))' => Owes(The("Loop", n)) \/ Contains(q, n)
<1>1. /\ \A n \in Node : n # c => prepare_state'[n] = prepare_state[n]
      /\ \A n : Owes(The("Loop", n))' => Owes(The("Loop", n)) \/ (n \in Range(q) /\ n.txn = c.txn)
  BY DEF LooksAt
<1>2. \A n \in Node : n.entry # e => n # c /\ n \notin Range(q) BY InLineEntry, HeadOfQueue
<1>3. \A n : n \in Range(q) <=> Contains(q, n) BY HeadOfQueue
<1>. QED BY <1>1, <1>2, <1>3

\* Queues other than that of e.
LEMMA OtherQueues ==
  ASSUME Types, QueueInv, NEW e, NEW p, queue' = [queue EXCEPT ![e] = p],
         \A n \in Node : n.entry # e => /\ prepare_state'[n] = prepare_state[n]
                                        /\ Owes(The("Loop", n))' => Owes(The("Loop", n))
                                        /\ Enqueued(n)' <=> Enqueued(n)
  PROVE  \A f \in Entry \ {e} : QueueMembers(f)' /\ QueueTurn(f)'
<1>. SUFFICES ASSUME NEW f \in Entry \ {e}, NEW q, q = queue[f] PROVE QueueMembers(f)' /\ QueueTurn(f)'
  OBVIOUS
<1>1. queue'[f] = q /\ q \in Seq(Node) BY DEF Types
<1>2. InLine(q, f) /\ \A n \in Node : n.entry = f => (Contains(q, n) <=> Enqueued(n))
  BY DEF QueueInv, QueueMembers
<1>3. QueueMembers(f)' BY <1>1, <1>2 DEF QueueMembers
<1>4. \A n \in Node : Contains(q, n) => n.entry = f BY <1>1, <1>2, InLineEntry
<1>5. \A n \in Node : Contains(q, n) =>
        (prepare_state[n] # "kNone" \/ Owes(The("Loop", n)) => n.txn = q[1].txn)
  BY DEF QueueInv, QueueTurn
<1>6. QueueTurn(f)' BY <1>1, <1>4, <1>5 DEF QueueTurn
<1>. QED BY <1>3, <1>6

QueueInvs == QueueInv /\ StateInv /\ WrittenInv

\* A step that looks at no node and leaves the queues alone.
LEMMA QueuesSame ==
  ASSUME QueueInvs, queue' = queue, prepare_state' = prepare_state,
         \A m : Owes(The("Loop", m))' => Owes(The("Loop", m)),
         \A n \in Node : /\ "PrepareForCommit" \in called'[n] <=> "PrepareForCommit" \in called[n]
                         /\ "Writeback" \in called'[n] <=> "Writeback" \in called[n]
                         /\ "Commit" \in called[n] => "Commit" \in called'[n]
  PROVE  QueueInvs'
<1>1. \A n \in Node : Enqueued(n)' <=> Enqueued(n) BY DEF Enqueued
<1>2. QueueInv' BY <1>1 DEF QueueInv, QueueInvs, QueueMembers, QueueTurn
<1>3. StateInv' /\ WrittenInv' BY DEF QueueInvs, StateInv, WrittenInv
<1>. QED BY <1>2, <1>3 DEF QueueInvs

\* A node of a queue is looked at.
LEMMA QueueLook ==
  ASSUME Types, QueueInvs, queue' = queue, called' = called, NEW e \in Entry, NEW c \in Node,
         NEW q, q = queue[e], NEW i, Contains(q, c), c = Head(q) \/ Owes(The("Loop", c)), LooksAt(c, q, i)
  PROVE  QueueInvs'
<1>1. q \in Seq(Node) /\ queue \in [Entry -> Seq(Node)] /\ queue'[e] = q BY DEF Types
<1>2. InLine(q, e) /\ \A n \in Node : n.entry = e => (Contains(q, n) <=> Enqueued(n))
  BY DEF QueueInvs, QueueInv, QueueMembers
<1>3. \A n \in Node : Contains(q, n) =>
        (prepare_state[n] # "kNone" \/ Owes(The("Loop", n)) => n.txn = q[1].txn)
  BY DEF QueueInvs, QueueInv, QueueTurn
<1>4. c.txn = q[1].txn
  <2>1. ~ Empty(q) /\ Head(q) = q[1] BY <1>1, HeadOfQueue
  <2>. QED BY <1>3, <2>1
<1>5. /\ \A n \in Node : Contains(q, n) =>
           (prepare_state'[n] # "kNone" \/ Owes(The("Loop", n))' => n.txn = q[1].txn)
      /\ \A n \in Node : n.entry # e => /\ prepare_state'[n] = prepare_state[n]
                                        /\ Owes(The("Loop", n))' => Owes(The("Loop", n))
      /\ \A n \in Node : n # c => prepare_state'[n] = prepare_state[n]
      /\ \A n : Owes(The("Loop", n))' => Owes(The("Loop", n)) \/ Contains(q, n)
  BY <1>1, <1>2, <1>3, <1>4, LookTurn
<1>6. \A n \in Node : Enqueued(n)' <=> Enqueued(n) BY DEF Enqueued
<1>7. \A f \in Entry \ {e} : QueueMembers(f)' /\ QueueTurn(f)'
  <2>1. queue' = [queue EXCEPT ![e] = q] /\ QueueInv BY <1>1 DEF QueueInvs
  <2>. QED BY <1>5, <1>6, <2>1, OtherQueues
<1>8. QueueMembers(e)' /\ QueueTurn(e)' BY <1>1, <1>2, <1>5, <1>6 DEF QueueMembers, QueueTurn
<1>9. QueueInv' BY <1>7, <1>8 DEF QueueInv
<1>10. StateInv'
  <2>1. \A n \in Node : Contains(q, n) => n.entry = e BY <1>1, <1>2, InLineEntry
  <2>2. \A n \in Node : Contains(q, n) => "PrepareForCommit" \in called[n]
    BY <1>2, <2>1 DEF Enqueued
  <2>. QED BY <1>5, <2>2 DEF QueueInvs, StateInv
<1>11. WrittenInv' BY DEF QueueInvs, WrittenInv
<1>. QED BY <1>9, <1>10, <1>11 DEF QueueInvs

LEMMA PreparesQueue ==
  ASSUME Types, CallbackInv, ProgressInv, QueueInvs, NEW n \in Node, Prepares(n)
  PROVE  QueueInvs'
<1>. SUFFICES ASSUME NEW x, x = n.txn, NEW e \in Entry, e = n.entry, NEW q, q = queue[e] PROVE QueueInvs'
  BY NodeFields
<1>0. /\ q \in Seq(Node) /\ queue \in [Entry -> Seq(Node)] /\ called \in [Node -> SUBSET NodeCall]
      /\ n \in NodesOf(x) /\ x \in Transaction
  BY NodeFields DEF Types, NodesOf
<1>1. /\ Owes(The("PrepareForCommit", n))
      /\ called' = [called EXCEPT ![n] = @ \cup {"PrepareForCommit"}]
      /\ JoinsBehind(n, q) \/ JoinsInFront(n, q, request[e].issued)
  BY DEF Prepares
<1>2. CommitAt(x, n) /\ Entering(n) BY <1>0, <1>1, Tokens DEF ProgressInv
<1>3. /\ called'[n] = called[n] \cup {"PrepareForCommit"}
      /\ \A m \in Node \ {n} : called'[m] = called[m]
  BY <1>0, <1>1
<1>4. InLine(q, e) /\ \A m \in Node : m.entry = e => (Contains(q, m) <=> Enqueued(m))
  BY DEF QueueInvs, QueueInv, QueueMembers
<1>5. \A m \in Node : Contains(q, m) =>
        (prepare_state[m] # "kNone" \/ Owes(The("Loop", m)) => m.txn = q[1].txn)
  BY DEF QueueInvs, QueueInv, QueueTurn
<1>6. "PrepareForCommit" \notin called[n] /\ "Writeback" \notin called[n] /\ ~ Contains(q, n)
  <2>1. "PrepareForCommit" \notin called[n] /\ "Commit" \notin called[n]
    BY <1>2 DEF Entering, Fresh
  <2>. QED BY <1>4, <2>1 DEF QueueInvs, WrittenInv, Enqueued
<1>7. /\ \A m \in Node : m # n => (Enqueued(m)' <=> Enqueued(m))
      /\ Enqueued(n)'
  BY <1>3, <1>6 DEF Enqueued
<1>8. WrittenInv' BY <1>3 DEF QueueInvs, WrittenInv
\* Another node of x that is in the queue has been told something.
<1>9. ASSUME NEW m, Contains(q, m), m.txn = x PROVE m.txn = q[1].txn
  <2>1. m \in Node /\ m \in NodesOf(x) /\ m.entry = e
    BY <1>0, <1>4, <1>9, HeadOfQueue, InLineEntry DEF NodesOf
  <2>2. m # n /\ "PrepareForCommit" \in called[m] BY <1>4, <1>6, <1>9, <2>1 DEF Enqueued
  <2>3. Passed(m) \/ Untouched(m) BY <1>2, <2>1, <2>2 DEF CommitAt
  <2>4. "PrepareDone" \in called[m] BY <2>2, <2>3 DEF Passed, Untouched, Fresh
  <2>5. prepare_state[m] # "kNone" BY <2>1, <2>4 DEF CallbackInv, Callbacks
  <2>. QED BY <1>5, <1>9, <2>1, <2>5
<1>11. prepare_state[n] = "kNone" /\ ~ Owes(The("Loop", n)) BY <1>6 DEF QueueInvs, StateInv
<1>10. CASE JoinsBehind(n, q)
  <2>. SUFFICES ASSUME NEW p, Is(p, Append(q, n)) PROVE QueueInvs' BY DEF Is
  <2>1. /\ ~ Empty(q) /\ Head(q).txn # n.txn /\ queue' = [queue EXCEPT ![e] = p]
        /\ prepare_state' = prepare_state /\ \A m : Owes(The("Loop", m))' => Owes(The("Loop", m))
    BY <1>10 DEF JoinsBehind, StatesKept, Is
  <2>2. \A m : Contains(q, m) => m.txn # n.txn
    <3>1. Head(q) = q[1] BY <1>0, <2>1, HeadOfQueue
    <3>. QED BY <1>9, <2>1, <3>1
  <2>3. InLine(p, e) /\ p[1] = q[1] /\ \A m : Contains(p, m) <=> Contains(q, m) \/ m = n
    BY <1>0, <1>4, <2>1, <2>2, JoinLine
  <2>4. queue'[e] = p BY <1>0, <2>1
  <2>5. \A f \in Entry \ {e} : QueueMembers(f)' /\ QueueTurn(f)'
    <3>1. QueueInv /\ \A m \in Node : m.entry # e => (Enqueued(m)' <=> Enqueued(m))
      BY <1>7 DEF QueueInvs
    <3>. QED BY <2>1, <3>1, OtherQueues
  <2>6. QueueMembers(e)' BY <1>4, <1>6, <1>7, <2>3, <2>4 DEF QueueMembers
  <2>7. QueueTurn(e)' BY <1>5, <1>11, <2>1, <2>3, <2>4 DEF QueueTurn
  <2>8. StateInv' BY <1>3, <2>1 DEF QueueInvs, StateInv
  <2>. QED BY <1>8, <2>5, <2>6, <2>7, <2>8 DEF QueueInvs, QueueInv
<1>12. CASE JoinsInFront(n, q, request[e].issued)
  <2>. SUFFICES ASSUME NEW p, Is(p, <<n>> \o q), NEW i, i = request[e].issued PROVE QueueInvs'
    BY DEF Is
  <2>2. Empty(q) \/ q[1].txn = n.txn BY <1>0, <1>12, HeadOfQueue DEF JoinsInFront
  <2>3. queue' = [queue EXCEPT ![e] = p] /\ LooksAt(n, p, i) BY <1>12 DEF JoinsInFront, Is
  <2>4. p \in Seq(Node) /\ InLine(p, e) /\ p[1] = n /\ \A m : Contains(p, m) <=> Contains(q, m) \/ m = n
    <3>1. q \in Seq(Node) /\ n.entry = e /\ InLine(q, e) /\ ~ Contains(q, n) BY <1>0, <1>4, <1>6
    <3>. QED BY <2>2, <3>1, LeadLine
  <2>5. queue'[e] = p BY <1>0, <2>3
  <2>6. \A m \in Node : Contains(p, m) =>
          (prepare_state[m] # "kNone" \/ Owes(The("Loop", m)) => m.txn = p[1].txn)
    <3>1. \A m : Contains(q, m) => ~ Empty(q) BY <1>0, HeadOfQueue
    <3>. QED BY <1>5, <2>2, <2>4, <3>1
  <2>7. /\ \A m \in Node : Contains(p, m) =>
             (prepare_state'[m] # "kNone" \/ Owes(The("Loop", m))' => m.txn = p[1].txn)
        /\ \A m \in Node : m.entry # e => /\ prepare_state'[m] = prepare_state[m]
                                          /\ Owes(The("Loop", m))' => Owes(The("Loop", m))
        /\ \A m \in Node : m # n => prepare_state'[m] = prepare_state[m]
        /\ \A m : Owes(The("Loop", m))' => Owes(The("Loop", m)) \/ Contains(p, m)
    <3>1. Contains(p, n) /\ n.txn = p[1].txn BY <2>4
    <3>. QED BY <2>3, <2>4, <2>6, <3>1, LookTurn
  <2>8. \A f \in Entry \ {e} : QueueMembers(f)' /\ QueueTurn(f)'
    <3>1. QueueInv /\ \A m \in Node : m.entry # e => (Enqueued(m)' <=> Enqueued(m))
      BY <1>7 DEF QueueInvs
    <3>. QED BY <2>3, <2>7, <3>1, OtherQueues
  <2>9. QueueMembers(e)' BY <1>4, <1>6, <1>7, <2>4, <2>5 DEF QueueMembers
  <2>10. QueueTurn(e)' BY <2>5, <2>7 DEF QueueTurn
  <2>11. StateInv'
    <3>1. \A m \in Node : Contains(q, m) => "PrepareForCommit" \in called[m]
      BY <1>0, <1>4, InLineEntry DEF Enqueued
    <3>2. \A m \in Node : Contains(p, m) => "PrepareForCommit" \in called'[m]
      BY <1>3, <2>4, <3>1
    <3>. QED BY <1>3, <2>7, <3>2 DEF QueueInvs, StateInv
  <2>. QED BY <1>8, <2>8, <2>9, <2>10, <2>11 DEF QueueInvs, QueueInv
<1>. QED BY <1>1, <1>10, <1>12

LEMMA WritesQueue ==
  ASSUME Types, CallbackInv, ProgressInv, QueueInvs, NEW n \in Node, Writes(n)
  PROVE  QueueInvs'
<1>. SUFFICES ASSUME NEW x, x = n.txn, NEW e \in Entry, e = n.entry, NEW q, q = queue[e],
                     NEW p, Is(p, Unlink(q, n)), NEW i, i = request'[e].issued
              PROVE  QueueInvs'
  BY NodeFields DEF Is
<1>0. /\ q \in Seq(Node) /\ queue \in [Entry -> Seq(Node)] /\ called \in [Node -> SUBSET NodeCall]
      /\ n \in NodesOf(x) /\ x \in Transaction
  BY NodeFields DEF Types, NodesOf
<1>1. /\ "Commit" \in called[n] /\ "Writeback" \notin called[n]
      /\ called' = [called EXCEPT ![n] = @ \cup {"Writeback"}] /\ queue' = [queue EXCEPT ![e] = p]
      /\ \/ Empty(p) /\ StatesKept
         \/ \E c \in Node : Contains(p, c) /\ c = Head(p) /\ LooksAt(c, p, i)
  BY DEF Writes, WritingBack, Is
<1>2. "ReadyForCommit" \in called[n] /\ "PrepareForCommit" \in called[n]
  BY <1>0, <1>1, Tokens DEF ProgressInv
<1>3. /\ called'[n] = called[n] \cup {"Writeback"}
      /\ \A m \in Node \ {n} : called'[m] = called[m]
  BY <1>0, <1>1
<1>4. InLine(q, e) /\ \A m \in Node : m.entry = e => (Contains(q, m) <=> Enqueued(m))
  BY DEF QueueInvs, QueueInv, QueueMembers
<1>5. \A m \in Node : Contains(q, m) =>
        (prepare_state[m] # "kNone" \/ Owes(The("Loop", m)) => m.txn = q[1].txn)
  BY DEF QueueInvs, QueueInv, QueueTurn
<1>6. Contains(q, n) BY <1>1, <1>2, <1>4 DEF Enqueued
<1>7. n.txn = q[1].txn
  <2>1. prepare_state[n] = "kReadyForCommitCalled" BY <1>2 DEF CallbackInv, Callbacks
  <2>. QED BY <1>5, <1>6, <2>1
<1>8. /\ \A m \in Node : m # n => (Enqueued(m)' <=> Enqueued(m))
      /\ ~ Enqueued(n)'
  BY <1>3 DEF Enqueued
<1>9. WrittenInv' BY <1>1, <1>3 DEF QueueInvs, WrittenInv
<1>10. /\ p \in Seq(Node) /\ InLine(p, e)
       /\ \A m : Contains(p, m) <=> Contains(q, m) /\ m # n
       /\ \A m : Contains(p, m) /\ m.txn = q[1].txn => m.txn = p[1].txn
  <2>1. q \in Seq(Node) /\ InLine(q, e) BY <1>0, <1>4
  <2>. QED BY <1>6, <1>7, <2>1, LeaveLine
<1>11. queue'[e] = p BY <1>0, <1>1
<1>12. \A m \in Node : Contains(p, m) =>
         (prepare_state[m] # "kNone" \/ Owes(The("Loop", m)) => m.txn = p[1].txn)
  BY <1>5, <1>10
<1>13. QueueMembers(e)' BY <1>4, <1>8, <1>10, <1>11 DEF QueueMembers
<1>14. \A m \in Node : Contains(p, m) => "PrepareForCommit" \in called'[m]
  <2>1. \A m \in Node : Contains(q, m) => "PrepareForCommit" \in called[m]
    BY <1>0, <1>4, InLineEntry DEF Enqueued
  <2>. QED BY <1>3, <1>10, <2>1
<1>15. ASSUME \A m \in Node : Contains(p, m) =>
                (prepare_state'[m] # "kNone" \/ Owes(The("Loop", m))' => m.txn = p[1].txn),
              \A m \in Node : m.entry # e => /\ prepare_state'[m] = prepare_state[m]
                                             /\ Owes(The("Loop", m))' => Owes(The("Loop", m)),
              \A m \in Node : ~ Contains(p, m) =>
                                  /\ prepare_state'[m] = prepare_state[m]
                                  /\ Owes(The("Loop", m))' => Owes(The("Loop", m))
       PROVE  QueueInvs'
  <2>1. QueueTurn(e)' BY <1>11, <1>15 DEF QueueTurn
  <2>2. \A f \in Entry \ {e} : QueueMembers(f)' /\ QueueTurn(f)'
    <3>1. QueueInv /\ \A m \in Node : m.entry # e => (Enqueued(m)' <=> Enqueued(m))
      BY <1>8 DEF QueueInvs
    <3>. QED BY <1>1, <1>15, <3>1, OtherQueues
  <2>3. StateInv' BY <1>3, <1>14, <1>15 DEF QueueInvs, StateInv
  <2>. QED BY <1>9, <1>13, <2>1, <2>2, <2>3 DEF QueueInvs, QueueInv
<1>16. CASE Empty(p) /\ StatesKept BY <1>12, <1>15, <1>16 DEF StatesKept
<1>17. ASSUME NEW c \in Node, Contains(p, c), c = Head(p), LooksAt(c, p, i) PROVE QueueInvs'
  <2>1. c.txn = p[1].txn BY <1>10, <1>17, HeadOfQueue
  <2>2. /\ \A m \in Node : Contains(p, m) =>
             (prepare_state'[m] # "kNone" \/ Owes(The("Loop", m))' => m.txn = p[1].txn)
        /\ \A m \in Node : m.entry # e => /\ prepare_state'[m] = prepare_state[m]
                                          /\ Owes(The("Loop", m))' => Owes(The("Loop", m))
        /\ \A m \in Node : m # c => prepare_state'[m] = prepare_state[m]
        /\ \A m : Owes(The("Loop", m))' => Owes(The("Loop", m)) \/ Contains(p, m)
    <3>1. p \in Seq(Node) /\ InLine(p, e) BY <1>10
    <3>. QED BY <1>12, <1>17, <2>1, <3>1, LookTurn
  <2>. QED BY <1>15, <1>17, <2>2
<1>. QED BY <1>1, <1>16, <1>17

\* `marked` differs from `called` in nothing that matters to the queues.
MarksAlike(marked) ==
  \A m \in Node : /\ "PrepareForCommit" \in marked[m] <=> "PrepareForCommit" \in called[m]
                  /\ "Writeback" \in marked[m] <=> "Writeback" \in called[m]
                  /\ "Commit" \in called[m] => "Commit" \in marked[m]

LEMMA QueueStep ==
  ASSUME Types, CallbackInv, ProgressInv, QueueInvs, NodeStep
  PROVE  QueueInvs'
<1>0. called \in [Node -> SUBSET NodeCall] BY DEF Types
<1>1. CASE Aside
  <2>1. CASE StatesKept BY <1>1, <2>1, QueuesSame DEF Aside, StatesKept
  <2>2. ASSUME NEW e \in Entry, NEW c \in Node, Contains(queue[e], c),
               c = Head(queue[e]) \/ Owes(The("Loop", c)), LooksAt(c, queue[e], request'[e].issued)
        PROVE  QueueInvs'
    <3>. SUFFICES ASSUME NEW q, q = queue[e], NEW i, i = request'[e].issued PROVE QueueInvs'
      OBVIOUS
    <3>1. queue' = queue /\ called' = called BY <1>1 DEF Aside
    <3>. QED BY <2>2, <3>1, QueueLook
  <2>. QED BY <1>1, <2>1, <2>2 DEF Aside
\* Steps that mark a node, other than by PrepareForCommit and Writeback.
<1>2. ASSUME queue' = queue, prepare_state' = prepare_state,
             \A m : Owes(The("Loop", m))' => Owes(The("Loop", m)),
             NEW n \in Node, NEW l, l \notin {"PrepareForCommit", "Writeback"},
             called' = [called EXCEPT ![n] = @ \cup {l}]
      PROVE  QueueInvs'
  <2>1. \A m \in Node : /\ "PrepareForCommit" \in called'[m] <=> "PrepareForCommit" \in called[m]
                        /\ "Writeback" \in called'[m] <=> "Writeback" \in called[m]
                        /\ "Commit" \in called[m] => "Commit" \in called'[m]
    BY <1>0, <1>2
  <2>. QED BY <1>2, <2>1, QueuesSame
<1>3. ASSUME NEW n \in Node, Requests(n.txn, n) PROVE QueueInvs'
  BY <1>2, <1>3 DEF Requests, StatesKept
<1>4. ASSUME NEW n \in Node, Done(n) PROVE QueueInvs'
  <2>. SUFFICES ASSUME NEW l, l = "PrepareDone" PROVE QueueInvs' OBVIOUS
  <2>1. /\ queue' = queue /\ prepare_state' = prepare_state
        /\ \A m : Owes(The("Loop", m))' => Owes(The("Loop", m))
        /\ called' = [called EXCEPT ![n] = @ \cup {l}] /\ l \notin {"PrepareForCommit", "Writeback"}
    BY <1>4 DEF Done, MovesOn, StatesKeptBut
  <2>. QED BY <1>2, <2>1
<1>5. ASSUME NEW n \in Node, Finishes(n) PROVE QueueInvs'
  <2>. SUFFICES ASSUME NEW l, l = "CommitDone" PROVE QueueInvs' OBVIOUS
  <2>1. /\ queue' = queue /\ prepare_state' = prepare_state
        /\ \A m : Owes(The("Loop", m))' => Owes(The("Loop", m))
        /\ called' = [called EXCEPT ![n] = @ \cup {l}] /\ l \notin {"PrepareForCommit", "Writeback"}
    BY <1>5 DEF Finishes, StatesKept
  <2>. QED BY <1>2, <2>1
<1>6. ASSUME NEW n \in Node, Returned(n) PROVE QueueInvs'
  BY <1>6, QueuesSame DEF Returned, MovesOn, StatesKeptBut
<1>7. ASSUME NEW x, NEW marked \in [Node -> SUBSET NodeCall], Decrement(x, marked),
             MarksAlike(marked), queue' = queue, prepare_state' = prepare_state,
             \A m : Owes(The("Loop", m))' => Owes(The("Loop", m))
      PROVE  QueueInvs'
  <2>1. \A m \in Node : /\ \A l : l # "Commit" => (l \in called'[m] <=> l \in marked[m])
                        /\ "Commit" \in marked[m] => "Commit" \in called'[m]
    BY <1>7 DEF Decrement
  <2>2. \A m \in Node : /\ "PrepareForCommit" \in called'[m] <=> "PrepareForCommit" \in called[m]
                        /\ "Writeback" \in called'[m] <=> "Writeback" \in called[m]
                        /\ "Commit" \in called[m] => "Commit" \in called'[m]
    BY <1>7, <2>1 DEF MarksAlike
  <2>. QED BY <1>7, <2>2, QueuesSame
<1>8. ASSUME NEW x, Ends(x) PROVE QueueInvs'
  <2>. SUFFICES ASSUME NEW marked, marked = called PROVE QueueInvs' OBVIOUS
  <2>1. MarksAlike(marked) BY DEF MarksAlike
  <2>. QED BY <1>0, <1>7, <1>8, <2>1 DEF Ends, StatesKept
<1>9. ASSUME NEW n \in Node, Readies(n) PROVE QueueInvs'
  <2>. SUFFICES ASSUME NEW x, x = n.txn,
                       NEW marked, Is(marked, [called EXCEPT ![n] = @ \cup {"ReadyForCommit"}])
                PROVE  QueueInvs'
    BY DEF Is
  <2>1. /\ marked \in [Node -> SUBSET NodeCall] /\ marked[n] = called[n] \cup {"ReadyForCommit"}
        /\ \A m \in Node \ {n} : marked[m] = called[m]
    BY <1>0 DEF Is, NodeCall
  <2>3. MarksAlike(marked) BY <2>1 DEF MarksAlike
  <2>2. /\ Decrement(x, marked) /\ queue' = queue /\ prepare_state' = prepare_state
        /\ \A m : Owes(The("Loop", m))' => Owes(The("Loop", m))
    BY <1>9 DEF Readies, StatesKeptBut, Is
  <2>. QED BY <1>7, <2>1, <2>2, <2>3
<1>10. ASSUME NEW n \in Node, Prepares(n) \/ Writes(n) PROVE QueueInvs'
  BY <1>10, PreparesQueue, WritesQueue
<1>. QED BY <1>1, <1>3, <1>4, <1>5, <1>6, <1>8, <1>9, <1>10 DEF NodeStep

LEMMA QueueInit == Init => QueueInvs
<1>. SUFFICES ASSUME Init PROVE QueueInvs OBVIOUS
<1>1. /\ \A e \in Entry : Len(queue[e]) = 0
      /\ \A n \in Node : prepare_state[n] = "kNone" /\ called[n] \in {{}, {"Register"}}
  BY DEF Init
<1>2. \A e \in Entry : InLine(queue[e], e) /\ \A n : ~ Contains(queue[e], n)
  BY <1>1 DEF InLine, Contains
<1>3. \A n \in Node : ~ Enqueued(n) /\ "Writeback" \notin called[n] BY <1>1 DEF Enqueued
<1>. QED
  BY <1>1, <1>2, <1>3, NothingOwed DEF QueueInvs, QueueInv, QueueMembers, QueueTurn, StateInv, WrittenInv

-----------------------------------------------------------------------------
(* The theorems about nodes and their callbacks.                           *)

NodeInv == Types /\ CallbackInv /\ ProgressInv /\ QueueInvs

LEMMA NodeInvariant ==
  /\ Init => NodeInv
  /\ NodeInv /\ [Next]_vars => NodeInv'
<1>1. Init => NodeInv BY TypesInit, CallbackInit, ProgressInit, QueueInit DEF NodeInv
<1>2. ASSUME NodeInv, [Next]_vars PROVE NodeInv'
  <2>1. Types /\ CallbackInv /\ ProgressInv /\ QueueInvs /\ StateInv
    BY <1>2 DEF NodeInv, QueueInvs
  <2>2. Types' /\ NodeStep BY <1>2, <2>1, StepKinds
  <2>3. CallbackInv' BY <2>1, <2>2, CallbackStep
  <2>4. ProgressInv' BY <2>1, <2>2, ProgressStep
  <2>5. QueueInvs' BY <2>1, <2>2, QueueStep
  <2>. QED BY <2>2, <2>3, <2>4, <2>5 DEF NodeInv
<1>. QED BY <1>1, <1>2

\* nodes_pending_commit_ never wraps around.
LEMMA PendingIsNat ==
  ASSUME Types, ProgressInv
  PROVE  pending \in [Transaction -> Nat]
<1>. SUFFICES ASSUME NEW x \in Transaction PROVE pending[x] \in Nat BY DEF Types
<1>1. Cardinality(Unready(x)) \in Nat
  <2>1. Unready(x) \in SUBSET NodesOf(x) BY DEF Unready
  <2>. QED BY <2>1, FiniteNodes
<1>2. Progress(x) BY DEF ProgressInv
<1>3. CASE Unrequested(x) BY <1>3 DEF Unrequested
<1>4. CASE \E n \in NodesOf(x) : CommitAt(x, n) BY <1>1, <1>4 DEF CommitAt
<1>5. CASE AllPrepared(x) BY <1>1, <1>5 DEF AllPrepared
<1>. QED BY <1>2, <1>3, <1>4, <1>5 DEF Progress

LEMMA TypesOK ==
  ASSUME Types, ProgressInv
  PROVE  TypeOK
<1>1. ASSUME NEW t \in Thread, NEW i \in DOMAIN work[t] PROVE work[t][i].op \in Operation
  <2>1. work[t][i] \in Items BY ElementOfSeq DEF Types, WorkOK
  <2>. QED BY <2>1 DEF Items, NodeOperation, Operation
<1>2. \A n \in Node : called[n] \subseteq NodeCall BY DEF Types
<1>. QED BY <1>1, <1>2, PendingIsNat DEF Types, TypeOK, ReaderState

\* TypeOK.  In particular nodes_pending_commit_ never goes below zero, and the calls
\* that a thread leaves for later are calls that some step makes.
THEOREM TypeCorrect == Spec => []TypeOK
<1>1. NodeInv => TypeOK BY TypesOK DEF NodeInv
<1>. QED BY <1>1, NodeInvariant, PTL DEF Spec

\* CallbacksOnce: PrepareDone and ReadyForCommit are called at most once on every
\* node, however often MaybeStartReadOrWriteback looks at it, and from however many
\* threads the calls are made after the lock is released.
THEOREM CallbacksMadeOnce == Spec => []CallbacksOnce
<1>1. NodeInv => CallbacksOnce BY CallbacksCounted DEF NodeInv
<1>. QED BY <1>1, NodeInvariant, PTL DEF Spec

-----------------------------------------------------------------------------
(***************************************************************************)
(* The reads of the entries of an AsyncCache, for every set of threads,    *)
(* readers, transactions and entries, and whatever the kvstore answers:    *)
(* nobody waits without somebody to wake him, nodes are written back in    *)
(* turn and never while a read is in progress, read states never go back   *)
(* in time, and readers are given data as fresh as they asked for.         *)
(***************************************************************************)

(* The calls that reads leave for later.                                   *)

ReadCall == {"DoRead", "SetResult"}

\* No read is started, and nobody is to be told a result.
NoReadStarted == \A f \in Entry : Keeps(The("DoRead", f))
NobodyTold(told) == \A y : y.op = "SetResult" /\ Owes(y)' => Owes(y) \/ y \in told

LEMMA DoReadCalls ==
  ASSUME WorkOK, NEW t \in Thread, NEW items \in Seq(Items), Do(t, items), NEW told,
         NotOf(Range(items), {"DoRead"}), NotOf(Popped(t), {"DoRead"}),
         \A y \in Range(items) : y.op = "SetResult" => y \in told
  PROVE  NoReadStarted /\ NobodyTold(told)
<1>1. ASSUME NEW f \in Entry PROVE Keeps(The("DoRead", f))
  <2>1. The("DoRead", f) \notin Range(items) /\ The("DoRead", f) \notin Popped(t)
    BY TheOp DEF NotOf
  <2>. QED BY <2>1, DoEffect
<1>2. ASSUME NEW y, y.op = "SetResult", Owes(y)' PROVE Owes(y) \/ y \in told
  <2>1. CASE y \in Range(items) BY <1>2, <2>1
  <2>2. CASE y \notin Range(items) BY <1>2, <2>2, DoEffect
  <2>. QED BY <2>1, <2>2
<1>. QED BY <1>1, <1>2 DEF NoReadStarted, NobodyTold

LEMMA SameReadCalls ==
  ASSUME work' = work
  PROVE  NoReadStarted /\ \A told : NobodyTold(told)
BY DEF NoReadStarted, NobodyTold, Keeps, Owes, Once

\* A node is looked at.
LEMMA LooksReadCalls ==
  ASSUME WorkOK, prepare_state \in [Node -> PrepareState],
         NEW t \in Thread, NEW c \in Node, NEW q \in Seq(Node), NEW i \in BOOLEAN,
         NEW after \in Seq(Items), NotOf(Range(after), StartOperation),
         NotOf(Popped(t), {"PrepareDone", "ReadyForCommit", "DoRead"}),
         Looks(t, c, q, i, after)
  PROVE  NoReadStarted /\ NobodyTold(Range(after))
<1>1. /\ \A y \in Range(after) : y.op \notin TurnOperation
      /\ \A y \in Popped(t) : y.op \notin {"PrepareDone", "ReadyForCommit"}
  BY DEF NotOf, StartOperation
<1>2. /\ \A y : /\ y.op \notin TurnOperation /\ y \notin Range(after) /\ y \notin Popped(t)
                => Keeps(y)
  BY <1>1, LooksEffect
<1>3. ASSUME NEW f \in Entry PROVE Keeps(The("DoRead", f))
  <2>1. /\ The("DoRead", f) \notin Range(after) /\ The("DoRead", f) \notin Popped(t)
        /\ The("DoRead", f).op \notin TurnOperation
    BY TheOp DEF NotOf, StartOperation, TurnOperation
  <2>. QED BY <1>2, <2>1
<1>4. ASSUME NEW y, y.op = "SetResult", Owes(y)', ~ Owes(y), y \notin Range(after) PROVE FALSE
  <2>1. y \notin Popped(t)
    <3>1. ASSUME y \in Popped(t) PROVE Owes(y) BY <3>1, PoppedCall DEF Popped, Idle, At
    <3>. QED BY <1>4, <3>1
  <2>2. y.op \notin TurnOperation BY <1>4 DEF TurnOperation
  <2>3. Keeps(y) BY <1>2, <1>4, <2>1, <2>2
  <2>. QED BY <1>4, <2>3 DEF Keeps
<1>. QED BY <1>3, <1>4 DEF NoReadStarted, NobodyTold

\* What MaybeStartReadOrWriteback does with the state s and the readers it is given,
\* q being the queue of the entry.
Stays(e, s, q, readers) ==
  /\ ~ Empty(q) \/ s.issued \/ s.deferred
  /\ request' = [request EXCEPT ![e] = s] /\ reader' = readers /\ NoReadStarted

Drops(e, s, q, readers) ==
  /\ Empty(q) /\ ~ s.issued /\ ~ s.deferred /\ On(readers, e, "queued") = {}
  /\ request' = [request EXCEPT ![e] = Unread(s)] /\ reader' = Unbatch(readers, e)
  /\ NoReadStarted

Issues(e, s, q, readers) ==
  /\ Empty(q) /\ ~ s.issued /\ ~ s.deferred /\ On(readers, e, "queued") # {}
  /\ request' = [request EXCEPT ![e] = Started(s)]
  /\ reader' = Unbatch(Move(readers, On(readers, e, "queued"), "issued"), e)
  /\ Plans(The("DoRead", e)) /\ \A f \in Entry \ {e} : Keeps(The("DoRead", f))

\* The head of the queue is looked at.
HeadTold(s, q) ==
  ~ Empty(q) => /\ Head(q) \in Node
                /\ prepare_state'[Head(q)] =
                     (IF prepare_state[Head(q)] # "kReadyForCommitCalled" /\ s.issued
                        THEN "kPrepareDoneCalled" ELSE "kReadyForCommitCalled")

Starts(e, s, q, readers, told) ==
  /\ queue' = [queue EXCEPT ![e] = q] /\ NobodyTold(told) /\ HeadTold(s, q)
  /\ Stays(e, s, q, readers) \/ Drops(e, s, q, readers) \/ Issues(e, s, q, readers)

LEMMA StartStarts ==
  ASSUME WorkOK, prepare_state \in [Node -> PrepareState],
         NEW t \in Thread, NEW e \in Entry, NEW s, NEW i \in BOOLEAN, s.issued = i, NEW q \in Seq(Node),
         NEW readers, NEW after \in Seq(Items),
         NotOf(Range(after), StartOperation),
         NotOf(Popped(t), {"PrepareDone", "ReadyForCommit", "DoRead"}),
         MaybeStartReadOrWriteback(t, e, s, q, readers, after)
  PROVE  Starts(e, s, q, readers, Range(after))
<1>1. queue' = [queue EXCEPT ![e] = q] BY DEF MaybeStartReadOrWriteback
<1>2. CASE ~ Empty(q)
  <2>1. /\ Looks(t, Head(q), q, i, after) /\ Contains(q, Head(q)) /\ Head(q) \in Node
        /\ request' = [request EXCEPT ![e] = s] /\ reader' = readers
    BY <1>2, MaybeStartQueued
  <2>. SUFFICES ASSUME NEW c, c = Head(q) PROVE Starts(e, s, q, readers, Range(after)) OBVIOUS
  <2>2. Looks(t, c, q, i, after) /\ c \in Node BY <2>1
  <2>3. NoReadStarted /\ NobodyTold(Range(after)) BY <2>2, LooksReadCalls
  <2>4. /\ \A y \in Range(after) : y.op \notin TurnOperation
        /\ \A y \in Popped(t) : y.op \notin {"PrepareDone", "ReadyForCommit"}
    BY DEF NotOf, StartOperation
  <2>5. prepare_state'[c] = (IF prepare_state[c] # "kReadyForCommitCalled" /\ i
                                   THEN "kPrepareDoneCalled" ELSE "kReadyForCommitCalled")
    BY <2>2, <2>4, LooksEffect
  <2>. QED BY <1>1, <1>2, <2>1, <2>2, <2>3, <2>5 DEF Starts, Stays, HeadTold
<1>3. CASE Empty(q)
  <2>1. \/ NoRead(t, e, s, readers, after)
        \/ DropsRead(t, e, s, readers, after)
        \/ IssuesRead(t, e, s, readers, after)
    BY <1>3, MaybeStartEmpty
  <2>2. NotOf(Range(after), {"DoRead"}) /\ NotOf(Popped(t), {"DoRead"})
    BY DEF NotOf, StartOperation
  <2>3. HeadTold(s, q) BY <1>3 DEF HeadTold
  <2>4. ASSUME Do(t, after) PROVE NoReadStarted /\ NobodyTold(Range(after))
    <3>1. \A y \in Range(after) : y.op = "SetResult" => y \in Range(after) OBVIOUS
    <3>. SUFFICES ASSUME NEW told, told = Range(after) PROVE NoReadStarted /\ NobodyTold(told)
      OBVIOUS
    <3>. QED BY <2>2, <2>4, <3>1, DoReadCalls
  <2>5. CASE NoRead(t, e, s, readers, after)
    BY <1>1, <1>3, <2>3, <2>4, <2>5 DEF NoRead, Starts, Stays
  <2>6. CASE DropsRead(t, e, s, readers, after)
    BY <1>1, <1>3, <2>3, <2>4, <2>6 DEF DropsRead, Starts, Drops
  <2>7. CASE IssuesRead(t, e, s, readers, after)
    <3>1. PICK x : x = The("DoRead", e) OBVIOUS
    <3>2. PICK items : Is(items, <<x>> \o after) BY DEF Is
    <3>3. x \in Items /\ <<x>> \in Seq(Items) /\ Range(<<x>>) = {x} /\ Single(<<x>>, x)
      BY <3>1, DifferentItems, OneItem
    <3>4. x \notin Range(after) BY <2>2, <3>1, TheOp DEF NotOf
    <3>5. /\ items \in Seq(Items) /\ Range(items) = {x} \cup Range(after) /\ Single(items, x)
      BY <3>2, <3>3, <3>4, ConcatItems DEF Is
    <3>6. Do(t, items) BY <2>7, <3>1, <3>2 DEF IssuesRead, Is
    <3>7. Plans(x) BY <3>5, <3>6, DoEffect
    <3>8. ASSUME NEW f \in Entry \ {e} PROVE Keeps(The("DoRead", f))
      <4>1. The("DoRead", f) # x BY <3>1, DifferentItems
      <4>2. The("DoRead", f) \notin Range(items) /\ The("DoRead", f) \notin Popped(t)
        BY <2>2, <3>5, <4>1, TheOp DEF NotOf
      <4>. QED BY <3>5, <3>6, <4>2, DoEffect
    <3>9. ASSUME NEW y, y.op = "SetResult", Owes(y)' PROVE Owes(y) \/ y \in Range(after)
      <4>1. y # x BY <3>1, <3>9, TheOp
      <4>2. CASE y \in Range(after) BY <4>2
      <4>3. CASE y \notin Range(after) BY <3>5, <3>6, <3>9, <4>1, <4>3, DoEffect
      <4>. QED BY <4>2, <4>3
    <3>10. NobodyTold(Range(after)) BY <3>9 DEF NobodyTold
    <3>11. Issues(e, s, q, readers) BY <1>3, <2>7, <3>1, <3>7, <3>8 DEF IssuesRead, Issues
    <3>. QED BY <1>1, <2>3, <3>10, <3>11 DEF Starts
  <2>. QED BY <2>1, <2>5, <2>6, <2>7
<1>. QED BY <1>2, <1>3

-----------------------------------------------------------------------------
(* What steps do to reads.                                                 *)

\* A step of a commit, or of the clock.
Quiet ==
  /\ UNCHANGED <<request, reading, reader>> /\ now <= now'
  /\ NoReadStarted /\ NobodyTold({})
  /\ \A e \in Entry : Empty(queue'[e]) => Empty(queue[e])

LEMMA QuietDo ==
  ASSUME WorkOK, NEW t \in Thread, NEW items \in Seq(Items), Do(t, items),
         NotOf(Range(items), ReadCall), NotOf(Popped(t), {"DoRead"})
  PROVE  NoReadStarted /\ NobodyTold({})
<1>1. NotOf(Range(items), {"DoRead"}) /\ \A y \in Range(items) : y.op = "SetResult" => y \in {}
  BY DEF NotOf, ReadCall
<1>. SUFFICES ASSUME NEW told, told = {} PROVE NoReadStarted /\ NobodyTold(told) OBVIOUS
<1>. QED BY <1>1, DoReadCalls

LEMMA QuietQueues ==
  ASSUME Types, UNCHANGED <<now, request, reading, reader, queue>>, NoReadStarted, NobodyTold({})
  PROVE  Quiet
BY DEF Quiet, Types, Time

\* A call is made, and nothing or one call of a commit is left for later.
LEMMA QuietCall ==
  ASSUME Types, NEW t \in Thread, NEW op, op # "DoRead", Idle(t) \/ At(t, op),
         NEW items \in Seq(Items), Do(t, items), NotOf(Range(items), ReadCall),
         UNCHANGED <<now, request, reading, reader, queue>>
  PROVE  Quiet
<1>1. WorkOK BY DEF Types
<1>2. NotOf(Popped(t), {"DoRead"}) BY <1>1, PoppedKinds DEF NotOf
<1>. QED BY <1>1, <1>2, QuietDo, QuietQueues

LEMMA NoCalls ==
  ASSUME NEW items, Is(items, <<>>)
  PROVE  items \in Seq(Items) /\ NotOf(Range(items), ReadCall)
BY NoItems DEF Is, NotOf

LEMMA OneCall ==
  ASSUME NEW y \in Items, y.op \notin ReadCall, NEW items, Is(items, <<y>>)
  PROVE  items \in Seq(Items) /\ NotOf(Range(items), ReadCall)
BY OneItem DEF Is, NotOf

LEMMA QuietCommit ==
  ASSUME Types, NEW t \in Thread
  PROVE  /\ \A x \in Transaction : RequestCommit(t, x) => Quiet
         /\ PrepareReturned(t) => Quiet
         /\ PrepareDone(t) => Quiet
         /\ EndOfPhase(t) => Quiet
         /\ ReadyForCommit(t) => Quiet
         /\ CommitDone(t) => Quiet
<1>1. ASSUME NEW x \in Transaction, RequestCommit(t, x) PROVE Quiet
  <2>1. PICK n \in First(x) : Do(t, Item("PrepareForCommit", n)) BY <1>1 DEF RequestCommit
  <2>2. Idle(t) /\ UNCHANGED <<now, request, reading, reader, queue>>
    BY <1>1 DEF RequestCommit, cache
  <2>3. n \in Node BY DEF First, Registered
  <2>4. PICK y : y = The("PrepareForCommit", n) OBVIOUS
  <2>5. PICK items : Is(items, <<y>>) BY DEF Is
  <2>6. y \in Items /\ y.op \notin ReadCall
    BY <2>3, <2>4, DifferentItems, TheOp DEF NodeOperation, ReadCall
  <2>7. items \in Seq(Items) /\ NotOf(Range(items), ReadCall) BY <2>5, <2>6, OneCall
  <2>8. Do(t, items) BY <2>1, <2>4, <2>5, DifferentItems DEF Is
  <2>9. PICK op : op = "Loop" OBVIOUS
  <2>10. op # "DoRead" BY <2>9
  <2>. QED BY <2>2, <2>7, <2>8, <2>10, QuietCall
<1>2. ASSUME NEW op \in {"PrepareReturned", "PrepareDone"}, At(t, op),
             Do(t, If(~ waiting[Arg(t).txn], Continue(Arg(t)))),
             UNCHANGED <<now, request, reading, reader, queue>>
      PROVE  Quiet
  <2>1. Arg(t) \in Node BY <1>2, PoppedCall DEF Types, NodeOperation
  <2>2. PICK y : y = NextCall(Arg(t)) OBVIOUS
  <2>3. y \in Items /\ y.op \in {"EndOfPhase", "PrepareForCommit"} /\ Continue(Arg(t)) = <<y>>
    BY <2>1, <2>2, NextCallItem
  <2>4. y.op \notin ReadCall BY <2>3 DEF ReadCall
  <2>5. PICK items : Is(items, If(~ waiting[Arg(t).txn], Continue(Arg(t)))) BY DEF Is
  <2>6. items \in Seq(Items) /\ NotOf(Range(items), ReadCall)
    <3>1. Is(items, <<y>>) \/ Is(items, <<>>) BY <2>3, <2>5 DEF If, Is
    <3>. QED BY <2>3, <2>4, <3>1, OneCall, NoCalls
  <2>7. Do(t, items) /\ op # "DoRead" BY <1>2, <2>5 DEF Is
  <2>. QED BY <1>2, <2>6, <2>7, QuietCall
<1>3. ASSUME PrepareReturned(t) PROVE Quiet
  <2>1. /\ At(t, "PrepareReturned") /\ Do(t, If(~ waiting[Arg(t).txn], Continue(Arg(t))))
        /\ UNCHANGED <<now, request, reading, reader, queue>>
    BY <1>3 DEF PrepareReturned, cache
  <2>. QED BY <1>2, <2>1
<1>4. ASSUME PrepareDone(t) PROVE Quiet
  <2>1. /\ At(t, "PrepareDone") /\ Do(t, If(~ waiting[Arg(t).txn], Continue(Arg(t))))
        /\ UNCHANGED <<now, request, reading, reader, queue>>
    BY <1>4 DEF PrepareDone, cache
  <2>. QED BY <1>2, <2>1
<1>5. ASSUME NEW op \in {"EndOfPhase", "ReadyForCommit", "CommitDone"}, At(t, op), Do(t, <<>>),
             UNCHANGED <<now, request, reading, reader, queue>>
      PROVE  Quiet
  <2>1. PICK items : Is(items, <<>>) BY DEF Is
  <2>2. items \in Seq(Items) /\ NotOf(Range(items), ReadCall) BY <2>1, NoCalls
  <2>3. Do(t, items) /\ op # "DoRead" BY <1>5, <2>1 DEF Is
  <2>. QED BY <1>5, <2>2, <2>3, QuietCall
<1>6. ASSUME EndOfPhase(t) PROVE Quiet
  <2>1. At(t, "EndOfPhase") /\ Do(t, <<>>) /\ UNCHANGED <<now, request, reading, reader, queue>>
    BY <1>6 DEF EndOfPhase, cache
  <2>. QED BY <1>5, <2>1
<1>7. ASSUME ReadyForCommit(t) PROVE Quiet
  <2>1. At(t, "ReadyForCommit") /\ Do(t, <<>>) /\ UNCHANGED <<now, request, reading, reader, queue>>
    BY <1>7 DEF ReadyForCommit, cache
  <2>. QED BY <1>5, <2>1
<1>8. ASSUME CommitDone(t) PROVE Quiet
  <2>1. At(t, "CommitDone") /\ Do(t, <<>>) /\ UNCHANGED <<now, request, reading, reader, queue>>
    BY <1>8 DEF CommitDone, cache
  <2>. QED BY <1>5, <2>1
<1>. QED BY <1>1, <1>3, <1>4, <1>6, <1>7, <1>8

LEMMA QuietLoop ==
  ASSUME Types, NEW t \in Thread, Loop(t)
  PROVE  Quiet
<1>1. /\ WorkOK /\ prepare_state \in [Node -> PrepareState] /\ queue \in [Entry -> Seq(Node)]
      /\ request \in [Entry -> RequestState]
  BY DEF Types
<1>2. At(t, "Loop") /\ UNCHANGED <<now, request, reading, reader, queue>> BY DEF Loop
<1>3. Arg(t) \in Node /\ \A y \in Popped(t) : y.op = "Loop"
  BY <1>1, <1>2, PoppedCall, PoppedKinds DEF NodeOperation
<1>. SUFFICES ASSUME NEW c \in Node, c = Arg(t), NEW e \in Entry, e = c.entry, NEW q, q = queue[e],
                     NEW s, s = request[e], NEW i, i = s.issued, NEW none, Is(none, <<>>)
              PROVE  Quiet
  BY <1>3 DEF Node, Is
<1>4. q \in Seq(Node) /\ s \in RequestState /\ i \in BOOLEAN BY <1>1, RequestTypes
<1>5. none \in Seq(Items) /\ NotOf(Range(none), ReadCall) /\ NotOf(Range(none), StartOperation)
  BY NoItems DEF Is, NotOf
<1>6. CASE Contains(q, c)
  <2>1. Turn(t, e, c, q, s, none) BY <1>6 DEF Loop, Is
  <2>2. s.issued \in BOOLEAN /\ Looks(t, c, q, s.issued, none)
    BY <1>1, <1>4, <1>5, <1>6, <2>1, TurnLooks
  <2>3. Looks(t, c, q, i, none) BY <2>2
  <2>4. NotOf(Popped(t), {"PrepareDone", "ReadyForCommit", "DoRead"}) BY <1>3 DEF NotOf
  <2>5. NoReadStarted /\ NobodyTold(Range(none)) BY <1>1, <1>4, <1>5, <2>3, <2>4, LooksReadCalls
  <2>6. Range(none) = {} BY NoItems DEF Is
  <2>. QED BY <1>2, <2>5, <2>6, QuietQueues
<1>7. CASE ~ Contains(q, c)
  <2>1. Do(t, none) BY <1>7 DEF Loop, Is
  <2>2. PICK op : op = "Loop" OBVIOUS
  <2>3. op # "DoRead" /\ At(t, op) BY <1>2, <2>2
  <2>. QED BY <1>2, <1>5, <2>1, <2>3, QuietCall
<1>. QED BY <1>6, <1>7

LEMMA QuietPrepare ==
  ASSUME Types, NEW t \in Thread, PrepareForCommit(t)
  PROVE  Quiet
<1>1. /\ WorkOK /\ prepare_state \in [Node -> PrepareState] /\ queue \in [Entry -> Seq(Node)]
      /\ request \in [Entry -> RequestState] /\ now \in Time
  BY DEF Types
<1>2. At(t, "PrepareForCommit") /\ UNCHANGED <<now, request, reading, reader>>
  BY PrepareStep DEF PrepareForCommit
<1>3. Arg(t) \in Node /\ \A y \in Popped(t) : y.op = "PrepareForCommit"
  BY <1>1, <1>2, PoppedCall, PoppedKinds DEF NodeOperation
<1>. SUFFICES ASSUME NEW n \in Node, n = Arg(t), NEW e \in Entry, e = n.entry, NEW q, q = queue[e],
                     NEW s, s = request[e], NEW i, i = s.issued, NEW readers, readers = reader,
                     NEW ret, ret = The("PrepareReturned", n), NEW items, Is(items, <<ret>>),
                     NEW behind, Is(behind, Append(q, n)), NEW front, Is(front, <<n>> \o q)
              PROVE  Quiet
  BY <1>3 DEF Node, Is
<1>4. q \in Seq(Node) /\ s \in RequestState /\ i \in BOOLEAN BY <1>1, RequestTypes
<1>5. \/ queue' = [queue EXCEPT ![e] = behind] /\ Do(t, items)
      \/ MaybeStartReadOrWriteback(t, e, s, front, readers, items)
  <2>1. Item("PrepareReturned", n) = <<ret>> BY DifferentItems
  <2>. QED BY <2>1 DEF PrepareForCommit, Is
<1>6. ret \in Items /\ ret.op = "PrepareReturned" BY DifferentItems, TheOp DEF NodeOperation
<1>7. /\ items \in Seq(Items) /\ NotOf(Range(items), ReadCall) /\ NotOf(Range(items), StartOperation)
      /\ \A y \in Range(items) : y.op # "SetResult"
  BY <1>6, OneItem DEF Is, NotOf, ReadCall, StartOperation, TurnOperation
<1>8. NotOf(Popped(t), {"DoRead"}) /\ NotOf(Popped(t), {"PrepareDone", "ReadyForCommit", "DoRead"})
  BY <1>3 DEF NotOf
<1>9. /\ behind \in Seq(Node) /\ ~ Empty(behind) /\ front \in Seq(Node) /\ ~ Empty(front)
  <2>1. Len(q) \in Nat /\ Len(behind) = Len(q) + 1 /\ behind \in Seq(Node)
    BY <1>4, AppendProperties, LenProperties DEF Is
  <2>2. <<n>> \in Seq(Node) /\ Len(<<n>>) = 1 OBVIOUS
  <2>3. Len(front) = 1 + Len(q) /\ front \in Seq(Node) BY <1>4, <2>2, ConcatProperties DEF Is
  <2>. QED BY <2>1, <2>3, EmptySeq DEF Empty
<1>10. CASE queue' = [queue EXCEPT ![e] = behind] /\ Do(t, items)
  <2>1. NoReadStarted /\ NobodyTold({}) BY <1>1, <1>7, <1>8, <1>10, QuietDo
  <2>2. \A f \in Entry : Empty(queue'[f]) => Empty(queue[f]) BY <1>1, <1>9, <1>10
  <2>. QED BY <1>1, <1>2, <2>1, <2>2 DEF Quiet, Time
<1>11. CASE MaybeStartReadOrWriteback(t, e, s, front, readers, items)
  <2>1. Starts(e, s, front, readers, Range(items))
    BY <1>1, <1>4, <1>7, <1>8, <1>9, <1>11, StartStarts
  <2>2. queue' = [queue EXCEPT ![e] = front] /\ NobodyTold(Range(items)) /\ NoReadStarted
    BY <1>9, <2>1 DEF Starts, Stays, Drops, Issues
  <2>3. NobodyTold({}) BY <1>7, <2>2 DEF NobodyTold
  <2>4. \A f \in Entry : Empty(queue'[f]) => Empty(queue[f]) BY <1>1, <1>9, <2>2
  <2>. QED BY <1>1, <1>2, <2>2, <2>3, <2>4 DEF Quiet, Time
<1>. QED BY <1>5, <1>10, <1>11

LEMMA LookingStarts ==
  ASSUME Types, NEW t \in Thread, NEW e \in Entry, NEW s, NEW readers, NEW after,
         Looking(t, e, s, readers, after)
  PROVE  /\ Starts(e, s, queue[e], readers, Range(after)) /\ now' = now
         /\ s \in RequestState /\ readers \in [Reader -> ReaderState]
<1>. SUFFICES ASSUME NEW q, q = queue[e], NEW i, i = s.issued
              PROVE  /\ Starts(e, s, q, readers, Range(after)) /\ now' = now
                     /\ s \in RequestState /\ readers \in [Reader -> ReaderState]
  OBVIOUS
<1>1. /\ Idle(t) /\ now' = now /\ s \in RequestState /\ readers \in [Reader -> ReaderState]
      /\ after \in Seq(Items) /\ \A y \in Range(after) : y.op = "SetResult"
      /\ MaybeStartReadOrWriteback(t, e, s, q, readers, after)
  BY DEF Looking
<1>2. WorkOK /\ prepare_state \in [Node -> PrepareState] /\ q \in Seq(Node) BY DEF Types
<1>3. i \in BOOLEAN /\ s.issued = i BY <1>1, RequestTypes
<1>4. /\ NotOf(Range(after), StartOperation)
      /\ NotOf(Popped(t), {"PrepareDone", "ReadyForCommit", "DoRead"})
  BY <1>1, <1>2, PoppedKinds DEF NotOf, StartOperation, TurnOperation
<1>. QED BY <1>1, <1>2, <1>3, <1>4, StartStarts

LEMMA WritingStarts ==
  ASSUME Types, NEW t \in Thread, NEW n \in Node, NEW s, NEW readers, NEW after,
         Writing(t, n, s, readers, after)
  PROVE  /\ Starts(n.entry, s, Unlink(queue[n.entry], n), readers, Range(after))
         /\ UNCHANGED <<now, reading>> /\ WritingBack(n)
         /\ s \in RequestState /\ readers \in [Reader -> ReaderState]
<1>1. n.entry \in Entry BY DEF Node
<1>. SUFFICES ASSUME NEW e \in Entry, e = n.entry, NEW q, q = queue[e], NEW p, p = Unlink(q, n),
                     NEW i, i = s.issued, NEW mine, Is(mine, Item("CommitDone", n)),
                     NEW items, Is(items, mine \o after)
              PROVE  /\ Starts(e, s, p, readers, Range(after))
                     /\ UNCHANGED <<now, reading>> /\ WritingBack(n)
                     /\ s \in RequestState /\ readers \in [Reader -> ReaderState]
  BY <1>1 DEF Is
<1>2. /\ Idle(t) /\ UNCHANGED <<now, reading>> /\ WritingBack(n)
      /\ s \in RequestState /\ readers \in [Reader -> ReaderState]
      /\ after \in Seq(Items) /\ \A y \in Range(after) : y.op = "SetResult"
  BY DEF Writing
<1>3. MaybeStartReadOrWriteback(t, e, s, p, readers, items) BY DEF Writing, Is
<1>4. WorkOK /\ prepare_state \in [Node -> PrepareState] /\ q \in Seq(Node) BY DEF Types
<1>5. p \in Seq(Node) /\ i \in BOOLEAN /\ s.issued = i BY <1>2, <1>4, Unlinked, RequestTypes
<1>6. mine \in Seq(Items) /\ \A y \in Range(mine) : y.op = "CommitDone"
  <2>1. Is(mine, <<The("CommitDone", n)>>) /\ The("CommitDone", n) \in Items /\ The("CommitDone", n).op = "CommitDone"
    BY DifferentItems, TheOp DEF NodeOperation, Is
  <2>. QED BY <2>1, OneItem DEF Is
<1>7. items \in Seq(Items) /\ Range(items) = Range(mine) \cup Range(after)
  BY <1>2, <1>6, ConcatItems DEF Is
<1>8. /\ NotOf(Range(items), StartOperation)
      /\ NotOf(Popped(t), {"PrepareDone", "ReadyForCommit", "DoRead"})
      /\ \A y \in Range(items) : y.op = "SetResult" => y \in Range(after)
  BY <1>2, <1>4, <1>6, <1>7, PoppedKinds DEF NotOf, StartOperation, TurnOperation
<1>9. Starts(e, s, p, readers, Range(items)) BY <1>3, <1>4, <1>5, <1>7, <1>8, StartStarts
<1>10. NobodyTold(Range(items)) => NobodyTold(Range(after)) BY <1>8 DEF NobodyTold
<1>. QED BY <1>2, <1>9, <1>10 DEF Starts

\* DoRead is called.
CallsRead(e) ==
  /\ Owes(The("DoRead", e)) /\ Makes(The("DoRead", e))
  /\ \A f \in Entry \ {e} : Keeps(The("DoRead", f))
  /\ NobodyTold({}) /\ reading' = [reading EXCEPT ![e] = TRUE]
  /\ UNCHANGED <<now, request, reader, queue>>

\* The readers of y are told its result.
TellsReaders(y) ==
  /\ Owes(y) /\ y.op = "SetResult" /\ y.result \in {"ok", "assumed", "error"} /\ NoReadStarted /\ NobodyTold({})
  /\ reader' = Move(reader, y.arg, y.result) /\ UNCHANGED <<now, request, reading, queue>>

\* Read, Submit, ReadSuccess or ReadError, WritebackSuccess or WritebackError.
Asks(r, e, bound, strict) ==
  /\ reader[r].on = "none" /\ UNCHANGED <<now, reading>>
  /\ \/ ReadCached(r, e, bound, strict)
     \/ ReadIssued(r, e, bound, strict)
     \/ \E before \in {reader, Unbatch(reader, e)}, defer \in BOOLEAN :
          /\ request[e].time = 0 \/ request[e].time < bound \/ (strict /\ request[e].stale)
          /\ ~ (request[e].issued /\ request[e].issued_time >= Limit(e, bound, strict))
          /\ Starts(e, [Asked(e, bound, strict) EXCEPT !.queued = TRUE, !.deferred = defer], queue[e],
                    [before EXCEPT ![r] = NewReader(e, "queued", defer, bound, strict)], {})

Submits(r, e) ==
  /\ e = reader[r].entry /\ reader[r].batch /\ UNCHANGED <<now, reading>>
  /\ Starts(e, SubmitState(e), queue[e], SubmitReaders(r), {})

Answers(e, s, result) ==
  /\ reading[e] /\ reading' = [reading EXCEPT ![e] = FALSE] /\ now' = now
  /\ \/ \E time \in request[e].issued_time .. now : time \in Time /\ time > 0 /\ s = Answered(e, time) /\ result = "ok"
     \/ s = request[e] /\ result = "error"
  /\ Starts(e, Resolved(s), queue[e], ResolvedReaders(e, s), Range(Results(e, s, result)))

\* A writeback of an entry succeeds, the queue q being left.
Reports(e, q, outcome, stamp, known, time, take) ==
  /\ known <=> outcome = "cached"
  /\ time = (IF outcome = "unmodified" THEN 0 ELSE stamp)
  /\ stamp \in Time /\ stamp > 0 /\ stamp >= request[e].time
  /\ take <=> WrittenTakes(e, known, time)
  /\ Starts(e, IF take THEN Unqueued(Written(e, known, time)) ELSE Written(e, known, time), q,
            IF take THEN Left(e, Also(e, TRUE), TRUE) ELSE reader,
            Range(Resolution(Also(e, take), Told(known))))

WritesBack(n) ==
  /\ WritingBack(n) /\ UNCHANGED <<now, reading>>
  /\ \/ Starts(n.entry, request[n.entry], Unlink(queue[n.entry], n), reader, {})
     \/ \E outcome \in Outcome, stamp \in 1 .. now : \E known \in BOOLEAN, time \in Time, take \in BOOLEAN :
          Reports(n.entry, Unlink(queue[n.entry], n), outcome, stamp, known, time, take)

ReadStep ==
  \/ Quiet
  \/ \E e \in Entry : CallsRead(e)
  \/ \E y \in Items : TellsReaders(y)
  \/ \E r \in Reader : DropFuture(r)
  \/ \E e \in Markable : MarkStale(e)
  \/ \E r \in Reader, e \in Entry, bound \in Time, strict \in BOOLEAN : Asks(r, e, bound, strict)
  \/ \E r \in Reader, e \in Entry : Submits(r, e)
  \/ \E e \in Entry, s \in RequestState, result \in {"ok", "assumed", "error"} : Answers(e, s, result)
  \/ \E n \in Node : WritesBack(n)

LEMMA StepCallsRead ==
  ASSUME Types, NEW t \in Thread, DoRead(t)
  PROVE  \E e \in Entry : CallsRead(e)
<1>1. WorkOK BY DEF Types
<1>2. /\ At(t, "DoRead") /\ Do(t, <<>>) /\ reading' = [reading EXCEPT ![Arg(t)] = TRUE]
      /\ UNCHANGED <<now, request, reader, queue>>
  BY DEF DoRead
<1>3. PICK e : e = Arg(t) OBVIOUS
<1>4. PICK x : x = The("DoRead", e) OBVIOUS
<1>5. PICK none : Is(none, <<>>) BY DEF Is
<1>6. e \in Entry /\ Popped(t) = {x} /\ Owes(x) BY <1>1, <1>2, <1>3, <1>4, PoppedCall
<1>7. none \in Seq(Items) /\ Range(none) = {} /\ Do(t, none) BY <1>2, <1>5, NoItems DEF Is
<1>8. Makes(x) BY <1>1, <1>6, <1>7, DoEffect
<1>9. ASSUME NEW f \in Entry \ {e} PROVE Keeps(The("DoRead", f))
  <2>1. The("DoRead", f) \notin Popped(t) BY <1>4, <1>6, DifferentItems
  <2>. QED BY <1>1, <1>7, <2>1, DoEffect
<1>10. NobodyTold({}) BY <1>1, <1>7, DoEffect DEF NobodyTold
<1>. QED BY <1>2, <1>3, <1>4, <1>6, <1>8, <1>9, <1>10 DEF CallsRead

LEMMA StepTells ==
  ASSUME Types, NEW t \in Thread, SetResult(t)
  PROVE  \E y \in Items : TellsReaders(y)
<1>1. WorkOK BY DEF Types
<1>2. /\ At(t, "SetResult") /\ Do(t, <<>>) /\ UNCHANGED <<now, request, reading, queue>>
      /\ reader' = Move(reader, Arg(t), Head(work[t]).result)
  BY DEF SetResult, cache
<1>3. PICK y : y = Head(work[t]) OBVIOUS
<1>4. y \in Items /\ Owes(y) /\ y.result \in {"ok", "assumed", "error"} /\ y.op = "SetResult" /\ y.arg = Arg(t)
  BY <1>1, <1>2, <1>3, PoppedCall DEF At, Arg
<1>5. PICK none : Is(none, <<>>) BY DEF Is
<1>6. none \in Seq(Items) /\ NotOf(Range(none), ReadCall) /\ Do(t, none)
  BY <1>2, <1>5, NoCalls DEF Is
<1>7. NotOf(Popped(t), {"DoRead"}) BY <1>1, <1>2, PoppedKinds DEF NotOf
<1>8. NoReadStarted /\ NobodyTold({}) BY <1>1, <1>6, <1>7, QuietDo
<1>. QED BY <1>2, <1>3, <1>4, <1>8 DEF TellsReaders

LEMMA StepReads ==
  ASSUME Types, [Next]_vars
  PROVE  ReadStep
<1>1. CASE UNCHANGED vars \/ Tick
  <2>1. UNCHANGED <<request, reading, reader, queue, work>> /\ now <= now'
    BY <1>1 DEF vars, Tick, cache, Types, Time
  <2>. QED BY <2>1, SameReadCalls DEF Quiet, ReadStep
<1>2. CASE (\E r \in Reader : DropFuture(r)) \/ (\E e \in Markable : MarkStale(e))
  BY <1>2 DEF ReadStep
<1>3. ASSUME NEW t \in Thread, Call(t) PROVE ReadStep
  BY <1>3, StepCallsRead, StepTells, QuietLoop, QuietPrepare, QuietCommit DEF Call, ReadStep
<1>4. ASSUME NEW t \in Thread, NEW r \in Reader, Submit(t, r) PROVE ReadStep
  <2>1. PICK e : e = reader[r].entry OBVIOUS
  <2>2. PICK after : Is(after, <<>>) BY DEF Is
  <2>3. /\ e \in Entry /\ reading' = reading /\ reader[r].batch
        /\ Looking(t, e, SubmitState(e), SubmitReaders(r), after)
    BY <1>4, <2>1, <2>2, SubmitLooking DEF Is
  <2>4. Starts(e, SubmitState(e), queue[e], SubmitReaders(r), Range(after)) /\ now' = now
    <3>. SUFFICES ASSUME NEW s, s = SubmitState(e), NEW readers, readers = SubmitReaders(r)
                  PROVE  Starts(e, s, queue[e], readers, Range(after)) /\ now' = now
      OBVIOUS
    <3>. QED BY <2>3, LookingStarts
  <2>5. Range(after) = {} BY <2>2, NoItems DEF Is
  <2>. QED BY <2>1, <2>3, <2>4, <2>5 DEF Submits, ReadStep
<1>5. ASSUME NEW t \in Thread, NEW r \in Reader, NEW bound \in Time,
             NEW strict \in BOOLEAN, NEW batch \in BOOLEAN, Read(t, r, reader[r].entry, bound, strict, batch)
      PROVE  ReadStep
  <2>. SUFFICES ASSUME NEW e \in Entry, e = reader[r].entry PROVE ReadStep BY DEF Types, ReaderState
  <2>1. /\ reader[r].on = "none" /\ UNCHANGED <<now, reading>>
        /\ \/ ReadCached(r, e, bound, strict)
           \/ ReadIssued(r, e, bound, strict)
           \/ ReadQueued(t, r, e, bound, strict)
    BY <1>5, ReadKinds
  <2>2. CASE ReadCached(r, e, bound, strict) \/ ReadIssued(r, e, bound, strict)
    BY <2>1, <2>2 DEF Asks, ReadStep
  <2>3. CASE ReadQueued(t, r, e, bound, strict)
    <3>1. PICK before \in {reader, Unbatch(reader, e)}, defer \in BOOLEAN :
            /\ request[e].time = 0 \/ request[e].time < bound \/ (strict /\ request[e].stale)
            /\ ~ (request[e].issued /\ request[e].issued_time >= Limit(e, bound, strict))
            /\ Looking(t, e, [Asked(e, bound, strict) EXCEPT !.queued = TRUE, !.deferred = defer],
                       [before EXCEPT ![r] = NewReader(e, "queued", defer, bound, strict)], <<>>)
      BY <2>3 DEF ReadQueued
    <3>2. PICK s : Is(s, [Asked(e, bound, strict) EXCEPT !.queued = TRUE, !.deferred = defer])
      BY DEF Is
    <3>3. PICK readers : Is(readers, [before EXCEPT ![r] = NewReader(e, "queued", defer, bound, strict)])
      BY DEF Is
    <3>4. PICK after : Is(after, <<>>) BY DEF Is
    <3>5. Looking(t, e, s, readers, after) BY <3>1, <3>2, <3>3, <3>4 DEF Is
    <3>6. Starts(e, s, queue[e], readers, Range(after)) BY <3>5, LookingStarts
    <3>7. Range(after) = {} BY <3>4, NoItems DEF Is
    <3>8. Starts(e, s, queue[e], readers, {}) BY <3>6, <3>7
    <3>. QED BY <2>1, <3>1, <3>2, <3>3, <3>8 DEF Asks, ReadStep, Is
  <2>. QED BY <2>1, <2>2, <2>3
<1>6. ASSUME NEW t \in Thread, NEW e \in Entry, ReadAnswer(t, e) PROVE ReadStep
  <2>1. CASE \E time \in request[e].issued_time .. now : time > 0 /\ ReadSuccess(t, e, time)
    <3>1. PICK time \in request[e].issued_time .. now : time > 0 /\ ReadSuccess(t, e, time)
      BY <2>1
    <3>2. PICK s : s = Answered(e, time) OBVIOUS
    <3>3. /\ reading[e] /\ reading' = [reading EXCEPT ![e] = FALSE] /\ time \in Time /\ s \in RequestState
          /\ Looking(t, e, Resolved(s), ResolvedReaders(e, s), Results(e, s, "ok"))
      BY <3>1, <3>2, AnswerLooking
    <3>. SUFFICES ASSUME NEW new, new = Resolved(s), NEW readers, readers = ResolvedReaders(e, s),
                         NEW after, after = Results(e, s, "ok")
                  PROVE  ReadStep
      OBVIOUS
    <3>4. Starts(e, new, queue[e], readers, Range(after)) /\ now' = now BY <3>3, LookingStarts
    <3>5. Answers(e, s, "ok") BY <3>1, <3>2, <3>3, <3>4 DEF Answers
    <3>. QED BY <3>3, <3>5 DEF ReadStep
  <2>2. CASE ReadError(t, e)
    <3>1. PICK s : s = request[e] OBVIOUS
    <3>2. /\ reading[e] /\ reading' = [reading EXCEPT ![e] = FALSE] /\ s \in RequestState
          /\ Looking(t, e, Resolved(s), ResolvedReaders(e, s), Results(e, s, "error"))
      BY <2>2, <3>1, AnswerLooking DEF Types
    <3>. SUFFICES ASSUME NEW new, new = Resolved(s), NEW readers, readers = ResolvedReaders(e, s),
                         NEW after, after = Results(e, s, "error")
                  PROVE  ReadStep
      OBVIOUS
    <3>3. Starts(e, new, queue[e], readers, Range(after)) /\ now' = now BY <3>2, LookingStarts
    <3>4. Answers(e, s, "error") BY <3>1, <3>2, <3>3 DEF Answers
    <3>. QED BY <3>2, <3>4 DEF ReadStep
  <2>. QED BY <1>6, <2>1, <2>2 DEF ReadAnswer
<1>7. ASSUME NEW t \in Thread, NEW x \in Transaction, RequestCommit(t, x) PROVE ReadStep
  BY <1>7, QuietCommit DEF ReadStep
<1>8. ASSUME NEW t \in Thread, NEW n \in Node, WriteAnswer(t, n) PROVE ReadStep
  <2>1. CASE Writing(t, n, request[n.entry], reader, <<>>)
    <3>. SUFFICES ASSUME NEW s, s = request[n.entry], NEW readers, readers = reader,
                         NEW after, Is(after, <<>>)
                  PROVE  ReadStep
      BY DEF Is
    <3>1. Writing(t, n, s, readers, after) BY <2>1 DEF Is
    <3>2. /\ Starts(n.entry, s, Unlink(queue[n.entry], n), readers, Range(after))
          /\ UNCHANGED <<now, reading>> /\ WritingBack(n)
      BY <3>1, WritingStarts
    <3>3. Range(after) = {} BY NoItems DEF Is
    <3>. QED BY <3>2, <3>3 DEF WritesBack, ReadStep
  <2>2. ASSUME NEW outcome \in Outcome, NEW stamp \in 1 .. now, NEW known \in BOOLEAN, NEW time \in Time,
               NEW take \in BOOLEAN,
               /\ known <=> outcome = "cached"
               /\ time = (IF outcome = "unmodified" THEN 0 ELSE stamp)
               /\ stamp \in Time /\ stamp > 0 /\ stamp >= request[n.entry].time
               /\ take <=> WrittenTakes(n.entry, known, time),
               Writing(t, n,
                   IF take THEN Unqueued(Written(n.entry, known, time)) ELSE Written(n.entry, known, time),
                   IF take THEN Left(n.entry, Also(n.entry, TRUE), TRUE) ELSE reader,
                   Resolution(Also(n.entry, take), Told(known)))
        PROVE  ReadStep
    <3>. SUFFICES ASSUME NEW s, s = (IF take THEN Unqueued(Written(n.entry, known, time)) ELSE Written(n.entry, known, time)),
                         NEW readers, readers = (IF take THEN Left(n.entry, Also(n.entry, TRUE), TRUE) ELSE reader),
                         NEW after, after = Resolution(Also(n.entry, take), Told(known))
                  PROVE  ReadStep
      OBVIOUS
    <3>1. Writing(t, n, s, readers, after) BY <2>2
    <3>2. /\ Starts(n.entry, s, Unlink(queue[n.entry], n), readers, Range(after))
          /\ UNCHANGED <<now, reading>> /\ WritingBack(n)
      BY <3>1, WritingStarts
    <3>3. Reports(n.entry, Unlink(queue[n.entry], n), outcome, stamp, known, time, take)
      BY <2>2, <3>2 DEF Reports
    <3>. QED BY <3>2, <3>3 DEF WritesBack, ReadStep
  <2>3. CASE ~ Writing(t, n, request[n.entry], reader, <<>>)
    <3>1. PICK outcome \in Outcome, stamp \in 1 .. now : \E known \in BOOLEAN, time \in Time, take \in BOOLEAN :
              /\ known <=> outcome = "cached"
              /\ time = (IF outcome = "unmodified" THEN 0 ELSE stamp)
              /\ stamp \in Time /\ stamp > 0 /\ stamp >= request[n.entry].time
              /\ take <=> WrittenTakes(n.entry, known, time)
              /\ Writing(t, n,
                   IF take THEN Unqueued(Written(n.entry, known, time)) ELSE Written(n.entry, known, time),
                   IF take THEN Left(n.entry, Also(n.entry, TRUE), TRUE) ELSE reader,
                   Resolution(Also(n.entry, take), Told(known)))
      BY <1>8, <2>3, WriteWriting
    <3>. QED BY <2>2, <3>1
  <2>. QED BY <2>1, <2>3
<1>. QED BY <1>1, <1>2, <1>3, <1>4, <1>5, <1>6, <1>7, <1>8 DEF Next

-----------------------------------------------------------------------------
(* Nobody waits without somebody to wake him.                              *)

IsReady(n) == prepare_state[n] = "kReadyForCommitCalled"

\* No node is ready while a read is in progress; without one, the first node is ready,
\* or, if there is none, the queued read was issued.
Calm(e) ==
  /\ request[e].issued => \A n \in Node : Contains(queue[e], n) => ~ IsReady(n)
  /\ ~ Empty(queue[e]) /\ ~ IsReady(queue[e][1]) => request[e].issued
  /\ request[e].queued /\ ~ request[e].deferred => request[e].issued \/ ~ Empty(queue[e])

CalmInv == \A e \in Entry : Calm(e)

\* What steps do to the flags of the read request state.
SameFlags(e) ==
  /\ request'[e].issued <=> request[e].issued
  /\ request'[e].queued <=> request[e].queued
  /\ request'[e].deferred <=> request[e].deferred

Wakes(e) ==
  /\ request'[e].issued => request[e].issued \/ Empty(queue'[e])
  /\ Empty(queue'[e]) \/ (request'[e].issued <=> request[e].issued) \/ IsReady(queue[e][1])'
  /\ \/ ~ Empty(queue'[e]) \/ request'[e].issued \/ ~ request'[e].queued \/ request'[e].deferred
     \/ Empty(queue[e]) /\ SameFlags(e)

WakeStep == \A e \in Entry : Wakes(e)

LEMMA WakesSame ==
  ASSUME NEW e, SameFlags(e), Empty(queue'[e]) => Empty(queue[e])
  PROVE  Wakes(e)
BY DEF SameFlags, Wakes

LEMMA StartsWake ==
  ASSUME Types, NEW e \in Entry, NEW s, NEW q \in Seq(Node), NEW readers, NEW told,
         Starts(e, s, q, readers, told), s \in RequestState, s.issued => request[e].issued
  PROVE  WakeStep
<1>1. queue' = [queue EXCEPT ![e] = q] /\ queue \in [Entry -> Seq(Node)] /\ request \in [Entry -> RequestState]
  BY DEF Starts, Types
<1>2. queue'[e] = q /\ \A f \in Entry \ {e} : queue'[f] = queue[f] BY <1>1
<1>3. ASSUME NEW f \in Entry \ {e} PROVE Wakes(f)
  <2>1. request'[f] = request[f] BY <1>1 DEF Starts, Stays, Drops, Issues
  <2>2. SameFlags(f) BY <2>1 DEF SameFlags
  <2>. QED BY <1>2, <2>2, WakesSame
<1>4. s.issued \in BOOLEAN /\ request[e].issued \in BOOLEAN BY <1>1, RequestTypes
<1>5. Wakes(e)
  <2>1. CASE Stays(e, s, q, readers)
    <3>1. request'[e] = s /\ (~ Empty(q) \/ s.issued \/ s.deferred) BY <1>1, <2>1 DEF Stays
    <3>2. ASSUME ~ Empty(q), ~ s.issued PROVE IsReady(q[1])'
      <4>1. prepare_state'[Head(q)] = "kReadyForCommitCalled" BY <3>2 DEF Starts, HeadTold
      <4>2. Head(q) = q[1] BY <3>2, HeadOfQueue
      <4>. QED BY <4>1, <4>2 DEF IsReady
    <3>3. Empty(q) \/ (s.issued <=> request[e].issued) \/ IsReady(q[1])' BY <1>4, <3>2
    <3>. QED BY <1>2, <3>1, <3>3 DEF Wakes, IsReady
  <2>2. CASE Drops(e, s, q, readers)
    <3>1. request'[e] = Unread(s) /\ Empty(q) BY <1>1, <2>2 DEF Drops
    <3>2. ~ Unread(s).queued BY DEF Unread, RequestState
    <3>. QED BY <1>2, <3>1, <3>2 DEF Wakes
  <2>3. CASE Issues(e, s, q, readers)
    <3>1. request'[e] = Started(s) /\ Empty(q) BY <1>1, <2>3 DEF Issues
    <3>2. Started(s).issued BY DEF Started, Unread, RequestState
    <3>. QED BY <1>2, <3>1, <3>2 DEF Wakes
  <2>. QED BY <2>1, <2>2, <2>3 DEF Starts
<1>. QED BY <1>3, <1>5 DEF WakeStep

\* The states that the callers of MaybeStartReadOrWriteback pass.
LEMMA IssuedFlag ==
  ASSUME Types, NEW e \in Entry
  PROVE  /\ \A bound \in Time, strict \in BOOLEAN, defer \in BOOLEAN :
              LET s == [Asked(e, bound, strict) EXCEPT !.queued = TRUE, !.deferred = defer]
              IN  s \in RequestState /\ (s.issued <=> request[e].issued)
         /\ SubmitState(e) \in RequestState /\ (SubmitState(e).issued <=> request[e].issued)
         /\ \A s \in RequestState : Resolved(s) \in RequestState /\ ~ Resolved(s).issued
         /\ \A known \in BOOLEAN, time \in Time :
              LET s == Written(e, known, time)
              IN  /\ s \in RequestState /\ Unqueued(s) \in RequestState
                  /\ s.issued <=> request[e].issued
                  /\ Unqueued(s).issued <=> request[e].issued
<1>1. request[e] \in RequestState BY DEF Types
<1>2. ASSUME NEW bound \in Time, NEW strict \in BOOLEAN, NEW defer \in BOOLEAN
      PROVE  LET s == [Asked(e, bound, strict) EXCEPT !.queued = TRUE, !.deferred = defer]
             IN  s \in RequestState /\ (s.issued <=> request[e].issued)
  <2>1. Asked(e, bound, strict) \in RequestState BY LimitTypes
  <2>2. Asked(e, bound, strict).issued <=> request[e].issued BY <1>1 DEF Asked, RequestState
  <2>. QED BY <2>1, <2>2 DEF RequestState
<1>3. SubmitState(e) \in RequestState /\ (SubmitState(e).issued <=> request[e].issued)
  BY <1>1 DEF SubmitState, RequestState
<1>4. ASSUME NEW s \in RequestState PROVE Resolved(s) \in RequestState /\ ~ Resolved(s).issued
  <2>1. Unqueued(s) \in RequestState BY RequestTypes
  <2>. SUFFICES ASSUME NEW w \in RequestState, w = (IF TakesQueued(s, s.time) THEN Unqueued(s) ELSE s)
                PROVE  Resolved(s) \in RequestState /\ ~ Resolved(s).issued
    BY <2>1
  <2>. QED BY DEF Resolved, RequestState
<1>5. ASSUME NEW known \in BOOLEAN, NEW time \in Time
      PROVE  LET s == Written(e, known, time)
             IN  /\ s \in RequestState /\ Unqueued(s) \in RequestState
                 /\ s.issued <=> request[e].issued
                 /\ Unqueued(s).issued <=> request[e].issued
  <2>1. PICK s : s = Written(e, known, time) OBVIOUS
  <2>2. s \in RequestState /\ Unqueued(s) \in RequestState BY <2>1, WrittenTypes
  <2>3. s.issued <=> request[e].issued BY <1>1, <2>1 DEF Written, Answered, RequestState
  <2>4. Unqueued(s).issued <=> s.issued BY <2>2 DEF Unqueued, RequestState
  <2>. QED BY <2>1, <2>2, <2>3, <2>4
<1>. QED BY <1>2, <1>3, <1>4, <1>5

LEMMA ReadsWake ==
  ASSUME Types, ReadStep
  PROVE  WakeStep
<1>1. queue \in [Entry -> Seq(Node)] /\ request \in [Entry -> RequestState] BY DEF Types
<1>2. ASSUME request' = request, \A e \in Entry : Empty(queue'[e]) => Empty(queue[e]) PROVE WakeStep
  BY <1>2, WakesSame DEF SameFlags, WakeStep
<1>3. ASSUME queue' = queue, \A e \in Entry : SameFlags(e) PROVE WakeStep
  BY <1>3, WakesSame DEF WakeStep
<1>4. CASE Quiet BY <1>2, <1>4 DEF Quiet
<1>5. CASE \E e \in Entry : CallsRead(e) BY <1>2, <1>5 DEF CallsRead
<1>6. CASE \E y \in Items : TellsReaders(y) BY <1>2, <1>6 DEF TellsReaders
<1>7. CASE \E r \in Reader : DropFuture(r)
  <2>1. request' = request /\ queue' = queue BY <1>7 DEF DropFuture, cache
  <2>. QED BY <1>2, <2>1
<1>8. ASSUME NEW e \in Markable, MarkStale(e) PROVE WakeStep
  <2>1. queue' = queue /\ request' = [request EXCEPT ![e] = [request[e] EXCEPT !.stale = TRUE]] /\ e \in Entry
    BY <1>8, AsyncCacheAssumption DEF MarkStale
  <2>2. \A f \in Entry : SameFlags(f) BY <1>1, <2>1 DEF SameFlags, RequestState
  <2>. QED BY <1>3, <2>1, <2>2
<1>9. ASSUME NEW r \in Reader, NEW e \in Entry, NEW bound \in Time, NEW strict \in BOOLEAN,
             Asks(r, e, bound, strict)
      PROVE  WakeStep
  <2>1. CASE ReadCached(r, e, bound, strict)
    <3>1. request' = request /\ queue' = queue BY <2>1 DEF ReadCached
    <3>. QED BY <1>2, <3>1
  <2>2. CASE ReadIssued(r, e, bound, strict)
    <3>1. queue' = queue /\ request' = [request EXCEPT ![e] = Asked(e, bound, strict)]
      BY <2>2 DEF ReadIssued
    <3>2. \A f \in Entry : SameFlags(f) BY <1>1, <3>1 DEF SameFlags, Asked, RequestState
    <3>. QED BY <1>3, <3>1, <3>2
  <2>3. ASSUME NEW before, NEW defer \in BOOLEAN,
               Starts(e, [Asked(e, bound, strict) EXCEPT !.queued = TRUE, !.deferred = defer], queue[e],
                      [before EXCEPT ![r] = NewReader(e, "queued", defer, bound, strict)], {})
        PROVE  WakeStep
    <3>. SUFFICES ASSUME NEW s, Is(s, [Asked(e, bound, strict) EXCEPT !.queued = TRUE, !.deferred = defer]),
                         NEW q, q = queue[e], NEW told, told = {},
                         NEW readers, Is(readers, [before EXCEPT ![r] = NewReader(e, "queued", defer, bound, strict)])
                  PROVE  WakeStep
      BY DEF Is
    <3>1. Starts(e, s, q, readers, told) BY <2>3 DEF Is
    <3>2. s \in RequestState /\ (s.issued => request[e].issued) BY IssuedFlag DEF Is
    <3>3. q \in Seq(Node) BY <1>1
    <3>. QED BY <3>1, <3>2, <3>3, StartsWake
  <2>. QED BY <1>9, <2>1, <2>2, <2>3 DEF Asks
<1>10. ASSUME NEW r \in Reader, NEW e \in Entry, Submits(r, e) PROVE WakeStep
  <2>. SUFFICES ASSUME NEW s, s = SubmitState(e), NEW q, q = queue[e], NEW told, told = {},
                       NEW readers, readers = SubmitReaders(r)
                PROVE  WakeStep
    OBVIOUS
  <2>1. Starts(e, s, q, readers, told) BY <1>10 DEF Submits
  <2>2. s \in RequestState /\ (s.issued => request[e].issued) /\ q \in Seq(Node)
    BY <1>1, IssuedFlag
  <2>. QED BY <2>1, <2>2, StartsWake
<1>11. ASSUME NEW e \in Entry, NEW w \in RequestState, NEW result, Answers(e, w, result) PROVE WakeStep
  <2>. SUFFICES ASSUME NEW s, s = Resolved(w), NEW q, q = queue[e],
                       NEW told, told = Range(Results(e, w, result)),
                       NEW readers, readers = ResolvedReaders(e, w)
                PROVE  WakeStep
    OBVIOUS
  <2>1. Starts(e, s, q, readers, told) BY <1>11 DEF Answers
  <2>2. s \in RequestState /\ (s.issued => request[e].issued) /\ q \in Seq(Node)
    BY <1>1, IssuedFlag
  <2>. QED BY <2>1, <2>2, StartsWake
<1>12. ASSUME NEW n \in Node, WritesBack(n) PROVE WakeStep
  <2>. SUFFICES ASSUME NEW e \in Entry, e = n.entry, NEW q, q = Unlink(queue[e], n) PROVE WakeStep
    BY NodeFields
  <2>1. q \in Seq(Node) BY <1>1, Unlinked
  <2>2. ASSUME NEW s, NEW readers, NEW told, Starts(e, s, q, readers, told), s \in RequestState,
               s.issued <=> request[e].issued
        PROVE  WakeStep
    BY <2>1, <2>2, StartsWake
  <2>3. CASE Starts(e, request[e], q, reader, {}) BY <1>1, <2>2, <2>3
  <2>4. ASSUME NEW outcome, NEW stamp, NEW known \in BOOLEAN, NEW time \in Time, NEW take \in BOOLEAN,
               Reports(e, q, outcome, stamp, known, time, take)
        PROVE  WakeStep
    <3>1. PICK s : s = (IF take THEN Unqueued(Written(e, known, time)) ELSE Written(e, known, time))
      OBVIOUS
    <3>2. s \in RequestState /\ (s.issued <=> request[e].issued) BY <3>1, IssuedFlag
    <3>3. Starts(e, s, q, IF take THEN Left(e, Also(e, TRUE), TRUE) ELSE reader,
                 Range(Resolution(Also(e, take), Told(known))))
      BY <2>4, <3>1 DEF Reports
    <3>. QED BY <2>2, <3>2, <3>3
  <2>. QED BY <1>12, <2>3, <2>4 DEF WritesBack
<1>. QED BY <1>4, <1>5, <1>6, <1>7, <1>8, <1>9, <1>10, <1>11, <1>12 DEF ReadStep

\* What a step may do to the states of the nodes in the queue of f.
Tame(f) ==
  /\ \A n \in Node : Contains(queue'[f], n) /\ IsReady(n)' =>
       (Contains(queue[f], n) /\ IsReady(n)) \/ ~ request'[f].issued \/ ~ request[f].issued
  /\ ~ Empty(queue'[f]) /\ ~ IsReady(queue[f][1])' =>
       (~ Empty(queue[f]) /\ ~ IsReady(queue[f][1])) \/ request'[f].issued \/ request[f].issued

LEMMA TameCalm ==
  ASSUME NEW f \in Entry, Calm(f), Wakes(f), Tame(f)
  PROVE  Calm(f)'
<1>1. ASSUME request'[f].issued, NEW n \in Node, Contains(queue'[f], n), IsReady(n)' PROVE FALSE
  <2>1. ~ Empty(queue'[f]) BY <1>1 DEF Contains, Empty
  <2>2. request[f].issued BY <1>1, <2>1 DEF Wakes
  <2>. QED BY <1>1, <2>2 DEF Calm, Tame
<1>2. ASSUME ~ Empty(queue'[f]), ~ IsReady(queue[f][1])' PROVE request'[f].issued
  <2>1. request'[f].issued <=> request[f].issued BY <1>2 DEF Wakes
  <2>. QED BY <1>2, <2>1 DEF Calm, Tame
<1>3. request'[f].queued /\ ~ request'[f].deferred => request'[f].issued \/ ~ Empty(queue'[f])
  BY DEF Wakes, Calm, SameFlags
<1>. QED BY <1>1, <1>2, <1>3 DEF Calm

LEMMA TameSame ==
  ASSUME queue' = queue, prepare_state' = prepare_state
  PROVE  \A f \in Entry : Tame(f)
BY DEF Tame, IsReady

\* Node c of entry e is looked at; the other queues are left alone.
LEMMA TameLook ==
  ASSUME Types, QueueInvs, NEW e \in Entry, NEW c \in Node, c.entry = e,
         NEW p \in Seq(Node), queue' = [queue EXCEPT ![e] = p], NEW i, LooksAt(c, p, i),
         (i <=> request'[e].issued) \/ (i <=> request[e].issued),
         \A m \in Node : Contains(p, m) => Contains(queue[e], m) \/ m = c,
         c \notin Range(queue[e]) => ~ IsReady(c),
         ~ Empty(p) => p[1] = c \/ (~ Empty(queue[e]) /\ p[1] = queue[e][1])
  PROVE  \A f \in Entry : Tame(f)
<1>1. queue \in [Entry -> Seq(Node)] /\ queue'[e] = p BY DEF Types
<1>2. /\ \A n \in Node \ {c} : prepare_state'[n] = prepare_state[n]
      /\ prepare_state'[c] = (IF prepare_state[c] # "kReadyForCommitCalled" /\ i
                                THEN "kPrepareDoneCalled" ELSE "kReadyForCommitCalled")
  BY DEF LooksAt
<1>3. ASSUME NEW f \in Entry \ {e} PROVE Tame(f)
  <2>1. queue'[f] = queue[f] /\ queue[f] \in Seq(Node) BY <1>1
  <2>2. InLine(queue[f], f) BY DEF QueueInvs, QueueInv, QueueMembers
  <2>3. \A n : Contains(queue[f], n) => n.entry = f BY <2>1, <2>2, InLineEntry
  <2>4. \A n \in Node : Contains(queue[f], n) => (IsReady(n)' <=> IsReady(n))
    BY <1>2, <2>3 DEF IsReady
  <2>5. ~ Empty(queue[f]) => queue[f][1] \in Node /\ Contains(queue[f], queue[f][1])
    BY <2>1, HeadOfQueue
  <2>6. ~ Empty(queue[f]) => (IsReady(queue[f][1])' <=> IsReady(queue[f][1]))
    <3>. SUFFICES ASSUME ~ Empty(queue[f]), NEW h, h = queue[f][1]
                  PROVE  IsReady(queue[f][1])' <=> IsReady(queue[f][1])
      OBVIOUS
    <3>1. prepare_state'[h] = prepare_state[h] BY <1>2, <2>3, <2>5
    <3>. QED BY <2>1, <3>1 DEF IsReady
  <2>. QED BY <2>1, <2>4, <2>6 DEF Tame
<1>4. Tame(e)
  <2>1. ASSUME NEW n \in Node, Contains(p, n), IsReady(n)'
        PROVE  (Contains(queue[e], n) /\ IsReady(n)) \/ ~ request'[e].issued \/ ~ request[e].issued
    <3>1. CASE n # c BY <1>2, <2>1, <3>1 DEF IsReady
    <3>2. CASE n = c /\ IsReady(c)
      <4>1. Contains(queue[e], c) BY <1>1, <3>2, HeadOfQueue
      <4>. QED BY <3>2, <4>1
    <3>3. CASE n = c /\ ~ IsReady(c)
      <4>1. ~ i BY <1>2, <2>1, <3>3 DEF IsReady
      <4>. QED BY <4>1
    <3>. QED BY <3>1, <3>2, <3>3
  <2>2. ASSUME ~ Empty(p), ~ IsReady(p[1])'
        PROVE  (~ Empty(queue[e]) /\ ~ IsReady(queue[e][1])) \/ request'[e].issued \/ request[e].issued
    <3>1. CASE p[1] = c
      <4>1. i BY <1>2, <2>2, <3>1 DEF IsReady
      <4>. QED BY <4>1
    <3>2. CASE p[1] # c
      <4>1. ~ Empty(queue[e]) /\ p[1] = queue[e][1] /\ p[1] \in Node BY <2>2, <3>2, HeadOfQueue
      <4>2. prepare_state'[p[1]] = prepare_state[p[1]] BY <1>2, <3>2, <4>1
      <4>. QED BY <2>2, <4>1, <4>2 DEF IsReady
    <3>. QED BY <3>1, <3>2
  <2>. QED BY <1>1, <2>1, <2>2 DEF Tame, IsReady
<1>. QED BY <1>3, <1>4

\* No node is looked at; what joins the queue of e is not ready.
LEMMA TameKept ==
  ASSUME Types, prepare_state' = prepare_state, NEW e \in Entry,
         NEW p, queue' = [queue EXCEPT ![e] = p],
         \A m \in Node : Contains(p, m) => Contains(queue[e], m) \/ ~ IsReady(m),
         ~ Empty(p) => ~ Empty(queue[e]) /\ p[1] = queue[e][1]
  PROVE  \A f \in Entry : Tame(f)
<1>1. queue'[e] = p /\ \A f \in Entry \ {e} : queue'[f] = queue[f] BY DEF Types
<1>2. ASSUME NEW f \in Entry \ {e} PROVE Tame(f) BY <1>1 DEF Tame, IsReady
<1>3. Tame(e) BY <1>1 DEF Tame, IsReady
<1>. QED BY <1>2, <1>3

LEMMA TamePrepares ==
  ASSUME Types, CallbackInv, ProgressInv, QueueInvs, NEW n \in Node, Prepares(n)
  PROVE  \A f \in Entry : Tame(f)
<1>. SUFFICES ASSUME NEW x, x = n.txn, NEW e \in Entry, e = n.entry, NEW q, q = queue[e],
                     NEW i, i = request[e].issued
              PROVE  \A f \in Entry : Tame(f)
  BY NodeFields
<1>1. q \in Seq(Node) /\ n \in NodesOf(x) /\ x \in Transaction BY NodeFields DEF Types, NodesOf
<1>2. Owes(The("PrepareForCommit", n)) /\ (JoinsBehind(n, q) \/ JoinsInFront(n, q, i))
  BY DEF Prepares
<1>3. Entering(n) BY <1>1, <1>2, Tokens DEF ProgressInv
<1>4. ~ IsReady(n)
  <2>1. prepare_state[n] = "kNone" BY <1>3 DEF QueueInvs, StateInv, Entering, Fresh
  <2>. QED BY <2>1 DEF IsReady
<1>5. CASE JoinsBehind(n, q)
  <2>. SUFFICES ASSUME NEW p, Is(p, Append(q, n)) PROVE \A f \in Entry : Tame(f) BY DEF Is
  <2>1. /\ ~ Empty(q) /\ queue' = [queue EXCEPT ![e] = p] /\ prepare_state' = prepare_state
    BY <1>5 DEF JoinsBehind, StatesKept, Is
  <2>2. /\ p \in Seq(Node) /\ Len(p) = Len(q) + 1 /\ Len(q) \in Nat /\ p[Len(q) + 1] = n
        /\ \A j \in 1 .. Len(q) : p[j] = q[j]
    BY <1>1, AppendProperties, LenProperties DEF Is
  <2>3. \A m \in Node : Contains(p, m) => Contains(q, m) \/ m = n
    <3>. SUFFICES ASSUME NEW m \in Node, NEW j \in 1 .. Len(q) + 1, p[j] = m PROVE Contains(q, m) \/ m = n
      BY <2>2 DEF Contains
    <3>1. CASE j = Len(q) + 1 BY <2>2, <3>1
    <3>2. CASE j \in 1 .. Len(q) BY <2>2, <3>2 DEF Contains
    <3>. QED BY <2>2, <3>1, <3>2
  <2>4. p[1] = q[1] BY <1>1, <2>1, <2>2, HeadOfQueue
  <2>5. \A m \in Node : Contains(p, m) => Contains(queue[e], m) \/ ~ IsReady(m) BY <1>4, <2>3
  <2>. QED BY <2>1, <2>4, <2>5, TameKept
<1>6. CASE JoinsInFront(n, q, i)
  <2>. SUFFICES ASSUME NEW p, Is(p, <<n>> \o q) PROVE \A f \in Entry : Tame(f) BY DEF Is
  <2>1. queue' = [queue EXCEPT ![e] = p] /\ LooksAt(n, p, i) BY <1>6 DEF JoinsInFront, Is
  <2>2. /\ p \in Seq(Node) /\ Len(p) = 1 + Len(q) /\ Len(q) \in Nat /\ p[1] = n
        /\ \A j \in 1 .. 1 + Len(q) : j # 1 => p[j] = q[j - 1]
    <3>1. <<n>> \in Seq(Node) /\ Len(<<n>>) = 1 /\ <<n>>[1] = n /\ Len(q) \in Nat
      BY <1>1, LenProperties
    <3>. QED BY <1>1, <3>1, ConcatProperties DEF Is
  <2>3. \A m \in Node : Contains(p, m) => Contains(q, m) \/ m = n
    <3>. SUFFICES ASSUME NEW m \in Node, NEW j \in 1 .. 1 + Len(q), p[j] = m PROVE Contains(q, m) \/ m = n
      BY <2>2 DEF Contains
    <3>1. CASE j = 1 BY <2>2, <3>1
    <3>2. CASE j # 1
      <4>1. j - 1 \in 1 .. Len(q) /\ q[j - 1] = m BY <2>2, <3>2
      <4>. QED BY <4>1 DEF Contains
    <3>. QED BY <3>1, <3>2
  <2>4. \A m \in Node : Contains(p, m) => Contains(queue[e], m) \/ m = n BY <2>3
  <2>5. n \notin Range(queue[e]) => ~ IsReady(n) BY <1>4
  <2>6. ~ Empty(p) => p[1] = n \/ (~ Empty(queue[e]) /\ p[1] = queue[e][1]) BY <2>2
  <2>7. (i <=> request'[e].issued) \/ (i <=> request[e].issued) OBVIOUS
  <2>8. n.entry = e /\ p \in Seq(Node) BY <2>2
  <2>. QED BY <2>1, <2>4, <2>5, <2>6, <2>7, <2>8, TameLook
<1>. QED BY <1>2, <1>5, <1>6

LEMMA UnlinkedMembers ==
  ASSUME NEW q \in Seq(Node), NEW n, NEW p, Is(p, Unlink(q, n)), NEW m, Contains(p, m)
  PROVE  Contains(q, m)
<1>1. CASE ~ Contains(q, n)
  <2>1. p = q BY <1>1, Unlinked DEF Is
  <2>. QED BY <2>1
<1>2. CASE Contains(q, n)
  <2>1. \E k \in 1 .. Len(q) :
          /\ q[k] = n /\ Len(Unlink(q, n)) = Len(q) - 1
          /\ \A j \in 1 .. Len(q) - 1 : Unlink(q, n)[j] = IF j < k THEN q[j] ELSE q[j + 1]
    BY <1>2, Unlinked
  <2>2. PICK k \in 1 .. Len(q) : /\ q[k] = n /\ Len(p) = Len(q) - 1
                                 /\ \A j \in 1 .. Len(q) - 1 : p[j] = IF j < k THEN q[j] ELSE q[j + 1]
    BY <2>1 DEF Is
  <2>3. Len(q) \in Nat BY LenProperties
  <2>4. PICK j \in 1 .. Len(q) - 1 : p[j] = m BY <2>2 DEF Contains
  <2>5. CASE j < k
    <3>1. j \in 1 .. Len(q) /\ q[j] = m BY <2>2, <2>3, <2>4, <2>5
    <3>. QED BY <3>1 DEF Contains
  <2>6. CASE ~ (j < k)
    <3>1. j + 1 \in 1 .. Len(q) /\ q[j + 1] = m BY <2>2, <2>3, <2>4, <2>6
    <3>. QED BY <3>1 DEF Contains
  <2>. QED BY <2>5, <2>6
<1>. QED BY <1>1, <1>2

\* The head of what is left of the queue of e is looked at.
LEMMA TameHead ==
  ASSUME Types, QueueInvs, NEW e \in Entry, NEW c \in Node, NEW p \in Seq(Node),
         queue' = [queue EXCEPT ![e] = p], NEW i, i = request'[e].issued,
         Contains(p, c), c = Head(p), LooksAt(c, p, i),
         \A m : Contains(p, m) => Contains(queue[e], m)
  PROVE  \A f \in Entry : Tame(f)
<1>1. queue[e] \in Seq(Node) /\ InLine(queue[e], e)
  BY DEF Types, QueueInvs, QueueInv, QueueMembers
<1>2. Contains(queue[e], c) /\ c.entry = e BY <1>1, InLineEntry
<1>3. c \in Range(queue[e]) /\ p[1] = c BY <1>1, <1>2, HeadOfQueue
<1>4. /\ \A m \in Node : Contains(p, m) => Contains(queue[e], m) \/ m = c
      /\ c \notin Range(queue[e]) => ~ IsReady(c)
      /\ ~ Empty(p) => p[1] = c \/ (~ Empty(queue[e]) /\ p[1] = queue[e][1])
      /\ (i <=> request'[e].issued) \/ (i <=> request[e].issued)
  BY <1>3
<1>. QED BY <1>2, <1>4, TameLook

LEMMA TameWrites ==
  ASSUME Types, QueueInvs, NEW n \in Node, Writes(n)
  PROVE  \A f \in Entry : Tame(f)
<1>. SUFFICES ASSUME NEW e \in Entry, Is(e, n.entry), NEW q, Is(q, queue[e]), NEW p, Is(p, Unlink(q, n)),
                     NEW i, Is(i, request'[e].issued)
              PROVE  \A f \in Entry : Tame(f)
  BY NodeFields DEF Is
<1>1. q \in Seq(Node) /\ p \in Seq(Node) /\ InLine(q, e) /\ q = queue[e]
  BY Unlinked DEF Types, QueueInvs, QueueInv, QueueMembers, Is
<1>2. /\ queue' = [queue EXCEPT ![e] = p]
      /\ \/ Empty(p) /\ StatesKept
         \/ \E c \in Node : Contains(p, c) /\ c = Head(p) /\ LooksAt(c, p, i)
  BY DEF Writes, Is
<1>3. \A m : Contains(p, m) => Contains(q, m) BY <1>1, UnlinkedMembers
<1>4. CASE Empty(p) /\ StatesKept
  <2>1. prepare_state' = prepare_state BY <1>4 DEF StatesKept
  <2>2. \A m \in Node : Contains(p, m) => Contains(queue[e], m) \/ ~ IsReady(m) BY <1>1, <1>3
  <2>. QED BY <1>2, <1>4, <2>1, <2>2, TameKept
<1>5. ASSUME NEW c \in Node, Contains(p, c), c = Head(p), LooksAt(c, p, i)
      PROVE  \A f \in Entry : Tame(f)
  <2>1. p \in Seq(Node) /\ queue' = [queue EXCEPT ![e] = p] /\ i = request'[e].issued
    BY <1>1, <1>2 DEF Is
  <2>2. \A m : Contains(p, m) => Contains(queue[e], m) BY <1>1, <1>3
  <2>. QED BY <1>5, <2>1, <2>2, TameHead
<1>. QED BY <1>2, <1>4, <1>5

LEMMA CalmStep ==
  ASSUME Types, CallbackInv, ProgressInv, QueueInvs, CalmInv, NodeStep, ReadStep
  PROVE  CalmInv'
<1>1. \A f \in Entry : Tame(f)
  <2>1. CASE Aside
    <3>1. queue' = queue BY <2>1 DEF Aside
    <3>2. CASE StatesKept BY <3>1, <3>2, TameSame DEF StatesKept
    <3>3. ASSUME NEW e \in Entry, NEW c \in Node, Contains(queue[e], c), LooksAt(c, queue[e], request'[e].issued)
          PROVE  \A f \in Entry : Tame(f)
      <4>. SUFFICES ASSUME NEW p, p = queue[e], NEW i, i = request'[e].issued PROVE \A f \in Entry : Tame(f)
        OBVIOUS
      <4>1. p \in Seq(Node) /\ InLine(p, e) /\ queue' = [queue EXCEPT ![e] = p]
        BY <3>1 DEF Types, QueueInvs, QueueInv, QueueMembers
      <4>2. c.entry = e /\ c \in Range(queue[e]) BY <3>3, <4>1, InLineEntry, HeadOfQueue
      <4>3. /\ \A m \in Node : Contains(p, m) => Contains(queue[e], m) \/ m = c
            /\ c \notin Range(queue[e]) => ~ IsReady(c)
            /\ ~ Empty(p) => p[1] = c \/ (~ Empty(queue[e]) /\ p[1] = queue[e][1])
            /\ (i <=> request'[e].issued) \/ (i <=> request[e].issued)
        BY <4>2
      <4>4. LooksAt(c, p, i) BY <3>3
      <4>. QED BY <4>1, <4>2, <4>3, <4>4, TameLook
    <3>. QED BY <2>1, <3>2, <3>3 DEF Aside
  <2>2. ASSUME NEW n \in Node, Prepares(n) PROVE \A f \in Entry : Tame(f) BY <2>2, TamePrepares
  <2>3. ASSUME NEW n \in Node, Writes(n) PROVE \A f \in Entry : Tame(f) BY <2>3, TameWrites
  <2>4. ASSUME NEW n \in Node, Requests(n.txn, n) \/ Returned(n) \/ Done(n) \/ Ends(n.txn) \/ Readies(n) \/ Finishes(n)
        PROVE  \A f \in Entry : Tame(f)
    <3>1. queue' = queue /\ prepare_state' = prepare_state
      BY <2>4 DEF Requests, Returned, Done, Ends, Readies, Finishes, MovesOn, StatesKept, StatesKeptBut
    <3>. QED BY <3>1, TameSame
  <2>5. ASSUME NEW x \in Transaction, Ends(x) PROVE \A f \in Entry : Tame(f)
    <3>1. queue' = queue /\ prepare_state' = prepare_state BY <2>5 DEF Ends, StatesKept
    <3>. QED BY <3>1, TameSame
  <2>. QED BY <2>1, <2>2, <2>3, <2>4, <2>5 DEF NodeStep
<1>2. \A f \in Entry : Wakes(f) BY ReadsWake DEF WakeStep
<1>. QED BY <1>1, <1>2, TameCalm DEF CalmInv

LEMMA CalmInit == Init => CalmInv
<1>. SUFFICES ASSUME Init, NEW e \in Entry PROVE Calm(e) BY DEF CalmInv
<1>1. ~ request[e].issued /\ request[e].deferred /\ Empty(queue[e]) BY DEF Init, Empty
<1>. QED BY <1>1 DEF Calm

LEMMA CalmWakes ==
  ASSUME Types, CalmInv
  PROVE  NoLostWakeup
<1>. SUFFICES ASSUME NEW e \in Entry
              PROVE  /\ request[e].queued /\ ~ request[e].deferred => request[e].issued \/ queue[e] # <<>>
                     /\ queue[e] # <<>> /\ prepare_state[Head(queue[e])] # "kReadyForCommitCalled" =>
                          request[e].issued
  BY DEF NoLostWakeup
<1>1. Calm(e) /\ queue[e] \in Seq(Node) BY DEF CalmInv, Types
<1>2. ~ Empty(queue[e]) => Head(queue[e]) = queue[e][1] BY <1>1, HeadOfQueue
<1>. QED BY <1>1, <1>2 DEF Calm, Empty, IsReady

LEMMA WrittenInTurn ==
  ASSUME Types, CallbackInv, ProgressInv, QueueInvs, CalmInv
  PROVE  WritebackInTurn
<1>. SUFFICES ASSUME NEW n \in Node, WritingBack(n), NEW x, x = n.txn, NEW e \in Entry, e = n.entry,
                     NEW q, q = queue[e]
              PROVE  /\ Contains(q, n) /\ prepare_state[n] = "kReadyForCommitCalled"
                     /\ Head(q).txn = x /\ ~ request[e].issued
  BY NodeFields DEF WritebackInTurn
<1>1. q \in Seq(Node) /\ n \in NodesOf(x) /\ x \in Transaction BY NodeFields DEF Types, NodesOf
<1>2. "Commit" \in called[n] /\ "Writeback" \notin called[n] BY DEF WritingBack
<1>3. "ReadyForCommit" \in called[n] /\ "PrepareForCommit" \in called[n]
  BY <1>1, <1>2, Tokens DEF ProgressInv
<1>4. prepare_state[n] = "kReadyForCommitCalled" BY <1>3 DEF CallbackInv, Callbacks
<1>5. Contains(q, n) BY <1>2, <1>3 DEF QueueInvs, QueueInv, QueueMembers, Enqueued
<1>6. n.txn = q[1].txn BY <1>4, <1>5 DEF QueueInvs, QueueInv, QueueTurn
<1>7. Head(q) = q[1] BY <1>1, <1>5, HeadOfQueue
<1>8. ~ request[e].issued BY <1>4, <1>5 DEF CalmInv, Calm, IsReady
<1>. QED BY <1>4, <1>5, <1>6, <1>7, <1>8

-----------------------------------------------------------------------------
(* The times of reads.                                                     *)

\* The times of a read request state, at time t.
TimesOK(s, t) ==
  /\ s.time <= t /\ s.queued_time <= t
  /\ s.issued => s.time <= s.issued_time /\ s.issued_time <= t
  /\ s.queued => s.time <= s.queued_time /\ (s.issued => s.queued_time > 0)

\* What a reader waits for will be recent enough.
Waits(d, s) ==
  /\ d.on = "issued" => s.issued /\ d.bound <= s.issued_time
  /\ d.on = "queued" => s.queued /\ d.bound <= s.queued_time

\* A read that is issued is about to be started, or has been.
ReadCalls(e) ==
  /\ Once(The("DoRead", e))
  /\ request[e].issued <=> (reading[e] \/ Owes(The("DoRead", e)))
  /\ ~ (reading[e] /\ Owes(The("DoRead", e)))

WaitsOn(readers, e, s) ==
  \A r \in Reader : Waits(readers[r], IF readers[r].entry = e THEN s ELSE request[readers[r].entry])

AllWait == \A r \in Reader : Waits(reader[r], request[reader[r].entry])

TimeInv ==
  /\ now > 0 /\ AllWait
  /\ \A e \in Entry : TimesOK(request[e], now) /\ ReadCalls(e)

LEMMA ReaderFields ==
  ASSUME NEW readers \in [Reader -> ReaderState], NEW r \in Reader
  PROVE  /\ readers[r].entry \in Entry /\ readers[r].bound \in Time /\ readers[r].on \in Promise
         /\ \A e : LET d == Unbatch(readers, e)[r]
                   IN  d.on = readers[r].on /\ d.entry = readers[r].entry /\ d.bound = readers[r].bound
         /\ \A who, p : LET d == Move(readers, who, p)[r]
                        IN  /\ d.on = (IF r \in who THEN p ELSE readers[r].on)
                            /\ d.entry = readers[r].entry /\ d.bound = readers[r].bound
<1>1. readers[r] \in ReaderState OBVIOUS
<1>2. ASSUME NEW e
      PROVE  LET d == Unbatch(readers, e)[r]
             IN  d.on = readers[r].on /\ d.entry = readers[r].entry /\ d.bound = readers[r].bound
  BY <1>1 DEF Unbatch, ReaderState
<1>3. ASSUME NEW who, NEW p
      PROVE  LET d == Move(readers, who, p)[r]
             IN  /\ d.on = (IF r \in who THEN p ELSE readers[r].on)
                 /\ d.entry = readers[r].entry /\ d.bound = readers[r].bound
  BY <1>1 DEF Move, ReaderState
<1>. QED BY <1>1, <1>2, <1>3 DEF ReaderState

LEMMA StateFields ==
  ASSUME NEW s \in RequestState
  PROVE  /\ Unread(s).time = s.time /\ Unread(s).issued = s.issued /\ Unread(s).issued_time = s.issued_time
         /\ Unread(s).queued = FALSE /\ Unread(s).queued_time = 0
         /\ Started(s).time = s.time /\ Started(s).issued = TRUE /\ Started(s).issued_time = s.queued_time
         /\ Started(s).queued = FALSE /\ Started(s).queued_time = 0
         /\ Unqueued(s) = Unread(s)
BY DEF Unread, Started, Unqueued, RequestState

\* The caller of MaybeStartReadOrWriteback passes a state and readers that fit.
Fits(e, s, readers) ==
  /\ s \in RequestState /\ readers \in [Reader -> ReaderState]
  /\ request[e].time <= s.time /\ TimesOK(s, now) /\ WaitsOn(readers, e, s)
  /\ s.issued <=> (reading'[e] \/ Owes(The("DoRead", e)))
  /\ ~ (reading'[e] /\ Owes(The("DoRead", e)))
  /\ \A f \in Entry \ {e} : reading'[f] = reading[f]

\* The read state never goes back in time.
Forward == \A e \in Entry : request[e].time <= request'[e].time

LEMMA StartsState ==
  ASSUME Types, NEW e \in Entry, NEW s, NEW q, NEW readers, NEW told,
         Starts(e, s, q, readers, told), s \in RequestState
  PROVE  /\ request'[e].time = s.time /\ \A f \in Entry \ {e} : request'[f] = request[f]
         /\ \/ request'[e] = s /\ Stays(e, s, q, readers)
            \/ request'[e] = Unread(s) /\ Drops(e, s, q, readers)
            \/ request'[e] = Started(s) /\ Issues(e, s, q, readers)
<1>1. request \in [Entry -> RequestState] BY DEF Types
<1>2. CASE Stays(e, s, q, readers) BY <1>1, <1>2 DEF Stays
<1>3. CASE Drops(e, s, q, readers) BY <1>1, <1>3, StateFields DEF Drops
<1>4. CASE Issues(e, s, q, readers) BY <1>1, <1>4, StateFields, ZenonT(60) DEF Issues
<1>. QED BY <1>2, <1>3, <1>4 DEF Starts

LEMMA StartsTimes ==
  ASSUME Types, TimeInv, now' = now, NEW e \in Entry, NEW s, NEW q, NEW readers, NEW told,
         Starts(e, s, q, readers, told), Fits(e, s, readers)
  PROVE  TimeInv' /\ Forward
<1>1. /\ s \in RequestState /\ readers \in [Reader -> ReaderState]
      /\ request[e].time <= s.time /\ TimesOK(s, now) /\ WaitsOn(readers, e, s)
      /\ s.issued <=> (reading'[e] \/ Owes(The("DoRead", e)))
      /\ ~ (reading'[e] /\ Owes(The("DoRead", e)))
      /\ \A f \in Entry \ {e} : reading'[f] = reading[f]
  BY DEF Fits
<1>2. /\ request'[e].time = s.time /\ \A f \in Entry \ {e} : request'[f] = request[f]
      /\ \/ request'[e] = s /\ Stays(e, s, q, readers)
         \/ request'[e] = Unread(s) /\ Drops(e, s, q, readers)
         \/ request'[e] = Started(s) /\ Issues(e, s, q, readers)
  BY <1>1, StartsState
<1>3. request \in [Entry -> RequestState] /\ now \in Time BY DEF Types
<1>4. Forward
  <2>1. ASSUME NEW f \in Entry PROVE request[f].time <= request'[f].time
    <3>1. CASE f = e BY <1>1, <1>2, <3>1
    <3>2. CASE f # e
      <4>1. request[f].time \in Time BY <1>3, RequestTypes
      <4>. QED BY <1>2, <3>2, <4>1 DEF Time
    <3>. QED BY <3>1, <3>2
  <2>. QED BY <2>1 DEF Forward
<1>5. /\ s.issued \in BOOLEAN /\ s.queued \in BOOLEAN
      /\ s.time \in Nat /\ s.issued_time \in Nat /\ s.queued_time \in Nat /\ now \in Nat
  <2>1. /\ s.issued \in BOOLEAN /\ s.queued \in BOOLEAN
        /\ s.time \in Time /\ s.issued_time \in Time /\ s.queued_time \in Time /\ now \in Time
    BY <1>1, <1>3, RequestTypes
  <2>2. Time \subseteq Nat BY DEF Time
  <2>. QED BY <2>1, <2>2
<1>6. ASSUME NEW f \in Entry \ {e} PROVE TimesOK(request[f], now)' /\ (Keeps(The("DoRead", f)) => ReadCalls(f)')
  <2>1. TimesOK(request[f], now) /\ ReadCalls(f) /\ request'[f] = request[f] BY <1>2 DEF TimeInv
  <2>2. TimesOK(request[f], now)' BY <2>1 DEF TimesOK
  <2>3. ASSUME Keeps(The("DoRead", f)) PROVE ReadCalls(f)'
    BY <1>1, <2>1, <2>3 DEF ReadCalls, Keeps
  <2>. QED BY <2>2, <2>3
<1>7. Once(The("DoRead", e)) BY DEF TimeInv, ReadCalls
<1>8. ASSUME NEW r \in Reader, readers[r].entry # e PROVE Waits(readers[r], request'[readers[r].entry])
  <2>1. readers[r].entry \in Entry /\ Waits(readers[r], request[readers[r].entry])
    BY <1>1, <1>8, ReaderFields DEF WaitsOn
  <2>. QED BY <1>2, <1>8, <2>1
<1>9. CASE request'[e] = s /\ Stays(e, s, q, readers)
  <2>1. reader' = readers /\ NoReadStarted BY <1>9 DEF Stays
  <2>2. ReadCalls(e)' BY <1>1, <1>7, <1>9, <2>1 DEF ReadCalls, NoReadStarted, Keeps
  <2>3. \A f \in Entry : ReadCalls(f)' BY <1>6, <2>1, <2>2 DEF NoReadStarted
  <2>4. TimesOK(request[e], now)' BY <1>1, <1>9 DEF TimesOK
  <2>5. AllWait'
    <3>. SUFFICES ASSUME NEW r \in Reader PROVE Waits(readers[r], request'[readers[r].entry])
      BY <2>1 DEF AllWait, Waits
    <3>1. readers[r].entry = e => Waits(readers[r], s) BY <1>1 DEF WaitsOn
    <3>. QED BY <1>8, <1>9, <3>1
  <2>. QED BY <1>4, <1>6, <2>3, <2>4, <2>5 DEF TimeInv
<1>10. CASE request'[e] = Unread(s) /\ Drops(e, s, q, readers)
  <2>1. reader' = Unbatch(readers, e) /\ NoReadStarted /\ On(readers, e, "queued") = {} /\ ~ s.issued
    BY <1>10 DEF Drops
  <2>2. /\ Unread(s).time = s.time /\ (Unread(s).issued <=> s.issued) /\ Unread(s).issued_time = s.issued_time
        /\ ~ Unread(s).queued /\ Unread(s).queued_time = 0
    BY <1>1, StateFields
  <2>3. ReadCalls(e)' BY <1>1, <1>7, <1>10, <2>1, <2>2 DEF ReadCalls, NoReadStarted, Keeps
  <2>4. \A f \in Entry : ReadCalls(f)' BY <1>6, <2>1, <2>3 DEF NoReadStarted
  <2>5. TimesOK(request[e], now)' BY <1>1, <1>5, <1>10, <2>2 DEF TimesOK
  <2>6. AllWait'
    <3>. SUFFICES ASSUME NEW r \in Reader, NEW d, d = Unbatch(readers, e)[r] PROVE Waits(d, request'[d.entry])
      BY <2>1 DEF AllWait, Waits
    <3>1. d.on = readers[r].on /\ d.entry = readers[r].entry /\ d.bound = readers[r].bound
      BY <1>1, ReaderFields
    <3>2. CASE readers[r].entry = e
      <4>1. Waits(readers[r], s) /\ readers[r].on # "queued" BY <1>1, <2>1, <3>2 DEF WaitsOn, On
      <4>. QED BY <1>10, <2>2, <3>1, <3>2, <4>1 DEF Waits
    <3>3. CASE readers[r].entry # e BY <1>8, <3>1, <3>3 DEF Waits
    <3>. QED BY <3>2, <3>3
  <2>. QED BY <1>4, <1>6, <2>4, <2>5, <2>6 DEF TimeInv
<1>11. CASE request'[e] = Started(s) /\ Issues(e, s, q, readers)
  <2>. SUFFICES ASSUME NEW wanted, wanted = On(readers, e, "queued"), NEW moved, moved = Move(readers, wanted, "issued")
                PROVE  TimeInv' /\ Forward
    OBVIOUS
  <2>1. /\ reader' = Unbatch(moved, e) /\ wanted # {} /\ ~ s.issued
        /\ Plans(The("DoRead", e)) /\ \A f \in Entry \ {e} : Keeps(The("DoRead", f))
    BY <1>11 DEF Issues
  <2>2. /\ Started(s).time = s.time /\ Started(s).issued /\ Started(s).issued_time = s.queued_time
        /\ ~ Started(s).queued /\ Started(s).queued_time = 0
    BY <1>1, StateFields
  <2>3. ~ reading'[e] /\ ~ Owes(The("DoRead", e)) BY <1>1, <2>1
  <2>4. ReadCalls(e)' BY <1>11, <2>1, <2>2, <2>3 DEF ReadCalls, Plans
  <2>5. \A f \in Entry : ReadCalls(f)' BY <1>6, <2>1, <2>4
  <2>6. s.queued
    <3>1. PICK r \in Reader : readers[r].entry = e /\ readers[r].on = "queued" BY <2>1 DEF On
    <3>. QED BY <1>1, <3>1 DEF WaitsOn, Waits
  <2>7. TimesOK(request[e], now)' BY <1>1, <1>5, <1>11, <2>2, <2>6 DEF TimesOK
  <2>8. moved \in [Reader -> ReaderState] BY <1>1, ReaderTypes DEF Promise
  <2>9. AllWait'
    <3>. SUFFICES ASSUME NEW r \in Reader, NEW d, d = Unbatch(moved, e)[r] PROVE Waits(d, request'[d.entry])
      BY <2>1 DEF AllWait, Waits
    <3>1. /\ d.on = moved[r].on /\ d.entry = moved[r].entry /\ d.bound = moved[r].bound
      BY <2>8, ReaderFields
    <3>2. /\ moved[r].on = (IF r \in wanted THEN "issued" ELSE readers[r].on)
          /\ moved[r].entry = readers[r].entry /\ moved[r].bound = readers[r].bound
      BY <1>1, ReaderFields
    <3>3. CASE r \in wanted
      <4>1. readers[r].entry = e /\ readers[r].on = "queued" BY <3>3 DEF On
      <4>2. readers[r].bound <= s.queued_time BY <1>1, <4>1 DEF WaitsOn, Waits
      <4>. QED BY <1>11, <2>2, <3>1, <3>2, <3>3, <4>1, <4>2 DEF Waits
    <3>4. CASE r \notin wanted /\ readers[r].entry = e
      <4>1. Waits(readers[r], s) /\ readers[r].on # "queued" BY <1>1, <3>4 DEF WaitsOn, On
      <4>2. readers[r].on # "issued" BY <2>1, <4>1 DEF Waits
      <4>. QED BY <3>1, <3>2, <3>4, <4>1, <4>2 DEF Waits
    <3>5. CASE readers[r].entry # e
      <4>1. r \notin wanted BY <3>5 DEF On
      <4>. QED BY <1>8, <3>1, <3>2, <3>5, <4>1 DEF Waits
    <3>. QED BY <3>3, <3>4, <3>5
  <2>. QED BY <1>4, <1>6, <2>5, <2>7, <2>9 DEF TimeInv
<1>. QED BY <1>2, <1>9, <1>10, <1>11

\* Readers that wait as before, or no longer do.
LEMMA StillWait ==
  ASSUME Types, AllWait, NEW e \in Entry, NEW s \in RequestState, NEW readers \in [Reader -> ReaderState],
         \A r \in Reader : /\ readers[r].entry = reader[r].entry /\ readers[r].bound = reader[r].bound
                           /\ readers[r].on = reader[r].on \/ readers[r].on \notin {"issued", "queued"},
         \/ request[e].issued => s.issued /\ s.issued_time = request[e].issued_time
         \/ \A r \in Reader : readers[r].entry = e => readers[r].on # "issued",
         \/ request[e].queued => s.queued /\ request[e].queued_time <= s.queued_time
         \/ \A r \in Reader : readers[r].entry = e => readers[r].on # "queued"
  PROVE  WaitsOn(readers, e, s)
<1>. SUFFICES ASSUME NEW r \in Reader
              PROVE  Waits(readers[r], IF readers[r].entry = e THEN s ELSE request[readers[r].entry])
  BY DEF WaitsOn
<1>1. Waits(reader[r], request[reader[r].entry]) BY DEF AllWait
<1>2. /\ readers[r].entry = reader[r].entry /\ readers[r].bound = reader[r].bound
      /\ readers[r].on = reader[r].on \/ readers[r].on \notin {"issued", "queued"}
  OBVIOUS
<1>3. CASE readers[r].entry # e BY <1>1, <1>2, <1>3 DEF Waits
<1>4. CASE readers[r].entry = e
  <2>1. Waits(reader[r], request[e]) BY <1>1, <1>2, <1>4
  <2>2. readers[r].on = "issued" => s.issued /\ readers[r].bound <= s.issued_time
    BY <1>2, <1>4, <2>1 DEF Waits
  <2>3. readers[r].on = "queued" => s.queued /\ readers[r].bound <= s.queued_time
    <3>. SUFFICES ASSUME readers[r].on = "queued" PROVE s.queued /\ readers[r].bound <= s.queued_time
      OBVIOUS
    <3>1. request[e].queued /\ readers[r].bound <= request[e].queued_time
      BY <1>2, <2>1 DEF Waits
    <3>2. s.queued /\ request[e].queued_time <= s.queued_time BY <1>4, <3>1
    <3>3. readers[r].bound \in Time /\ request[e].queued_time \in Time /\ s.queued_time \in Time
      <4>1. readers[r].bound \in Time BY ReaderFields
      <4>2. request[e] \in RequestState BY DEF Types
      <4>. QED BY <4>1, <4>2, RequestTypes
    <3>. QED BY <3>1, <3>2, <3>3 DEF Time
  <2>. QED BY <1>4, <2>2, <2>3 DEF Waits
<1>. QED BY <1>3, <1>4

\* What Read asks for.
LEMMA AskedTimes ==
  ASSUME Types, TimeInv, NEW e \in Entry, NEW bound \in Time, NEW strict \in BOOLEAN,
         NEW s, s = Asked(e, bound, strict), NEW need, need = Earlier(Limit(e, bound, strict), now)
  PROVE  /\ s \in RequestState /\ need \in Time
         /\ s.time = request[e].time /\ (s.issued <=> request[e].issued)
         /\ s.issued_time = request[e].issued_time /\ (s.queued <=> request[e].queued)
         /\ request[e].queued_time <= s.queued_time /\ s.queued_time <= now /\ need <= s.queued_time
         /\ TimesOK(s, now)
         /\ request[e].time = 0 \/ request[e].time < bound \/ (strict /\ request[e].stale) =>
              s.time <= s.queued_time
         /\ ~ (request[e].issued_time >= Limit(e, bound, strict)) => s.queued_time > 0
         /\ request[e].issued_time >= Limit(e, bound, strict) => need <= request[e].issued_time
<1>1. request[e] \in RequestState /\ now \in Time /\ now > 0 /\ TimesOK(request[e], now)
  BY DEF Types, TimeInv
<1>2. /\ request[e].time \in Time /\ request[e].queued_time \in Time /\ request[e].issued_time \in Time
  BY <1>1, RequestTypes
<1>3. s \in RequestState /\ need \in Time /\ AskedTime(e, bound, strict) \in Time BY LimitTypes
<1>4. /\ s.time = request[e].time /\ (s.issued <=> request[e].issued)
      /\ s.issued_time = request[e].issued_time /\ (s.queued <=> request[e].queued)
      /\ s.queued_time = AskedTime(e, bound, strict)
  BY <1>1 DEF Asked, RequestState
<1>5. PICK limit : limit = Limit(e, bound, strict) OBVIOUS
<1>6. /\ limit \in Int /\ limit >= 0
      /\ request[e].time = 0 \/ request[e].time < bound \/ (strict /\ request[e].stale) => request[e].time <= limit
  <2>1. bound \in Int /\ bound >= 0 /\ request[e].time \in Int /\ request[e].time >= 0
    BY <1>2 DEF Time
  <2>2. CASE request[e].time # 0 /\ request[e].time >= bound /\ strict /\ request[e].stale
    BY <1>5, <2>1, <2>2 DEF Limit
  <2>3. CASE ~ (request[e].time # 0 /\ request[e].time >= bound /\ strict /\ request[e].stale)
    BY <1>5, <2>1, <2>3 DEF Limit
  <2>. QED BY <2>2, <2>3
<1>7. now \in Int /\ request[e].time \in Int /\ request[e].queued_time \in Int /\ request[e].issued_time \in Int
  BY <1>1, <1>2 DEF Time
<1>8. need <= now /\ need <= limit /\ need >= 0 /\ need \in Int /\ (need = now \/ need = limit)
  BY <1>1, <1>5, <1>6, <1>7 DEF Earlier
<1>9. /\ s.queued_time \in Int /\ request[e].queued_time <= s.queued_time /\ need <= s.queued_time
      /\ s.queued_time = need \/ s.queued_time = request[e].queued_time
  BY <1>4, <1>7, <1>8 DEF AskedTime, Later
<1>10. s.queued_time <= now BY <1>1, <1>7, <1>8, <1>9 DEF TimesOK
<1>11. request[e].time = 0 \/ request[e].time < bound \/ (strict /\ request[e].stale) =>
         s.time <= s.queued_time
  <2>1. request[e].time <= now BY <1>1 DEF TimesOK
  <2>2. request[e].time <= limit => request[e].time <= need BY <1>6, <1>7, <1>8, <2>1
  <2>3. request[e].time <= limit => request[e].time <= s.queued_time BY <1>7, <1>8, <1>9, <2>2
  <2>. QED BY <1>4, <1>6, <2>3
<1>12. TimesOK(s, now)
  <2>1. s.queued => request[e].time <= request[e].queued_time /\ (s.issued => request[e].queued_time > 0)
    BY <1>1, <1>4 DEF TimesOK
  <2>2. s.queued => s.time <= s.queued_time /\ (s.issued => s.queued_time > 0) BY <1>4, <1>7, <1>9, <2>1
  <2>3. s.issued => s.time <= s.issued_time /\ s.issued_time <= now BY <1>1, <1>4 DEF TimesOK
  <2>4. s.time <= now BY <1>1, <1>4 DEF TimesOK
  <2>. QED BY <1>10, <2>2, <2>3, <2>4 DEF TimesOK
<1>13. request[e].issued_time >= limit => need <= request[e].issued_time BY <1>6, <1>7, <1>8
<1>14. ~ (request[e].issued_time >= limit) => s.queued_time > 0
  <2>1. request[e].issued_time >= 0 BY <1>2 DEF Time
  <2>. QED BY <1>1, <1>6, <1>7, <1>8, <1>9, <2>1
<1>. QED BY <1>3, <1>4, <1>5, <1>9, <1>10, <1>11, <1>12, <1>13, <1>14

\* The read state of e is being read or not, as before.
LEMMA FitsCalls ==
  ASSUME TimeInv, reading' = reading, NEW e \in Entry, NEW s, s.issued <=> request[e].issued
  PROVE  /\ s.issued <=> (reading'[e] \/ Owes(The("DoRead", e)))
         /\ ~ (reading'[e] /\ Owes(The("DoRead", e)))
         /\ \A f \in Entry \ {e} : reading'[f] = reading[f]
<1>1. ReadCalls(e) BY DEF TimeInv
<1>. QED BY <1>1 DEF ReadCalls

\* A reader that had made no request now waits for the queued read.
LEMMA FitsQueued ==
  ASSUME Types, TimeInv, NEW r \in Reader, NEW e \in Entry, NEW bound \in Time, NEW strict \in BOOLEAN,
         NEW before \in {reader, Unbatch(reader, e)}, NEW defer \in BOOLEAN,
         reader[r].on = "none", reading' = reading,
         request[e].time = 0 \/ request[e].time < bound \/ (strict /\ request[e].stale),
         ~ (request[e].issued /\ request[e].issued_time >= Limit(e, bound, strict)),
         NEW s, Is(s, [Asked(e, bound, strict) EXCEPT !.queued = TRUE, !.deferred = defer]),
         NEW readers, Is(readers, [before EXCEPT ![r] = NewReader(e, "queued", defer, bound, strict)])
  PROVE  Fits(e, s, readers)
<1>. SUFFICES ASSUME NEW a, a = Asked(e, bound, strict), NEW need, need = Earlier(Limit(e, bound, strict), now)
              PROVE  Fits(e, s, readers)
  OBVIOUS
<1>1. /\ a \in RequestState /\ need \in Time
      /\ a.time = request[e].time /\ (a.issued <=> request[e].issued)
      /\ a.issued_time = request[e].issued_time
      /\ request[e].queued_time <= a.queued_time /\ a.queued_time <= now /\ need <= a.queued_time
      /\ TimesOK(a, now)
      /\ a.time <= a.queued_time /\ (request[e].issued => a.queued_time > 0)
  BY AskedTimes
<1>2. /\ s \in RequestState /\ s.queued /\ s.time = a.time /\ (s.issued <=> a.issued)
      /\ s.issued_time = a.issued_time /\ s.queued_time = a.queued_time
  BY <1>1 DEF RequestState, Is
<1>3. TimesOK(s, now) BY <1>1, <1>2 DEF TimesOK
<1>4. reader \in [Reader -> ReaderState] /\ before \in [Reader -> ReaderState]
  BY ReaderTypes DEF Types
<1>5. readers \in [Reader -> ReaderState]
  <2>1. NewReader(e, "queued", defer, bound, strict) \in ReaderState BY LimitTypes DEF Promise
  <2>. QED BY <1>4, <2>1 DEF Is
<1>6. readers[r].entry = e /\ readers[r].on = "queued" /\ readers[r].bound = need
  BY <1>4 DEF NewReader, Is
<1>7. ASSUME NEW w \in Reader \ {r}
      PROVE  readers[w].entry = reader[w].entry /\ readers[w].on = reader[w].on /\ readers[w].bound = reader[w].bound
  <2>1. readers[w] = before[w] BY <1>4, <1>7 DEF Is
  <2>. QED BY <1>4, <2>1, ReaderFields
<1>8. WaitsOn(readers, e, s)
  <2>. SUFFICES ASSUME NEW w \in Reader
                PROVE  Waits(readers[w], IF readers[w].entry = e THEN s ELSE request[readers[w].entry])
    BY DEF WaitsOn
  <2>1. CASE w = r BY <1>1, <1>2, <1>6, <2>1 DEF Waits
  <2>2. CASE w # r
    <3>1. Waits(reader[w], request[reader[w].entry]) BY DEF TimeInv, AllWait
    <3>2. readers[w].entry = reader[w].entry /\ readers[w].on = reader[w].on /\ readers[w].bound = reader[w].bound
      BY <1>7, <2>2
    <3>3. CASE reader[w].entry # e BY <3>1, <3>2, <3>3 DEF Waits
    <3>4. CASE reader[w].entry = e
      <4>1. /\ readers[w].bound \in Time /\ request[e].queued_time \in Time /\ s.queued_time \in Time
        <5>1. readers[w].bound \in Time BY <1>5, ReaderFields
        <5>2. request[e] \in RequestState BY DEF Types
        <5>. QED BY <1>2, <5>1, <5>2, RequestTypes
      <4>2. readers[w].on = "queued" => readers[w].bound <= request[e].queued_time
        BY <3>1, <3>2, <3>4 DEF Waits
      <4>3. readers[w].on = "queued" => readers[w].bound <= s.queued_time
        BY <1>1, <1>2, <4>1, <4>2 DEF Time
      <4>4. readers[w].on = "issued" => s.issued /\ readers[w].bound <= s.issued_time
        BY <1>1, <1>2, <3>1, <3>2, <3>4 DEF Waits
      <4>. QED BY <1>2, <3>2, <3>4, <4>3, <4>4 DEF Waits
    <3>. QED BY <3>3, <3>4
  <2>. QED BY <2>1, <2>2
<1>9. /\ s.issued <=> (reading'[e] \/ Owes(The("DoRead", e)))
      /\ ~ (reading'[e] /\ Owes(The("DoRead", e)))
      /\ \A f \in Entry \ {e} : reading'[f] = reading[f]
  <2>1. s.issued <=> request[e].issued BY <1>1, <1>2
  <2>. QED BY <2>1, FitsCalls
<1>10. request[e].time <= s.time
  <2>1. request[e].time \in Time BY RequestTypes DEF Types
  <2>. QED BY <1>1, <1>2, <2>1 DEF Time
<1>. QED BY <1>2, <1>3, <1>5, <1>8, <1>9, <1>10 DEF Fits


\* The batch of a reader is submitted.
LEMMA FitsSubmit ==
  ASSUME Types, TimeInv, NEW r \in Reader, NEW e \in Entry, e = reader[r].entry, reading' = reading,
         NEW s, s = SubmitState(e), NEW readers, readers = SubmitReaders(r)
  PROVE  Fits(e, s, readers)
<1>1. request[e] \in RequestState /\ reader \in [Reader -> ReaderState] /\ TimesOK(request[e], now) /\ AllWait
  BY DEF Types, TimeInv
<1>2. /\ s \in RequestState /\ s.time = request[e].time /\ (s.issued <=> request[e].issued)
      /\ s.issued_time = request[e].issued_time /\ s.queued_time = request[e].queued_time
      /\ (s.queued <=> request[e].queued)
  BY <1>1 DEF SubmitState, RequestState
<1>3. readers \in [Reader -> ReaderState] BY <1>1 DEF SubmitReaders, ReaderState
<1>4. ASSUME NEW w \in Reader
      PROVE  readers[w].entry = reader[w].entry /\ readers[w].bound = reader[w].bound /\ readers[w].on = reader[w].on
  BY <1>1 DEF SubmitReaders, ReaderState
<1>5. request[e].queued_time <= s.queued_time /\ request[e].time <= s.time
  <2>1. request[e].queued_time \in Time /\ request[e].time \in Time BY <1>1, RequestTypes
  <2>. QED BY <1>2, <2>1 DEF Time
<1>6. WaitsOn(readers, e, s) BY <1>1, <1>2, <1>3, <1>4, <1>5, StillWait
<1>7. TimesOK(s, now) BY <1>1, <1>2 DEF TimesOK
<1>8. /\ s.issued <=> (reading'[e] \/ Owes(The("DoRead", e)))
      /\ ~ (reading'[e] /\ Owes(The("DoRead", e)))
      /\ \A f \in Entry \ {e} : reading'[f] = reading[f]
  BY <1>2, FitsCalls
<1>. QED BY <1>2, <1>3, <1>5, <1>6, <1>7, <1>8 DEF Fits

\* The readers, some of whom are taken off the entry to be told a result.
Taken(readers, who) ==
  /\ readers \in [Reader -> ReaderState]
  /\ \A r \in Reader : /\ readers[r].entry = reader[r].entry /\ readers[r].bound = reader[r].bound
                       /\ readers[r].on = (IF r \in who THEN "taken" ELSE reader[r].on)

LEMMA LeftTaken ==
  ASSUME Types, NEW e \in Entry, NEW who, NEW take \in BOOLEAN
  PROVE  Taken(Left(e, who, take), who)
<1>1. reader \in [Reader -> ReaderState] BY DEF Types
<1>. SUFFICES ASSUME NEW moved, moved = Move(reader, who, "taken"), NEW left, left = Left(e, who, take)
              PROVE  Taken(left, who)
  OBVIOUS
<1>2. moved \in [Reader -> ReaderState] BY <1>1, ReaderTypes DEF Promise
<1>3. Taken(moved, who) BY <1>1, <1>2, ReaderFields DEF Taken
<1>4. left = (IF take THEN Unbatch(moved, e) ELSE moved) BY DEF Left
<1>5. CASE take
  <2>1. left = Unbatch(moved, e) BY <1>4, <1>5
  <2>2. left \in [Reader -> ReaderState] BY <1>2, <2>1, ReaderTypes
  <2>3. ASSUME NEW r \in Reader
        PROVE  left[r].entry = moved[r].entry /\ left[r].bound = moved[r].bound /\ left[r].on = moved[r].on
    BY <1>2, <2>1, ReaderFields
  <2>. QED BY <1>3, <2>2, <2>3 DEF Taken
<1>6. CASE ~ take BY <1>3, <1>4, <1>6
<1>. QED BY <1>5, <1>6

\* The request state after the issued read, and the queued read if it is taken.
LEMMA ResolvedFields ==
  ASSUME NEW w \in RequestState, NEW s, s = Resolved(w)
  PROVE  /\ s \in RequestState /\ s.time = w.time /\ ~ s.issued
         /\ TakesQueued(w, w.time) => ~ s.queued /\ s.queued_time = 0
         /\ ~ TakesQueued(w, w.time) => (s.queued <=> w.queued) /\ s.queued_time = w.queued_time
<1>. SUFFICES ASSUME NEW v, v = (IF TakesQueued(w, w.time) THEN Unqueued(w) ELSE w)
              PROVE  /\ s \in RequestState /\ s.time = w.time /\ ~ s.issued
                     /\ TakesQueued(w, w.time) => ~ s.queued /\ s.queued_time = 0
                     /\ ~ TakesQueued(w, w.time) => (s.queued <=> w.queued) /\ s.queued_time = w.queued_time
  OBVIOUS
<1>1. s = [v EXCEPT !.issued = FALSE] /\ v \in RequestState BY RequestTypes DEF Resolved
<1>2. /\ s \in RequestState /\ s.time = v.time /\ ~ s.issued /\ (s.queued <=> v.queued) /\ s.queued_time = v.queued_time
  BY <1>1 DEF RequestState
<1>3. /\ v.time = w.time /\ (TakesQueued(w, w.time) => ~ v.queued /\ v.queued_time = 0)
      /\ ~ TakesQueued(w, w.time) => v = w
  BY DEF Unqueued, RequestState
<1>. QED BY <1>2, <1>3

\* The read of an entry is answered: w is the read state before the request is resolved.
LEMMA FitsAnswer ==
  ASSUME Types, TimeInv, NEW e \in Entry, reading[e], reading' = [reading EXCEPT ![e] = FALSE],
         NEW w \in RequestState, request[e].time <= w.time, w.time <= now,
         w.queued <=> request[e].queued, w.queued_time = request[e].queued_time,
         NEW s, s = Resolved(w), NEW readers, readers = ResolvedReaders(e, w)
  PROVE  Fits(e, s, readers)
<1>1. /\ reader \in [Reader -> ReaderState] /\ TimesOK(request[e], now) /\ AllWait /\ ReadCalls(e)
      /\ reading \in [Entry -> BOOLEAN] /\ now > 0
  BY DEF Types, TimeInv
<1>2. ~ reading'[e] /\ ~ Owes(The("DoRead", e)) /\ \A f \in Entry \ {e} : reading'[f] = reading[f]
  BY <1>1 DEF ReadCalls
<1>. SUFFICES ASSUME NEW take \in BOOLEAN, take <=> TakesQueued(w, w.time) PROVE Fits(e, s, readers)
  BY RequestTypes DEF TakesQueued
<1>3. /\ w.time \in Int /\ w.queued_time \in Int /\ now \in Int /\ request[e].time \in Int
  <2>1. /\ w.time \in Time /\ w.queued_time \in Time /\ now \in Time /\ request[e].time \in Time
    BY RequestTypes DEF Types
  <2>. QED BY <2>1 DEF Time
<1>4. /\ s \in RequestState /\ s.time = w.time /\ ~ s.issued
      /\ take => ~ s.queued /\ s.queued_time = 0
      /\ ~ take => (s.queued <=> w.queued) /\ s.queued_time = w.queued_time
  BY ResolvedFields
<1>5. TimesOK(s, now)
  <2>2. s.queued => s.time < s.queued_time BY <1>3, <1>4 DEF TakesQueued
  <2>3. s.queued_time <= now BY <1>1, <1>3, <1>4 DEF TimesOK
  <2>. QED BY <1>3, <1>4, <2>2, <2>3 DEF TimesOK
<1>6. PICK who : who = On(reader, e, "issued") \cup Also(e, take) OBVIOUS
<1>7. readers = Left(e, who, take) BY <1>6 DEF ResolvedReaders, Also, Left
<1>8. /\ readers \in [Reader -> ReaderState]
      /\ \A r \in Reader : /\ readers[r].entry = reader[r].entry /\ readers[r].bound = reader[r].bound
                           /\ readers[r].on = (IF r \in who THEN "taken" ELSE reader[r].on)
  BY <1>7, LeftTaken DEF Taken
<1>9. \A r \in Reader : readers[r].entry = e => readers[r].on # "issued" BY <1>6, <1>8 DEF On
<1>10. take => \A r \in Reader : readers[r].entry = e => readers[r].on # "queued"
  BY <1>6, <1>8 DEF On, Also
<1>11. ~ take => (request[e].queued => s.queued /\ request[e].queued_time <= s.queued_time)
  BY <1>3, <1>4
<1>12. \A r \in Reader : readers[r].on = reader[r].on \/ readers[r].on \notin {"issued", "queued"}
  BY <1>8
<1>13. WaitsOn(readers, e, s) BY <1>1, <1>4, <1>8, <1>9, <1>10, <1>11, <1>12, StillWait
<1>. QED BY <1>2, <1>4, <1>5, <1>8, <1>13 DEF Fits

\* A node is written back, with no effect on the read state.
LEMMA FitsSame ==
  ASSUME Types, TimeInv, NEW e \in Entry, reading' = reading, NEW s, s = request[e], NEW readers, readers = reader
  PROVE  Fits(e, s, readers)
<1>1. s \in RequestState /\ readers \in [Reader -> ReaderState] /\ TimesOK(s, now) /\ AllWait
  BY DEF Types, TimeInv
<1>2. request[e].time <= s.time /\ request[e].queued_time <= s.queued_time
  <2>1. s.time \in Time /\ s.queued_time \in Time BY <1>1, RequestTypes
  <2>. QED BY <2>1 DEF Time
<1>3. WaitsOn(readers, e, s) BY <1>1 DEF WaitsOn, AllWait
<1>4. /\ s.issued <=> (reading'[e] \/ Owes(The("DoRead", e)))
      /\ ~ (reading'[e] /\ Owes(The("DoRead", e)))
      /\ \A f \in Entry \ {e} : reading'[f] = reading[f]
  BY FitsCalls
<1>. QED BY <1>1, <1>2, <1>3, <1>4 DEF Fits

\* The read state that a writeback leaves.
LEMMA WrittenFields ==
  ASSUME Types, TimeInv, NEW e \in Entry, NEW known \in BOOLEAN, NEW time \in Time, NEW stamp \in Time,
         stamp <= now, stamp >= request[e].time, known => time = stamp,
         NEW v, v = Written(e, known, time)
  PROVE  /\ v \in RequestState /\ (v.issued <=> request[e].issued) /\ (v.queued <=> request[e].queued)
         /\ v.queued_time = request[e].queued_time /\ v.issued_time = request[e].issued_time
         /\ v.time = (IF known THEN time ELSE request[e].time)
         /\ request[e].time <= v.time /\ v.time <= now
<1>1. request[e] \in RequestState /\ TimesOK(request[e], now) /\ now \in Time
  BY DEF Types, TimeInv
<1>2. v \in RequestState BY WrittenTypes
<1>3. /\ (v.issued <=> request[e].issued) /\ (v.queued <=> request[e].queued)
      /\ v.queued_time = request[e].queued_time /\ v.issued_time = request[e].issued_time
      /\ v.time = (IF known THEN time ELSE request[e].time)
  <2>1. CASE known BY <1>1, <2>1 DEF Written, Answered, RequestState
  <2>2. CASE ~ known /\ time > request[e].time BY <1>1, <2>2 DEF Written, RequestState
  <2>3. CASE ~ known /\ ~ (time > request[e].time) BY <1>1, <2>3 DEF Written
  <2>. QED BY <2>1, <2>2, <2>3
<1>4. request[e].time \in Time BY <1>1, RequestTypes
<1>5. request[e].time <= v.time /\ v.time <= now BY <1>1, <1>3, <1>4 DEF Time, TimesOK
<1>. QED BY <1>2, <1>3, <1>5

LEMMA TakenState ==
  ASSUME NEW v \in RequestState, ~ v.issued, NEW take \in BOOLEAN, NEW s, s = (IF take THEN Unqueued(v) ELSE v)
  PROVE  /\ s \in RequestState /\ s.time = v.time /\ ~ s.issued
         /\ take => ~ s.queued /\ s.queued_time = 0
         /\ ~ take => (s.queued <=> v.queued) /\ s.queued_time = v.queued_time
<1>1. CASE take
  <2>1. s = Unread(v) /\ s \in RequestState BY <1>1, StateFields, RequestTypes
  <2>2. s.time = v.time /\ (s.issued <=> v.issued) /\ ~ s.queued /\ s.queued_time = 0
    BY <2>1 DEF Unread, RequestState
  <2>. QED BY <1>1, <2>1, <2>2
<1>2. CASE ~ take BY <1>2
<1>. QED BY <1>1, <1>2

LEMMA TakenReaders ==
  ASSUME Types, NEW e \in Entry, NEW take \in BOOLEAN, NEW readers,
         take => readers = Left(e, Also(e, TRUE), TRUE), ~ take => readers = reader
  PROVE  Taken(readers, Also(e, take))
<1>1. CASE take
  <2>1. Also(e, take) = Also(e, TRUE) BY <1>1 DEF Also
  <2>2. PICK who : who = Also(e, TRUE) OBVIOUS
  <2>3. Taken(Left(e, who, TRUE), who) BY LeftTaken
  <2>. QED BY <1>1, <2>1, <2>2, <2>3
<1>2. CASE ~ take BY <1>2 DEF Types, Taken, Also
<1>. QED BY <1>1, <1>2

LEMMA FitsWrite ==
  ASSUME Types, TimeInv, NEW e \in Entry, ~ request[e].issued, reading' = reading,
         NEW known \in BOOLEAN, NEW time \in Time, NEW stamp \in Time, NEW take \in BOOLEAN,
         stamp <= now, stamp >= request[e].time, known => time = stamp,
         take <=> WrittenTakes(e, known, time),
         NEW s, s = (IF take THEN Unqueued(Written(e, known, time)) ELSE Written(e, known, time)),
         NEW readers, Taken(readers, Also(e, take))
  PROVE  Fits(e, s, readers)
<1>. SUFFICES ASSUME NEW v, v = Written(e, known, time) PROVE Fits(e, s, readers) OBVIOUS
<1>1. /\ v \in RequestState /\ (v.issued <=> request[e].issued) /\ (v.queued <=> request[e].queued)
      /\ v.queued_time = request[e].queued_time
      /\ v.time = (IF known THEN time ELSE request[e].time)
      /\ request[e].time <= v.time /\ v.time <= now
  BY WrittenFields
<1>2. reader \in [Reader -> ReaderState] /\ TimesOK(request[e], now) /\ AllWait /\ now > 0
  BY DEF Types, TimeInv
<1>3. /\ v.time \in Int /\ v.queued_time \in Int /\ now \in Int /\ request[e].time \in Int /\ time \in Int
  <2>1. /\ v.time \in Time /\ v.queued_time \in Time /\ now \in Time /\ request[e].time \in Time /\ time \in Time
    BY <1>1, RequestTypes DEF Types
  <2>. QED BY <2>1 DEF Time
<1>4. /\ s \in RequestState /\ s.time = v.time /\ ~ s.issued
      /\ take => ~ s.queued /\ s.queued_time = 0
      /\ ~ take => (s.queued <=> v.queued) /\ s.queued_time = v.queued_time
  <2>1. ~ v.issued BY <1>1
  <2>. QED BY <1>1, <2>1, TakenState
<1>5. TimesOK(s, now)
  <2>1. s.queued_time <= now BY <1>1, <1>2, <1>3, <1>4 DEF TimesOK
  <2>2. s.queued => ~ take /\ v.queued /\ s.queued_time = request[e].queued_time /\ request[e].queued
    BY <1>1, <1>4
  <2>3. s.queued => time < s.queued_time BY <1>1, <1>3, <2>2 DEF WrittenTakes, TakesQueued
  <2>4. s.queued => request[e].time <= s.queued_time
    BY <1>2, <2>2 DEF TimesOK
  <2>5. s.queued => s.time <= s.queued_time BY <1>1, <1>3, <1>4, <2>2, <2>3, <2>4
  <2>. QED BY <1>1, <1>4, <2>1, <2>4, <2>5 DEF TimesOK
<1>6. /\ readers \in [Reader -> ReaderState]
      /\ \A r \in Reader : /\ readers[r].entry = reader[r].entry /\ readers[r].bound = reader[r].bound
                           /\ readers[r].on = (IF r \in Also(e, take) THEN "taken" ELSE reader[r].on)
  BY DEF Taken
<1>7. take => \A r \in Reader : readers[r].entry = e => readers[r].on # "queued"
  BY <1>6 DEF On, Also
<1>8. ~ take => (request[e].queued => s.queued /\ request[e].queued_time <= s.queued_time)
  BY <1>1, <1>3, <1>4
<1>9. \A r \in Reader : readers[r].on = reader[r].on \/ readers[r].on \notin {"issued", "queued"}
  BY <1>6
<1>10. WaitsOn(readers, e, s) BY <1>2, <1>4, <1>6, <1>7, <1>8, <1>9, StillWait
<1>11. /\ s.issued <=> (reading'[e] \/ Owes(The("DoRead", e)))
       /\ ~ (reading'[e] /\ Owes(The("DoRead", e)))
       /\ \A f \in Entry \ {e} : reading'[f] = reading[f]
  <2>1. s.issued <=> request[e].issued BY <1>4
  <2>. QED BY <2>1, FitsCalls
<1>12. request[e].time <= s.time BY <1>1, <1>4
<1>. QED BY <1>4, <1>5, <1>6, <1>10, <1>11, <1>12 DEF Fits

\* The times after a step that starts nothing.
LEMMA SameTimes ==
  ASSUME Types, TimeInv, now <= now', now' \in Time, AllWait',
         \A e \in Entry : ReadCalls(e)',
         \A e \in Entry : /\ request'[e].time = request[e].time /\ (request'[e].issued <=> request[e].issued)
                          /\ request'[e].issued_time = request[e].issued_time
                          /\ (request'[e].queued <=> request[e].queued)
                          /\ request[e].queued_time <= request'[e].queued_time /\ request'[e].queued_time <= now',
         request' \in [Entry -> RequestState]
  PROVE  TimeInv' /\ Forward
<1>1. now \in Time /\ now > 0 /\ request \in [Entry -> RequestState] BY DEF Types, TimeInv
<1>2. now' > 0 BY <1>1 DEF Time
<1>3. ASSUME NEW e \in Entry PROVE TimesOK(request[e], now)' /\ request[e].time <= request'[e].time
  <2>1. TimesOK(request[e], now) BY DEF TimeInv
  <2>2. /\ request[e].time \in Time /\ request[e].queued_time \in Time /\ request[e].issued_time \in Time
        /\ request'[e].queued_time \in Time
    BY <1>1, RequestTypes
  <2>3. request'[e].time <= now' /\ request[e].time <= request'[e].time
    BY <1>1, <2>1, <2>2 DEF TimesOK, Time
  <2>4. request'[e].issued => request'[e].time <= request'[e].issued_time /\ request'[e].issued_time <= now'
    <3>1. request'[e].issued => request[e].time <= request[e].issued_time /\ request[e].issued_time <= now
      BY <2>1 DEF TimesOK
    <3>. QED BY <1>1, <2>2, <3>1 DEF Time
  <2>5. request'[e].queued => request'[e].time <= request'[e].queued_time /\ (request'[e].issued => request'[e].queued_time > 0)
    <3>1. request'[e].queued => request[e].time <= request[e].queued_time /\ (request'[e].issued => request[e].queued_time > 0)
      BY <2>1 DEF TimesOK
    <3>. QED BY <2>2, <3>1 DEF Time
  <2>. QED BY <2>3, <2>4, <2>5 DEF TimesOK
<1>. QED BY <1>2, <1>3 DEF TimeInv, Forward

LEMMA UnchangedTimes ==
  ASSUME Types, NEW e \in Entry
  PROVE  /\ request[e].queued_time <= request[e].queued_time
         /\ TimeInv /\ now <= now' /\ now' \in Time => request[e].queued_time <= now'
<1>1. request[e].queued_time \in Time /\ now \in Time BY RequestTypes DEF Types
<1>2. TimeInv => request[e].queued_time <= now BY DEF TimeInv, TimesOK
<1>. QED BY <1>1, <1>2 DEF Time

LEMMA QuietTimes ==
  ASSUME Types, Types', TimeInv, Quiet
  PROVE  TimeInv' /\ Forward
<1>1. UNCHANGED <<request, reading, reader>> /\ now <= now' /\ NoReadStarted /\ now' \in Time /\ now \in Time
      /\ request' \in [Entry -> RequestState]
  BY DEF Quiet, Types
<1>2. ASSUME NEW e \in Entry PROVE ReadCalls(e)'
  BY <1>1 DEF TimeInv, ReadCalls, NoReadStarted, Keeps
<1>3. AllWait' BY <1>1 DEF TimeInv, AllWait, Waits
<1>. QED BY <1>1, <1>2, <1>3, SameTimes, UnchangedTimes

LEMMA CallsReadTimes ==
  ASSUME Types, Types', TimeInv, NEW e \in Entry, CallsRead(e)
  PROVE  TimeInv' /\ Forward
<1>1. /\ UNCHANGED <<now, request, reader>> /\ now' \in Time /\ now \in Time
      /\ request' \in [Entry -> RequestState] /\ reading \in [Entry -> BOOLEAN]
      /\ reading' = [reading EXCEPT ![e] = TRUE]
      /\ Owes(The("DoRead", e)) /\ Makes(The("DoRead", e)) /\ \A f \in Entry \ {e} : Keeps(The("DoRead", f))
  BY DEF CallsRead, Types
<1>2. ASSUME NEW f \in Entry PROVE ReadCalls(f)'
  <2>1. ReadCalls(f) BY DEF TimeInv
  <2>2. CASE f = e BY <1>1, <2>1, <2>2 DEF ReadCalls, Makes
  <2>3. CASE f # e BY <1>1, <2>1, <2>3 DEF ReadCalls, Keeps
  <2>. QED BY <2>2, <2>3
<1>3. AllWait' BY <1>1 DEF TimeInv, AllWait, Waits
<1>4. now <= now' BY <1>1 DEF Time
<1>. QED BY <1>1, <1>2, <1>3, <1>4, SameTimes, UnchangedTimes

\* Readers wait as before, or no longer do.
LEMMA ReadersTimes ==
  ASSUME Types, Types', TimeInv, UNCHANGED <<now, request, reading>>, NoReadStarted,
         \A r \in Reader : /\ reader'[r].entry = reader[r].entry /\ reader'[r].bound = reader[r].bound
                           /\ reader'[r].on = reader[r].on \/ reader'[r].on \notin {"issued", "queued"}
  PROVE  TimeInv' /\ Forward
<1>1. now' \in Time /\ now \in Time /\ request' \in [Entry -> RequestState] /\ AllWait
  BY DEF Types, TimeInv
<1>2. ASSUME NEW f \in Entry PROVE ReadCalls(f)' BY DEF TimeInv, ReadCalls, NoReadStarted, Keeps
<1>3. ASSUME NEW r \in Reader PROVE Waits(reader[r], request[reader[r].entry])'
  BY <1>1 DEF AllWait, Waits
<1>4. AllWait' BY <1>3 DEF AllWait
<1>5. now <= now' BY <1>1 DEF Time
<1>. QED BY <1>1, <1>2, <1>4, <1>5, SameTimes, UnchangedTimes

LEMMA MovedTimes ==
  ASSUME Types, Types', TimeInv, UNCHANGED <<now, request, reading>>, NoReadStarted,
         NEW who, NEW p, p \notin {"issued", "queued"}, reader' = Move(reader, who, p)
  PROVE  TimeInv' /\ Forward
<1>1. reader \in [Reader -> ReaderState] BY DEF Types
<1>2. \A r \in Reader : /\ reader'[r].entry = reader[r].entry /\ reader'[r].bound = reader[r].bound
                        /\ reader'[r].on = reader[r].on \/ reader'[r].on \notin {"issued", "queued"}
  BY <1>1, ReaderFields
<1>. QED BY <1>2, ReadersTimes

LEMMA StaleTimes ==
  ASSUME Types, Types', TimeInv, NEW e \in Entry, MarkStale(e)
  PROVE  TimeInv' /\ Forward
<1>1. /\ request \in [Entry -> RequestState] /\ request' \in [Entry -> RequestState] /\ now \in Time
      /\ UNCHANGED <<now, reading, reader, work>> /\ request' = [request EXCEPT ![e].stale = TRUE]
  BY DEF Types, MarkStale
<1>2. ASSUME NEW f \in Entry
      PROVE  /\ request'[f].time = request[f].time /\ (request'[f].issued <=> request[f].issued)
             /\ request'[f].issued_time = request[f].issued_time
             /\ (request'[f].queued <=> request[f].queued)
             /\ request'[f].queued_time = request[f].queued_time
  BY <1>1 DEF RequestState
<1>3. ASSUME NEW f \in Entry PROVE ReadCalls(f)'
  BY <1>1, <1>2 DEF TimeInv, ReadCalls, Owes, Once
<1>4. ASSUME NEW r \in Reader PROVE Waits(reader[r], request[reader[r].entry])'
  <2>1. reader[r].entry \in Entry BY ReaderFields DEF Types
  <2>2. Waits(reader[r], request[reader[r].entry]) BY DEF TimeInv, AllWait
  <2>. QED BY <1>1, <1>2, <2>1, <2>2 DEF Waits
<1>5. AllWait' /\ now <= now' /\ now' \in Time
  <2>1. AllWait' BY <1>4 DEF AllWait
  <2>2. now <= now' /\ now' \in Time BY <1>1 DEF Time
  <2>. QED BY <2>1, <2>2
<1>6. ASSUME NEW f \in Entry
      PROVE  /\ request'[f].time = request[f].time /\ (request'[f].issued <=> request[f].issued)
             /\ request'[f].issued_time = request[f].issued_time
             /\ (request'[f].queued <=> request[f].queued)
             /\ request[f].queued_time <= request'[f].queued_time /\ request'[f].queued_time <= now'
  <2>1. request[f].queued_time <= request[f].queued_time /\ request[f].queued_time <= now'
    BY <1>5, UnchangedTimes
  <2>. QED BY <1>2, <2>1
<1>. QED BY <1>1, <1>3, <1>5, <1>6, SameTimes

LEMMA CachedTimes ==
  ASSUME Types, Types', TimeInv, NEW r \in Reader, NEW e \in Entry, NEW bound \in Time,
         NEW strict \in BOOLEAN, UNCHANGED <<now, reading>>, reader[r].on = "none", ReadCached(r, e, bound, strict)
  PROVE  TimeInv' /\ Forward
<1>1. /\ UNCHANGED <<now, request, reading, work>> /\ reader \in [Reader -> ReaderState]
      /\ reader' = [reader EXCEPT ![r] = NewReader(e, "ok", FALSE, bound, strict)]
      /\ now' \in Time /\ now \in Time /\ request' \in [Entry -> RequestState] /\ AllWait
  BY DEF ReadCached, Types, TimeInv
<1>2. ASSUME NEW f \in Entry PROVE ReadCalls(f)' BY <1>1 DEF TimeInv, ReadCalls, Owes, Once
<1>3. ASSUME NEW w \in Reader PROVE Waits(reader[w], request[reader[w].entry])'
  BY <1>1 DEF AllWait, Waits, NewReader
<1>4. AllWait' BY <1>3 DEF AllWait
<1>5. now <= now' BY <1>1 DEF Time
<1>. QED BY <1>1, <1>2, <1>4, <1>5, SameTimes, UnchangedTimes

LEMMA IssuedTimes ==
  ASSUME Types, Types', TimeInv, NEW r \in Reader, NEW e \in Entry, NEW bound \in Time,
         NEW strict \in BOOLEAN, UNCHANGED <<now, reading>>, reader[r].on = "none", ReadIssued(r, e, bound, strict)
  PROVE  TimeInv' /\ Forward
<1>. SUFFICES ASSUME NEW a, a = Asked(e, bound, strict), NEW need, need = Earlier(Limit(e, bound, strict), now)
              PROVE  TimeInv' /\ Forward
  OBVIOUS
<1>1. /\ UNCHANGED <<now, reading, work>> /\ reader \in [Reader -> ReaderState]
      /\ reader' = [reader EXCEPT ![r] = NewReader(e, "issued", FALSE, bound, strict)]
      /\ request' = [request EXCEPT ![e] = a] /\ request \in [Entry -> RequestState]
      /\ now' \in Time /\ now \in Time /\ request' \in [Entry -> RequestState] /\ AllWait
      /\ request[e].issued
  BY DEF ReadIssued, Types, TimeInv
<1>2. /\ a \in RequestState /\ need \in Time
      /\ a.time = request[e].time /\ (a.issued <=> request[e].issued)
      /\ a.issued_time = request[e].issued_time /\ (a.queued <=> request[e].queued)
      /\ request[e].queued_time <= a.queued_time /\ a.queued_time <= now
      /\ request[e].issued_time >= Limit(e, bound, strict) => need <= request[e].issued_time
  BY AskedTimes
<1>3. need <= request[e].issued_time BY <1>2 DEF ReadIssued
<1>4. ASSUME NEW f \in Entry
      PROVE  /\ request'[f].time = request[f].time /\ (request'[f].issued <=> request[f].issued)
             /\ request'[f].issued_time = request[f].issued_time
             /\ (request'[f].queued <=> request[f].queued)
             /\ request[f].queued_time <= request'[f].queued_time /\ request'[f].queued_time <= now'
  <2>1. request[f].queued_time <= request[f].queued_time /\ request[f].queued_time <= now'
    <3>1. request[f].queued_time \in Time /\ TimesOK(request[f], now)
      BY RequestTypes DEF Types, TimeInv
    <3>. QED BY <1>1, <3>1 DEF Time, TimesOK
  <2>2. CASE f = e BY <1>1, <1>2, <2>2
  <2>3. CASE f # e BY <1>1, <2>1, <2>3
  <2>. QED BY <2>2, <2>3
<1>5. ASSUME NEW f \in Entry PROVE ReadCalls(f)'
  BY <1>1, <1>4 DEF TimeInv, ReadCalls, Owes, Once
<1>6. ASSUME NEW w \in Reader PROVE Waits(reader[w], request[reader[w].entry])'
  <2>1. CASE w = r
    <3>1. reader'[r].entry = e /\ reader'[r].on = "issued" /\ reader'[r].bound = need
      BY <1>1 DEF NewReader
    <3>2. request'[e].issued /\ need <= request'[e].issued_time BY <1>1, <1>2, <1>3
    <3>. QED BY <2>1, <3>1, <3>2 DEF Waits
  <2>2. CASE w # r
    <3>1. reader'[w] = reader[w] /\ Waits(reader[w], request[reader[w].entry])
      BY <1>1, <2>2 DEF AllWait
    <3>. SUFFICES ASSUME NEW d, d = reader[w], NEW f, f = reader[w].entry PROVE Waits(d, request'[f])
      BY <3>1 DEF Waits
    <3>2. f \in Entry /\ d.bound \in Time /\ Waits(d, request[f]) BY <1>1, <3>1, ReaderFields
    <3>3. request[f].queued_time \in Time /\ request'[f].queued_time \in Time
      BY <1>1, <3>2, RequestTypes
    <3>4. /\ (request'[f].issued <=> request[f].issued)
          /\ request'[f].issued_time = request[f].issued_time
          /\ (request'[f].queued <=> request[f].queued)
          /\ request[f].queued_time <= request'[f].queued_time
      BY <1>4, <3>2
    <3>5. d.on = "issued" => request'[f].issued /\ d.bound <= request'[f].issued_time
      BY <3>2, <3>4 DEF Waits
    <3>6. d.on = "queued" => request[f].queued /\ d.bound <= request[f].queued_time
      BY <3>2 DEF Waits
    <3>7. d.on = "queued" => request'[f].queued /\ d.bound <= request'[f].queued_time
      BY <3>2, <3>3, <3>4, <3>6 DEF Time
    <3>. QED BY <3>5, <3>7 DEF Waits
  <2>. QED BY <2>1, <2>2
<1>7. AllWait' BY <1>6 DEF AllWait
<1>8. now <= now' BY <1>1 DEF Time
<1>. QED BY <1>1, <1>4, <1>5, <1>7, <1>8, SameTimes

\* The read state when the answer has come.
LEMMA AnsweredFields ==
  ASSUME Types, TimeInv, NEW e \in Entry, reading[e], NEW w,
         \/ \E time \in request[e].issued_time .. now : time \in Time /\ w = Answered(e, time)
         \/ w = request[e]
  PROVE  /\ request[e].time <= w.time /\ w.time <= now
         /\ (w.queued <=> request[e].queued) /\ w.queued_time = request[e].queued_time
<1>1. /\ request[e] \in RequestState /\ TimesOK(request[e], now) /\ request[e].issued /\ now \in Time
  BY DEF Types, TimeInv, ReadCalls
<1>2. request[e].time \in Int /\ request[e].issued_time \in Int /\ now \in Int
  <2>1. request[e].time \in Time /\ request[e].issued_time \in Time BY <1>1, RequestTypes
  <2>. QED BY <1>1, <2>1 DEF Time
<1>3. ASSUME NEW time \in request[e].issued_time .. now, w = Answered(e, time)
      PROVE  /\ request[e].time <= w.time /\ w.time <= now
             /\ (w.queued <=> request[e].queued) /\ w.queued_time = request[e].queued_time
  <2>1. w.time = time /\ (w.queued <=> request[e].queued) /\ w.queued_time = request[e].queued_time
    BY <1>1, <1>3 DEF Answered, RequestState
  <2>2. time \in Int /\ request[e].issued_time <= time /\ time <= now /\ request[e].time <= request[e].issued_time
    BY <1>1, <1>2 DEF TimesOK
  <2>. QED BY <1>2, <2>1, <2>2
<1>4. CASE w = request[e] BY <1>1, <1>2, <1>4 DEF TimesOK
<1>. QED BY <1>3, <1>4

\* Every step: read states never go back in time.
LEMMA TimeStep ==
  ASSUME Types, Types', TimeInv, WritebackInTurn, ReadStep
  PROVE  TimeInv' /\ Forward
<1>1. CASE Quiet BY <1>1, QuietTimes
<1>2. CASE \E e \in Entry : CallsRead(e) BY <1>2, CallsReadTimes
<1>3. ASSUME NEW y \in Items, TellsReaders(y) PROVE TimeInv' /\ Forward
  <2>1. PICK who, p : who = y.arg /\ p = y.result OBVIOUS
  <2>2. /\ UNCHANGED <<now, request, reading>> /\ NoReadStarted /\ p \notin {"issued", "queued"}
        /\ reader' = Move(reader, who, p)
    BY <1>3, <2>1 DEF TellsReaders
  <2>. QED BY <2>2, MovedTimes
<1>4. ASSUME NEW r \in Reader, DropFuture(r) PROVE TimeInv' /\ Forward
  <2>1. PICK who : who = {r} OBVIOUS
  <2>2. /\ UNCHANGED <<now, request, reading>> /\ work' = work /\ reader' = Move(reader, who, "dropped")
    BY <1>4, <2>1 DEF DropFuture, cache
  <2>3. NoReadStarted BY <2>2, SameReadCalls
  <2>. QED BY <2>2, <2>3, MovedTimes
<1>5. ASSUME NEW e \in Markable, MarkStale(e) PROVE TimeInv' /\ Forward
  <2>1. e \in Entry BY AsyncCacheAssumption DEF AsyncCacheAssumption
  <2>. QED BY <1>5, <2>1, StaleTimes
<1>6. ASSUME NEW r \in Reader, NEW e \in Entry, NEW bound \in Time, NEW strict \in BOOLEAN,
             Asks(r, e, bound, strict)
      PROVE  TimeInv' /\ Forward
  <2>1. reader[r].on = "none" /\ UNCHANGED <<now, reading>> BY <1>6 DEF Asks
  <2>2. CASE ReadCached(r, e, bound, strict) BY <2>1, <2>2, CachedTimes
  <2>3. CASE ReadIssued(r, e, bound, strict) BY <2>1, <2>3, IssuedTimes
  <2>4. ASSUME NEW before \in {reader, Unbatch(reader, e)}, NEW defer \in BOOLEAN,
               request[e].time = 0 \/ request[e].time < bound \/ (strict /\ request[e].stale),
               ~ (request[e].issued /\ request[e].issued_time >= Limit(e, bound, strict)),
               Starts(e, [Asked(e, bound, strict) EXCEPT !.queued = TRUE, !.deferred = defer], queue[e],
                      [before EXCEPT ![r] = NewReader(e, "queued", defer, bound, strict)], {})
        PROVE  TimeInv' /\ Forward
    <3>. SUFFICES ASSUME NEW s, Is(s, [Asked(e, bound, strict) EXCEPT !.queued = TRUE, !.deferred = defer]),
                         NEW readers, Is(readers, [before EXCEPT ![r] = NewReader(e, "queued", defer, bound, strict)]),
                         NEW q, q = queue[e], NEW none, none = {}
                  PROVE  TimeInv' /\ Forward
      BY DEF Is
    <3>1. Starts(e, s, q, readers, none) BY <2>4 DEF Is
    <3>2. Fits(e, s, readers) BY <2>1, <2>4, FitsQueued
    <3>. QED BY <2>1, <3>1, <3>2, StartsTimes
  <2>. QED BY <1>6, <2>2, <2>3, <2>4 DEF Asks
<1>7. ASSUME NEW r \in Reader, NEW e \in Entry, Submits(r, e) PROVE TimeInv' /\ Forward
  <2>. SUFFICES ASSUME NEW s, s = SubmitState(e), NEW readers, readers = SubmitReaders(r),
                       NEW q, q = queue[e], NEW none, none = {}
                PROVE  TimeInv' /\ Forward
    OBVIOUS
  <2>1. e = reader[r].entry /\ UNCHANGED <<now, reading>> /\ Starts(e, s, q, readers, none)
    BY <1>7 DEF Submits
  <2>2. Fits(e, s, readers) BY <2>1, FitsSubmit
  <2>. QED BY <2>1, <2>2, StartsTimes
<1>8. ASSUME NEW e \in Entry, NEW w \in RequestState, NEW result \in {"ok", "assumed", "error"}, Answers(e, w, result)
      PROVE  TimeInv' /\ Forward
  <2>. SUFFICES ASSUME NEW s, s = Resolved(w), NEW readers, readers = ResolvedReaders(e, w),
                       NEW q, q = queue[e], NEW told, told = Range(Results(e, w, result))
                PROVE  TimeInv' /\ Forward
    OBVIOUS
  <2>1. /\ reading[e] /\ reading' = [reading EXCEPT ![e] = FALSE] /\ now' = now /\ Starts(e, s, q, readers, told)
        /\ \/ \E time \in request[e].issued_time .. now : time \in Time /\ w = Answered(e, time)
           \/ w = request[e]
    BY <1>8 DEF Answers
  <2>2. /\ request[e].time <= w.time /\ w.time <= now
        /\ (w.queued <=> request[e].queued) /\ w.queued_time = request[e].queued_time
    BY <2>1, AnsweredFields
  <2>3. Fits(e, s, readers) BY <2>1, <2>2, FitsAnswer
  <2>. QED BY <2>1, <2>3, StartsTimes
<1>9. ASSUME NEW n \in Node, WritesBack(n) PROVE TimeInv' /\ Forward
  <2>1. n.entry \in Entry /\ ~ request[n.entry].issued /\ UNCHANGED <<now, reading>>
    BY <1>9 DEF WritesBack, WritebackInTurn, Node
  <2>. SUFFICES ASSUME NEW e \in Entry, e = n.entry, NEW q, q = Unlink(queue[e], n) PROVE TimeInv' /\ Forward
    BY <2>1
  <2>2. ASSUME NEW told, Starts(e, request[e], q, reader, told) PROVE TimeInv' /\ Forward
    <3>. SUFFICES ASSUME NEW s, s = request[e], NEW readers, readers = reader PROVE TimeInv' /\ Forward
      OBVIOUS
    <3>1. Fits(e, s, readers) BY <2>1, FitsSame
    <3>. QED BY <2>1, <2>2, <3>1, StartsTimes
  <2>3. ASSUME NEW outcome \in Outcome, NEW stamp \in 1 .. now, NEW known \in BOOLEAN, NEW time \in Time,
               NEW take \in BOOLEAN, Reports(e, q, outcome, stamp, known, time, take)
        PROVE  TimeInv' /\ Forward
    <3>. SUFFICES ASSUME NEW s, s = (IF take THEN Unqueued(Written(e, known, time)) ELSE Written(e, known, time)),
                         NEW readers, readers = (IF take THEN Left(e, Also(e, TRUE), TRUE) ELSE reader),
                         NEW told, told = Range(Resolution(Also(e, take), Told(known)))
                  PROVE  TimeInv' /\ Forward
      OBVIOUS
    <3>1. Starts(e, s, q, readers, told) BY <2>3 DEF Reports
    <3>2. Taken(readers, Also(e, take))
      <4>1. (take => readers = Left(e, Also(e, TRUE), TRUE)) /\ (~ take => readers = reader)
        OBVIOUS
      <4>. QED BY <4>1, TakenReaders
    <3>3. /\ stamp \in Time /\ stamp <= now /\ stamp >= request[e].time /\ (known => time = stamp)
          /\ take <=> WrittenTakes(e, known, time)
      BY <2>3 DEF Reports
    <3>4. Fits(e, s, readers) BY <2>1, <3>2, <3>3, FitsWrite
    <3>. QED BY <2>1, <3>1, <3>4, StartsTimes
  <2>. QED BY <1>9, <2>2, <2>3 DEF WritesBack
<1>. QED BY <1>1, <1>2, <1>3, <1>4, <1>5, <1>6, <1>7, <1>8, <1>9 DEF ReadStep

-----------------------------------------------------------------------------
(* The data that readers are given.                                        *)

\* The entry of a reader has data as recent as it asked for.
UpToDate(d) == d.bound <= request[d.entry].time /\ request[d.entry].time # 0

\* Readers about to be told that their read succeeded.
Promised(y) == \A r \in y.arg : reader[r].on # "none" /\ (y.result = "ok" => UpToDate(reader[r]))

FreshInv ==
  /\ \A r \in Reader : reader[r].on = "ok" => UpToDate(reader[r])
  /\ \A y \in Items : y.op = "SetResult" /\ Owes(y) => Promised(y)

\* A request, once made, stays the same.
Held(readers) ==
  \A r \in Reader : reader[r].on # "none" =>
    readers[r].on # "none" /\ readers[r].entry = reader[r].entry /\ readers[r].bound = reader[r].bound

LEMMA ResultItem ==
  ASSUME NEW y \in Items, y.op = "SetResult"
  PROVE  y.arg \subseteq Reader
BY DEF Items, NodeOperation

LEMMA StaysFresh ==
  ASSUME Types, Types', Forward, NEW r \in Reader, UpToDate(reader[r]),
         reader'[r].entry = reader[r].entry /\ reader'[r].bound = reader[r].bound
  PROVE  UpToDate(reader[r])'
<1>1. PICK e : e = reader[r].entry OBVIOUS
<1>2. e \in Entry /\ reader[r].bound \in Time BY <1>1, ReaderFields DEF Types
<1>3. request[e].time \in Time /\ request'[e].time \in Time BY <1>2, RequestTypes DEF Types
<1>4. reader[r].bound <= request[e].time /\ request[e].time <= request'[e].time /\ request[e].time # 0
  BY <1>1, <1>2 DEF UpToDate, Forward
<1>5. reader[r].bound <= request'[e].time /\ request'[e].time # 0 BY <1>2, <1>3, <1>4 DEF Time
<1>. QED BY <1>1, <1>5 DEF UpToDate

LEMMA FreshKept ==
  ASSUME Types, Types', FreshInv, Forward, NEW told, NobodyTold(told), Held(reader'),
         \A r \in Reader : reader'[r].on = "ok" => (reader[r].on = "ok" \/ UpToDate(reader[r])'),
         \A y \in Items : y \in told /\ y.op = "SetResult" => Promised(y)'
  PROVE  FreshInv'
<1>1. ASSUME NEW r \in Reader, reader'[r].on = "ok" PROVE UpToDate(reader[r])'
  <2>1. CASE reader[r].on = "ok"
    <3>1. UpToDate(reader[r]) /\ reader'[r].entry = reader[r].entry /\ reader'[r].bound = reader[r].bound
      BY <2>1 DEF FreshInv, Held
    <3>. QED BY <3>1, StaysFresh
  <2>. QED BY <1>1, <2>1
<1>2. ASSUME NEW y \in Items, y.op = "SetResult", Owes(y)', ~ (y \in told) PROVE Promised(y)'
  <2>1. Owes(y) BY <1>2 DEF NobodyTold
  <2>2. Promised(y) /\ y.arg \subseteq Reader BY <1>2, <2>1, ResultItem DEF FreshInv
  <2>3. ASSUME NEW r \in y.arg PROVE reader'[r].on # "none" /\ (y.result = "ok" => UpToDate(reader[r])')
    <3>1. r \in Reader /\ reader[r].on # "none" /\ (y.result = "ok" => UpToDate(reader[r]))
      BY <2>2 DEF Promised
    <3>2. reader'[r].on # "none" /\ reader'[r].entry = reader[r].entry /\ reader'[r].bound = reader[r].bound
      BY <3>1 DEF Held
    <3>. QED BY <3>1, <3>2, StaysFresh
  <2>. QED BY <2>3 DEF Promised
<1>. QED BY <1>1, <1>2 DEF FreshInv

\* The readers after MaybeStartReadOrWriteback.
LEMMA StartsReaders ==
  ASSUME NEW e \in Entry, NEW s, NEW q, NEW readers \in [Reader -> ReaderState], NEW told,
         Starts(e, s, q, readers, told), NEW r \in Reader
  PROVE  /\ reader'[r].entry = readers[r].entry /\ reader'[r].bound = readers[r].bound
         /\ reader'[r].on \in {readers[r].on, "issued"}
<1>1. CASE Stays(e, s, q, readers) BY <1>1 DEF Stays
<1>2. CASE Drops(e, s, q, readers)
  <2>1. reader' = Unbatch(readers, e) BY <1>2 DEF Drops
  <2>. QED BY <2>1, ReaderFields
<1>3. CASE Issues(e, s, q, readers)
  <2>. SUFFICES ASSUME NEW who, who = On(readers, e, "queued"), NEW moved, moved = Move(readers, who, "issued")
                PROVE  /\ reader'[r].entry = readers[r].entry /\ reader'[r].bound = readers[r].bound
                       /\ reader'[r].on \in {readers[r].on, "issued"}
    OBVIOUS
  <2>1. reader' = Unbatch(moved, e) BY <1>3 DEF Issues
  <2>2. moved \in [Reader -> ReaderState] BY ReaderTypes DEF Promise
  <2>3. reader'[r].entry = moved[r].entry /\ reader'[r].bound = moved[r].bound /\ reader'[r].on = moved[r].on
    BY <2>1, <2>2, ReaderFields
  <2>4. /\ moved[r].entry = readers[r].entry /\ moved[r].bound = readers[r].bound
        /\ moved[r].on = (IF r \in who THEN "issued" ELSE readers[r].on)
    BY ReaderFields
  <2>. QED BY <2>3, <2>4
<1>. QED BY <1>1, <1>2, <1>3 DEF Starts

\* What the caller of MaybeStartReadOrWriteback tells readers is true.
Honest(e, s, told) ==
  \A y \in Items : y \in told /\ y.op = "SetResult" =>
    \A r \in y.arg : /\ r \in Reader /\ reader[r].on # "none"
                     /\ y.result = "ok" => reader[r].entry = e /\ reader[r].bound <= s.time /\ s.time # 0

LEMMA StartsFresh ==
  ASSUME Types, Types', FreshInv, Forward, NEW e \in Entry, NEW s \in RequestState, NEW q,
         NEW readers \in [Reader -> ReaderState], NEW told,
         Starts(e, s, q, readers, told), Held(readers), Honest(e, s, told),
         \A r \in Reader : readers[r].on = "ok" => reader[r].on = "ok"
  PROVE  FreshInv'
<1>1. ASSUME NEW r \in Reader
      PROVE  /\ reader'[r].entry = readers[r].entry /\ reader'[r].bound = readers[r].bound
             /\ reader'[r].on \in {readers[r].on, "issued"}
  BY StartsReaders
<1>2. Held(reader') BY <1>1 DEF Held
<1>3. NobodyTold(told) /\ request'[e].time = s.time BY StartsState DEF Starts
<1>4. ASSUME NEW y \in Items, y \in told, y.op = "SetResult" PROVE Promised(y)'
  <2>1. ASSUME NEW r \in y.arg PROVE reader'[r].on # "none" /\ (y.result = "ok" => UpToDate(reader[r])')
    <3>1. /\ r \in Reader /\ reader[r].on # "none"
          /\ y.result = "ok" => reader[r].entry = e /\ reader[r].bound <= s.time /\ s.time # 0
      BY <1>4, <2>1 DEF Honest
    <3>2. reader'[r].on # "none" /\ reader'[r].entry = reader[r].entry /\ reader'[r].bound = reader[r].bound
      BY <1>2, <3>1 DEF Held
    <3>. QED BY <1>3, <3>1, <3>2 DEF UpToDate
  <2>. QED BY <2>1 DEF Promised
<1>5. \A r \in Reader : reader'[r].on = "ok" => reader[r].on = "ok" BY <1>1
<1>. QED BY <1>2, <1>3, <1>4, <1>5, FreshKept

LEMMA HonestResolution ==
  ASSUME NEW e \in Entry, NEW s, NEW who \in SUBSET Reader, NEW result \in {"ok", "assumed", "error"}, NEW told,
         told = Range(Resolution(who, result)),
         \A r \in who : reader[r].on # "none" /\ (result = "ok" => reader[r].entry = e /\ reader[r].bound <= s.time /\ s.time # 0)
  PROVE  Honest(e, s, told)
<1>1. ASSUME NEW y \in told PROVE y.arg = who /\ y.result = result BY <1>1, ResolutionItems
<1>. QED BY <1>1 DEF Honest

\* Readers of the read that is answered, and readers whose queued read the new data satisfies.
LEMMA HonestAnswer ==
  ASSUME Types, TimeInv, NEW e \in Entry, reading[e], NEW w \in RequestState, NEW result \in {"ok", "assumed", "error"},
         w.queued <=> request[e].queued, w.queued_time = request[e].queued_time,
         result = "ok" => request[e].issued_time <= w.time /\ w.time > 0,
         NEW s, s.time = w.time, NEW told, told = Range(Results(e, w, result))
  PROVE  Honest(e, s, told)
<1>. SUFFICES ASSUME NEW take \in BOOLEAN, take <=> TakesQueued(w, w.time),
                     NEW done, done = On(reader, e, "issued"), NEW also, also = Also(e, take)
              PROVE  Honest(e, s, told)
  BY RequestTypes DEF TakesQueued
<1>1. done \in SUBSET Reader /\ also \in SUBSET Reader /\ "ok" \in {"ok", "assumed", "error"}
  BY DEF On, Also
<1>2. PICK a, b : a = Resolution(done, result) /\ b = Resolution(also, "ok") OBVIOUS
<1>3. a \in Seq(Items) /\ b \in Seq(Items) BY <1>1, <1>2, ResolutionItems
<1>4. told = Range(a \o b) BY <1>2 DEF Results, Also
<1>5. told = Range(a) \cup Range(b) BY <1>3, <1>4, ConcatItems
<1>6. w.time \in Int /\ request[e].issued_time \in Int /\ request[e].queued_time \in Int
  <2>1. w.time \in Time /\ request[e].issued_time \in Time /\ request[e].queued_time \in Time
    BY RequestTypes DEF Types
  <2>. QED BY <2>1 DEF Time
<1>7. ASSUME NEW r \in Reader, reader[r].entry = e
      PROVE  Waits(reader[r], request[e]) /\ reader[r].bound \in Int
  <2>1. Waits(reader[r], request[reader[r].entry]) BY DEF TimeInv, AllWait
  <2>2. reader[r].bound \in Time BY ReaderFields DEF Types
  <2>. QED BY <1>7, <2>1, <2>2 DEF Time
<1>8. ASSUME NEW r \in done
      PROVE  reader[r].on # "none" /\ (result = "ok" => reader[r].entry = e /\ reader[r].bound <= s.time /\ s.time # 0)
  <2>1. r \in Reader /\ reader[r].entry = e /\ reader[r].on = "issued" BY <1>8 DEF On
  <2>2. reader[r].bound <= request[e].issued_time /\ reader[r].bound \in Int
    BY <1>7, <2>1 DEF Waits
  <2>. QED BY <1>6, <2>1, <2>2
<1>9. ASSUME NEW r \in also
      PROVE  reader[r].on # "none" /\ ("ok" = "ok" => reader[r].entry = e /\ reader[r].bound <= s.time /\ s.time # 0)
  <2>1. r \in Reader /\ reader[r].entry = e /\ reader[r].on = "queued" /\ take
    BY <1>9 DEF On, Also
  <2>2. reader[r].bound <= request[e].queued_time /\ reader[r].bound \in Int
    BY <1>7, <2>1 DEF Waits
  <2>3. request[e].queued /\ request[e].queued_time <= w.time BY <1>6, <2>1 DEF TakesQueued
  <2>4. request[e].queued_time > 0 BY <2>3 DEF TimeInv, TimesOK, ReadCalls
  <2>. QED BY <1>6, <2>1, <2>2, <2>3, <2>4
<1>10. PICK ra, rb : ra = Range(a) /\ rb = Range(b) OBVIOUS
<1>11. Honest(e, s, ra) BY <1>1, <1>2, <1>8, <1>10, HonestResolution
<1>12. Honest(e, s, rb) BY <1>1, <1>2, <1>9, <1>10, HonestResolution
<1>. QED BY <1>5, <1>10, <1>11, <1>12 DEF Honest

\* Readers whose queued read a writeback satisfies.
LEMMA HonestWrite ==
  ASSUME Types, TimeInv, NEW e \in Entry, NEW known \in BOOLEAN, NEW time \in Time, NEW stamp \in Time,
         NEW take \in BOOLEAN, stamp <= now, stamp >= request[e].time, known => time = stamp /\ stamp > 0,
         take <=> WrittenTakes(e, known, time), NEW v, v = Written(e, known, time),
         NEW s, s.time = v.time, NEW told, told = Range(Resolution(Also(e, take), Told(known)))
  PROVE  Honest(e, s, told)
<1>1. /\ (v.queued <=> request[e].queued) /\ v.queued_time = request[e].queued_time
      /\ v.time = (IF known THEN time ELSE request[e].time)
  BY WrittenFields
<1>2. time \in Int /\ request[e].queued_time \in Int
  <2>1. request[e].queued_time \in Time BY RequestTypes DEF Types
  <2>. QED BY <2>1 DEF Time
<1>3. take => request[e].queued /\ request[e].queued_time <= time
  BY <1>1, <1>2 DEF WrittenTakes, TakesQueued
<1>4. PICK p : p = Told(known) OBVIOUS
<1>5. p \in {"ok", "assumed", "error"} /\ (p = "ok" => known /\ s.time = time /\ time > 0)
  BY <1>1, <1>4 DEF Told
<1>6. PICK who : who = Also(e, take) OBVIOUS
<1>7. ASSUME NEW r \in who
      PROVE  reader[r].on # "none" /\ (p = "ok" => reader[r].entry = e /\ reader[r].bound <= s.time /\ s.time # 0)
  <2>1. r \in Reader /\ reader[r].entry = e /\ reader[r].on = "queued" /\ take
    BY <1>6, <1>7 DEF On, Also
  <2>2. Waits(reader[r], request[e]) BY <2>1 DEF TimeInv, AllWait
  <2>3. reader[r].bound <= request[e].queued_time BY <2>1, <2>2 DEF Waits
  <2>4. reader[r].bound \in Int
    <3>1. reader[r].bound \in Time BY <2>1, ReaderFields DEF Types
    <3>. QED BY <3>1 DEF Time
  <2>5. reader[r].bound <= time BY <1>2, <1>3, <2>1, <2>3, <2>4
  <2>. QED BY <1>2, <1>5, <2>1, <2>5
<1>8. who \in SUBSET Reader /\ told = Range(Resolution(who, p)) BY <1>4, <1>6 DEF Also, On
<1>. QED BY <1>5, <1>7, <1>8, HonestResolution

LEMMA TakenHeld ==
  ASSUME NEW who, NEW readers, Taken(readers, who)
  PROVE  /\ readers \in [Reader -> ReaderState] /\ Held(readers)
         /\ \A r \in Reader : readers[r].on = "ok" => reader[r].on = "ok"
BY DEF Taken, Held

LEMMA NothingHonest ==
  ASSUME NEW e, NEW s, NEW none, none = {}
  PROVE  Honest(e, s, none)
BY DEF Honest

\* Every step.
LEMMA FreshStep ==
  ASSUME Types, Types', TimeInv, Forward, WritebackInTurn, FreshInv, ReadStep
  PROVE  FreshInv'
<1>1. reader \in [Reader -> ReaderState] /\ reader' \in [Reader -> ReaderState] BY DEF Types
<1>2. ASSUME reader' = reader, NobodyTold({}) PROVE FreshInv' BY <1>2, FreshKept DEF Held
<1>3. CASE Quiet \/ \E e \in Entry : CallsRead(e) BY <1>2, <1>3 DEF Quiet, CallsRead
<1>4. ASSUME NEW e \in Markable, MarkStale(e) PROVE FreshInv'
  BY <1>2, <1>4, SameReadCalls DEF MarkStale
<1>5. ASSUME NEW y \in Items, TellsReaders(y) PROVE FreshInv'
  <2>1. PICK who, p : who = y.arg /\ p = y.result OBVIOUS
  <2>2. /\ Owes(y) /\ y.op = "SetResult" /\ p \in {"ok", "assumed", "error"} /\ NobodyTold({})
        /\ reader' = Move(reader, who, p) /\ request' = request
    BY <1>5, <2>1 DEF TellsReaders
  <2>3. ASSUME NEW r \in Reader
        PROVE  /\ reader'[r].on = (IF r \in who THEN p ELSE reader[r].on)
               /\ reader'[r].entry = reader[r].entry /\ reader'[r].bound = reader[r].bound
    BY <1>1, <2>2, ReaderFields
  <2>4. Held(reader') BY <2>2, <2>3 DEF Held
  <2>5. ASSUME NEW r \in Reader, reader'[r].on = "ok", reader[r].on # "ok" PROVE UpToDate(reader[r])'
    <3>1. r \in who /\ p = "ok" BY <2>3, <2>5
    <3>2. UpToDate(reader[r]) BY <2>1, <2>2, <3>1 DEF FreshInv, Promised
    <3>. QED BY <2>2, <2>3, <3>2 DEF UpToDate
  <2>. QED BY <2>2, <2>4, <2>5, FreshKept
<1>6. ASSUME NEW r \in Reader, DropFuture(r) PROVE FreshInv'
  <2>1. PICK who : who = {r} OBVIOUS
  <2>2. work' = work /\ reader' = Move(reader, who, "dropped") BY <1>6, <2>1 DEF DropFuture
  <2>3. ASSUME NEW w \in Reader
        PROVE  /\ reader'[w].on = (IF w \in who THEN "dropped" ELSE reader[w].on)
               /\ reader'[w].entry = reader[w].entry /\ reader'[w].bound = reader[w].bound
    BY <1>1, <2>2, ReaderFields
  <2>4. Held(reader') /\ \A w \in Reader : reader'[w].on = "ok" => reader[w].on = "ok"
    BY <2>3 DEF Held
  <2>5. NobodyTold({}) BY <2>2, SameReadCalls
  <2>. QED BY <2>4, <2>5, FreshKept
<1>7. ASSUME NEW r \in Reader, NEW e \in Entry, NEW bound \in Time, NEW strict \in BOOLEAN,
             Asks(r, e, bound, strict)
      PROVE  FreshInv'
  <2>1. reader[r].on = "none" BY <1>7 DEF Asks
  <2>2. CASE ReadCached(r, e, bound, strict)
    <3>1. /\ request[e].time # 0 /\ request[e].time >= bound /\ ~ (strict /\ request[e].stale)
          /\ reader' = [reader EXCEPT ![r] = NewReader(e, "ok", FALSE, bound, strict)]
          /\ UNCHANGED <<request, work>>
      BY <2>2 DEF ReadCached
    <3>2. PICK need : need = Earlier(Limit(e, bound, strict), now) OBVIOUS
    <3>3. need <= request[e].time
      <4>1. request[e].time \in Time /\ now \in Time BY RequestTypes DEF Types
      <4>2. Limit(e, bound, strict) = bound BY <3>1 DEF Limit
      <4>. QED BY <3>1, <3>2, <4>1, <4>2 DEF Earlier, Time
    <3>4. reader'[r].entry = e /\ reader'[r].bound = need BY <1>1, <3>1, <3>2 DEF NewReader
    <3>5. UpToDate(reader[r])' BY <3>1, <3>3, <3>4 DEF UpToDate
    <3>6. \A w \in Reader \ {r} : reader'[w] = reader[w] BY <1>1, <3>1
    <3>7. Held(reader') BY <2>1, <3>6 DEF Held
    <3>8. \A w \in Reader : reader'[w].on = "ok" => (reader[w].on = "ok" \/ UpToDate(reader[w])')
      BY <3>5, <3>6
    <3>9. NobodyTold({}) BY <3>1, SameReadCalls
    <3>. QED BY <3>7, <3>8, <3>9, FreshKept
  <2>3. CASE ReadIssued(r, e, bound, strict)
    <3>1. /\ reader' = [reader EXCEPT ![r] = NewReader(e, "issued", FALSE, bound, strict)] /\ work' = work
      BY <2>3 DEF ReadIssued
    <3>2. /\ reader'[r].on = "issued" /\ \A w \in Reader \ {r} : reader'[w] = reader[w]
      BY <1>1, <3>1 DEF NewReader
    <3>3. Held(reader') /\ \A w \in Reader : reader'[w].on = "ok" => reader[w].on = "ok"
      BY <2>1, <3>2 DEF Held
    <3>4. NobodyTold({}) BY <3>1, SameReadCalls
    <3>. QED BY <3>3, <3>4, FreshKept
  <2>4. ASSUME NEW before \in {reader, Unbatch(reader, e)}, NEW defer \in BOOLEAN,
               Starts(e, [Asked(e, bound, strict) EXCEPT !.queued = TRUE, !.deferred = defer], queue[e],
                      [before EXCEPT ![r] = NewReader(e, "queued", defer, bound, strict)], {})
        PROVE  FreshInv'
    <3>. SUFFICES ASSUME NEW s, Is(s, [Asked(e, bound, strict) EXCEPT !.queued = TRUE, !.deferred = defer]),
                         NEW readers, Is(readers, [before EXCEPT ![r] = NewReader(e, "queued", defer, bound, strict)]),
                         NEW q, q = queue[e], NEW none, none = {}
                  PROVE  FreshInv'
      BY DEF Is
    <3>1. Starts(e, s, q, readers, none) BY <2>4 DEF Is
    <3>2. s \in RequestState
      <4>1. Asked(e, bound, strict) \in RequestState BY LimitTypes
      <4>. QED BY <4>1, RequestTypes DEF Is
    <3>3. before \in [Reader -> ReaderState] BY <1>1, ReaderTypes
    <3>4. readers \in [Reader -> ReaderState] /\ readers[r].on = "queued"
      <4>1. NewReader(e, "queued", defer, bound, strict) \in ReaderState
        BY LimitTypes DEF Promise
      <4>2. NewReader(e, "queued", defer, bound, strict).on = "queued" BY DEF NewReader
      <4>. QED BY <3>3, <4>1, <4>2 DEF Is
    <3>5. ASSUME NEW w \in Reader \ {r}
          PROVE  readers[w].entry = reader[w].entry /\ readers[w].on = reader[w].on /\ readers[w].bound = reader[w].bound
      <4>1. readers[w] = before[w] BY <3>3, <3>5 DEF Is
      <4>. QED BY <1>1, <4>1, ReaderFields
    <3>6. Held(readers) /\ \A w \in Reader : readers[w].on = "ok" => reader[w].on = "ok"
      BY <2>1, <3>4, <3>5 DEF Held
    <3>7. Honest(e, s, none) BY NothingHonest
    <3>. QED BY <3>1, <3>2, <3>4, <3>6, <3>7, StartsFresh
  <2>. QED BY <1>7, <2>2, <2>3, <2>4 DEF Asks
<1>8. ASSUME NEW r \in Reader, NEW e \in Entry, Submits(r, e) PROVE FreshInv'
  <2>. SUFFICES ASSUME NEW s, s = SubmitState(e), NEW readers, readers = SubmitReaders(r),
                       NEW q, q = queue[e], NEW none, none = {}
                PROVE  FreshInv'
    OBVIOUS
  <2>1. Starts(e, s, q, readers, none) BY <1>8 DEF Submits
  <2>2. s \in RequestState BY RequestTypes DEF SubmitState, Types
  <2>3. readers \in [Reader -> ReaderState] BY <1>1 DEF SubmitReaders, ReaderState
  <2>4. ASSUME NEW w \in Reader
        PROVE  readers[w].entry = reader[w].entry /\ readers[w].bound = reader[w].bound /\ readers[w].on = reader[w].on
    BY <1>1 DEF SubmitReaders, ReaderState
  <2>5. Held(readers) /\ \A w \in Reader : readers[w].on = "ok" => reader[w].on = "ok"
    BY <2>4 DEF Held
  <2>6. Honest(e, s, none) BY NothingHonest
  <2>. QED BY <2>1, <2>2, <2>3, <2>5, <2>6, StartsFresh
<1>9. ASSUME NEW e \in Entry, NEW w \in RequestState, NEW result \in {"ok", "assumed", "error"}, Answers(e, w, result)
      PROVE  FreshInv'
  <2>. SUFFICES ASSUME NEW s, s = Resolved(w), NEW readers, readers = ResolvedReaders(e, w),
                       NEW q, q = queue[e], NEW told, told = Range(Results(e, w, result))
                PROVE  FreshInv'
    OBVIOUS
  <2>1. /\ reading[e] /\ Starts(e, s, q, readers, told)
        /\ \/ \E time \in request[e].issued_time .. now : time \in Time /\ time > 0 /\ w = Answered(e, time)
           \/ w = request[e] /\ result = "error"
    BY <1>9 DEF Answers
  <2>2. (w.queued <=> request[e].queued) /\ w.queued_time = request[e].queued_time
    BY <2>1, AnsweredFields
  <2>3. result = "ok" => request[e].issued_time <= w.time /\ w.time > 0
    <3>. SUFFICES ASSUME result = "ok" PROVE request[e].issued_time <= w.time /\ w.time > 0 OBVIOUS
    <3>1. PICK time \in request[e].issued_time .. now : time > 0 /\ w = Answered(e, time) BY <2>1
    <3>2. w.time = time BY <3>1 DEF Answered, Types, RequestState
    <3>. QED BY <3>1, <3>2
  <2>4. s \in RequestState /\ s.time = w.time BY ResolvedFields
  <2>5. Honest(e, s, told) BY <2>1, <2>2, <2>3, <2>4, HonestAnswer
  <2>6. PICK who : Taken(readers, who)
    <3>1. PICK take \in BOOLEAN : take <=> TakesQueued(w, w.time)
      BY RequestTypes DEF TakesQueued
    <3>2. PICK who : who = On(reader, e, "issued") \cup Also(e, take) OBVIOUS
    <3>3. readers = Left(e, who, take) BY <3>1, <3>2 DEF ResolvedReaders, Also, Left
    <3>. QED BY <3>3, LeftTaken
  <2>7. readers \in [Reader -> ReaderState] /\ Held(readers) /\ \A r \in Reader : readers[r].on = "ok" => reader[r].on = "ok"
    BY <2>6, TakenHeld
  <2>. QED BY <2>1, <2>4, <2>5, <2>7, StartsFresh
<1>10. ASSUME NEW n \in Node, WritesBack(n) PROVE FreshInv'
  <2>1. n.entry \in Entry /\ ~ request[n.entry].issued
    BY <1>10 DEF WritesBack, WritebackInTurn, Node
  <2>. SUFFICES ASSUME NEW e \in Entry, e = n.entry, NEW q, q = Unlink(queue[e], n) PROVE FreshInv'
    BY <2>1
  <2>2. ASSUME Starts(e, request[e], q, reader, {}) PROVE FreshInv'
    <3>. SUFFICES ASSUME NEW s, s = request[e], NEW readers, readers = reader, NEW none, none = {} PROVE FreshInv'
      OBVIOUS
    <3>1. s \in RequestState /\ Held(readers) /\ readers \in [Reader -> ReaderState]
      BY <1>1 DEF Types, Held
    <3>2. Honest(e, s, none) BY NothingHonest
    <3>. QED BY <2>2, <3>1, <3>2, StartsFresh
  <2>3. ASSUME NEW outcome \in Outcome, NEW stamp \in 1 .. now, NEW known \in BOOLEAN, NEW time \in Time,
               NEW take \in BOOLEAN, Reports(e, q, outcome, stamp, known, time, take)
        PROVE  FreshInv'
    <3>. SUFFICES ASSUME NEW v, v = Written(e, known, time),
                         NEW s, s = (IF take THEN Unqueued(v) ELSE v),
                         NEW readers, readers = (IF take THEN Left(e, Also(e, TRUE), TRUE) ELSE reader),
                         NEW told, told = Range(Resolution(Also(e, take), Told(known)))
                  PROVE  FreshInv'
      OBVIOUS
    <3>1. Starts(e, s, q, readers, told) BY <2>3 DEF Reports
    <3>2. Taken(readers, Also(e, take))
      <4>1. (take => readers = Left(e, Also(e, TRUE), TRUE)) /\ (~ take => readers = reader)
        OBVIOUS
      <4>. QED BY <4>1, TakenReaders
    <3>3. /\ stamp \in Time /\ stamp <= now /\ stamp >= request[e].time /\ (known => time = stamp /\ stamp > 0)
          /\ take <=> WrittenTakes(e, known, time)
      BY <2>3 DEF Reports
    <3>5. v \in RequestState /\ ~ v.issued BY <2>1, <3>3, WrittenFields
    <3>6. s \in RequestState /\ s.time = v.time BY <3>5, TakenState
    <3>7. Honest(e, s, told) BY <3>3, <3>6, HonestWrite
    <3>8. readers \in [Reader -> ReaderState] /\ Held(readers) /\ \A r \in Reader : readers[r].on = "ok" => reader[r].on = "ok"
      BY <3>2, TakenHeld
    <3>. QED BY <3>1, <3>6, <3>7, <3>8, StartsFresh
  <2>. QED BY <1>10, <2>2, <2>3 DEF WritesBack
<1>. QED BY <1>3, <1>4, <1>5, <1>6, <1>7, <1>8, <1>9, <1>10 DEF ReadStep

-----------------------------------------------------------------------------
(* The theorems.                                                           *)

LEMMA ReadInit == Init => TimeInv /\ FreshInv
<1>. SUFFICES ASSUME Init PROVE TimeInv /\ FreshInv OBVIOUS
<1>1. \A x : ~ Owes(x) /\ Once(x) BY DEF Init, Owes, Once
<1>2. now = 1 /\ \A r \in Reader : reader[r].on \in {"none", "dropped"} BY DEF Init
<1>3. ASSUME NEW e \in Entry
      PROVE  /\ ~ request[e].issued /\ ~ request[e].queued /\ request[e].time = 0
             /\ request[e].queued_time = 0 /\ ~ reading[e]
  BY DEF Init
<1>4. AllWait BY <1>2 DEF AllWait, Waits
<1>5. ASSUME NEW e \in Entry PROVE TimesOK(request[e], now) /\ ReadCalls(e)
  <2>1. TimesOK(request[e], now) BY <1>2, <1>3 DEF TimesOK
  <2>2. ReadCalls(e) BY <1>1, <1>3 DEF ReadCalls
  <2>. QED BY <2>1, <2>2
<1>6. TimeInv BY <1>2, <1>4, <1>5 DEF TimeInv
<1>7. FreshInv BY <1>1, <1>2 DEF FreshInv
<1>. QED BY <1>6, <1>7

\* The inductive invariant of the reads.
ReadInv == NodeInv /\ CalmInv /\ TimeInv

LEMMA ReadInvariant ==
  /\ Init => ReadInv
  /\ ReadInv /\ [Next]_vars => ReadInv' /\ Forward
  /\ ReadInv => NoLostWakeup /\ WritebackInTurn
<1>1. Init => ReadInv BY NodeInvariant, CalmInit, ReadInit DEF ReadInv
<1>2. ReadInv => NoLostWakeup /\ WritebackInTurn
  BY CalmWakes, WrittenInTurn DEF ReadInv, NodeInv
<1>3. ASSUME ReadInv, [Next]_vars PROVE ReadInv' /\ Forward
  <2>1. NodeInv /\ Types /\ CallbackInv /\ ProgressInv /\ QueueInvs /\ CalmInv /\ TimeInv
    BY <1>3 DEF ReadInv, NodeInv
  <2>2. NodeInv' BY <1>3, <2>1, NodeInvariant
  <2>3. Types' /\ NodeStep BY <1>3, <2>1, StepKinds
  <2>4. ReadStep BY <1>3, <2>1, StepReads
  <2>5. CalmInv' BY <2>1, <2>3, <2>4, CalmStep
  <2>6. TimeInv' /\ Forward BY <1>2, <1>3, <2>1, <2>3, <2>4, TimeStep
  <2>. QED BY <2>2, <2>5, <2>6 DEF ReadInv
<1>. QED BY <1>1, <1>2, <1>3

\* NoLostWakeup: a queued read that is not deferred waits for an issued read or for a
\* writeback, and the node at the head of a queue waits only for an issued read, since
\* every read and every writeback ends with MaybeStartReadOrWriteback.
THEOREM NobodyForgotten == Spec => []NoLostWakeup
BY ReadInvariant, PTL DEF Spec

\* WritebackInTurn: the assertions of ResolveIssuedWriteback.  A node is written back
\* only while it is queued, ready and of the transaction at the head of the queue, and
\* never while a read of its entry is in progress.
THEOREM WritesInTurn == Spec => []WritebackInTurn
BY ReadInvariant, PTL DEF Spec

\* ReadTimeMonotone: SetReadState never replaces the read state of an entry by an older
\* one, in whatever order the kvstore answers reads and writebacks.
THEOREM TimesNeverGoBack == Spec => ReadTimeMonotone
<1>1. ReadInv /\ [Next]_vars => [\A e \in Entry : request'[e].time >= request[e].time]_vars
  <2>. SUFFICES ASSUME ReadInv, [Next]_vars, NEW e \in Entry PROVE request'[e].time >= request[e].time
    OBVIOUS
  <2>1. Forward /\ Types /\ Types' BY ReadInvariant DEF ReadInv, NodeInv
  <2>2. request[e].time \in Time /\ request'[e].time \in Time /\ request[e].time <= request'[e].time
    BY <2>1, RequestTypes DEF Types, Forward
  <2>. QED BY <2>2 DEF Time
<1>. QED BY <1>1, ReadInvariant, PTL DEF Spec, ReadTimeMonotone

\* ReadSatisfiesBound: a read that is answered with a read state, by the read it waited
\* for, an earlier one or a writeback, leaves the entry with data no older than the bound
\* of its reader.  Nothing is claimed of the reads that WritebackSuccess completes without
\* a read state (async_cache.cc:613-622): those are "assumed", and need not satisfy it.
THEOREM ReadsAreFresh == Spec => []ReadSatisfiesBound
<1>1. Init => ReadInv /\ FreshInv BY ReadInvariant, ReadInit
<1>2. ReadInv /\ FreshInv /\ [Next]_vars => ReadInv' /\ FreshInv'
  <2>. SUFFICES ASSUME ReadInv, FreshInv, [Next]_vars PROVE ReadInv' /\ FreshInv' OBVIOUS
  <2>1. ReadInv' /\ Forward /\ WritebackInTurn BY ReadInvariant
  <2>2. Types /\ Types' /\ TimeInv BY <2>1 DEF ReadInv, NodeInv
  <2>3. ReadStep BY <2>2, StepReads
  <2>. QED BY <2>1, <2>2, <2>3, FreshStep
<1>3. ReadInv /\ FreshInv => ReadSatisfiesBound
  <2>. SUFFICES ASSUME ReadInv, FreshInv, NEW r \in Reader, reader[r].on = "ok"
                PROVE  Satisfied(r)
    BY DEF ReadSatisfiesBound
  <2>1. PICK e : e = reader[r].entry OBVIOUS
  <2>2. Types /\ reader[r].bound <= request[e].time /\ request[e].time # 0
    BY <2>1 DEF ReadInv, NodeInv, FreshInv, UpToDate
  <2>3. e \in Entry /\ reader[r].bound \in Time BY <2>1, <2>2, ReaderFields DEF Types
  <2>4. request[e].time \in Time BY <2>2, <2>3, RequestTypes DEF Types
  <2>. QED BY <2>1, <2>2, <2>3, <2>4 DEF Time, Satisfied
<1>. QED BY <1>1, <1>2, <1>3, PTL DEF Spec
=============================================================================
