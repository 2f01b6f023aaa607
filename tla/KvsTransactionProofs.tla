------------------------ MODULE KvsTransactionProofs ------------------------
(***************************************************************************)
(* The counts of KvsTransaction: a phase ends when all its entries are     *)
(* done, a range is deleted when all the chains that it supersedes are     *)
(* validated, and every source is told once.  And the assertions of the    *)
(* writeback: what the sources of a chain answer, one on top of the other, *)
(* fits together.                                                          *)
(*                                                                         *)
(* A step that ends an entry changes the chain's writeback, its range and  *)
(* the count of the phase, and the last one moves on to another phase.  The *)
(* parts of the invariant are therefore stated of a phase p and of the     *)
(* values jb, ds, pl, fs and n of job, drs, plan, fate and left.n, so that *)
(* they can be shown of the phase that ends before it is left.             *)
(***************************************************************************)
EXTENDS KvsTransaction, FiniteSetTheorems, SequenceTheorems, WellFoundedInduction, TLAPS

-----------------------------------------------------------------------------
(* The inductive invariant.                                                 *)

\* An entry belongs to one chain, and its number was given before.
IdsUnique ==
    \A p \in Phase, k \in Key : \A o \in ToSet(chain[p][k]) :
        /\ o <= nops
        /\ \A q \in Phase, l \in Key : o \in ToSet(chain[q][l]) => p = q /\ k = l

\* The ranges of a phase do not overlap.
RangesDisjoint ==
    \A p \in Phase : \A r, s \in dels[p] : r = s \/ ~Meets(r, s)

Supersedes(p, r) == {k \in KeysOf(r) : chain[p][k] # << >>}
DoneAlone(p, jb) == {k \in Alone(p) : jb[k].st = "done"}
DoneRanges(p, ds) == {r \in dels[p] : ds[r].st = "done"}
DoneIn(p, r, jb) == {k \in Supersedes(p, r) : jb[k].st = "done"}

\* A chain is started once, by the loop of WritebackPhase.
JobsOK(p, jb, pl) ==
    /\ pl.keys \subseteq Chains(p)
    /\ pl.ranges \subseteq dels[p]
    /\ \A k \in Key : jb[k].st = "idle" <=> k \notin Chains(p) \/ k \in pl.keys

\* remaining_entries_ of the phase.
Total(p, pl) == IF pl.count THEN 0 ELSE Cardinality(Alone(p)) + Cardinality(dels[p])
LeftIs(p, jb, ds, pl, n) ==
    n = Total(p, pl) - Cardinality(DoneAlone(p, jb)) - Cardinality(DoneRanges(p, ds))

\* remaining_entries_ of a range, and where the range stands.
SumOf(p, r, pl) == IF r \in pl.ranges THEN 0 ELSE Cardinality(Supersedes(p, r))
RangeOK(p, r, jb, ds, pl, fs) ==
    /\ ds[r].n = SumOf(p, r, pl) - Cardinality(DoneIn(p, r, jb))
    /\ r \in pl.ranges => ds[r].st = "idle"
    /\ ds[r].st = "idle" /\ r \notin pl.ranges => DoneIn(p, r, jb) # Supersedes(p, r)
    /\ ds[r].st # "idle" => DoneIn(p, r, jb) = Supersedes(p, r)
    /\ ds[r].st = "delete" => ~ds[r].err
    /\ ds[r].st # "done" =>
          (ds[r].err <=> \E k \in DoneIn(p, r, jb) : fs[Last(chain[p][k])].error)
RangesOK(p, jb, ds, pl, fs) ==
    /\ \A r \in dels[p] : RangeOK(p, r, jb, ds, pl, fs)
    /\ \A r \in KeyRange \ dels[p] : ds[r].st = "idle"

\* What the sources of the chain of k were told.
ChainFate(fs, p, k, ended) ==
    \A o \in ToSet(chain[p][k]) :
        /\ (fs[o].error <=> fs[Last(chain[p][k])].error)
        /\ fs[o].told = IF ended \/ fs[o].error THEN 1 ELSE 0

Ended(p, k, jb, ds) ==
    /\ InRange(p, k) => \E r \in dels[p] : k \in KeysOf(r) /\ ds[r].st = "done"
    /\ ~InRange(p, k) => jb[k].st = "done"
FatesOK(p, jb, ds, fs) ==
    /\ \A q \in Phase, k \in Key :
          /\ q < p => ChainFate(fs, q, k, TRUE)
          /\ q > p => ChainFate(fs, q, k, FALSE) /\ \A o \in ToSet(chain[q][k]) : ~fs[o].error
    /\ \A k \in Key :
          /\ ChainFate(fs, p, k, Ended(p, k, jb, ds))
          /\ \A o \in ToSet(chain[p][k]) : fs[o].error => jb[k].st = "done"

\* An operation that is not an entry is not told anything.
OthersNotTold(fs) ==
    \A o \in Op : (\A p \in Phase, k \in Key : o \notin ToSet(chain[p][k])) =>
        fs[o].told = 0 /\ ~fs[o].error

PhaseOK(p, jb, ds, pl, fs, n) ==
    /\ JobsOK(p, jb, pl) /\ LeftIs(p, jb, ds, pl, n)
    /\ RangesOK(p, jb, ds, pl, fs) /\ FatesOK(p, jb, ds, fs)

\* Nothing of a phase is under way.
Quiet == /\ plan = NoPlan
         /\ \A k \in Key : job[k].st \in {"idle", "done"}
         /\ \A r \in KeyRange : drs[r].st # "delete"

KvsInv ==
    /\ TypeOK /\ IdsUnique /\ RangesDisjoint /\ OthersNotTold(fate)
    /\ state # "committing" => Quiet
    /\ state = "committing" =>
          PhaseOK(phase, job, drs, plan, fate, left.n) /\ (~plan.count => left.n # 0)
    /\ state \in {"open", "between"} =>
          \A p \in Phase, k \in Key :
             /\ ChainFate(fate, p, k, state = "between" /\ p < phase)
             /\ state = "open" \/ p >= phase => \A o \in ToSet(chain[p][k]) : ~fate[o].error
    /\ state \in {"committed", "aborted"} =>
          \A p \in Phase, k \in Key : ChainFate(fate, p, k, TRUE)

-----------------------------------------------------------------------------
(* Numbers and finite sets.                                                *)

\* A non-empty set of naturals has a smallest element.
LEMMA Smallest ==
  ASSUME NEW T \in SUBSET Nat, T # {}
  PROVE  \E m \in T : \A n \in T : m <= n
<1>1. PICK m \in T : \A n \in T : ~ (<< n, m >> \in OpToRel(<, Nat))
  BY NatLessThanWellFounded, WFMin
<1>2. \A n \in T : ~ (n < m) /\ m \in Nat /\ n \in Nat BY <1>1 DEF OpToRel
<1>. QED BY <1>2

\* Min and Max of a set of keys or of phases are members of it.
LEMMA MinIn ==
  ASSUME NEW T \in SUBSET Nat, T # {}
  PROVE  Min(T) \in T /\ \A n \in T : Min(T) <= n
<1>1. \E m \in T : \A n \in T : m =< n BY Smallest
<1>. QED BY <1>1 DEF Min

LEMMA MaxIn ==
  ASSUME NEW N \in Nat, NEW T \in SUBSET (0 .. N), T # {}
  PROVE  Max(T) \in T /\ \A n \in T : Max(T) >= n
<1>. DEFINE U == {N - n : n \in T}
<1>0. \A n \in T : N - n \in Nat OBVIOUS
<1>1. U \in SUBSET Nat /\ U # {} BY <1>0
<1>2. PICK m \in U : \A n \in U : m <= n
  <2>. HIDE DEF U
  <2>. QED BY <1>1, Smallest
<1>3. PICK x \in T : m = N - x OBVIOUS
<1>4. \A n \in T : N - n \in U OBVIOUS
<1>5. \A n \in T : x >= n BY <1>2, <1>3, <1>4
<1>. QED BY <1>5 DEF Max

\* Keys and ranges are finitely many.
LEMMA KeysFinite ==
  ASSUME NEW S \in SUBSET Key
  PROVE  IsFiniteSet(S) /\ Cardinality(S) \in Nat
<1>1. IsFiniteSet(Key) BY ConstantsAssumption, FS_Interval DEF Key
<1>. QED BY <1>1, FS_Subset, FS_CardinalityType

LEMMA RangesFinite ==
  ASSUME NEW S \in SUBSET KeyRange
  PROVE  IsFiniteSet(S) /\ Cardinality(S) \in Nat
<1>1. IsFiniteSet(Key \X Key) BY KeysFinite, FS_Product
<1>2. S \in SUBSET (Key \X Key) BY DEF KeyRange
<1>. QED BY <1>1, <1>2, FS_Subset, FS_CardinalityType

\* Removing counted elements: a subset as large as the set is the set.
LEMMA SameSize ==
  ASSUME NEW S, IsFiniteSet(S), NEW T \in SUBSET S, Cardinality(T) = Cardinality(S)
  PROVE  T = S
BY FS_Subset

LEMMA KeysOfRange ==
  ASSUME NEW r \in KeyRange
  PROVE  /\ KeysOf(r) \in SUBSET Key /\ r[1] \in KeysOf(r) /\ r[2] \in KeysOf(r)
         /\ r[1] \in Key /\ r[2] \in Key /\ r[1] <= r[2]
BY ConstantsAssumption DEF KeyRange, KeysOf, Key

LEMMA LastInChain ==
  ASSUME TypeOK, NEW p \in Phase, NEW k \in Key, chain[p][k] # << >>
  PROVE  Last(chain[p][k]) \in ToSet(chain[p][k])
<1>1. chain[p][k] \in Seq(Op) BY DEF TypeOK
<1>2. Len(chain[p][k]) \in DOMAIN chain[p][k] BY <1>1
<1>. QED BY <1>2 DEF Last, ToSet

LEMMA EntriesAreOps ==
  ASSUME TypeOK, NEW p \in Phase, NEW k \in Key
  PROVE  /\ ToSet(chain[p][k]) \subseteq Op
         /\ chain[p][k] = << >> => ToSet(chain[p][k]) = {}
         /\ ToSet(chain[p][k]) # {} => Last(chain[p][k]) \in ToSet(chain[p][k])
<1>1. chain[p][k] \in Seq(Op) BY DEF TypeOK
<1>2. ToSet(chain[p][k]) \subseteq Op /\ (chain[p][k] = << >> => ToSet(chain[p][k]) = {})
  BY <1>1 DEF ToSet
<1>. QED BY <1>2, LastInChain

-----------------------------------------------------------------------------
(* What the sources are told.                                              *)

FateSet == [Op -> [told : Nat, report : Reports, error : BOOLEAN]]

LEMMA TellFacts ==
  ASSUME NEW f \in [told : Nat, report : Reports, error : BOOLEAN], NEW rep \in Reports,
         NEW err \in BOOLEAN
  PROVE  /\ Tell(f, rep, err) \in [told : Nat, report : Reports, error : BOOLEAN]
         /\ Tell(f, rep, err).error = err
         /\ Tell(f, rep, err).told = f.told + 1
BY DEF Tell

\* The entries of the chains of ks in phase p are told of an error, unless they
\* were told already; they are told of a success; no other entry is told.
ToldFailed(gs, fs, p, ks) ==
    \A k \in ks : \A o \in ToSet(chain[p][k]) :
        /\ fs[Last(chain[p][k])].error => gs[o] = fs[o]
        /\ ~fs[Last(chain[p][k])].error => gs[o].told = fs[o].told + 1 /\ gs[o].error
ToldSuccess(gs, fs, p, ks) ==
    \A k \in ks : \A o \in ToSet(chain[p][k]) :
        gs[o].told = fs[o].told + 1 /\ (gs[o].error <=> fs[o].error)
SameElsewhere(gs, fs, p, ks) ==
    \A q \in Phase, l \in Key : q # p \/ l \notin ks =>
        \A o \in ToSet(chain[q][l]) : gs[o] = fs[o]

\* Failed tells the entries of the chains that were not told, and only them.
LEMMA FailedFacts ==
  ASSUME TypeOK, IdsUnique, NEW fs \in FateSet, NEW ks \in SUBSET Key
  PROVE  /\ Failed(fs, ks) \in FateSet
         /\ ToldFailed(Failed(fs, ks), fs, phase, ks)
         /\ SameElsewhere(Failed(fs, ks), fs, phase, ks)
         /\ OthersNotTold(fs) => OthersNotTold(Failed(fs, ks))
<1>0. phase \in Phase BY DEF TypeOK
<1>1. \A o \in Op : Failed(fs, ks)[o] =
         IF \E k \in ks : o \in ToSet(chain[phase][k]) /\ ~fs[Last(chain[phase][k])].error
         THEN Tell(fs[o], "error", TRUE) ELSE fs[o]
  BY DEF Failed, AlreadyTold
<1>2. ASSUME NEW o \in Op
      PROVE  Failed(fs, ks)[o] \in [told : Nat, report : Reports, error : BOOLEAN]
  <2>1. fs[o] \in [told : Nat, report : Reports, error : BOOLEAN] BY DEF FateSet
  <2>2. Tell(fs[o], "error", TRUE)
           \in [told : Nat, report : Reports, error : BOOLEAN]
    BY <2>1, TellFacts DEF Reports
  <2>. QED BY <1>1, <2>1, <2>2
<1>3. Failed(fs, ks) \in FateSet BY <1>2 DEF FateSet, Failed
<1>4. ASSUME NEW k \in ks, NEW o \in ToSet(chain[phase][k])
      PROVE  /\ fs[Last(chain[phase][k])].error => Failed(fs, ks)[o] = fs[o]
             /\ ~fs[Last(chain[phase][k])].error =>
                   Failed(fs, ks)[o].told = fs[o].told + 1 /\ Failed(fs, ks)[o].error
  <2>1. o \in Op /\ k \in Key BY <1>0, EntriesAreOps
  <2>2. \A l \in ks : o \in ToSet(chain[phase][l]) => l = k BY <1>0, <2>1 DEF IdsUnique
  <2>3. (\E l \in ks : o \in ToSet(chain[phase][l]) /\ ~fs[Last(chain[phase][l])].error)
           <=> ~fs[Last(chain[phase][k])].error
    BY <2>2
  <2>4. CASE fs[Last(chain[phase][k])].error BY <1>1, <2>1, <2>3, <2>4
  <2>5. CASE ~fs[Last(chain[phase][k])].error
    <3>1. Failed(fs, ks)[o] = Tell(fs[o], "error", TRUE) BY <1>1, <2>1, <2>3, <2>5
    <3>2. Tell(fs[o], "error", TRUE).error BY DEF Tell
    <3>3. Failed(fs, ks)[o].told = fs[o].told + 1 BY <3>1 DEF Tell
    <3>. QED BY <3>1, <3>2, <3>3, <2>5, Zenon
  <2>. QED BY <2>4, <2>5
<1>5. ASSUME NEW q \in Phase, NEW l \in Key, q # phase \/ l \notin ks, NEW o \in ToSet(chain[q][l])
      PROVE  Failed(fs, ks)[o] = fs[o]
  <2>1. o \in Op BY EntriesAreOps
  <2>2. \A k \in ks : o \notin ToSet(chain[phase][k]) BY <1>0, <1>5 DEF IdsUnique
  <2>. QED BY <1>1, <2>1, <2>2
<1>6. OthersNotTold(fs) => OthersNotTold(Failed(fs, ks)) BY <1>0, <1>1 DEF OthersNotTold
<1>7. ToldFailed(Failed(fs, ks), fs, phase, ks) BY <1>4 DEF ToldFailed
<1>8. SameElsewhere(Failed(fs, ks), fs, phase, ks) BY <1>5 DEF SameElsewhere
<1>. QED BY <1>3, <1>6, <1>7, <1>8

\* So does Reported, without marking an error.
LEMMA ReportedFacts ==
  ASSUME TypeOK, IdsUnique, NEW fs \in FateSet, NEW ks \in SUBSET Key, NEW sources, NEW orig,
         NEW gs, gs = Reported(sources, fs, ks, orig)
  PROVE  /\ gs \in FateSet
         /\ ToldSuccess(gs, fs, phase, ks)
         /\ SameElsewhere(gs, fs, phase, ks)
         /\ OthersNotTold(fs) => OthersNotTold(gs)
<1>0. phase \in Phase BY DEF TypeOK
<1>1. \A o \in Op : \E rep \in Reports : gs[o] =
         IF \E k \in ks : o \in ToSet(chain[phase][k])
         THEN Tell(fs[o], rep, fs[o].error) ELSE fs[o]
  BY DEF Reported, Reports
<1>2. ASSUME NEW o \in Op
      PROVE  /\ gs[o] \in [told : Nat, report : Reports, error : BOOLEAN]
             /\ (gs[o].error <=> fs[o].error)
             /\ (\E k \in ks : o \in ToSet(chain[phase][k])) => gs[o].told = fs[o].told + 1
             /\ (\A k \in ks : o \notin ToSet(chain[phase][k])) => gs[o] = fs[o]
  <2>1. fs[o] \in [told : Nat, report : Reports, error : BOOLEAN] BY DEF FateSet
  <2>2. PICK rep \in Reports : gs[o] =
         IF \E k \in ks : o \in ToSet(chain[phase][k])
         THEN Tell(fs[o], rep, fs[o].error) ELSE fs[o]
    BY <1>1
  <2>. DEFINE new == Tell(fs[o], rep, fs[o].error)
  <2>3. /\ new \in [told : Nat, report : Reports, error : BOOLEAN]
        /\ (new.error <=> fs[o].error) /\ new.told = fs[o].told + 1
    BY <2>1, TellFacts
  <2>. HIDE DEF new
  <2>4. CASE \E k \in ks : o \in ToSet(chain[phase][k])
    <3>1. gs[o] = new BY <2>2, <2>4 DEF new
    <3>. QED BY <2>3, <2>4, <3>1
  <2>5. CASE \A k \in ks : o \notin ToSet(chain[phase][k])
    <3>1. gs[o] = fs[o] BY <2>2, <2>5
    <3>. QED BY <2>1, <2>5, <3>1
  <2>. QED BY <2>4, <2>5
<1>3. gs \in FateSet BY <1>2 DEF FateSet, Reported
<1>4. ASSUME NEW k \in ks, NEW o \in ToSet(chain[phase][k])
      PROVE  gs[o].told = fs[o].told + 1 /\ (gs[o].error <=> fs[o].error)
  <2>1. o \in Op BY <1>0, EntriesAreOps
  <2>. QED BY <1>2, <2>1
<1>5. ASSUME NEW q \in Phase, NEW l \in Key, q # phase \/ l \notin ks, NEW o \in ToSet(chain[q][l])
      PROVE  gs[o] = fs[o]
  <2>1. o \in Op BY EntriesAreOps
  <2>2. \A k \in ks : o \notin ToSet(chain[phase][k]) BY <1>0, <1>5 DEF IdsUnique
  <2>. QED BY <1>2, <2>1, <2>2
<1>6. OthersNotTold(fs) => OthersNotTold(gs) BY <1>0, <1>2 DEF OthersNotTold
<1>7. ToldSuccess(gs, fs, phase, ks) BY <1>4 DEF ToldSuccess
<1>8. SameElsewhere(gs, fs, phase, ks) BY <1>5 DEF SameElsewhere
<1>. QED BY <1>3, <1>6, <1>7, <1>8

\* The transaction tells the entries of the phases from p on.
LEMMA AbandonedFacts ==
  ASSUME TypeOK, IdsUnique, NEW fs \in FateSet, NEW p \in Nat
  PROVE  /\ Abandoned(fs, p) \in FateSet
         /\ \A q \in Phase, l \in Key : \A o \in ToSet(chain[q][l]) :
               /\ q >= p => Abandoned(fs, p)[o].told = fs[o].told + 1
                            /\ (Abandoned(fs, p)[o].error <=> fs[o].error)
               /\ q < p => Abandoned(fs, p)[o] = fs[o]
         /\ OthersNotTold(fs) => OthersNotTold(Abandoned(fs, p))
<1>. DEFINE F == Abandoned(fs, p)
<1>1. ASSUME NEW o \in Op
      PROVE  /\ F[o] \in [told : Nat, report : Reports, error : BOOLEAN]
             /\ (F[o].error <=> fs[o].error)
             /\ (\E q \in Phase : q >= p /\ \E k \in Key : o \in ToSet(chain[q][k])) =>
                   F[o].told = fs[o].told + 1
             /\ (\A q \in Phase : q >= p => \A k \in Key : o \notin ToSet(chain[q][k])) =>
                   F[o] = fs[o]
  <2>1. fs[o] \in [told : Nat, report : Reports, error : BOOLEAN] BY DEF FateSet
  <2>2. F[o] = IF \E q \in Phase : q >= p /\ \E k \in Key : o \in ToSet(chain[q][k])
               THEN Tell(fs[o], "error", fs[o].error) ELSE fs[o]
    BY DEF Abandoned
  <2>3. "error" \in Reports BY DEF Reports
  <2>. DEFINE new == Tell(fs[o], "error", fs[o].error)
              own == \E q \in Phase : q >= p /\ \E k \in Key : o \in ToSet(chain[q][k])
  <2>4. /\ new \in [told : Nat, report : Reports, error : BOOLEAN]
        /\ (new.error <=> fs[o].error) /\ new.told = fs[o].told + 1
    BY <2>1, <2>3, TellFacts
  <2>5. F[o] = IF own THEN new ELSE fs[o] BY <2>2
  <2>6. ~own <=> \A q \in Phase : q >= p => \A k \in Key : o \notin ToSet(chain[q][k]) OBVIOUS
  <2>. HIDE DEF F, new, own
  <2>7. own => F[o] = new BY <2>5
  <2>8. ~own => F[o] = fs[o] BY <2>5
  <2>9. /\ F[o] \in [told : Nat, report : Reports, error : BOOLEAN]
        /\ (F[o].error <=> fs[o].error)
        /\ own => F[o].told = fs[o].told + 1
        /\ ~own => F[o] = fs[o]
    BY <2>1, <2>4, <2>7, <2>8
  <2>. QED BY <2>6, <2>9 DEF own
<1>2. F \in FateSet BY <1>1 DEF FateSet, Abandoned
<1>3. ASSUME NEW q \in Phase, NEW l \in Key, NEW o \in ToSet(chain[q][l])
      PROVE  /\ q >= p => F[o].told = fs[o].told + 1 /\ (F[o].error <=> fs[o].error)
             /\ q < p => F[o] = fs[o]
  <2>1. o \in Op BY EntriesAreOps
  <2>2. \A x \in Phase, k \in Key : o \in ToSet(chain[x][k]) => x = q BY DEF IdsUnique
  <2>3. q < p => ~(q >= p) BY ConstantsAssumption DEF Phase
  <2>. HIDE DEF F
  <2>. QED BY <1>1, <2>1, <2>2, <2>3
<1>4. OthersNotTold(fs) => OthersNotTold(F) BY <1>1 DEF OthersNotTold
<1>. HIDE DEF F
<1>5. /\ F \in FateSet
      /\ \A q \in Phase, l \in Key : \A o \in ToSet(chain[q][l]) :
            /\ q >= p => F[o].told = fs[o].told + 1 /\ (F[o].error <=> fs[o].error)
            /\ q < p => F[o] = fs[o]
      /\ OthersNotTold(fs) => OthersNotTold(F)
  BY <1>2, <1>3, <1>4
<1>. QED BY <1>5 DEF F

-----------------------------------------------------------------------------
(* What does not change with the chains and the ranges.                    *)

LEMMA Frame ==
  ASSUME chain' = chain, dels' = dels
  PROVE  /\ \A p, r : Supersedes(p, r)' = Supersedes(p, r)
         /\ \A p : Chains(p)' = Chains(p) /\ Alone(p)' = Alone(p)
         /\ \A p, k : InRange(p, k)' = InRange(p, k)
         /\ \A p, jb : DoneAlone(p, jb)' = DoneAlone(p, jb)
         /\ \A p, ds : DoneRanges(p, ds)' = DoneRanges(p, ds)
         /\ \A p, r, jb : DoneIn(p, r, jb)' = DoneIn(p, r, jb)
<1>1. \A p, r : Supersedes(p, r)' = Supersedes(p, r) BY DEF Supersedes
<1>2. \A p : Chains(p)' = Chains(p) BY DEF Chains
<1>3. \A p, k : InRange(p, k)' = InRange(p, k) BY DEF InRange
<1>4. \A p : Alone(p)' = Alone(p) BY <1>2, <1>3 DEF Alone
<1>5. \A p, jb : DoneAlone(p, jb)' = DoneAlone(p, jb) BY <1>4 DEF DoneAlone
<1>6. \A p, ds : DoneRanges(p, ds)' = DoneRanges(p, ds) BY DEF DoneRanges
<1>7. \A p, r, jb : DoneIn(p, r, jb)' = DoneIn(p, r, jb) BY <1>1 DEF DoneIn
<1>. QED BY <1>1, <1>2, <1>3, <1>4, <1>5, <1>6, <1>7

LEMMA StructureFrame ==
  ASSUME chain' = chain, dels' = dels, nops' = nops, IdsUnique, RangesDisjoint,
         NEW fs, OthersNotTold(fs), fate' = fs
  PROVE  IdsUnique' /\ RangesDisjoint' /\ OthersNotTold(fate)'
BY DEF IdsUnique, RangesDisjoint, OthersNotTold, Meets, KeysOf

LEMMA PhaseFrame ==
  ASSUME chain' = chain, dels' = dels, phase' = phase, NEW fs, NEW n,
         fate' = fs, left'.n = n, PhaseOK(phase, job', drs', plan', fs, n)
  PROVE  PhaseOK(phase, job, drs, plan, fate, left.n)'
<1>1. JobsOK(phase, job, plan)' BY Frame DEF PhaseOK, JobsOK
<1>2. LeftIs(phase, job, drs, plan, left.n)' BY Frame DEF PhaseOK, LeftIs, Total
<1>3. RangesOK(phase, job, drs, plan, fate)' BY Frame DEF PhaseOK, RangesOK, RangeOK, SumOf
<1>4. FatesOK(phase, job, drs, fate)' BY Frame DEF PhaseOK, FatesOK, ChainFate, Ended
<1>. QED BY <1>1, <1>2, <1>3, <1>4 DEF PhaseOK

-----------------------------------------------------------------------------
(* The end of an entry.                                                    *)

JobType(jb) ==
    /\ DOMAIN jb = Key
    /\ \A k \in Key : /\ DOMAIN jb[k] = DOMAIN Idle
                      /\ jb[k].st \in {"idle", "ask", "write", "verify", "done"}
DrsSet == [KeyRange -> [st : {"idle", "delete", "done"}, n : Int, err : BOOLEAN]]
PlanSet == [keys : SUBSET Key, ranges : SUBSET KeyRange, count : BOOLEAN]
EnvSet == [forms : SUBSET AllForms, keys : Key, phases : Phase, external : Nat, errors : Nat]

\* The sets that are counted are finite.
LEMMA CountsFinite ==
  ASSUME TypeOK, NEW p \in Phase, NEW jb, NEW ds
  PROVE  /\ Alone(p) \in SUBSET Key /\ Chains(p) \in SUBSET Key
         /\ dels[p] \in SUBSET KeyRange
         /\ IsFiniteSet(Alone(p)) /\ Cardinality(Alone(p)) \in Nat
         /\ IsFiniteSet(dels[p]) /\ Cardinality(dels[p]) \in Nat
         /\ DoneAlone(p, jb) \in SUBSET Alone(p)
         /\ IsFiniteSet(DoneAlone(p, jb)) /\ Cardinality(DoneAlone(p, jb)) \in Nat
         /\ Cardinality(DoneAlone(p, jb)) <= Cardinality(Alone(p))
         /\ DoneRanges(p, ds) \in SUBSET dels[p]
         /\ IsFiniteSet(DoneRanges(p, ds)) /\ Cardinality(DoneRanges(p, ds)) \in Nat
         /\ Cardinality(DoneRanges(p, ds)) <= Cardinality(dels[p])
<1>1. Alone(p) \in SUBSET Key /\ Chains(p) \in SUBSET Key BY DEF Alone, Chains
<1>2. dels[p] \in SUBSET KeyRange BY DEF TypeOK
<1>3. DoneAlone(p, jb) \in SUBSET Alone(p) /\ DoneRanges(p, ds) \in SUBSET dels[p]
  BY DEF DoneAlone, DoneRanges
<1>4. IsFiniteSet(Alone(p)) /\ Cardinality(Alone(p)) \in Nat BY <1>1, KeysFinite
<1>5. IsFiniteSet(dels[p]) /\ Cardinality(dels[p]) \in Nat BY <1>2, RangesFinite
<1>6. /\ IsFiniteSet(DoneAlone(p, jb)) /\ Cardinality(DoneAlone(p, jb)) \in Nat
      /\ Cardinality(DoneAlone(p, jb)) <= Cardinality(Alone(p))
  BY <1>3, <1>4, FS_Subset, FS_CardinalityType
<1>7. /\ IsFiniteSet(DoneRanges(p, ds)) /\ Cardinality(DoneRanges(p, ds)) \in Nat
      /\ Cardinality(DoneRanges(p, ds)) <= Cardinality(dels[p])
  BY <1>3, <1>5, FS_Subset, FS_CardinalityType
<1>. QED BY <1>1, <1>2, <1>3, <1>4, <1>5, <1>6, <1>7

LEMMA SupersededFinite ==
  ASSUME TypeOK, NEW p \in Phase, NEW r \in KeyRange, NEW jb
  PROVE  /\ Supersedes(p, r) \in SUBSET Key
         /\ IsFiniteSet(Supersedes(p, r)) /\ Cardinality(Supersedes(p, r)) \in Nat
         /\ DoneIn(p, r, jb) \in SUBSET Supersedes(p, r)
         /\ IsFiniteSet(DoneIn(p, r, jb)) /\ Cardinality(DoneIn(p, r, jb)) \in Nat
         /\ Cardinality(DoneIn(p, r, jb)) <= Cardinality(Supersedes(p, r))
<1>1. Supersedes(p, r) \in SUBSET Key BY KeysOfRange DEF Supersedes
<1>2. DoneIn(p, r, jb) \in SUBSET Supersedes(p, r) BY DEF DoneIn
<1>3. IsFiniteSet(Supersedes(p, r)) /\ Cardinality(Supersedes(p, r)) \in Nat BY <1>1, KeysFinite
<1>. QED BY <1>1, <1>2, <1>3, FS_Subset, FS_CardinalityType

\* The count reaches zero when the loop has ended and every entry is done.
LEMMA PhaseEnds ==
  ASSUME TypeOK, NEW p \in Phase, NEW jb, JobType(jb), NEW ds \in DrsSet, NEW pl \in PlanSet, NEW fs,
         PhaseOK(p, jb, ds, pl, fs, 0),
         pl.count => DoneAlone(p, jb) # {} \/ DoneRanges(p, ds) # {}
  PROVE  /\ pl = NoPlan
         /\ \A k \in Key : jb[k].st \in {"idle", "done"}
         /\ \A r \in KeyRange : ds[r].st # "delete"
         /\ \A q \in Phase, k \in Key : q <= p => ChainFate(fs, q, k, TRUE)
         /\ \A q \in Phase, k \in Key : q > p =>
               ChainFate(fs, q, k, FALSE) /\ \A o \in ToSet(chain[q][k]) : ~fs[o].error
<1>1. Total(p, pl) = Cardinality(DoneAlone(p, jb)) + Cardinality(DoneRanges(p, ds))
  <2>1. 0 = Total(p, pl) - Cardinality(DoneAlone(p, jb)) - Cardinality(DoneRanges(p, ds))
    BY DEF PhaseOK, LeftIs
  <2>2. Total(p, pl) \in Nat BY CountsFinite DEF Total
  <2>. QED BY <2>1, <2>2, CountsFinite
<1>2. ~pl.count
  <2>1. SUFFICES ASSUME pl.count PROVE FALSE OBVIOUS
  <2>2. Cardinality(DoneAlone(p, jb)) = 0 /\ Cardinality(DoneRanges(p, ds)) = 0
    BY <1>1, <2>1, CountsFinite DEF Total
  <2>3. DoneAlone(p, jb) = {} /\ DoneRanges(p, ds) = {} BY <2>2, CountsFinite, FS_EmptySet
  <2>. QED BY <2>1, <2>3
<1>3. /\ Cardinality(DoneAlone(p, jb)) = Cardinality(Alone(p))
      /\ Cardinality(DoneRanges(p, ds)) = Cardinality(dels[p])
  BY <1>1, <1>2, CountsFinite DEF Total
<1>4. DoneAlone(p, jb) = Alone(p) /\ DoneRanges(p, ds) = dels[p] BY <1>3, CountsFinite, SameSize
<1>5. \A k \in Alone(p) : jb[k].st = "done" BY <1>4 DEF DoneAlone
<1>6. \A r \in dels[p] : ds[r].st = "done" BY <1>4 DEF DoneRanges
<1>7. pl.ranges = {}
  <2>1. pl.ranges \subseteq dels[p] /\ \A r \in dels[p] : r \in pl.ranges => ds[r].st = "idle"
    BY DEF PhaseOK, JobsOK, RangesOK, RangeOK
  <2>. QED BY <1>6, <2>1
<1>8. \A k \in Chains(p) : jb[k].st = "done"
  <2>1. SUFFICES ASSUME NEW k \in Chains(p), InRange(p, k) PROVE jb[k].st = "done"
    BY <1>5 DEF Alone
  <2>2. PICK r \in dels[p] : k \in KeysOf(r) BY <2>1 DEF InRange
  <2>3. k \in Supersedes(p, r) BY <2>1, <2>2 DEF Supersedes, Chains
  <2>4. DoneIn(p, r, jb) = Supersedes(p, r) BY <1>6 DEF PhaseOK, RangesOK, RangeOK
  <2>. QED BY <2>3, <2>4 DEF DoneIn
<1>9. \A k \in Key : jb[k].st = "idle" <=> k \notin Chains(p) \/ k \in pl.keys
  BY DEF PhaseOK, JobsOK
<1>10. pl.keys = {}
  <2>1. pl.keys \subseteq Chains(p) /\ pl.keys \subseteq Key BY DEF PhaseOK, JobsOK, PlanSet
  <2>. QED BY <1>8, <1>9, <2>1
<1>11. pl = NoPlan BY <1>2, <1>7, <1>10 DEF PlanSet, NoPlan
<1>12. \A r \in KeyRange : ds[r].st # "delete"
  <2>1. \A r \in KeyRange \ dels[p] : ds[r].st = "idle" BY DEF PhaseOK, RangesOK
  <2>. QED BY <1>6, <2>1
<1>13. ASSUME NEW k \in Key PROVE ChainFate(fs, p, k, TRUE)
  <2>1. CASE chain[p][k] = << >> BY <2>1, EntriesAreOps DEF ChainFate
  <2>2. CASE chain[p][k] # << >>
    <3>1. Ended(p, k, jb, ds) BY <1>5, <1>6, <2>2 DEF Ended, InRange, Alone, Chains
    <3>2. ChainFate(fs, p, k, Ended(p, k, jb, ds)) BY DEF PhaseOK, FatesOK
    <3>. QED BY <3>1, <3>2 DEF ChainFate
  <2>. QED BY <2>1, <2>2
<1>14. \A q \in Phase, k \in Key : q <= p => ChainFate(fs, q, k, TRUE)
  <2>1. \A q \in Phase, k \in Key : q < p => ChainFate(fs, q, k, TRUE) BY DEF PhaseOK, FatesOK
  <2>2. \A q \in Phase : q <= p => q < p \/ q = p BY ConstantsAssumption DEF Phase
  <2>. QED BY <1>13, <2>1, <2>2
<1>15. \A q \in Phase, k \in Key : q > p =>
          ChainFate(fs, q, k, FALSE) /\ \A o \in ToSet(chain[q][k]) : ~fs[o].error
  BY DEF PhaseOK, FatesOK
<1>16. \A k \in Key : jb[k].st \in {"idle", "done"} BY <1>8, <1>9
<1>. QED BY <1>11, <1>12, <1>14, <1>15, <1>16

\* A chain whose entries were told the same has the same fate.
LEMMA SameFate ==
  ASSUME TypeOK, NEW fs, NEW gs, NEW q \in Phase, NEW l \in Key, NEW e,
         \A o \in ToSet(chain[q][l]) : gs[o] = fs[o], ChainFate(fs, q, l, e)
  PROVE  ChainFate(gs, q, l, e)
<1>1. \A o \in ToSet(chain[q][l]) : gs[Last(chain[q][l])] = fs[Last(chain[q][l])]
  BY EntriesAreOps
<1>. QED BY <1>1 DEF ChainFate

LEMMA TypeFrame ==
  ASSUME TypeOK, UNCHANGED << nops, chain, dels >>, JobType(job'), drs' \in DrsSet,
         plan' \in PlanSet, env' \in EnvSet, fate' \in FateSet, left' \in [n : Int, err : BOOLEAN],
         failed' \in BOOLEAN, phase' \in Phase,
         state' \in {"open", "committing", "between", "committed", "aborted"}
  PROVE  TypeOK'
BY DEF TypeOK, JobType, DrsSet, PlanSet, EnvSet, FateSet, Idle

\* EntryDone keeps the invariant when the counts are right once the entry is
\* counted.
LEMMA EntryDoneKeeps ==
  ASSUME KvsInv, state = "committing", UNCHANGED << nops, chain, dels >>,
         JobType(job'), drs' \in DrsSet, plan' \in PlanSet, env' \in EnvSet,
         NEW fs \in FateSet, OthersNotTold(fs), NEW count \in Int,
         NEW error \in BOOLEAN, NEW fails \in BOOLEAN,
         PhaseOK(phase, job', drs', plan', fs, left.n - count),
         plan'.count => DoneAlone(phase, job') # {} \/ DoneRanges(phase, drs') # {},
         EntryDone(fs, count, error, fails)
  PROVE  KvsInv'
<1>. DEFINE next == {p \in Phase : p > phase /\ HasWork(p)}
<1>0. TypeOK /\ IdsUnique /\ RangesDisjoint /\ phase \in Phase /\ left.n - count \in Int
  BY DEF KvsInv, TypeOK
<1>1. failed' = fails /\ left' = [n |-> left.n - count, err |-> left.err \/ error]
  BY DEF EntryDone
<1>2. left' \in [n : Int, err : BOOLEAN] /\ left'.n = left.n - count BY <1>0, <1>1
<1>3. CASE left.n - count # 0
  <2>1. fate' = fs /\ state' = state /\ phase' = phase BY <1>3 DEF EntryDone
  <2>2. TypeOK' BY <1>0, <1>1, <1>2, <2>1, TypeFrame
  <2>3. IdsUnique' /\ RangesDisjoint' /\ OthersNotTold(fate)' BY <1>0, <2>1, StructureFrame
  <2>4. PhaseOK(phase, job, drs, plan, fate, left.n)' BY <1>2, <2>1, PhaseFrame
  <2>. QED BY <1>2, <1>3, <2>1, <2>2, <2>3, <2>4 DEF KvsInv
<1>4. CASE left.n - count = 0
  <2>1. /\ plan' = NoPlan
        /\ \A k \in Key : job'[k].st \in {"idle", "done"}
        /\ \A r \in KeyRange : drs'[r].st # "delete"
        /\ \A q \in Phase, k \in Key : q <= phase => ChainFate(fs, q, k, TRUE)
        /\ \A q \in Phase, k \in Key : q > phase =>
              ChainFate(fs, q, k, FALSE) /\ \A o \in ToSet(chain[q][k]) : ~fs[o].error
    BY <1>0, <1>4, PhaseEnds
  <2>2. Quiet' BY <2>1 DEF Quiet, NoPlan
  <2>3. \A f, q, k, e : ChainFate(f, q, k, e)' = ChainFate(f, q, k, e) BY DEF ChainFate
  <2>4. CASE fails
    <3>. DEFINE gs == Abandoned(fs, phase + 1)
    <3>1. state' = "aborted" /\ phase' = phase /\ fate' = gs BY <1>4, <2>4 DEF EntryDone
    <3>2. /\ gs \in FateSet /\ OthersNotTold(gs)
          /\ \A q \in Phase, l \in Key : \A o \in ToSet(chain[q][l]) :
                /\ q >= phase + 1 => gs[o].told = fs[o].told + 1 /\ (gs[o].error <=> fs[o].error)
                /\ q < phase + 1 => gs[o] = fs[o]
      <4>1. phase + 1 \in Nat BY <1>0, ConstantsAssumption DEF Phase
      <4>. QED BY <1>0, <4>1, AbandonedFacts
    <3>. HIDE DEF gs
    <3>3. ASSUME NEW q \in Phase, NEW k \in Key PROVE ChainFate(gs, q, k, TRUE)
      <4>1. CASE q <= phase
        <5>1. q < phase + 1 BY <1>0, <4>1, ConstantsAssumption DEF Phase
        <5>2. \A o \in ToSet(chain[q][k]) : gs[o] = fs[o] BY <3>2, <5>1
        <5>3. ChainFate(fs, q, k, TRUE) BY <2>1, <4>1
        <5>. QED BY <1>0, <5>2, <5>3, SameFate
      <4>2. CASE q > phase
        <5>1. q >= phase + 1 BY <1>0, <4>2, ConstantsAssumption DEF Phase
        <5>2. /\ ChainFate(fs, q, k, FALSE)
              /\ \A o \in ToSet(chain[q][k]) : /\ ~fs[o].error /\ gs[o].told = fs[o].told + 1
                                               /\ (gs[o].error <=> fs[o].error)
          BY <2>1, <3>2, <4>2, <5>1
        <5>3. \A o \in ToSet(chain[q][k]) : Last(chain[q][k]) \in ToSet(chain[q][k])
          BY <1>0, EntriesAreOps
        <5>4. ASSUME NEW o \in ToSet(chain[q][k])
              PROVE  (gs[o].error <=> gs[Last(chain[q][k])].error) /\ gs[o].told = 1
          <6>1. fs[o].told = 0 /\ (fs[o].error <=> fs[Last(chain[q][k])].error)
            BY <5>2 DEF ChainFate
          <6>. QED BY <5>2, <5>3, <6>1
        <5>. QED BY <5>4 DEF ChainFate
      <4>3. q <= phase \/ q > phase BY <1>0, ConstantsAssumption DEF Phase
      <4>. QED BY <4>1, <4>2, <4>3
    <3>4. TypeOK' BY <1>0, <1>1, <1>2, <3>1, <3>2, TypeFrame
    <3>5. IdsUnique' /\ RangesDisjoint' /\ OthersNotTold(fate)'
      BY <1>0, <3>1, <3>2, StructureFrame
    <3>6. \A p \in Phase, k \in Key : ChainFate(fate, p, k, TRUE)' BY <2>3, <3>1, <3>3
    <3>. QED BY <2>2, <3>1, <3>4, <3>5, <3>6 DEF KvsInv
  <2>5. CASE ~fails /\ next = {}
    <3>1. state' = "committed" /\ phase' = phase /\ fate' = fs BY <1>4, <2>5 DEF EntryDone
    <3>2. ASSUME NEW q \in Phase, NEW k \in Key PROVE ChainFate(fs, q, k, TRUE)
      <4>1. CASE q <= phase BY <2>1, <4>1
      <4>2. CASE q > phase
        <5>1. chain[q][k] = << >> BY <2>5, <4>2 DEF HasWork, Touches
        <5>. QED BY <1>0, <5>1, EntriesAreOps DEF ChainFate
      <4>3. q <= phase \/ q > phase BY <1>0, ConstantsAssumption DEF Phase
      <4>. QED BY <4>1, <4>2, <4>3
    <3>3. TypeOK' BY <1>0, <1>1, <1>2, <3>1, TypeFrame
    <3>4. IdsUnique' /\ RangesDisjoint' /\ OthersNotTold(fate)' BY <1>0, <3>1, StructureFrame
    <3>5. \A p \in Phase, k \in Key : ChainFate(fate, p, k, TRUE)' BY <2>3, <3>1, <3>2
    <3>. QED BY <2>2, <3>1, <3>3, <3>4, <3>5 DEF KvsInv
  <2>6. CASE ~fails /\ next # {}
    <3>1. state' = "between" /\ phase' = Min(next) /\ fate' = fs BY <1>4, <2>6 DEF EntryDone
    <3>2. Min(next) \in next /\ \A p \in next : Min(next) <= p
      <4>1. next \in SUBSET Nat BY ConstantsAssumption DEF Phase
      <4>. QED BY <2>6, <4>1, MinIn
    <3>3. phase' \in Phase /\ phase' > phase /\ \A p \in next : phase' <= p BY <3>1, <3>2
    <3>4. ASSUME NEW q \in Phase, NEW k \in Key
          PROVE  /\ ChainFate(fs, q, k, q < phase')
                 /\ q >= phase' => \A o \in ToSet(chain[q][k]) : ~fs[o].error
      <4>1. CASE q <= phase
        <5>1. q < phase' /\ ~(q >= phase') BY <1>0, <3>3, <4>1, ConstantsAssumption DEF Phase
        <5>. QED BY <2>1, <4>1, <5>1 DEF ChainFate
      <4>2. CASE q > phase /\ q \notin next
        <5>1. chain[q][k] = << >> BY <4>2 DEF HasWork, Touches
        <5>. QED BY <1>0, <5>1, EntriesAreOps DEF ChainFate
      <4>3. CASE q > phase /\ q \in next
        <5>1. ~(q < phase') BY <3>3, <4>3, ConstantsAssumption DEF Phase
        <5>. QED BY <2>1, <4>3, <5>1 DEF ChainFate
      <4>. QED BY <1>0, <4>1, <4>2, <4>3, ConstantsAssumption DEF Phase
    <3>5. TypeOK' BY <1>0, <1>1, <1>2, <3>1, <3>3, TypeFrame
    <3>6. IdsUnique' /\ RangesDisjoint' /\ OthersNotTold(fate)' BY <1>0, <3>1, StructureFrame
    <3>7. \A p \in Phase, k \in Key :
             /\ ChainFate(fate, p, k, state = "between" /\ p < phase)'
             /\ p >= phase' => \A o \in ToSet(chain'[p][k]) : ~fate'[o].error
      BY <3>1, <3>4 DEF ChainFate
    <3>. QED BY <2>2, <3>1, <3>5, <3>6, <3>7 DEF KvsInv
  <2>. QED BY <2>4, <2>5, <2>6
<1>. QED BY <1>0, <1>3, <1>4

\* A step within a phase that does not count an entry of the phase.
LEMMA StepKeeps ==
  ASSUME KvsInv, state = "committing", UNCHANGED << nops, chain, dels, state, phase, left >>,
         JobType(job'), drs' \in DrsSet, plan' \in PlanSet, env' \in EnvSet, failed' \in BOOLEAN,
         fate' \in FateSet, OthersNotTold(fate'), plan'.count = plan.count,
         PhaseOK(phase, job', drs', plan', fate', left.n)
  PROVE  KvsInv'
<1>0. TypeOK /\ IdsUnique /\ RangesDisjoint /\ phase \in Phase /\ left \in [n : Int, err : BOOLEAN]
  BY DEF KvsInv, TypeOK
<1>1. TypeOK' BY <1>0, TypeFrame
<1>2. IdsUnique' /\ RangesDisjoint' /\ OthersNotTold(fate)' BY <1>0, StructureFrame
<1>3. PhaseOK(phase, job, drs, plan, fate, left.n)' BY PhaseFrame
<1>4. ~plan'.count => left'.n # 0 BY DEF KvsInv
<1>. QED BY <1>1, <1>2, <1>3, <1>4 DEF KvsInv

\* The writeback of the chain of k ends, and no other.
OnlyDone(k) ==
    /\ JobType(job') /\ job[k].st \notin {"idle", "done"} /\ job'[k].st = "done"
    /\ \A l \in Key \ {k} : job'[l].st = job[l].st

\* A chain that was started and is not done.
LEMMA RunningChain ==
  ASSUME KvsInv, state = "committing", NEW k \in Key, job[k].st \notin {"idle", "done"}
  PROVE  /\ k \in Chains(phase) /\ k \notin plan.keys
         /\ ChainFate(fate, phase, k, FALSE)
         /\ \A o \in ToSet(chain[phase][k]) : ~fate[o].error /\ fate[o].told = 0
<1>1. k \in Chains(phase) /\ k \notin plan.keys BY DEF KvsInv, PhaseOK, JobsOK
<1>2. ChainFate(fate, phase, k, Ended(phase, k, job, drs)) BY DEF KvsInv, PhaseOK, FatesOK
<1>3. \A o \in ToSet(chain[phase][k]) : ~fate[o].error BY DEF KvsInv, PhaseOK, FatesOK
<1>4. ~Ended(phase, k, job, drs)
  <2>1. CASE ~InRange(phase, k) BY <2>1 DEF Ended
  <2>2. ASSUME NEW r \in dels[phase], k \in KeysOf(r) PROVE drs[r].st # "done"
    <3>1. k \in Supersedes(phase, r) \ DoneIn(phase, r, job)
      BY <1>1, <2>2 DEF Supersedes, DoneIn, Chains
    <3>2. RangeOK(phase, r, job, drs, plan, fate) BY DEF KvsInv, PhaseOK, RangesOK
    <3>. QED BY <3>1, <3>2 DEF RangeOK
  <2>. QED BY <2>1, <2>2 DEF Ended
<1>. QED BY <1>1, <1>2, <1>3, <1>4 DEF ChainFate

\* A chain that no range supersedes is done.
LEMMA AloneDone ==
  ASSUME KvsInv, state = "committing", UNCHANGED << nops, chain, dels, plan, drs >>, env' \in EnvSet,
         NEW k \in Key, OnlyDone(k), ~Superseded(k), NEW error \in BOOLEAN, NEW fails \in BOOLEAN,
         NEW fs \in FateSet, OthersNotTold(fs), ChainFate(fs, phase, k, TRUE),
         \A q \in Phase, l \in Key : q # phase \/ l # k =>
            \A o \in ToSet(chain[q][l]) : fs[o] = fate[o],
         EntryDone(fs, 1, error, fails)
  PROVE  KvsInv'
<1>0. /\ TypeOK /\ phase \in Phase /\ left.n \in Int /\ plan \in PlanSet /\ drs \in DrsSet
      /\ PhaseOK(phase, job, drs, plan, fate, left.n) /\ ~InRange(phase, k)
  BY DEF KvsInv, TypeOK, PlanSet, DrsSet, Superseded
<1>1. k \in Chains(phase) /\ k \notin plan.keys BY RunningChain DEF OnlyDone
<1>2. k \in Alone(phase) BY <1>0, <1>1 DEF Alone
<1>3. DoneAlone(phase, job') = DoneAlone(phase, job) \cup {k} /\ k \notin DoneAlone(phase, job)
  <2>1. Alone(phase) \subseteq Key BY DEF Alone, Chains
  <2>2. \A l \in Alone(phase) : job'[l].st = "done" <=> l = k \/ job[l].st = "done"
    BY <2>1 DEF OnlyDone
  <2>. QED BY <1>2, <2>2 DEF DoneAlone, OnlyDone
<1>4. LeftIs(phase, job', drs', plan', left.n - 1)
  <2>1. Cardinality(DoneAlone(phase, job')) = Cardinality(DoneAlone(phase, job)) + 1
    BY <1>0, <1>3, CountsFinite, FS_AddElement
  <2>2. left.n = Total(phase, plan) - Cardinality(DoneAlone(phase, job))
                 - Cardinality(DoneRanges(phase, drs))
    BY <1>0 DEF PhaseOK, LeftIs
  <2>3. Total(phase, plan) \in Nat BY <1>0, CountsFinite DEF Total
  <2>. QED BY <1>0, <2>1, <2>2, <2>3, CountsFinite DEF LeftIs
<1>5. JobsOK(phase, job', plan') BY <1>0, <1>1 DEF PhaseOK, JobsOK, OnlyDone
<1>6. RangesOK(phase, job', drs', plan', fs)
  <2>1. ASSUME NEW r \in dels[phase] PROVE RangeOK(phase, r, job', drs', plan', fs)
    <3>1. Supersedes(phase, r) \subseteq Key \ {k}
      BY <1>0, SupersededFinite, CountsFinite DEF InRange, Supersedes
    <3>2. DoneIn(phase, r, job') = DoneIn(phase, r, job) BY <3>1 DEF DoneIn, OnlyDone
    <3>3. \A l \in DoneIn(phase, r, job) : fs[Last(chain[phase][l])] = fate[Last(chain[phase][l])]
      BY <1>0, <3>1, LastInChain DEF DoneIn, Supersedes
    <3>4. RangeOK(phase, r, job, drs, plan, fate) BY <1>0 DEF PhaseOK, RangesOK
    <3>. QED BY <3>2, <3>3, <3>4 DEF RangeOK, SumOf
  <2>2. \A r \in KeyRange \ dels[phase] : drs'[r].st = "idle" BY <1>0 DEF PhaseOK, RangesOK
  <2>. QED BY <2>1, <2>2 DEF RangesOK
<1>7. FatesOK(phase, job', drs', fs)
  <2>0. FatesOK(phase, job, drs, fate) BY <1>0 DEF PhaseOK
  <2>1. ASSUME NEW q \in Phase, NEW l \in Key
        PROVE  /\ q < phase => ChainFate(fs, q, l, TRUE)
               /\ q > phase => /\ ChainFate(fs, q, l, FALSE)
                               /\ \A o \in ToSet(chain[q][l]) : ~fs[o].error
    <3>1. q < phase \/ q > phase => q # phase BY <1>0, ConstantsAssumption DEF Phase
    <3>. QED BY <1>0, <2>0, <3>1, SameFate DEF FatesOK
  <2>2. ASSUME NEW l \in Key
        PROVE  /\ ChainFate(fs, phase, l, Ended(phase, l, job', drs'))
               /\ \A o \in ToSet(chain[phase][l]) : fs[o].error => job'[l].st = "done"
    <3>1. CASE l = k
      <4>1. Ended(phase, k, job', drs') BY <1>0 DEF Ended, OnlyDone
      <4>. QED BY <3>1, <4>1 DEF ChainFate, OnlyDone
    <3>2. CASE l # k
      <4>1. Ended(phase, l, job', drs') <=> Ended(phase, l, job, drs)
        BY <3>2 DEF Ended, OnlyDone
      <4>2. ChainFate(fs, phase, l, Ended(phase, l, job, drs))
        BY <1>0, <2>0, <3>2, SameFate DEF FatesOK
      <4>3. \A o \in ToSet(chain[phase][l]) : fs[o].error => job[l].st = "done"
        BY <1>0, <2>0, <3>2 DEF FatesOK
      <4>. QED BY <3>2, <4>1, <4>2, <4>3 DEF ChainFate, OnlyDone
    <3>. QED BY <3>1, <3>2
  <2>. QED BY <2>1, <2>2 DEF FatesOK
<1>8. PhaseOK(phase, job', drs', plan', fs, left.n - 1) BY <1>4, <1>5, <1>6, <1>7 DEF PhaseOK
<1>9. DoneAlone(phase, job') # {} /\ JobType(job') /\ drs' \in DrsSet /\ plan' \in PlanSet
  BY <1>0, <1>3 DEF OnlyDone
<1>. QED BY <1>8, <1>9, EntryDoneKeeps

\* The chains that two ranges of a phase supersede are not the same.
LEMMA RangeOfKey ==
  ASSUME KvsInv, NEW r \in dels[phase], NEW k \in KeysOf(r)
  PROVE  /\ InRange(phase, k) /\ RangeOf(k) = r
         /\ \A s \in dels[phase] : k \in KeysOf(s) => s = r
<1>1. \A s \in dels[phase] : s = r \/ ~Meets(r, s) BY DEF KvsInv, RangesDisjoint, TypeOK
<1>2. \A s \in dels[phase] : k \in KeysOf(s) => s = r BY <1>1 DEF Meets
<1>. QED BY <1>2 DEF InRange, RangeOf

\* What HandleDeleteRangeDone tells the sources of the chains.
LEMMA RangeFates ==
  ASSUME TypeOK, IdsUnique, NEW fs \in FateSet, OthersNotTold(fs), NEW ks \in SUBSET Key,
         NEW error \in BOOLEAN, NEW sources, NEW orig, NEW gs,
         gs = IF error THEN Failed(fs, ks) ELSE Reported(sources, fs, ks, orig)
  PROVE  /\ gs \in FateSet /\ OthersNotTold(gs)
         /\ SameElsewhere(gs, fs, phase, ks)
         /\ error => ToldFailed(gs, fs, phase, ks)
         /\ ~error => ToldSuccess(gs, fs, phase, ks)
<1>1. CASE error BY <1>1, FailedFacts
<1>2. CASE ~error BY <1>2, ReportedFacts
<1>. QED BY <1>1, <1>2

\* A range is done: all its chains were, and their sources are told.
LEMMA RangeDoneKeeps ==
  ASSUME KvsInv, state = "committing", UNCHANGED << nops, chain, dels >>, env' \in EnvSet,
         JobType(job'), plan' \in PlanSet, plan'.count = plan.count,
         NEW r \in dels[phase], NEW new \in [st : {"done"}, n : {0}, err : BOOLEAN],
         drs[r].st # "done", drs' = [drs EXCEPT ![r] = new],
         NEW fs \in FateSet, OthersNotTold(fs), NEW error \in BOOLEAN, NEW fails \in BOOLEAN,
         JobsOK(phase, job', plan'), DoneAlone(phase, job') = DoneAlone(phase, job),
         r \notin plan'.ranges, DoneIn(phase, r, job') = Supersedes(phase, r),
         \A s \in dels[phase] \ {r} : RangeOK(phase, s, job', drs, plan', fs),
         FatesOK(phase, job', drs, fs),
         ~error => \A k \in Supersedes(phase, r) : ~fs[Last(chain[phase][k])].error,
         RangeDone(fs, r, error, fails)
  PROVE  KvsInv'
<1>0. /\ TypeOK /\ IdsUnique /\ phase \in Phase /\ left.n \in Int /\ drs \in DrsSet /\ r \in KeyRange
      /\ PhaseOK(phase, job, drs, plan, fate, left.n) /\ dels[phase] \subseteq KeyRange
  BY DEF KvsInv, TypeOK, DrsSet
<1>1. ChainsIn(r) = Supersedes(phase, r) /\ Supersedes(phase, r) \in SUBSET Key
  BY <1>0, SupersededFinite DEF ChainsIn, Supersedes
<1>2. PICK gs : /\ gs = IF error THEN Failed(fs, ChainsIn(r))
                        ELSE Reported(ops, fs, ChainsIn(r), Unknown)
                /\ EntryDone(gs, 1, error, fails)
  BY DEF RangeDone
<1>3. /\ gs \in FateSet /\ OthersNotTold(gs)
      /\ SameElsewhere(gs, fs, phase, Supersedes(phase, r))
      /\ error => ToldFailed(gs, fs, phase, Supersedes(phase, r))
      /\ ~error => ToldSuccess(gs, fs, phase, Supersedes(phase, r))
  BY <1>0, <1>1, <1>2, RangeFates
<1>4. drs' \in DrsSet /\ drs'[r].st = "done" /\ drs'[r].n = 0 /\ \A s \in KeyRange \ {r} : drs'[s] = drs[s]
  BY <1>0 DEF DrsSet
<1>5. ASSUME NEW k \in Supersedes(phase, r) PROVE ChainFate(gs, phase, k, TRUE)
  <2>1. k \in Key /\ k \in KeysOf(r) BY <1>1 DEF Supersedes
  <2>2. ~Ended(phase, k, job', drs) BY <2>1, RangeOfKey DEF Ended
  <2>3. ChainFate(fs, phase, k, FALSE) BY <2>1, <2>2 DEF FatesOK, ChainFate
  <2>4. \A o \in ToSet(chain[phase][k]) : Last(chain[phase][k]) \in ToSet(chain[phase][k])
    BY <1>0, <2>1, EntriesAreOps
  <2>5. \A o \in ToSet(chain[phase][k]) : /\ (fs[o].error <=> fs[Last(chain[phase][k])].error)
                                          /\ fs[o].told = IF fs[o].error THEN 1 ELSE 0
    BY <2>3 DEF ChainFate
  <2>6. CASE error
    <3>1. \A o \in ToSet(chain[phase][k]) :
             /\ fs[Last(chain[phase][k])].error => gs[o] = fs[o]
             /\ ~fs[Last(chain[phase][k])].error => gs[o].told = fs[o].told + 1 /\ gs[o].error
      BY <1>3, <2>6 DEF ToldFailed
    <3>2. CASE fs[Last(chain[phase][k])].error
      <4>1. \A o \in ToSet(chain[phase][k]) : gs[o] = fs[o] BY <3>1, <3>2
      <4>. QED BY <2>4, <2>5, <3>2, <4>1 DEF ChainFate
    <3>3. CASE ~fs[Last(chain[phase][k])].error
      <4>1. \A o \in ToSet(chain[phase][k]) : gs[o].told = fs[o].told + 1 /\ gs[o].error
        BY <3>1, <3>3
      <4>2. \A o \in ToSet(chain[phase][k]) : gs[o].error = TRUE
        <5>1. \A o \in ToSet(chain[phase][k]) : gs[o].error \in BOOLEAN
          BY <1>0, <1>3, <2>1, EntriesAreOps DEF FateSet
        <5>. QED BY <4>1, <5>1
      <4>3. \A o \in ToSet(chain[phase][k]) : gs[o].told = 1 BY <2>5, <3>3, <4>1
      <4>. QED BY <2>4, <4>2, <4>3 DEF ChainFate
    <3>. QED BY <3>2, <3>3
  <2>7. CASE ~error
    <3>1. \A o \in ToSet(chain[phase][k]) : gs[o].told = fs[o].told + 1 /\ (gs[o].error <=> fs[o].error)
      BY <1>3, <2>7 DEF ToldSuccess
    <3>2. ~fs[Last(chain[phase][k])].error BY <2>7
    <3>. QED BY <2>4, <2>5, <3>1, <3>2 DEF ChainFate
  <2>. QED BY <2>6, <2>7
<1>6. DoneRanges(phase, drs') = DoneRanges(phase, drs) \cup {r} /\ r \notin DoneRanges(phase, drs)
  BY <1>0, <1>4 DEF DoneRanges
<1>7. LeftIs(phase, job', drs', plan', left.n - 1)
  <2>1. Cardinality(DoneRanges(phase, drs')) = Cardinality(DoneRanges(phase, drs)) + 1
    BY <1>0, <1>6, CountsFinite, FS_AddElement
  <2>2. left.n = Total(phase, plan) - Cardinality(DoneAlone(phase, job))
                 - Cardinality(DoneRanges(phase, drs))
    BY <1>0 DEF PhaseOK, LeftIs
  <2>3. Total(phase, plan) \in Nat /\ Total(phase, plan') = Total(phase, plan)
    BY <1>0, CountsFinite DEF Total
  <2>. QED BY <1>0, <2>1, <2>2, <2>3, CountsFinite DEF LeftIs
<1>8. RangesOK(phase, job', drs', plan', gs)
  <2>1. ASSUME NEW s \in dels[phase], s # r PROVE RangeOK(phase, s, job', drs', plan', gs)
    <3>1. ASSUME NEW l \in DoneIn(phase, s, job')
          PROVE  gs[Last(chain[phase][l])] = fs[Last(chain[phase][l])]
      <4>1. l \in Key /\ l \in KeysOf(s) /\ chain[phase][l] # << >>
        BY <1>0, KeysOfRange DEF DoneIn, Supersedes
      <4>2. l \notin KeysOf(r) BY <2>1, <4>1, RangeOfKey
      <4>. QED BY <1>0, <1>3, <4>1, <4>2, LastInChain DEF Supersedes, SameElsewhere
    <3>2. RangeOK(phase, s, job', drs, plan', fs) /\ drs'[s] = drs[s] BY <1>0, <1>4, <2>1
    <3>. QED BY <3>1, <3>2 DEF RangeOK
  <2>2. RangeOK(phase, r, job', drs', plan', gs)
    <3>1. SumOf(phase, r, plan') = Cardinality(DoneIn(phase, r, job')) BY DEF SumOf
    <3>2. Cardinality(DoneIn(phase, r, job')) \in Nat BY <1>0, SupersededFinite
    <3>. QED BY <1>4, <3>1, <3>2 DEF RangeOK
  <2>3. \A s \in KeyRange \ dels[phase] : drs'[s].st = "idle"
    BY <1>0, <1>4 DEF PhaseOK, RangesOK
  <2>. QED BY <2>1, <2>2, <2>3 DEF RangesOK
<1>9. FatesOK(phase, job', drs', gs)
  <2>1. ASSUME NEW q \in Phase, NEW l \in Key
        PROVE  /\ q < phase => ChainFate(gs, q, l, TRUE)
               /\ q > phase => /\ ChainFate(gs, q, l, FALSE)
                               /\ \A o \in ToSet(chain[q][l]) : ~gs[o].error
    <3>1. q < phase \/ q > phase => q # phase BY <1>0, ConstantsAssumption DEF Phase
    <3>2. q # phase => \A o \in ToSet(chain[q][l]) : gs[o] = fs[o] BY <1>3 DEF SameElsewhere
    <3>3. /\ q < phase => ChainFate(fs, q, l, TRUE)
          /\ q > phase => ChainFate(fs, q, l, FALSE) /\ \A o \in ToSet(chain[q][l]) : ~fs[o].error
      BY DEF FatesOK
    <3>4. q # phase => \A e : ChainFate(fs, q, l, e) => ChainFate(gs, q, l, e)
      BY <1>0, <3>2, SameFate
    <3>. QED BY <3>1, <3>2, <3>3, <3>4
  <2>2. ASSUME NEW l \in Key
        PROVE  /\ ChainFate(gs, phase, l, Ended(phase, l, job', drs'))
               /\ \A o \in ToSet(chain[phase][l]) : gs[o].error => job'[l].st = "done"
    <3>1. CASE l \in Supersedes(phase, r)
      <4>1. Ended(phase, l, job', drs') /\ job'[l].st = "done"
        BY <1>4, <3>1, RangeOfKey DEF Ended, Supersedes, DoneIn
      <4>. QED BY <1>5, <3>1, <4>1 DEF ChainFate
    <3>2. CASE chain[phase][l] = << >> BY <1>0, <3>2, EntriesAreOps DEF ChainFate
    <3>3. CASE l \notin Supersedes(phase, r) /\ chain[phase][l] # << >>
      <4>1. l \notin KeysOf(r) BY <3>3 DEF Supersedes
      <4>2. Ended(phase, l, job', drs') <=> Ended(phase, l, job', drs)
        BY <1>0, <1>4, <4>1 DEF Ended
      <4>0. \A o \in ToSet(chain[phase][l]) : gs[o] = fs[o]
        BY <1>0, <1>3, <3>3 DEF SameElsewhere
      <4>3. ChainFate(gs, phase, l, Ended(phase, l, job', drs))
        BY <1>0, <4>0, SameFate DEF FatesOK
      <4>4. \A o \in ToSet(chain[phase][l]) : gs[o].error => job'[l].st = "done"
        BY <4>0 DEF FatesOK
      <4>. QED BY <4>2, <4>3, <4>4 DEF ChainFate
    <3>. QED BY <3>1, <3>2, <3>3
  <2>. QED BY <2>1, <2>2 DEF FatesOK
<1>10. PhaseOK(phase, job', drs', plan', gs, left.n - 1) BY <1>7, <1>8, <1>9 DEF PhaseOK
<1>11. DoneRanges(phase, drs') # {} /\ drs' \in DrsSet BY <1>4, <1>6
<1>12. gs \in FateSet /\ OthersNotTold(gs) /\ EntryDone(gs, 1, error, fails) /\ 1 \in Int
  BY <1>2, <1>3
<1>. QED BY <1>10, <1>11, <1>12, EntryDoneKeeps, Zenon

\* DeletedEntryDone, once a chain of r or the loop that starts them is counted.
LEMMA DeletedEntryDoneKeeps ==
  ASSUME KvsInv, state = "committing", UNCHANGED << nops, chain, dels >>, env' \in EnvSet,
         JobType(job'), plan' \in PlanSet, plan'.count = plan.count,
         NEW r \in dels[phase], drs[r].st = "idle",
         NEW fs \in FateSet, OthersNotTold(fs), NEW count \in Int,
         NEW error \in BOOLEAN, NEW fails \in BOOLEAN,
         JobsOK(phase, job', plan'), DoneAlone(phase, job') = DoneAlone(phase, job),
         r \in plan'.ranges => DoneIn(phase, r, job') # {},
         drs[r].n - count = SumOf(phase, r, plan') - Cardinality(DoneIn(phase, r, job')),
         (drs[r].err \/ error) <=>
             \E k \in DoneIn(phase, r, job') : fs[Last(chain[phase][k])].error,
         \A s \in dels[phase] \ {r} : RangeOK(phase, s, job', drs, plan', fs),
         FatesOK(phase, job', drs, fs),
         DeletedEntryDone(fs, r, count, error, fails)
  PROVE  KvsInv'
<1>0. /\ TypeOK /\ phase \in Phase /\ left.n \in Int /\ drs \in DrsSet /\ r \in KeyRange
      /\ PhaseOK(phase, job, drs, plan, fate, left.n) /\ dels[phase] \subseteq KeyRange
  BY DEF KvsInv, TypeOK, DrsSet
<1>2. drs[r].n - count \in Int /\ (drs[r].err \/ error) \in BOOLEAN BY <1>0 DEF DrsSet
<1>3. /\ Supersedes(phase, r) \in SUBSET Key
      /\ Cardinality(Supersedes(phase, r)) \in Nat /\ IsFiniteSet(Supersedes(phase, r))
      /\ DoneIn(phase, r, job') \in SUBSET Supersedes(phase, r)
      /\ Cardinality(DoneIn(phase, r, job')) \in Nat /\ IsFiniteSet(DoneIn(phase, r, job'))
  BY <1>0, SupersededFinite
<1>4. \A s \in KeyRange \ dels[phase] : drs[s].st = "idle" BY <1>0 DEF PhaseOK, RangesOK
\* drs' is settled but for the state of r
<1>5. ASSUME NEW e \in [st : {"idle", "delete"}, n : {drs[r].n - count}, err : {drs[r].err \/ error}],
             drs' = [drs EXCEPT ![r] = e], UNCHANGED << left, state, phase >>,
             fate' = fs, failed' = fails, RangeOK(phase, r, job', drs', plan', fs)
      PROVE  KvsInv'
  <2>1. drs' \in DrsSet /\ drs'[r] = e /\ \A s \in KeyRange \ {r} : drs'[s] = drs[s]
    BY <1>0, <1>2, <1>5 DEF DrsSet
  <2>2. RangesOK(phase, job', drs', plan', fs)
    <3>1. ASSUME NEW s \in dels[phase], s # r PROVE RangeOK(phase, s, job', drs', plan', fs)
      <4>1. drs'[s] = drs[s] /\ RangeOK(phase, s, job', drs, plan', fs) BY <1>0, <2>1, <3>1
      <4>. QED BY <4>1 DEF RangeOK
    <3>2. \A s \in KeyRange \ dels[phase] : drs'[s].st = "idle" BY <1>4, <2>1
    <3>. QED BY <1>5, <3>1, <3>2 DEF RangesOK
  <2>3. \A s \in dels[phase] : drs'[s].st = "done" <=> drs[s].st = "done"
    <3>1. drs'[r].st # "done" BY <2>1
    <3>. QED BY <1>0, <2>1, <3>1
  <2>4. FatesOK(phase, job', drs', fs)
    <3>1. \A k \in Key : Ended(phase, k, job', drs') <=> Ended(phase, k, job', drs)
      BY <2>3 DEF Ended
    <3>2. \A k \in Key : ChainFate(fs, phase, k, Ended(phase, k, job', drs'))
      BY <3>1 DEF FatesOK, ChainFate
    <3>. QED BY <3>2 DEF FatesOK
  <2>5. LeftIs(phase, job', drs', plan', left.n)
    <3>1. DoneRanges(phase, drs') = DoneRanges(phase, drs) BY <2>3 DEF DoneRanges
    <3>2. LeftIs(phase, job, drs, plan, left.n) BY <1>0 DEF PhaseOK
    <3>. QED BY <3>1, <3>2 DEF LeftIs, Total
  <2>6. PhaseOK(phase, job', drs', plan', fate', left.n) BY <1>5, <2>2, <2>4, <2>5 DEF PhaseOK
  <2>7. fate' \in FateSet /\ OthersNotTold(fate') /\ failed' \in BOOLEAN BY <1>5
  <2>. QED BY <1>5, <2>1, <2>6, <2>7, StepKeeps, Zenon
<1>6. CASE drs[r].n - count # 0
  <2>. DEFINE e == [st |-> "idle", n |-> drs[r].n - count, err |-> drs[r].err \/ error]
  <2>1. /\ drs' = [drs EXCEPT ![r] = e] /\ fate' = fs /\ failed' = fails
        /\ UNCHANGED << left, state, phase >>
    BY <1>6 DEF DeletedEntryDone
  <2>2. drs'[r] = e BY <1>0, <2>1 DEF DrsSet
  <2>3. DoneIn(phase, r, job') = Supersedes(phase, r) => r \in plan'.ranges
    BY <1>3, <1>6 DEF SumOf
  <2>4. RangeOK(phase, r, job', drs', plan', fs)
    <3>1. drs'[r].st = "idle" /\ drs'[r].n = drs[r].n - count BY <2>2
    <3>2. drs'[r].err <=> drs[r].err \/ error
      <4>1. drs'[r].err = (drs[r].err \/ error) BY <2>2
      <4>. QED BY <4>1
    <3>. QED BY <2>3, <3>1, <3>2 DEF RangeOK
  <2>5. e \in [st : {"idle", "delete"}, n : {drs[r].n - count}, err : {drs[r].err \/ error}]
    OBVIOUS
  <2>. HIDE DEF e
  <2>. QED BY <1>5, <2>1, <2>4, <2>5
<1>7. CASE drs[r].n - count = 0
  <2>1. r \notin plan'.ranges
    <3>1. SUFFICES ASSUME r \in plan'.ranges PROVE FALSE OBVIOUS
    <3>2. Cardinality(DoneIn(phase, r, job')) = 0 BY <1>3, <1>7, <3>1 DEF SumOf
    <3>3. DoneIn(phase, r, job') = {} BY <1>3, <3>2, FS_EmptySet
    <3>. QED BY <3>1, <3>3
  <2>2. Cardinality(DoneIn(phase, r, job')) = Cardinality(Supersedes(phase, r))
    BY <1>3, <1>7, <2>1 DEF SumOf
  <2>3. DoneIn(phase, r, job') = Supersedes(phase, r) BY <1>3, <2>2, SameSize
  <2>4. CASE drs[r].err \/ error
    <3>. DEFINE e == [st |-> "done", n |-> 0, err |-> drs[r].err \/ error]
    <3>1. drs' = [drs EXCEPT ![r] = e] /\ RangeDone(fs, r, TRUE, fails)
      BY <1>7, <2>4 DEF DeletedEntryDone
    <3>3. e \in [st : {"done"}, n : {0}, err : BOOLEAN] BY <1>2
    <3>. HIDE DEF e
    <3>5. TRUE \in BOOLEAN /\ drs[r].st # "done" OBVIOUS
    <3>6. ~TRUE => \A k \in Supersedes(phase, r) : ~fs[Last(chain[phase][k])].error OBVIOUS
    <3>. QED BY <2>1, <2>3, <3>1, <3>3, <3>5, <3>6, RangeDoneKeeps, Zenon
  <2>5. CASE ~(drs[r].err \/ error)
    <3>. DEFINE e == [st |-> "delete", n |-> drs[r].n - count, err |-> drs[r].err \/ error]
    <3>1. /\ drs' = [drs EXCEPT ![r] = e] /\ fate' = fs /\ failed' = fails
          /\ UNCHANGED << left, state, phase >>
      BY <1>7, <2>5 DEF DeletedEntryDone
    <3>4. drs'[r] = e BY <1>0, <3>1 DEF DrsSet
    <3>5. RangeOK(phase, r, job', drs', plan', fs) BY <2>1, <2>3, <2>5, <3>4 DEF RangeOK
    <3>6. e \in [st : {"idle", "delete"}, n : {drs[r].n - count}, err : {drs[r].err \/ error}]
      OBVIOUS
    <3>. HIDE DEF e
    <3>. QED BY <1>5, <3>1, <3>5, <3>6
  <2>. QED BY <2>4, <2>5
<1>. QED BY <1>2, <1>6, <1>7

\* A chain that a range supersedes is done.
LEMMA SupersededDone ==
  ASSUME KvsInv, state = "committing", UNCHANGED << nops, chain, dels, plan >>, env' \in EnvSet,
         NEW k \in Key, OnlyDone(k), Superseded(k), NEW error \in BOOLEAN, NEW fails \in BOOLEAN,
         NEW fs \in FateSet, OthersNotTold(fs), ChainFate(fs, phase, k, FALSE),
         SameElsewhere(fs, fate, phase, {k}),
         \A o \in ToSet(chain[phase][k]) : fs[o].error <=> error,
         DeletedEntryDone(fs, RangeOf(k), 1, error, fails)
  PROVE  KvsInv'
<1>0. /\ TypeOK /\ phase \in Phase /\ left.n \in Int /\ drs \in DrsSet /\ plan \in PlanSet
      /\ PhaseOK(phase, job, drs, plan, fate, left.n) /\ dels[phase] \subseteq KeyRange
      /\ InRange(phase, k)
  BY DEF KvsInv, TypeOK, DrsSet, PlanSet, Superseded
<1>1. PICK r \in dels[phase] : k \in KeysOf(r) /\ r = RangeOf(k) BY <1>0, RangeOfKey DEF InRange
<1>2. \A s \in dels[phase] : k \in KeysOf(s) => s = r BY <1>1, RangeOfKey
<1>3. k \in Chains(phase) /\ k \notin plan.keys /\ k \notin Alone(phase)
  BY <1>0, RunningChain DEF OnlyDone, Alone
<1>4. k \in Supersedes(phase, r) /\ r \in KeyRange /\ Supersedes(phase, r) \subseteq Key
  BY <1>0, <1>1, <1>3, SupersededFinite DEF Supersedes, Chains
<1>5. RangeOK(phase, r, job, drs, plan, fate) BY <1>0 DEF PhaseOK, RangesOK
<1>6. DoneIn(phase, r, job') = DoneIn(phase, r, job) \cup {k} /\ k \notin DoneIn(phase, r, job)
  <2>1. \A l \in Supersedes(phase, r) : job'[l].st = "done" <=> l = k \/ job[l].st = "done"
    BY <1>4 DEF OnlyDone
  <2>. QED BY <1>4, <2>1 DEF DoneIn, OnlyDone
<1>7. drs[r].st = "idle" BY <1>0, <1>4, <1>5, <1>6 DEF RangeOK, DrsSet
<1>8. DoneAlone(phase, job') = DoneAlone(phase, job)
  <2>1. \A l \in Alone(phase) : job'[l].st = job[l].st BY <1>3 DEF OnlyDone, Alone, Chains
  <2>. QED BY <2>1 DEF DoneAlone
<1>9. JobsOK(phase, job', plan') BY <1>0, <1>3 DEF PhaseOK, JobsOK, OnlyDone
<1>10. drs[r].n - 1 = SumOf(phase, r, plan') - Cardinality(DoneIn(phase, r, job'))
  <2>1. Cardinality(DoneIn(phase, r, job')) = Cardinality(DoneIn(phase, r, job)) + 1
    BY <1>0, <1>4, <1>6, SupersededFinite, FS_AddElement
  <2>2. drs[r].n = SumOf(phase, r, plan) - Cardinality(DoneIn(phase, r, job))
    BY <1>5 DEF RangeOK
  <2>3. SumOf(phase, r, plan) \in Nat /\ Cardinality(DoneIn(phase, r, job)) \in Nat
    BY <1>0, <1>4, SupersededFinite DEF SumOf
  <2>. QED BY <2>1, <2>2, <2>3
<1>11. ASSUME NEW s \in dels[phase], NEW l \in Supersedes(phase, s), l # k
       PROVE  fs[Last(chain[phase][l])] = fate[Last(chain[phase][l])]
  <2>1. l \in Key /\ chain[phase][l] # << >> BY <1>0, KeysOfRange DEF Supersedes
  <2>2. \A o \in ToSet(chain[phase][l]) : fs[o] = fate[o] BY <1>0, <1>11, <2>1 DEF SameElsewhere
  <2>. QED BY <1>0, <2>1, <2>2, LastInChain
<1>12. (drs[r].err \/ error) <=>
          \E l \in DoneIn(phase, r, job') : fs[Last(chain[phase][l])].error
  <2>1. drs[r].err <=> \E l \in DoneIn(phase, r, job) : fate[Last(chain[phase][l])].error
    BY <1>5, <1>7 DEF RangeOK
  <2>2. \A l \in DoneIn(phase, r, job) :
           fs[Last(chain[phase][l])].error <=> fate[Last(chain[phase][l])].error
    BY <1>6, <1>11 DEF DoneIn
  <2>3. fs[Last(chain[phase][k])].error <=> error BY <1>0, <1>3, LastInChain DEF Chains
  <2>. QED BY <1>6, <2>1, <2>2, <2>3
<1>13. ASSUME NEW s \in dels[phase] \ {r} PROVE RangeOK(phase, s, job', drs, plan', fs)
  <2>1. Supersedes(phase, s) \subseteq Key \ {k} BY <1>0, <1>2, SupersededFinite DEF Supersedes
  <2>2. DoneIn(phase, s, job') = DoneIn(phase, s, job) BY <2>1 DEF DoneIn, OnlyDone
  <2>3. \A l \in DoneIn(phase, s, job) :
           fs[Last(chain[phase][l])].error <=> fate[Last(chain[phase][l])].error
    BY <1>11, <2>1 DEF DoneIn
  <2>4. RangeOK(phase, s, job, drs, plan, fate) BY <1>0 DEF PhaseOK, RangesOK
  <2>. QED BY <2>2, <2>3, <2>4 DEF RangeOK, SumOf
<1>14. FatesOK(phase, job', drs, fs)
  <2>0. FatesOK(phase, job, drs, fate) BY <1>0 DEF PhaseOK
  <2>1. ASSUME NEW q \in Phase, NEW l \in Key
        PROVE  /\ q < phase => ChainFate(fs, q, l, TRUE)
               /\ q > phase => /\ ChainFate(fs, q, l, FALSE)
                               /\ \A o \in ToSet(chain[q][l]) : ~fs[o].error
    <3>1. q < phase \/ q > phase => q # phase BY <1>0, ConstantsAssumption DEF Phase
    <3>2. q # phase => \A o \in ToSet(chain[q][l]) : fs[o] = fate[o] BY DEF SameElsewhere
    <3>3. /\ q < phase => ChainFate(fate, q, l, TRUE)
          /\ q > phase => ChainFate(fate, q, l, FALSE) /\ \A o \in ToSet(chain[q][l]) : ~fate[o].error
      BY <2>0 DEF FatesOK
    <3>4. q # phase => \A e : ChainFate(fate, q, l, e) => ChainFate(fs, q, l, e)
      BY <1>0, <3>2, SameFate
    <3>. QED BY <3>1, <3>2, <3>3, <3>4
  <2>2. ASSUME NEW l \in Key
        PROVE  /\ ChainFate(fs, phase, l, Ended(phase, l, job', drs))
               /\ \A o \in ToSet(chain[phase][l]) : fs[o].error => job'[l].st = "done"
    <3>1. CASE l = k
      <4>1. ~Ended(phase, k, job', drs) BY <1>0, <1>2, <1>7 DEF Ended
      <4>. QED BY <3>1, <4>1 DEF ChainFate, OnlyDone
    <3>2. CASE l # k
      <4>1. Ended(phase, l, job', drs) <=> Ended(phase, l, job, drs) BY <3>2 DEF Ended, OnlyDone
      <4>2. \A o \in ToSet(chain[phase][l]) : fs[o] = fate[o] BY <1>0, <3>2 DEF SameElsewhere
      <4>3. ChainFate(fs, phase, l, Ended(phase, l, job, drs))
        BY <1>0, <2>0, <4>2, SameFate DEF FatesOK
      <4>4. \A o \in ToSet(chain[phase][l]) : fs[o].error => job[l].st = "done"
        BY <2>0, <4>2 DEF FatesOK
      <4>. QED BY <3>2, <4>1, <4>3, <4>4 DEF ChainFate, OnlyDone
    <3>. QED BY <3>1, <3>2
  <2>. QED BY <2>1, <2>2 DEF FatesOK
<1>15. /\ JobType(job') /\ plan' \in PlanSet /\ plan'.count = plan.count /\ 1 \in Int
       /\ r \in plan'.ranges => DoneIn(phase, r, job') # {}
       /\ DeletedEntryDone(fs, r, 1, error, fails)
  BY <1>0, <1>1, <1>6 DEF OnlyDone
<1>. QED BY <1>7, <1>8, <1>9, <1>10, <1>12, <1>13, <1>14, <1>15, DeletedEntryDoneKeeps, Zenon

\* Controller::Success.
LEMMA SuccessKeeps ==
  ASSUME KvsInv, state = "committing", UNCHANGED << nops, chain, dels, plan >>, env' \in EnvSet,
         NEW k \in Key, OnlyDone(k), NEW sources, NEW orig, Success(sources, k, orig)
  PROVE  KvsInv'
<1>0. /\ TypeOK /\ IdsUnique /\ fate \in FateSet /\ OthersNotTold(fate) /\ failed \in BOOLEAN
      /\ phase \in Phase /\ FALSE \in BOOLEAN
  BY DEF KvsInv, TypeOK, FateSet
<1>1. /\ ChainFate(fate, phase, k, FALSE)
      /\ \A o \in ToSet(chain[phase][k]) : ~fate[o].error /\ fate[o].told = 0
  BY RunningChain DEF OnlyDone
<1>2. CASE Superseded(k)
  <2>1. DeletedEntryDone(fate, RangeOf(k), 1, FALSE, failed) BY <1>2 DEF Success
  <2>2. SameElsewhere(fate, fate, phase, {k}) /\ \A o \in ToSet(chain[phase][k]) : fate[o].error <=> FALSE
    BY <1>1 DEF SameElsewhere
  <2>. QED BY <1>0, <1>1, <1>2, <2>1, <2>2, SupersededDone, Zenon
<1>3. CASE ~Superseded(k)
  <2>1. PICK fs : /\ fs = Reported(sources, fate, {k}, orig) /\ EntryDone(fs, 1, FALSE, failed)
                  /\ UNCHANGED drs
    BY <1>3 DEF Success
  <2>2. /\ fs \in FateSet /\ OthersNotTold(fs)
        /\ ToldSuccess(fs, fate, phase, {k}) /\ SameElsewhere(fs, fate, phase, {k})
    BY <1>0, <2>1, ReportedFacts
  <2>3. ChainFate(fs, phase, k, TRUE)
    <3>1. \A o \in ToSet(chain[phase][k]) : fs[o].told = 1 /\ ~fs[o].error
      BY <1>1, <2>2 DEF ToldSuccess
    <3>2. \A o \in ToSet(chain[phase][k]) : Last(chain[phase][k]) \in ToSet(chain[phase][k])
      BY <1>0, EntriesAreOps
    <3>. QED BY <3>1, <3>2 DEF ChainFate
  <2>4. \A q \in Phase, l \in Key : q # phase \/ l # k =>
           \A o \in ToSet(chain[q][l]) : fs[o] = fate[o]
    BY <2>2 DEF SameElsewhere
  <2>. QED BY <1>0, <1>3, <2>1, <2>2, <2>3, <2>4, AloneDone
<1>. QED BY <1>2, <1>3

\* Controller::Error.
LEMMA ErrorKeeps ==
  ASSUME KvsInv, state = "committing", UNCHANGED << nops, chain, dels, plan >>, env' \in EnvSet,
         NEW k \in Key, OnlyDone(k), Error(k)
  PROVE  KvsInv'
<1>. DEFINE fs == Failed(fate, {k})
<1>0. /\ TypeOK /\ IdsUnique /\ fate \in FateSet /\ OthersNotTold(fate)
      /\ phase \in Phase /\ TRUE \in BOOLEAN
  BY DEF KvsInv, TypeOK, FateSet
<1>1. \A o \in ToSet(chain[phase][k]) : /\ ~fate[o].error /\ fate[o].told = 0
                                        /\ Last(chain[phase][k]) \in ToSet(chain[phase][k])
  BY <1>0, RunningChain, EntriesAreOps DEF OnlyDone
<1>2. /\ fs \in FateSet /\ OthersNotTold(fs)
      /\ ToldFailed(fs, fate, phase, {k}) /\ SameElsewhere(fs, fate, phase, {k})
  BY <1>0, FailedFacts
<1>3. \A o \in ToSet(chain[phase][k]) : fs[o].told = 1 /\ fs[o].error
  <2>. HIDE DEF fs
  <2>. QED BY <1>1, <1>2 DEF ToldFailed
<1>4. ChainFate(fs, phase, k, TRUE) /\ ChainFate(fs, phase, k, FALSE)
  <2>. HIDE DEF fs
  <2>. QED BY <1>1, <1>3 DEF ChainFate
<1>5. CASE Superseded(k)
  <2>1. DeletedEntryDone(fs, RangeOf(k), 1, TRUE, TRUE) BY <1>5 DEF Error
  <2>2. \A o \in ToSet(chain[phase][k]) : fs[o].error <=> TRUE BY <1>3
  <2>. HIDE DEF fs
  <2>. QED BY <1>0, <1>2, <1>4, <1>5, <2>1, <2>2, SupersededDone, Zenon
<1>6. CASE ~Superseded(k)
  <2>1. EntryDone(fs, 1, TRUE, TRUE) /\ UNCHANGED drs BY <1>6 DEF Error
  <2>. HIDE DEF fs
  <2>2. \A q \in Phase, l \in Key : q # phase \/ l # k =>
           \A o \in ToSet(chain[q][l]) : fs[o] = fate[o]
    BY <1>2 DEF SameElsewhere
  <2>. QED BY <1>0, <1>2, <1>4, <1>6, <2>1, <2>2, AloneDone
<1>. QED BY <1>5, <1>6

-----------------------------------------------------------------------------
(* The steps of a writeback.                                               *)

\* One chain's writeback moves on.
LEMMA JobMoves ==
  ASSUME TypeOK, NEW k \in Key, NEW new, job' = [job EXCEPT ![k] = new], DOMAIN new = DOMAIN Idle,
         new.st \in {"idle", "ask", "write", "verify", "done"}
  PROVE  JobType(job') /\ job'[k].st = new.st /\ \A l \in Key \ {k} : job'[l].st = job[l].st
BY DEF TypeOK, JobType

LEMMA IdleFields ==
  /\ DOMAIN Idle = {"st", "at", "mode", "bound", "attempt", "res"}
  /\ Idle.st = "idle"
BY DEF Idle

\* A step that no count and no source can tell from a stuttering step.
LEMMA JobsSame ==
  ASSUME KvsInv, state = "committing", JobType(job'), env' \in EnvSet,
         \A l \in Key : /\ job'[l].st = "idle" <=> job[l].st = "idle"
                        /\ job'[l].st = "done" <=> job[l].st = "done",
         UNCHANGED << nops, chain, dels, state, phase, left, drs, plan, fate, failed >>
  PROVE  KvsInv'
<1>0. TypeOK /\ OthersNotTold(fate) /\ PhaseOK(phase, job, drs, plan, fate, left.n)
  BY DEF KvsInv
<1>1. /\ drs' \in DrsSet /\ plan' \in PlanSet /\ failed' \in BOOLEAN /\ fate' \in FateSet
      /\ phase \in Phase
  BY <1>0 DEF TypeOK, DrsSet, PlanSet, FateSet
<1>2. /\ DoneAlone(phase, job') = DoneAlone(phase, job)
      /\ \A r \in dels[phase] : DoneIn(phase, r, job') = DoneIn(phase, r, job)
  <2>1. Alone(phase) \subseteq Key /\ \A r \in dels[phase] : Supersedes(phase, r) \subseteq Key
    <3>1. dels[phase] \subseteq KeyRange BY <1>0, <1>1, CountsFinite
    <3>. QED BY <1>0, <1>1, <3>1, CountsFinite, SupersededFinite
  <2>2. DoneAlone(phase, job') = DoneAlone(phase, job) BY <2>1 DEF DoneAlone
  <2>3. ASSUME NEW r \in dels[phase] PROVE DoneIn(phase, r, job') = DoneIn(phase, r, job)
    BY <2>1 DEF DoneIn
  <2>. QED BY <2>2, <2>3
<1>3. JobsOK(phase, job', plan) BY <1>0 DEF PhaseOK, JobsOK
<1>4. LeftIs(phase, job', drs, plan, left.n) BY <1>0, <1>2 DEF PhaseOK, LeftIs
<1>5. RangesOK(phase, job', drs, plan, fate) BY <1>0, <1>2 DEF PhaseOK, RangesOK, RangeOK
<1>6. FatesOK(phase, job', drs, fate)
  <2>1. \A k \in Key : Ended(phase, k, job', drs) <=> Ended(phase, k, job, drs) BY DEF Ended
  <2>. QED BY <1>0, <2>1 DEF PhaseOK, FatesOK, ChainFate
<1>7. PhaseOK(phase, job', drs', plan', fate', left.n) BY <1>3, <1>4, <1>5, <1>6 DEF PhaseOK
<1>. QED BY <1>0, <1>1, <1>7, StepKeeps

\* The entries of the transaction are what they were.
LEMMA NothingMoves ==
  ASSUME KvsInv, env' \in EnvSet, failed' \in BOOLEAN,
         UNCHANGED << nops, chain, dels, state, phase, left, drs, plan, fate, job >>
  PROVE  KvsInv'
<1>1. TypeOK' BY DEF KvsInv, TypeOK, EnvSet
<1>2. IdsUnique' /\ RangesDisjoint' /\ OthersNotTold(fate)' BY StructureFrame DEF KvsInv
<1>3. Quiet => Quiet' BY DEF Quiet
<1>4. \A p, k, e : ChainFate(fate, p, k, e)' <=> ChainFate(fate, p, k, e) BY DEF ChainFate
<1>5. state = "committing" => PhaseOK(phase, job, drs, plan, fate, left.n)'
  BY PhaseFrame, Zenon DEF KvsInv
<1>. QED BY <1>1, <1>2, <1>3, <1>4, <1>5 DEF KvsInv

LEMMA ExternalKeeps ==
  ASSUME KvsInv, NEW k \in Key, External(k)
  PROVE  KvsInv'
<1>1. env \in EnvSet /\ failed \in BOOLEAN BY DEF KvsInv, TypeOK, EnvSet
<1>2. env.external > 0 /\ env' = [env EXCEPT !.external = @ - 1] /\ failed' = failed
  BY DEF External
<1>3. env' \in EnvSet BY <1>1, <1>2 DEF EnvSet
<1>. QED BY <1>1, <1>2, <1>3, NothingMoves DEF External

\* StartEntry: the chain is no longer to be started.
LEMMA StartEntryKeeps ==
  ASSUME KvsInv, NEW k \in Key, StartEntry(k)
  PROVE  KvsInv'
<1>0. TypeOK /\ OthersNotTold(fate) /\ state = "committing" /\ phase \in Phase
  BY DEF KvsInv, StartEntry, Committing, TypeOK
<1>1. PhaseOK(phase, job, drs, plan, fate, left.n) BY <1>0 DEF KvsInv
<1>2. /\ drs' \in DrsSet /\ plan' \in PlanSet /\ failed' \in BOOLEAN /\ fate' \in FateSet
      /\ env' \in EnvSet /\ plan'.keys = plan.keys \ {k} /\ plan'.ranges = plan.ranges
      /\ plan'.count = plan.count
  BY <1>0 DEF TypeOK, DrsSet, PlanSet, FateSet, StartEntry, EnvSet
<1>3. /\ JobType(job') /\ job'[k].st = "ask" /\ \A l \in Key \ {k} : job'[l].st = job[l].st
  <2>. DEFINE new == Asked(k, 1, Past)
  <2>1. DOMAIN new = DOMAIN Idle /\ new.st = "ask" BY IdleFields DEF Asked
  <2>2. job' = [job EXCEPT ![k] = new] BY DEF StartEntry
  <2>. HIDE DEF new
  <2>3. new.st \in {"idle", "ask", "write", "verify", "done"} BY <2>1
  <2>4. JobType(job') /\ job'[k].st = new.st /\ \A l \in Key \ {k} : job'[l].st = job[l].st
    BY <1>0, <2>1, <2>2, <2>3, JobMoves, Zenon
  <2>. QED BY <2>1, <2>4
<1>4. job[k].st = "idle" /\ k \in plan.keys BY <1>1 DEF PhaseOK, JobsOK, StartEntry
<1>5. \A l \in Key : job'[l].st = "done" <=> job[l].st = "done" BY <1>3, <1>4
<1>6. /\ DoneAlone(phase, job') = DoneAlone(phase, job)
      /\ \A r \in dels[phase] : DoneIn(phase, r, job') = DoneIn(phase, r, job)
  <2>0. dels[phase] \subseteq KeyRange BY <1>0, CountsFinite
  <2>1. Alone(phase) \subseteq Key /\ \A r \in dels[phase] : Supersedes(phase, r) \subseteq Key
    BY <1>0, <2>0, CountsFinite, SupersededFinite
  <2>2. DoneAlone(phase, job') = DoneAlone(phase, job) BY <1>5, <2>1 DEF DoneAlone
  <2>3. ASSUME NEW r \in dels[phase] PROVE DoneIn(phase, r, job') = DoneIn(phase, r, job)
    BY <1>5, <2>1 DEF DoneIn
  <2>. QED BY <2>2, <2>3
<1>7. JobsOK(phase, job', plan') BY <1>1, <1>2, <1>3, <1>4 DEF PhaseOK, JobsOK
<1>8. LeftIs(phase, job', drs, plan', left.n) BY <1>1, <1>2, <1>6 DEF PhaseOK, LeftIs, Total
<1>9. RangesOK(phase, job', drs, plan', fate)
  BY <1>1, <1>2, <1>6 DEF PhaseOK, RangesOK, RangeOK, SumOf
<1>10. FatesOK(phase, job', drs, fate)
  <2>1. \A l \in Key : Ended(phase, l, job', drs) <=> Ended(phase, l, job, drs)
    BY <1>5 DEF Ended
  <2>. QED BY <1>1, <1>5, <2>1 DEF PhaseOK, FatesOK, ChainFate
<1>11. PhaseOK(phase, job', drs', plan', fate', left.n)
  BY <1>7, <1>8, <1>9, <1>10 DEF PhaseOK, StartEntry
<1>12. OthersNotTold(fate') BY <1>0 DEF StartEntry
<1>. QED BY <1>0, <1>2, <1>3, <1>11, <1>12, StepKeeps DEF StartEntry

\* StartRange: the count of the range now includes its chains.
LEMMA StartRangeKeeps ==
  ASSUME KvsInv, NEW r \in KeyRange, StartRange(r)
  PROVE  KvsInv'
<1>0. TypeOK /\ OthersNotTold(fate) /\ state = "committing" /\ phase \in Phase
  BY DEF KvsInv, StartRange, Committing, TypeOK
<1>1. PhaseOK(phase, job, drs, plan, fate, left.n) BY <1>0 DEF KvsInv
<1>2. /\ drs \in DrsSet /\ plan' \in PlanSet /\ failed \in BOOLEAN /\ fate \in FateSet
      /\ env' \in EnvSet /\ plan'.keys = plan.keys /\ plan'.ranges = plan.ranges \ {r}
      /\ plan'.count = plan.count /\ JobType(job') /\ job' = job
  BY <1>0 DEF TypeOK, DrsSet, PlanSet, FateSet, StartRange, EnvSet, JobType
<1>3. r \in plan.ranges /\ r \in dels[phase] BY <1>1 DEF PhaseOK, JobsOK, StartRange
<1>4. RangeOK(phase, r, job, drs, plan, fate) BY <1>1, <1>3 DEF PhaseOK, RangesOK
<1>5. Supersedes(phase, r) = ChainsIn(r) BY DEF Supersedes, ChainsIn
<1>. DEFINE c == -Cardinality(Supersedes(phase, r))
<1>6. /\ Cardinality(Supersedes(phase, r)) \in Nat /\ Cardinality(DoneIn(phase, r, job)) \in Nat
      /\ c \in Int
  BY <1>0, SupersededFinite
<1>7. drs[r].st = "idle" /\ drs[r].n = 0 - Cardinality(DoneIn(phase, r, job))
  BY <1>3, <1>4 DEF RangeOK, SumOf
<1>8. drs[r].n - c = SumOf(phase, r, plan') - Cardinality(DoneIn(phase, r, job'))
  BY <1>2, <1>6, <1>7 DEF SumOf
<1>9. (drs[r].err \/ FALSE) <=> \E k \in DoneIn(phase, r, job') : fate[Last(chain[phase][k])].error
  BY <1>2, <1>4, <1>7 DEF RangeOK
<1>10. \A s \in dels[phase] \ {r} : RangeOK(phase, s, job', drs, plan', fate)
  BY <1>1, <1>2 DEF PhaseOK, RangesOK, RangeOK, SumOf
<1>11. JobsOK(phase, job', plan') /\ FatesOK(phase, job', drs, fate)
  BY <1>1, <1>2 DEF PhaseOK, JobsOK
<1>12. DeletedEntryDone(fate, r, c, FALSE, failed) BY <1>5 DEF StartRange, EntryCount
<1>13. DoneAlone(phase, job') = DoneAlone(phase, job) /\ r \notin plan'.ranges BY <1>2
<1>14. UNCHANGED << nops, chain, dels >> /\ FALSE \in BOOLEAN BY DEF StartRange
<1>. HIDE DEF c
<1>. QED
  BY <1>0, <1>2, <1>3, <1>6, <1>7, <1>8, <1>9, <1>10, <1>11, <1>12, <1>13, <1>14,
     DeletedEntryDoneKeeps, Zenon

\* AllStarted: the count of the phase now includes its entries.
LEMMA AllStartedKeeps ==
  ASSUME KvsInv, AllStarted
  PROVE  KvsInv'
<1>0. TypeOK /\ OthersNotTold(fate) /\ state = "committing" /\ phase \in Phase
  BY DEF KvsInv, AllStarted, Committing, TypeOK
<1>1. PhaseOK(phase, job, drs, plan, fate, left.n) BY <1>0 DEF KvsInv
<1>2. /\ plan.keys = {} /\ plan.ranges = {} /\ plan.count = TRUE
      /\ plan'.keys = {} /\ plan'.ranges = {} /\ plan'.count = FALSE
  BY DEF AllStarted, NoPlan
<1>3. /\ drs' \in DrsSet /\ plan' \in PlanSet /\ failed \in BOOLEAN /\ fate \in FateSet
      /\ env' \in EnvSet /\ JobType(job') /\ job' = job /\ drs' = drs
  BY <1>0 DEF TypeOK, DrsSet, PlanSet, FateSet, AllStarted, EnvSet, JobType, NoPlan
<1>. DEFINE c == -(Cardinality(Alone(phase)) + Cardinality(dels[phase]))
<1>4. /\ Cardinality(Alone(phase)) \in Nat /\ Cardinality(dels[phase]) \in Nat
      /\ Cardinality(DoneAlone(phase, job)) \in Nat /\ Cardinality(DoneRanges(phase, drs)) \in Nat
      /\ c \in Int
  BY <1>0, CountsFinite
<1>5. left.n = 0 - Cardinality(DoneAlone(phase, job)) - Cardinality(DoneRanges(phase, drs))
  BY <1>1, <1>2 DEF PhaseOK, LeftIs, Total
<1>6. LeftIs(phase, job', drs', plan', left.n - c) BY <1>2, <1>3, <1>4, <1>5 DEF LeftIs, Total
<1>7. JobsOK(phase, job', plan') /\ FatesOK(phase, job', drs', fate)
  BY <1>1, <1>2, <1>3 DEF PhaseOK, JobsOK
<1>8. RangesOK(phase, job', drs', plan', fate)
  BY <1>1, <1>2, <1>3 DEF PhaseOK, RangesOK, RangeOK, SumOf
<1>9. PhaseOK(phase, job', drs', plan', fate, left.n - c) BY <1>6, <1>7, <1>8 DEF PhaseOK
<1>10. EntryDone(fate, c, FALSE, failed) BY DEF AllStarted, EntryCount
<1>11. UNCHANGED << nops, chain, dels >> /\ FALSE \in BOOLEAN /\ ~plan'.count
  BY <1>2 DEF AllStarted
<1>. HIDE DEF c
<1>. QED BY <1>0, <1>3, <1>4, <1>9, <1>10, <1>11, EntryDoneKeeps, Zenon

\* Only the state of a chain's writeback matters here.
LEMMA JobEnds ==
  ASSUME TypeOK, NEW k \in Key, job[k].st \notin {"idle", "done"},
         NEW x, job' = [job EXCEPT ![k].st = "done"] \/ job' = [job EXCEPT ![k].st = "done", ![k].res = x]
  PROVE  OnlyDone(k)
<1>1. /\ DOMAIN job = Key /\ DOMAIN job[k] = DOMAIN Idle
      /\ "st" \in DOMAIN job[k] /\ "res" \in DOMAIN job[k]
  BY IdleFields DEF TypeOK
<1>. DEFINE a == [job[k] EXCEPT !.st = "done"]
            b == [job[k] EXCEPT !.st = "done", !.res = x]
<1>2. DOMAIN a = DOMAIN Idle /\ a.st = "done" /\ DOMAIN b = DOMAIN Idle /\ b.st = "done" BY <1>1
<1>3. job' = [job EXCEPT ![k] = a] \/ job' = [job EXCEPT ![k] = b] BY <1>1
<1>. HIDE DEF a, b
<1>4. PICK new \in {a, b} : job' = [job EXCEPT ![k] = new] BY <1>3
<1>5. DOMAIN new = DOMAIN Idle /\ new.st = "done" BY <1>2, <1>4
<1>6. new.st \in {"idle", "ask", "write", "verify", "done"} BY <1>5
<1>7. JobType(job') /\ job'[k].st = new.st /\ \A l \in Key \ {k} : job'[l].st = job[l].st
  BY <1>4, <1>5, <1>6, JobMoves, Zenon
<1>. QED BY <1>5, <1>7 DEF OnlyDone

\* A chain that goes from one wait to another.
LEMMA JobGoesOn ==
  ASSUME KvsInv, state = "committing", NEW k \in Key, job[k].st \notin {"idle", "done"},
         NEW new, job' = [job EXCEPT ![k] = new], DOMAIN new = DOMAIN Idle,
         new.st \in {"ask", "write", "verify"}, env' \in EnvSet,
         UNCHANGED << nops, chain, dels, state, phase, left, drs, plan, fate, failed >>
  PROVE  KvsInv'
<1>1. TypeOK BY DEF KvsInv
<1>2. new.st \in {"idle", "ask", "write", "verify", "done"} OBVIOUS
<1>3. JobType(job') /\ job'[k].st = new.st /\ \A l \in Key \ {k} : job'[l].st = job[l].st
  BY <1>1, <1>2, JobMoves, Zenon
<1>4. \A l \in Key : /\ job'[l].st = "idle" <=> job[l].st = "idle"
                     /\ job'[l].st = "done" <=> job[l].st = "done"
  BY <1>3
<1>. QED BY <1>3, <1>4, JobsSame, Zenon

LEMMA EnvUnchanged ==
  ASSUME KvsInv, env' = env
  PROVE  env' \in EnvSet
BY DEF KvsInv, TypeOK, EnvSet

LEMMA StoreFailsKeeps ==
  ASSUME KvsInv, NEW k \in Key, StoreFails(k)
  PROVE  KvsInv'
<1>0. TypeOK /\ state = "committing" /\ job[k].st \notin {"idle", "done"}
  BY DEF KvsInv, StoreFails, Committing
<1>1. env \in EnvSet /\ env.errors > 0 /\ env' = [env EXCEPT !.errors = @ - 1]
  BY <1>0 DEF TypeOK, EnvSet, StoreFails
<1>2. env' \in EnvSet BY <1>1 DEF EnvSet
<1>3. OnlyDone(k)
  <2>1. job' = [job EXCEPT ![k].st = "done"] BY DEF StoreFails
  <2>. QED BY <1>0, <2>1, JobEnds
<1>4. UNCHANGED << nops, chain, dels, plan >> /\ Error(k) BY DEF StoreFails
<1>. QED BY <1>0, <1>2, <1>3, <1>4, ErrorKeeps

\* Controller::Retry.
LEMMA RetryKeeps ==
  ASSUME KvsInv, state = "committing", NEW k \in Key, job[k].st \notin {"idle", "done"}, Retry(k),
         UNCHANGED << nops, chain, dels, plan, env >>
  PROVE  KvsInv'
<1>0. TypeOK /\ env' \in EnvSet BY EnvUnchanged DEF KvsInv
<1>1. CASE ops[Last(Entries(k))].nonRetryable
  <2>1. job' = [job EXCEPT ![k].st = "done"] /\ Error(k) BY <1>1 DEF Retry
  <2>2. OnlyDone(k) BY <1>0, <2>1, JobEnds
  <2>. QED BY <1>0, <2>1, <2>2, ErrorKeeps
<1>2. CASE ~ops[Last(Entries(k))].nonRetryable
  <2>. DEFINE new == Asked(k, job[k].attempt + 1, Now(k) + 1)
  <2>1. /\ job' = [job EXCEPT ![k] = new]
        /\ UNCHANGED << fate, drs, left, state, phase, failed >>
    BY <1>2 DEF Retry
  <2>2. DOMAIN new = DOMAIN Idle /\ new.st \in {"ask", "write", "verify"}
    BY IdleFields DEF Asked
  <2>. HIDE DEF new
  <2>. QED BY <1>0, <2>1, <2>2, JobGoesOn
<1>. QED BY <1>1, <1>2

LEMMA WriteStoreKeeps ==
  ASSUME KvsInv, NEW k \in Key, WriteStore(k)
  PROVE  KvsInv'
<1>0. /\ TypeOK /\ state = "committing" /\ job[k].st \notin {"idle", "done"}
      /\ env' \in EnvSet /\ UNCHANGED << nops, chain, dels, plan, env >>
  BY EnvUnchanged DEF KvsInv, WriteStore, Committing
<1>1. CASE IfEqual(k)
  <2>1. job' = [job EXCEPT ![k].st = "done"] /\ Success(ops, k, job[k].res.gen)
    BY <1>1 DEF WriteStore
  <2>2. OnlyDone(k) BY <1>0, <2>1, JobEnds
  <2>. QED BY <1>0, <2>1, <2>2, SuccessKeeps
<1>2. CASE ~IfEqual(k)
  <2>1. Retry(k) BY <1>2 DEF WriteStore
  <2>. QED BY <1>0, <2>1, RetryKeeps
<1>. QED BY <1>1, <1>2

LEMMA VerifyKeeps ==
  ASSUME KvsInv, NEW k \in Key, Verify(k)
  PROVE  KvsInv'
<1>0. /\ TypeOK /\ state = "committing" /\ job[k].st \notin {"idle", "done"}
      /\ env' \in EnvSet /\ UNCHANGED << nops, chain, dels, plan, env >>
  BY EnvUnchanged DEF KvsInv, Verify, Committing
<1>1. CASE job[k].res.gen.base = store[k].gen
  <2>1. job' = [job EXCEPT ![k].st = "done"] /\ Success(ops, k, job[k].res.gen)
    BY <1>1 DEF Verify
  <2>2. OnlyDone(k) BY <1>0, <2>1, JobEnds
  <2>. QED BY <1>0, <2>1, <2>2, SuccessKeeps
<1>2. CASE job[k].res.gen.base # store[k].gen
  <2>1. Retry(k) BY <1>2 DEF Verify
  <2>. QED BY <1>0, <2>1, RetryKeeps
<1>. QED BY <1>1, <1>2

\* PerformWriteback.
LEMMA PerformKeeps ==
  ASSUME KvsInv, state = "committing", NEW k \in Key, job[k].st \notin {"idle", "done"},
         NEW sources, NEW res, Perform(sources, k, res),
         UNCHANGED << nops, chain, dels, plan, env >>
  PROVE  KvsInv'
<1>0. TypeOK /\ env' \in EnvSet BY EnvUnchanged DEF KvsInv
<1>1. ASSUME NEW st \in {"write", "verify"}, job' = [job EXCEPT ![k].st = st, ![k].res = res],
             UNCHANGED << fate, drs, left, state, phase, failed >>
      PROVE  KvsInv'
  <2>1. /\ DOMAIN job = Key /\ DOMAIN job[k] = DOMAIN Idle
        /\ "st" \in DOMAIN job[k] /\ "res" \in DOMAIN job[k]
    BY <1>0, IdleFields DEF TypeOK
  <2>. DEFINE new == [job[k] EXCEPT !.st = st, !.res = res]
  <2>2. DOMAIN new = DOMAIN Idle /\ new.st \in {"ask", "write", "verify"} BY <2>1
  <2>3. job' = [job EXCEPT ![k] = new] BY <1>1, <2>1
  <2>. HIDE DEF new
  <2>. QED BY <1>0, <1>1, <2>2, <2>3, JobGoesOn
<1>2. CASE IsDirty(res.gen) BY <1>1, <1>2 DEF Perform
<1>3. CASE ~IsDirty(res.gen) /\ IsConditional(res.gen) /\ res.time <= CommitStart
  BY <1>1, <1>3 DEF Perform
<1>4. CASE ~IsDirty(res.gen) /\ ~(IsConditional(res.gen) /\ res.time <= CommitStart)
  <2>1. job' = [job EXCEPT ![k].st = "done", ![k].res = res] /\ Success(sources, k, res.gen)
    BY <1>4 DEF Perform
  <2>2. OnlyDone(k) BY <1>0, <2>1, JobEnds
  <2>. QED BY <1>0, <2>1, <2>2, SuccessKeeps
<1>. QED BY <1>2, <1>3, <1>4

\* The three ways in which a request to a source goes on.
AskFails(k) == job' = [job EXCEPT ![k].st = "done"] /\ Error(k)
AsksAnother(k) ==
    /\ \E at, res, mode : job' = [job EXCEPT ![k].at = at, ![k].res = res, ![k].mode = mode]
    /\ UNCHANGED << fate, drs, left, state, phase, failed >>
AskPerforms(k) == \E sources, res : Perform(sources, k, res)

LEMMA AskForms ==
  ASSUME NEW k, Ask(k)
  PROVE  AskFails(k) \/ AsksAnother(k) \/ AskPerforms(k)
<1>. DEFINE es == Entries(k)
            j == job[k]
            w == KvsWriteback(es, j.at, j.mode, j.bound, StoreRead(k, Now(k)))
            sources == [w.ops EXCEPT ![es[j.at]] = Common(@, w.res)]
            res == Combined(k, w.res)
            unmodified == res.st = "unspecified"
            more == IF sources[es[j.at]].uncond THEN Skipped(sources, es, j.at, unmodified) ELSE {}
<1>1. CASE w.err
  <2>1. AskFails(k) BY <1>1, Zenon DEF Ask, AskFails
  <2>. QED BY <2>1
<1>2. CASE ~w.err /\ more # {}
  <2>1. /\ job' = [job EXCEPT ![k].at = Max(more), ![k].res = res,
                              ![k].mode = IF unmodified THEN "normal" ELSE "validate"]
        /\ UNCHANGED << fate, drs, left, state, phase, failed >>
    BY <1>2, Zenon DEF Ask
  <2>2. AsksAnother(k) BY <2>1, Zenon DEF AsksAnother
  <2>. QED BY <2>2
<1>3. CASE ~w.err /\ more = {}
  <2>1. Perform(sources, k, IF Superseded(k) THEN [res EXCEPT !.st = "unspecified"] ELSE res)
    BY <1>3, Zenon DEF Ask
  <2>2. AskPerforms(k) BY <2>1, Zenon DEF AskPerforms
  <2>. QED BY <2>2
<1>. QED BY <1>1, <1>2, <1>3

LEMMA AskKeeps ==
  ASSUME KvsInv, NEW k \in Key, Ask(k)
  PROVE  KvsInv'
<1>0. /\ TypeOK /\ state = "committing" /\ job[k].st = "ask"
      /\ env' \in EnvSet /\ UNCHANGED << nops, chain, dels, plan, env >>
  <2>1. state = "committing" /\ job[k].st = "ask" /\ UNCHANGED << nops, chain, dels, plan, env >>
    BY Zenon DEF Ask, Committing
  <2>. QED BY <2>1, EnvUnchanged DEF KvsInv
<1>1. job[k].st \notin {"idle", "done"} BY <1>0
<1>2. CASE AskFails(k)
  <2>1. OnlyDone(k) BY <1>0, <1>1, <1>2, JobEnds DEF AskFails
  <2>. QED BY <1>0, <1>2, <2>1, ErrorKeeps DEF AskFails
<1>3. CASE AsksAnother(k)
  <2>1. PICK at, res, mode : job' = [job EXCEPT ![k].at = at, ![k].res = res, ![k].mode = mode]
    BY <1>3 DEF AsksAnother
  <2>2. /\ DOMAIN job = Key /\ DOMAIN job[k] = DOMAIN Idle
        /\ {"st", "at", "mode", "res"} \subseteq DOMAIN job[k]
    BY <1>0, IdleFields DEF TypeOK
  <2>. DEFINE new == [job[k] EXCEPT !.at = at, !.res = res, !.mode = mode]
  <2>3. DOMAIN new = DOMAIN Idle /\ new.st \in {"ask", "write", "verify"} BY <1>0, <2>2
  <2>4. job' = [job EXCEPT ![k] = new] BY <2>1, <2>2
  <2>. HIDE DEF new
  <2>. QED BY <1>0, <1>1, <1>3, <2>3, <2>4, JobGoesOn DEF AsksAnother
<1>4. CASE AskPerforms(k) BY <1>0, <1>1, <1>4, PerformKeeps DEF AskPerforms
<1>. QED BY <1>2, <1>3, <1>4, AskForms

\* WritebackDirectly of a range.
LEMMA DeleteStoreKeeps ==
  ASSUME KvsInv, NEW r \in KeyRange, DeleteStore(r)
  PROVE  KvsInv'
<1>0. /\ TypeOK /\ OthersNotTold(fate) /\ state = "committing" /\ phase \in Phase
      /\ drs[r].st = "delete" /\ drs' = [drs EXCEPT ![r].st = "done"]
      /\ UNCHANGED << nops, chain, dels, plan, job >>
  BY DEF KvsInv, DeleteStore, Committing, TypeOK
<1>1. PhaseOK(phase, job, drs, plan, fate, left.n) BY <1>0 DEF KvsInv
<1>2. /\ drs \in DrsSet /\ plan' \in PlanSet /\ failed \in BOOLEAN /\ fate \in FateSet
      /\ env \in EnvSet /\ JobType(job') /\ plan'.count = plan.count
  BY <1>0 DEF TypeOK, DrsSet, PlanSet, FateSet, EnvSet, JobType
<1>3. r \in dels[phase] BY <1>0, <1>1 DEF PhaseOK, RangesOK
<1>4. RangeOK(phase, r, job, drs, plan, fate) BY <1>1, <1>3 DEF PhaseOK, RangesOK
<1>5. /\ r \notin plan.ranges /\ DoneIn(phase, r, job) = Supersedes(phase, r) /\ ~drs[r].err
      /\ \A k \in DoneIn(phase, r, job) : ~fate[Last(chain[phase][k])].error
  BY <1>0, <1>4 DEF RangeOK
<1>6. drs[r].n = 0
  <2>1. drs[r].n = Cardinality(Supersedes(phase, r)) - Cardinality(DoneIn(phase, r, job))
    BY <1>4, <1>5 DEF RangeOK, SumOf
  <2>. QED BY <1>0, <1>5, <2>1, SupersededFinite
<1>. DEFINE new == [drs[r] EXCEPT !.st = "done"]
<1>7. new \in [st : {"done"}, n : {0}, err : BOOLEAN]
  <2>1. drs[r] \in [st : {"idle", "delete", "done"}, n : Int, err : BOOLEAN] BY <1>2 DEF DrsSet
  <2>. QED BY <1>6, <2>1
<1>8. drs' = [drs EXCEPT ![r] = new] BY <1>0
<1>9. \A s \in dels[phase] \ {r} : RangeOK(phase, s, job', drs, plan', fate)
  BY <1>0, <1>1 DEF PhaseOK, RangesOK
<1>10. /\ JobsOK(phase, job', plan') /\ FatesOK(phase, job', drs, fate)
       /\ DoneAlone(phase, job') = DoneAlone(phase, job)
       /\ DoneIn(phase, r, job') = Supersedes(phase, r) /\ r \notin plan'.ranges
       /\ drs[r].st # "done"
  BY <1>0, <1>1, <1>5 DEF PhaseOK
<1>11. \A k \in Supersedes(phase, r) : ~fate[Last(chain[phase][k])].error BY <1>5
<1>12. \E error \in BOOLEAN, fails \in BOOLEAN : RangeDone(fate, r, error, fails) /\ env' \in EnvSet
  <2>1. CASE RangeDone(fate, r, FALSE, failed) /\ UNCHANGED env BY <1>2, <2>1
  <2>2. CASE env.errors > 0 /\ env' = [env EXCEPT !.errors = @ - 1] /\ RangeDone(fate, r, TRUE, TRUE)
    <3>1. env' \in EnvSet BY <1>2, <2>2 DEF EnvSet
    <3>. QED BY <2>2, <3>1
  <2>. QED BY <2>1, <2>2 DEF DeleteStore
<1>13. PICK error \in BOOLEAN, fails \in BOOLEAN : RangeDone(fate, r, error, fails) /\ env' \in EnvSet
  BY <1>12
<1>14. UNCHANGED << nops, chain, dels >> BY <1>0
<1>. HIDE DEF new
<1>. QED
  <2>1. ~error => \A k \in Supersedes(phase, r) : ~fate[Last(chain[phase][k])].error BY <1>11
  <2>2. RangeDone(fate, r, error, fails) /\ env' \in EnvSet BY <1>13
  <2>3. /\ state = "committing" /\ JobType(job') /\ plan' \in PlanSet /\ plan'.count = plan.count
        /\ OthersNotTold(fate) /\ fate \in FateSet
    BY <1>0, <1>2
  <2>. QED BY <1>3, <1>7, <1>8, <1>9, <1>10, <1>14, <2>1, <2>2, <2>3, RangeDoneKeeps, ZenonT(60)

-----------------------------------------------------------------------------
(* The start of a phase, and of the commit; the abort.                     *)

LEMMA StartPhaseKeeps ==
  ASSUME KvsInv, NEW p \in Phase, StartPhase(p), state' = "committing",
         UNCHANGED << nops, chain, dels, fate, failed, env >>,
         \A q \in Phase, k \in Key :
            /\ q < p => ChainFate(fate, q, k, TRUE)
            /\ q >= p => ChainFate(fate, q, k, FALSE) /\ \A o \in ToSet(chain[q][k]) : ~fate[o].error
  PROVE  KvsInv'
<1>0. TypeOK /\ IdsUnique /\ RangesDisjoint /\ OthersNotTold(fate) /\ p \in Int /\ Phase \subseteq Int
  BY ConstantsAssumption DEF KvsInv, Phase
<1>1. /\ phase' = p /\ plan'.keys = Chains(p) /\ plan'.ranges = dels[p] /\ plan'.count = TRUE
      /\ left'.n = 0 /\ left' \in [n : Int, err : BOOLEAN]
      /\ \A k \in Key : job'[k] = Idle
      /\ \A r \in KeyRange : drs'[r] = NoRange
  BY DEF StartPhase
<1>2. /\ Chains(p) \in SUBSET Key /\ dels[p] \in SUBSET KeyRange BY <1>0, CountsFinite
<1>3. plan' \in PlanSet /\ JobType(job') /\ drs' \in DrsSet
  <2>1. plan' \in PlanSet BY <1>2 DEF StartPhase, PlanSet
  <2>2. DOMAIN job' = Key BY DEF StartPhase
  <2>3. JobType(job') BY <1>1, <2>2, IdleFields DEF JobType
  <2>4. NoRange \in [st : {"idle", "delete", "done"}, n : Int, err : BOOLEAN] BY DEF NoRange
  <2>5. drs' \in DrsSet BY <2>4 DEF StartPhase, DrsSet
  <2>. QED BY <2>1, <2>3, <2>5
<1>4. TypeOK' BY <1>0, <1>1, <1>3, TypeFrame DEF TypeOK, EnvSet, FateSet
<1>5. IdsUnique' /\ RangesDisjoint' /\ OthersNotTold(fate)' BY <1>0, StructureFrame
<1>6. \A k \in Key : job'[k].st = "idle" BY <1>1, IdleFields
<1>7. \A r \in KeyRange : drs'[r].st = "idle" /\ drs'[r].n = 0 /\ ~drs'[r].err
  BY <1>1 DEF NoRange
<1>8. /\ DoneAlone(p, job') = {} /\ DoneRanges(p, drs') = {}
      /\ \A r \in dels[p] : DoneIn(p, r, job') = {}
  <2>1. Alone(p) \subseteq Key /\ \A r \in dels[p] : Supersedes(p, r) \subseteq Key
    BY <1>0, <1>2, CountsFinite, SupersededFinite
  <2>2. DoneAlone(p, job') = {} BY <1>6, <2>1 DEF DoneAlone
  <2>3. DoneRanges(p, drs') = {} BY <1>2, <1>7 DEF DoneRanges
  <2>4. \A r \in dels[p] : DoneIn(p, r, job') = {} BY <1>6, <2>1 DEF DoneIn
  <2>. QED BY <2>2, <2>3, <2>4
<1>9. JobsOK(p, job', plan') BY <1>1, <1>6 DEF JobsOK
<1>10. LeftIs(p, job', drs', plan', 0) BY <1>1, <1>8, FS_EmptySet DEF LeftIs, Total
<1>11. RangesOK(p, job', drs', plan', fate)
  <2>1. ASSUME NEW r \in dels[p] PROVE RangeOK(p, r, job', drs', plan', fate)
    <3>1. drs'[r].st = "idle" /\ drs'[r].n = 0 /\ ~drs'[r].err /\ r \in plan'.ranges
      BY <1>1, <1>2, <1>7
    <3>2. DoneIn(p, r, job') = {} /\ Cardinality({}) = 0 BY <1>8, FS_EmptySet
    <3>. QED BY <3>1, <3>2 DEF RangeOK, SumOf
  <2>. QED BY <1>7, <2>1 DEF RangesOK
<1>12. FatesOK(p, job', drs', fate)
  <2>1. ASSUME NEW k \in Key PROVE ~Ended(p, k, job', drs') BY <1>2, <1>6, <1>7 DEF Ended
  <2>2. ASSUME NEW k \in Key
        PROVE  /\ ChainFate(fate, p, k, Ended(p, k, job', drs'))
               /\ \A o \in ToSet(chain[p][k]) : fate[o].error => job'[k].st = "done"
    <3>0. p >= p BY <1>0
    <3>1. ChainFate(fate, p, k, FALSE) /\ \A o \in ToSet(chain[p][k]) : ~fate[o].error
      BY <3>0, Zenon
    <3>. QED BY <2>1, <3>1 DEF ChainFate
  <2>3. ASSUME NEW q \in Phase, NEW k \in Key
        PROVE  /\ q < p => ChainFate(fate, q, k, TRUE)
               /\ q > p => ChainFate(fate, q, k, FALSE) /\ \A o \in ToSet(chain[q][k]) : ~fate[o].error
    <3>1. q > p => q >= p BY <1>0
    <3>. QED BY <3>1, Zenon
  <2>. QED BY <2>2, <2>3 DEF FatesOK
<1>13. PhaseOK(p, job', drs', plan', fate, 0) BY <1>9, <1>10, <1>11, <1>12 DEF PhaseOK
<1>14. PhaseOK(phase, job, drs, plan, fate, left.n)'
  <2>1. /\ \A r : Supersedes(p, r)' = Supersedes(p, r)
        /\ Chains(p)' = Chains(p) /\ Alone(p)' = Alone(p)
        /\ \A k : InRange(p, k)' = InRange(p, k)
    BY Frame
  <2>2. JobsOK(phase, job, plan)' BY <1>1, <1>9, <2>1 DEF JobsOK
  <2>3. LeftIs(phase, job, drs, plan, left.n)'
    BY <1>1, <1>10, <2>1 DEF LeftIs, Total, DoneAlone, DoneRanges
  <2>4. RangesOK(phase, job, drs, plan, fate)'
    BY <1>1, <1>11, <2>1 DEF RangesOK, RangeOK, SumOf, DoneIn
  <2>5. FatesOK(phase, job, drs, fate)' BY <1>1, <1>12, <2>1 DEF FatesOK, ChainFate, Ended
  <2>. QED BY <2>2, <2>3, <2>4, <2>5 DEF PhaseOK
<1>. QED BY <1>1, <1>4, <1>5, <1>14 DEF KvsInv

LEMMA NextPhaseKeeps ==
  ASSUME KvsInv, NextPhase
  PROVE  KvsInv'
<1>1. /\ phase \in Phase /\ StartPhase(phase) /\ state' = "committing" /\ state = "between"
      /\ UNCHANGED << nops, chain, dels, fate, failed, env >>
      /\ Phase \subseteq Int
  BY ConstantsAssumption DEF KvsInv, TypeOK, NextPhase, Phase
<1>2. ASSUME NEW q \in Phase, NEW k \in Key
      PROVE  /\ q < phase => ChainFate(fate, q, k, TRUE)
             /\ q >= phase => /\ ChainFate(fate, q, k, FALSE)
                              /\ \A o \in ToSet(chain[q][k]) : ~fate[o].error
  <2>1. /\ ChainFate(fate, q, k, state = "between" /\ q < phase)
        /\ q >= phase => \A o \in ToSet(chain[q][k]) : ~fate[o].error
    BY <1>1 DEF KvsInv
  <2>. QED BY <1>1, <2>1 DEF ChainFate
<1>. QED BY <1>1, <1>2, StartPhaseKeeps

LEMMA CommitKeeps ==
  ASSUME KvsInv, Commit
  PROVE  KvsInv'
<1>. DEFINE p == Min({q \in Phase : HasWork(q)})
<1>1. /\ StartPhase(p) /\ state' = "committing" /\ state = "open"
      /\ UNCHANGED << nops, chain, dels, fate, failed, env >>
      /\ Phase \subseteq Nat /\ \E q \in Phase : HasWork(q)
  BY ConstantsAssumption DEF Commit, Phase, Open
<1>2. p \in Phase /\ \A q \in Phase : HasWork(q) => p <= q
  <2>. DEFINE T == {q \in Phase : HasWork(q)}
  <2>1. T \in SUBSET Nat /\ T # {} BY <1>1
  <2>. HIDE DEF T
  <2>2. Min(T) \in T /\ \A n \in T : Min(T) <= n BY <2>1, MinIn
  <2>. QED BY <2>2 DEF T
<1>. HIDE DEF p
<1>3. ASSUME NEW q \in Phase, NEW k \in Key
      PROVE  /\ q < p => ChainFate(fate, q, k, TRUE)
             /\ q >= p => ChainFate(fate, q, k, FALSE) /\ \A o \in ToSet(chain[q][k]) : ~fate[o].error
  <2>1. /\ ChainFate(fate, q, k, state = "between" /\ q < phase)
        /\ \A o \in ToSet(chain[q][k]) : ~fate[o].error
    BY <1>1 DEF KvsInv
  <2>2. ChainFate(fate, q, k, FALSE) BY <1>1, <2>1 DEF ChainFate
  <2>3. ASSUME q < p PROVE ToSet(chain[q][k]) = {}
    <3>1. ~HasWork(q) BY <1>1, <1>2, <2>3
    <3>2. chain[q][k] = << >> BY <3>1 DEF HasWork, Touches
    <3>. QED BY <3>2, EntriesAreOps DEF KvsInv
  <2>. QED BY <2>1, <2>2, <2>3 DEF ChainFate
<1>. QED BY <1>1, <1>2, <1>3, StartPhaseKeeps

LEMMA AbortKeeps ==
  ASSUME KvsInv, Abort
  PROVE  KvsInv'
<1>0. /\ TypeOK /\ IdsUnique /\ RangesDisjoint /\ OthersNotTold(fate) /\ Quiet
      /\ state = "open" /\ state' = "aborted"
      /\ UNCHANGED << nops, phase, chain, dels, failed, plan, job, drs, left, env >>
  BY DEF KvsInv, Abort
<1>1. fate \in FateSet /\ 0 \in Nat /\ Phase \subseteq Nat
  BY <1>0, ConstantsAssumption DEF TypeOK, FateSet, Phase
<1>2. fate' = Abandoned(fate, 0) BY DEF Abort
<1>3. /\ fate' \in FateSet /\ OthersNotTold(fate')
      /\ \A q \in Phase, l \in Key : \A o \in ToSet(chain[q][l]) :
            fate'[o].told = fate[o].told + 1 /\ (fate'[o].error <=> fate[o].error)
  <2>1. \A q \in Phase : q >= 0 BY <1>1
  <2>. QED BY <1>0, <1>1, <1>2, <2>1, AbandonedFacts
<1>4. TypeOK' BY <1>0, <1>3 DEF TypeOK, FateSet
<1>5. IdsUnique' /\ RangesDisjoint' /\ OthersNotTold(fate)' BY <1>0, <1>3, StructureFrame
<1>6. Quiet' BY <1>0 DEF Quiet
<1>7. ASSUME NEW p \in Phase, NEW k \in Key
      PROVE  ChainFate(fate, p, k, TRUE)'
  <2>1. /\ ChainFate(fate, p, k, state = "between" /\ p < phase)
        /\ \A o \in ToSet(chain[p][k]) : ~fate[o].error
    BY <1>0 DEF KvsInv
  <2>2. \A o \in ToSet(chain[p][k]) : fate[o].told = 0 BY <1>0, <2>1 DEF ChainFate
  <2>3. ASSUME NEW o \in ToSet(chain[p][k])
        PROVE  fate'[o].told = 1 /\ ~fate'[o].error
    BY <1>3, <2>1, <2>2
  <2>4. ToSet(chain[p][k]) # {} => ~fate'[Last(chain[p][k])].error BY <1>0, <2>3, EntriesAreOps
  <2>. QED BY <1>0, <2>3, <2>4 DEF ChainFate
<1>. QED BY <1>0, <1>4, <1>5, <1>6, <1>7 DEF KvsInv

-----------------------------------------------------------------------------
(* The operations of the open transaction.                                 *)

\* A deleted range without one of its keys.
LEMMA SplitRange ==
  ASSUME NEW r \in KeyRange, NEW k \in KeysOf(r)
  PROVE  /\ Split(r, k) \subseteq KeyRange
         /\ \A x \in Split(r, k) : KeysOf(x) \subseteq KeysOf(r)
         /\ \A x, y \in Split(r, k) : x = y \/ ~Meets(x, y)
<1>0. /\ NKeys \in Nat /\ k \in Int /\ r[1] \in 1 .. NKeys /\ r[2] \in 1 .. NKeys
      /\ r[1] <= k /\ k <= r[2]
  BY ConstantsAssumption DEF KeyRange, KeysOf, Key
<1>. DEFINE a == << r[1], k - 1 >>
            b == << k + 1, r[2] >>
<1>1. \A x \in Split(r, k) : x \in {a, b} /\ x[1] <= x[2] BY DEF Split
<1>2. a[1] <= a[2] => a \in KeyRange /\ KeysOf(a) \subseteq KeysOf(r)
  BY <1>0 DEF KeyRange, KeysOf, Key
<1>3. b[1] <= b[2] => b \in KeyRange /\ KeysOf(b) \subseteq KeysOf(r)
  BY <1>0 DEF KeyRange, KeysOf, Key
<1>4. KeysOf(a) \cap KeysOf(b) = {} /\ KeysOf(b) \cap KeysOf(a) = {} BY <1>0 DEF KeysOf
<1>. HIDE DEF a, b
<1>5. ~Meets(a, b) /\ ~Meets(b, a) BY <1>4 DEF Meets
<1>. QED BY <1>1, <1>2, <1>3, <1>5

\* The ranges of the phase when k is taken out of them.
LEMMA SplitRanges ==
  ASSUME KvsInv, NEW k \in Key,
         dels' = [dels EXCEPT ![phase] =
                     UNION {IF k \in KeysOf(r) THEN Split(r, k) ELSE {r} : r \in @}]
  PROVE  dels' \in [Phase -> SUBSET KeyRange] /\ RangesDisjoint'
<1>0. dels \in [Phase -> SUBSET KeyRange] /\ phase \in Phase /\ RangesDisjoint
  BY DEF KvsInv, TypeOK
<1>. DEFINE P(r) == IF k \in KeysOf(r) THEN Split(r, k) ELSE {r}
            D == UNION {P(r) : r \in dels[phase]}
<1>1. dels' = [dels EXCEPT ![phase] = D] OBVIOUS
<1>2. ASSUME NEW r \in dels[phase]
      PROVE  /\ P(r) \subseteq KeyRange
             /\ \A x \in P(r) : KeysOf(x) \subseteq KeysOf(r)
             /\ \A x, y \in P(r) : x = y \/ ~Meets(x, y)
  <2>1. r \in KeyRange BY <1>0
  <2>. QED BY <2>1, SplitRange
<1>3. \A x \in D : \E r \in dels[phase] : x \in P(r) OBVIOUS
<1>. HIDE DEF P
<1>4. D \subseteq KeyRange BY <1>2, <1>3
<1>5. ASSUME NEW x \in D, NEW y \in D
      PROVE  x = y \/ ~Meets(x, y)
  <2>1. PICK r \in dels[phase] : x \in P(r) BY <1>3
  <2>2. PICK s \in dels[phase] : y \in P(s) BY <1>3
  <2>3. CASE r = s BY <1>2, <2>1, <2>2, <2>3
  <2>4. CASE r # s
    <3>1. ~Meets(r, s) BY <1>0, <2>4 DEF RangesDisjoint
    <3>2. KeysOf(x) \subseteq KeysOf(r) /\ KeysOf(y) \subseteq KeysOf(s) BY <1>2, <2>1, <2>2
    <3>. QED BY <3>1, <3>2 DEF Meets
  <2>. QED BY <2>3, <2>4
<1>. HIDE DEF D
<1>6. dels' \in [Phase -> SUBSET KeyRange] BY <1>0, <1>1, <1>4
<1>7. ASSUME NEW p \in Phase, NEW x \in dels'[p], NEW y \in dels'[p]
      PROVE  x = y \/ ~Meets(x, y)
  <2>1. CASE p = phase BY <1>0, <1>1, <1>5, <2>1
  <2>2. CASE p # phase BY <1>0, <1>1, <2>2 DEF RangesDisjoint
  <2>. QED BY <2>1, <2>2
<1>8. \A p \in Phase : \A x, y \in dels'[p] : x = y \/ ~Meets(x, y) BY <1>7
<1>. QED BY <1>6, <1>8 DEF RangesDisjoint, Meets, KeysOf

\* An entry is added at the end of a chain.
LEMMA AppendEntry ==
  ASSUME NEW es \in Seq(Op), NEW id \in Op
  PROVE  /\ Append(es, id) \in Seq(Op) /\ ToSet(Append(es, id)) = ToSet(es) \cup {id}
         /\ Last(Append(es, id)) = id
<1>1. Append(es, id) \in Seq(Op) /\ Len(Append(es, id)) = Len(es) + 1 OBVIOUS
<1>2. Append(es, id)[Len(es) + 1] = id /\ \A i \in 1 .. Len(es) : Append(es, id)[i] = es[i]
  OBVIOUS
<1>3. DOMAIN es = 1 .. Len(es) /\ DOMAIN Append(es, id) = 1 .. Len(es) + 1 /\ Len(es) \in Nat
  OBVIOUS
<1>4. ASSUME NEW x PROVE x \in ToSet(Append(es, id)) <=> x \in ToSet(es) \cup {id}
  <2>1. x \in ToSet(Append(es, id)) <=> \E i \in 1 .. Len(es) + 1 : x = Append(es, id)[i]
    BY <1>3 DEF ToSet
  <2>2. x \in ToSet(es) <=> \E i \in 1 .. Len(es) : x = es[i] BY <1>3 DEF ToSet
  <2>3. 1 .. Len(es) + 1 = (1 .. Len(es)) \cup {Len(es) + 1} BY <1>3
  <2>. QED BY <1>2, <2>1, <2>2, <2>3
<1>. QED BY <1>1, <1>2, <1>4 DEF Last

LEMMA ReadModifyWriteKeeps ==
  ASSUME KvsInv, state = "open", NEW k \in Key, NEW o, NEW sources, ReadModifyWrite(k, o, sources),
         failed' \in BOOLEAN, UNCHANGED << fate, phase, state, plan, job, drs, left, env >>
  PROVE  KvsInv'
<1>0. /\ TypeOK /\ IdsUnique /\ RangesDisjoint /\ OthersNotTold(fate) /\ Quiet
      /\ phase \in Phase /\ nops \in 0 .. MaxOps /\ chain \in [Phase -> [Key -> Seq(Op)]]
  BY DEF KvsInv, TypeOK
<1>. DEFINE id == nops + 1
<1>1. /\ nops < MaxOps /\ nops' = id
      /\ chain' = [chain EXCEPT ![phase][k] = Append(@, id)]
      /\ dels' = [dels EXCEPT ![phase] =
                     UNION {IF k \in KeysOf(r) THEN Split(r, k) ELSE {r} : r \in @}]
  BY DEF ReadModifyWrite
<1>2. id \in Op /\ id \in 0 .. MaxOps /\ Op \subseteq Int
  BY <1>0, <1>1, ConstantsAssumption DEF Op
<1>3. dels' \in [Phase -> SUBSET KeyRange] /\ RangesDisjoint' BY <1>1, SplitRanges
<1>. DEFINE es == chain[phase][k]
<1>4. es \in Seq(Op) BY <1>0
<1>5. /\ Append(es, id) \in Seq(Op) /\ ToSet(Append(es, id)) = ToSet(es) \cup {id}
      /\ Last(Append(es, id)) = id
  BY <1>2, <1>4, AppendEntry
<1>6. /\ chain'[phase][k] = Append(es, id)
      /\ \A p \in Phase, l \in Key : p # phase \/ l # k => chain'[p][l] = chain[p][l]
      /\ chain' \in [Phase -> [Key -> Seq(Op)]]
  BY <1>0, <1>1, <1>5
<1>7. \A p \in Phase, l \in Key : id \notin ToSet(chain[p][l])
  <2>1. ASSUME NEW p \in Phase, NEW l \in Key, id \in ToSet(chain[p][l]) PROVE FALSE
    <3>1. id <= nops BY <1>0, <2>1 DEF IdsUnique
    <3>. QED BY <1>0, <3>1
  <2>. QED BY <2>1
<1>8. fate[id].told = 0 /\ ~fate[id].error BY <1>0, <1>2, <1>7 DEF OthersNotTold
<1>. HIDE DEF id, es
<1>9. /\ ToSet(chain'[phase][k]) = ToSet(chain[phase][k]) \cup {id}
      /\ \A p \in Phase, l \in Key : p # phase \/ l # k => ToSet(chain'[p][l]) = ToSet(chain[p][l])
  BY <1>5, <1>6 DEF es
<1>10. TypeOK' BY <1>0, <1>1, <1>2, <1>3, <1>6 DEF TypeOK
<1>11. IdsUnique'
  <2>1. ASSUME NEW p \in Phase, NEW l \in Key, NEW x \in ToSet(chain'[p][l])
        PROVE  /\ x <= id
               /\ \A q \in Phase, m \in Key : x \in ToSet(chain'[q][m]) => p = q /\ l = m
    <3>1. CASE x = id
      <4>1. id <= id BY <1>2
      <4>. QED BY <3>1, <4>1, <1>7, <1>9
    <3>2. CASE x # id
      <4>1. \A q \in Phase, m \in Key : x \in ToSet(chain'[q][m]) => x \in ToSet(chain[q][m])
        BY <1>9, <3>2
      <4>2. x \in ToSet(chain[p][l]) BY <4>1, <2>1
      <4>3. x \in Op BY <1>0, <4>2, EntriesAreOps
      <4>4. x <= nops BY <1>0, <4>2 DEF IdsUnique
      <4>5. x <= id BY <1>0, <1>2, <4>3, <4>4 DEF id
      <4>. QED BY <1>0, <4>1, <4>2, <4>5, ZenonT(60) DEF IdsUnique
    <3>. QED BY <3>1, <3>2
  <2>. QED BY <1>1, <2>1 DEF IdsUnique
<1>12. OthersNotTold(fate)'
  <2>1. ASSUME NEW x \in Op, \A p \in Phase, l \in Key : x \notin ToSet(chain'[p][l])
        PROVE  fate[x].told = 0 /\ ~fate[x].error
    <3>1. \A p \in Phase, l \in Key : x \notin ToSet(chain[p][l]) BY <1>9, <2>1
    <3>. QED BY <1>0, <3>1 DEF OthersNotTold
  <2>. QED BY <2>1 DEF OthersNotTold
<1>13. Quiet' BY <1>0 DEF Quiet
<1>14. ASSUME NEW p \in Phase, NEW l \in Key, NEW x \in ToSet(chain'[p][l])
       PROVE  fate[x].told = 0 /\ ~fate[x].error
  <2>1. CASE x = id BY <1>8, <2>1
  <2>2. CASE x # id
    <3>1. x \in ToSet(chain[p][l]) BY <1>9, <1>14, <2>2
    <3>2. /\ ChainFate(fate, p, l, state = "between" /\ p < phase)
          /\ \A y \in ToSet(chain[p][l]) : ~fate[y].error
      BY DEF KvsInv
    <3>. QED BY <3>1, <3>2 DEF ChainFate
  <2>. QED BY <2>1, <2>2
<1>15. ASSUME NEW p \in Phase, NEW l \in Key
       PROVE  /\ ChainFate(fate, p, l, state = "between" /\ p < phase)'
              /\ \A x \in ToSet(chain[p][l])' : ~fate'[x].error
  <2>1. ToSet(chain'[p][l]) # {} => Last(chain'[p][l]) \in ToSet(chain'[p][l])
    <3>1. CASE p = phase /\ l = k BY <1>5, <1>6, <1>9, <3>1
    <3>2. CASE ~(p = phase /\ l = k)
      <4>1. chain'[p][l] = chain[p][l] BY <1>6, <3>2
      <4>. QED BY <1>0, <4>1, EntriesAreOps
    <3>. QED BY <3>1, <3>2
  <2>. QED BY <1>14, <2>1 DEF ChainFate
<1>. QED BY <1>3, <1>10, <1>11, <1>12, <1>13, <1>15 DEF KvsInv

LEMMA WriteKeeps ==
  ASSUME KvsInv, NEW k \in Key, NEW form, NEW cond, NEW val, Write(k, form, cond, val)
  PROVE  KvsInv'
<1>1. PICK o : ReadModifyWrite(k, o, ops) BY DEF Write
<1>2. /\ state = "open" /\ failed' \in BOOLEAN
      /\ UNCHANGED << fate, phase, state, plan, job, drs, left, env >>
  BY DEF KvsInv, TypeOK, Write, Open
<1>. QED BY <1>1, <1>2, ReadModifyWriteKeeps

LEMMA ModifyKeeps ==
  ASSUME KvsInv, NEW k \in Key, NEW cached \in BOOLEAN, Modify(k, cached)
  PROVE  KvsInv'
<1>1. failed \in BOOLEAN BY DEF KvsInv, TypeOK
<1>2. (\E o, sources : ReadModifyWrite(k, o, sources)) /\ failed' \in BOOLEAN
  <2>1. CASE cached BY <2>1 DEF Modify
  <2>2. CASE ~cached BY <1>1, <2>2 DEF Modify
  <2>. QED BY <2>1, <2>2
<1>3. state = "open" /\ UNCHANGED << fate, phase, state, plan, job, drs, left, env >>
  BY DEF Modify, Open
<1>. QED BY <1>2, <1>3, ReadModifyWriteKeeps

LEMMA ReadKeeps ==
  ASSUME KvsInv, NEW k \in Key, Read(k)
  PROVE  KvsInv'
<1>1. (\E o, sources : ReadModifyWrite(k, o, sources)) /\ failed' \in BOOLEAN BY DEF Read
<1>2. state = "open" /\ UNCHANGED << fate, phase, state, plan, job, drs, left, env >>
  BY DEF Read, Open
<1>. QED BY <1>1, <1>2, ReadModifyWriteKeeps

LEMMA ReadAgainKeeps ==
  ASSUME KvsInv, NEW k \in Key, ReadAgain(k)
  PROVE  KvsInv'
<1>1. failed' \in BOOLEAN BY DEF ReadAgain
<1>2. UNCHANGED << nops, chain, dels, state, phase, left, drs, plan, fate, job, env >>
  BY DEF ReadAgain
<1>. QED BY <1>1, <1>2, EnvUnchanged, NothingMoves

LEMMA BarrierKeeps ==
  ASSUME KvsInv, Barrier
  PROVE  KvsInv'
<1>1. /\ TypeOK /\ state = "open" /\ Quiet /\ phase' = phase + 1 /\ phase < env.phases
      /\ UNCHANGED << fate, nops, chain, dels, state, failed, plan, job, drs, left, env >>
  BY DEF KvsInv, Barrier, Open
<1>2. phase' \in Phase BY <1>1, ConstantsAssumption DEF TypeOK, Phase
<1>3. TypeOK' BY <1>1, <1>2 DEF TypeOK
<1>4. IdsUnique' /\ RangesDisjoint' /\ OthersNotTold(fate)' BY <1>1, StructureFrame DEF KvsInv
<1>5. Quiet' BY <1>1 DEF Quiet
<1>6. ASSUME NEW p \in Phase, NEW k \in Key
      PROVE  /\ ChainFate(fate, p, k, state = "between" /\ p < phase)'
             /\ \A o \in ToSet(chain[p][k])' : ~fate'[o].error
  <2>1. /\ ChainFate(fate, p, k, state = "between" /\ p < phase)
        /\ \A o \in ToSet(chain[p][k]) : ~fate[o].error
    BY <1>1 DEF KvsInv
  <2>. QED BY <1>1, <2>1 DEF ChainFate
<1>. QED BY <1>1, <1>3, <1>4, <1>5, <1>6 DEF KvsInv

\* The range that DeleteRange merges the ones it meets into: it contains r, is
\* disjoint from those that r does not meet, and is a range of keys.
LEMMA MergedRange ==
  ASSUME NEW D \in SUBSET KeyRange, \A x, y \in D : x = y \/ ~Meets(x, y), NEW r \in KeyRange,
         NEW met, met = {x \in D : Meets(r, x)},
         NEW all, all = UNION {KeysOf(x) : x \in met \cup {r}}
  PROVE  /\ << Min(all), Max(all) >> \in KeyRange
         /\ \A x \in D \ met : ~Meets(x, << Min(all), Max(all) >>)
<1>0. NKeys \in Nat /\ Key = 1 .. NKeys /\ Key \subseteq Nat BY ConstantsAssumption DEF Key
<1>1. \A x \in met \cup {r} : x \in KeyRange /\ KeysOf(x) \subseteq Key BY KeysOfRange
<1>2. all \subseteq Key /\ \A i \in KeysOf(r) : i \in all BY <1>1
<1>3. all \in SUBSET Nat /\ all \in SUBSET (0 .. NKeys) /\ all # {} BY <1>0, <1>2, KeysOfRange
<1>. DEFINE lo == Min(all)
            hi == Max(all)
<1>4. /\ lo \in all /\ hi \in all
      /\ \A n \in all : lo <= n /\ hi >= n
  BY <1>0, <1>3, MinIn, MaxIn, ZenonT(60)
<1>. HIDE DEF lo, hi
<1>5. << lo, hi >> \in KeyRange BY <1>0, <1>2, <1>4 DEF KeyRange
<1>6. ASSUME NEW x \in D \ met, Meets(x, << lo, hi >>)
      PROVE  FALSE
  <2>0. x \in KeyRange /\ KeysOf(x) \subseteq Key BY KeysOfRange
  <2>1. PICK z \in KeysOf(x) : z \in KeysOf(<< lo, hi >>) BY <1>6 DEF Meets
  <2>2. z \in Int /\ lo <= z /\ z <= hi /\ lo \in Int /\ hi \in Int
    BY <1>0, <1>2, <1>4, <2>0, <2>1 DEF KeysOf
  <2>3. z \notin all
    <3>1. ASSUME NEW a \in met \cup {r}, z \in KeysOf(a) PROVE FALSE
      <4>1. Meets(a, x) BY <2>1, <3>1 DEF Meets
      <4>2. CASE a = r BY <4>1, <4>2
      <4>3. CASE a \in met BY <4>1, <4>3
      <4>. QED BY <4>2, <4>3
    <3>. QED BY <3>1
  <2>4. r[1] \in Int /\ r[2] \in Int /\ r[1] <= r[2] BY <1>0 DEF KeyRange
  <2>5. z < r[1] \/ r[2] < z BY <1>2, <2>2, <2>3, <2>4 DEF KeysOf
  <2>6. ASSUME NEW e \in all, \/ e <= z /\ z < r[1]
                              \/ z <= e /\ r[2] < z
        PROVE  FALSE
    <3>1. PICK a \in met \cup {r} : e \in KeysOf(a) OBVIOUS
    <3>2. a \in KeyRange /\ a[1] \in Int /\ a[2] \in Int /\ e \in Int /\ a[1] <= e /\ e <= a[2]
      BY <1>0, <1>1, <3>1 DEF KeyRange, KeysOf
    <3>3. a \in met BY <2>2, <2>4, <2>6, <3>2, <3>1 DEF KeysOf
    <3>4. PICK m \in KeysOf(r) : m \in KeysOf(a) BY <3>3 DEF Meets
    <3>5. z \in KeysOf(a) BY <2>2, <2>4, <2>6, <3>2, <3>4 DEF KeysOf
    <3>. QED BY <2>3, <3>1, <3>5
  <2>. QED BY <1>4, <2>2, <2>5, <2>6
<1>. QED BY <1>5, <1>6 DEF lo, hi

LEMMA DeleteRangeKeeps ==
  ASSUME KvsInv, NEW r \in KeyRange, DeleteRange(r)
  PROVE  KvsInv'
<1>0. /\ TypeOK /\ IdsUnique /\ RangesDisjoint /\ OthersNotTold(fate) /\ Quiet /\ state = "open"
      /\ phase \in Phase /\ nops \in 0 .. MaxOps /\ dels \in [Phase -> SUBSET KeyRange]
      /\ nops < MaxOps /\ nops' = nops + 1
      /\ UNCHANGED << fate, phase, chain, state, failed, plan, job, drs, left, env >>
  BY DEF KvsInv, TypeOK, DeleteRange, Open
<1>. DEFINE met == {x \in dels[phase] : Meets(r, x)}
            all == UNION {KeysOf(x) : x \in met \cup {r}}
            new == << Min(all), Max(all) >>
<1>1. dels' = [dels EXCEPT ![phase] = (@ \ met) \cup {new}] BY DEF DeleteRange
<1>2. new \in KeyRange /\ \A x \in dels[phase] \ met : ~Meets(x, new)
  <2>1. dels[phase] \in SUBSET KeyRange /\ \A x, y \in dels[phase] : x = y \/ ~Meets(x, y)
    BY <1>0 DEF RangesDisjoint
  <2>. QED BY <2>1, MergedRange
<1>. HIDE DEF met, new
<1>3. dels' \in [Phase -> SUBSET KeyRange] BY <1>0, <1>1, <1>2
<1>4. TypeOK'
  <2>1. nops' \in 0 .. MaxOps BY <1>0, ConstantsAssumption
  <2>. QED BY <1>0, <1>3, <2>1 DEF TypeOK
<1>5. RangesDisjoint'
  <2>0. \A x \in dels[phase] \ met : ~Meets(new, x) BY <1>2 DEF Meets
  <2>1. ASSUME NEW p \in Phase, NEW x \in dels'[p], NEW y \in dels'[p]
        PROVE  x = y \/ ~Meets(x, y)
    <3>1. CASE p = phase
      <4>1. dels'[p] = (dels[phase] \ met) \cup {new} BY <1>0, <1>1, <3>1
      <4>2. \A u, v \in dels[phase] : u = v \/ ~Meets(u, v) BY <1>0 DEF RangesDisjoint
      <4>. QED BY <1>2, <2>0, <4>1, <4>2
    <3>2. CASE p # phase
      <4>1. dels'[p] = dels[p] BY <1>0, <1>1, <3>2
      <4>. QED BY <1>0, <4>1 DEF RangesDisjoint
    <3>. QED BY <3>1, <3>2
  <2>2. \A p \in Phase : \A x, y \in dels'[p] : x = y \/ ~Meets(x, y) BY <2>1
  <2>. QED BY <2>2 DEF RangesDisjoint, Meets, KeysOf
<1>6. IdsUnique' /\ OthersNotTold(fate)'
  <2>1. IdsUnique'
    <3>1. ASSUME NEW p \in Phase, NEW k \in Key, NEW o \in ToSet(chain[p][k])
          PROVE  o <= nops + 1
      <4>1. o \in Op /\ o <= nops BY <1>0, EntriesAreOps DEF IdsUnique
      <4>. QED BY <1>0, <4>1 DEF Op
    <3>. QED BY <1>0, <3>1 DEF IdsUnique
  <2>2. OthersNotTold(fate)' BY <1>0 DEF OthersNotTold
  <2>. QED BY <2>1, <2>2
<1>7. Quiet' BY <1>0 DEF Quiet
<1>8. ASSUME NEW p \in Phase, NEW k \in Key
      PROVE  /\ ChainFate(fate, p, k, state = "between" /\ p < phase)'
             /\ \A o \in ToSet(chain[p][k])' : ~fate'[o].error
  <2>1. /\ ChainFate(fate, p, k, state = "between" /\ p < phase)
        /\ \A o \in ToSet(chain[p][k]) : ~fate[o].error
    BY <1>0 DEF KvsInv
  <2>. QED BY <1>0, <2>1 DEF ChainFate
<1>. QED BY <1>0, <1>4, <1>5, <1>6, <1>7, <1>8 DEF KvsInv

-----------------------------------------------------------------------------
(* The theorems.                                                           *)

LEMMA InitInv == Init => KvsInv
<1>. SUFFICES ASSUME Init PROVE KvsInv OBVIOUS
<1>1. NKeys \in Nat \ {0} /\ MaxOps \in Nat /\ MaxPhase \in Nat BY ConstantsAssumption
<1>2. NotTold \in [told : Nat, report : Reports, error : BOOLEAN] BY DEF NotTold, Reports
<1>3. NoRange \in [st : {"idle", "delete", "done"}, n : Int, err : BOOLEAN] BY DEF NoRange
<1>4. env \in [forms : SUBSET AllForms, keys : Key, phases : Phase, external : Nat, errors : Nat]
  BY ConstantsAssumption DEF Init, Key, Phase
<1>5. chain \in [Phase -> [Key -> Seq(Op)]] /\ \A p \in Phase, k \in Key : chain[p][k] = << >>
  BY DEF Init
<1>6. TypeOK
  <2>1. fate \in [Op -> [told : Nat, report : Reports, error : BOOLEAN]] BY <1>2 DEF Init
  <2>2. drs \in [KeyRange -> [st : {"idle", "delete", "done"}, n : Int, err : BOOLEAN]]
    BY <1>3 DEF Init
  <2>3. /\ state \in {"open", "committing", "between", "committed", "aborted"}
        /\ phase \in Phase /\ nops \in 0 .. MaxOps
    BY <1>1 DEF Init, Phase
  <2>7. failed \in BOOLEAN /\ dels \in [Phase -> SUBSET KeyRange] BY DEF Init
  <2>6. left \in [n : Int, err : BOOLEAN]
    <3>1. left = [n |-> 0, err |-> FALSE] BY DEF Init
    <3>. QED BY <3>1
  <2>4. plan \in [keys : SUBSET Key, ranges : SUBSET KeyRange, count : BOOLEAN]
    BY DEF Init, NoPlan
  <2>5. /\ DOMAIN job = Key
        /\ \A k \in Key : /\ DOMAIN job[k] = DOMAIN Idle
                          /\ job[k].st \in {"idle", "ask", "write", "verify", "done"}
    BY IdleFields DEF Init
  <2>. QED
    BY <1>4, <1>5, <2>1, <2>2, <2>3, <2>4, <2>5, <2>6, <2>7
       DEF TypeOK
<1>7. \A p \in Phase, k \in Key : ToSet(chain[p][k]) = {} BY <1>5, <1>6, EntriesAreOps
<1>8. IdsUnique /\ RangesDisjoint BY <1>7 DEF IdsUnique, RangesDisjoint, Init
<1>9. OthersNotTold(fate) BY DEF OthersNotTold, Init, NotTold
<1>10. Quiet BY IdleFields DEF Quiet, Init, NoRange
<1>11. \A p \in Phase, k \in Key : \A e : ChainFate(fate, p, k, e) BY <1>7 DEF ChainFate
<1>12. state = "open" BY DEF Init
<1>. QED BY <1>6, <1>7, <1>8, <1>9, <1>10, <1>11, <1>12 DEF KvsInv

\* Every step of the transaction, of its writeback and of the other writers
\* keeps the counts right.
LEMMA NextInv == KvsInv /\ [Next]_vars => KvsInv'
<1>. SUFFICES ASSUME KvsInv, [Next]_vars PROVE KvsInv' OBVIOUS
<1>1. \A k \in 1 .. env.keys : k \in Key
  <2>1. env.keys \in 1 .. NKeys BY DEF KvsInv, TypeOK, Key
  <2>. QED BY <2>1, ConstantsAssumption DEF Key
<1>2. CASE Request
  BY <1>1, <1>2, WriteKeeps, ModifyKeeps, ReadKeeps, ReadAgainKeeps, DeleteRangeKeeps, BarrierKeeps
     DEF Request
<1>3. CASE \E k \in 1 .. env.keys : External(k) BY <1>1, <1>3, ExternalKeeps
<1>4. CASE Commit BY <1>4, CommitKeeps
<1>5. CASE Abort BY <1>5, AbortKeeps
<1>6. CASE Writeback
  BY <1>6, NextPhaseKeeps, AllStartedKeeps, StartEntryKeeps, AskKeeps, StoreFailsKeeps,
     WriteStoreKeeps, VerifyKeeps, StartRangeKeeps, DeleteStoreKeeps DEF Writeback
<1>7. CASE UNCHANGED vars
  <2>1. failed' \in BOOLEAN BY <1>7 DEF KvsInv, TypeOK, vars
  <2>. QED BY <1>7, <2>1, EnvUnchanged, NothingMoves DEF vars
<1>. QED BY <1>2, <1>3, <1>4, <1>5, <1>6, <1>7 DEF Next, Finished

\* In every state of a transaction with any keys, phases and workload, the
\* counts of the phase and of its ranges are what is left of them, and each
\* source was told what its chain's end requires.
THEOREM KvsInvariant == Spec => []KvsInv
BY InitInv, NextInv, PTL DEF Spec

\* The variables have their types.
THEOREM KvsTypeOK == Spec => []TypeOK
<1>1. KvsInv => TypeOK BY DEF KvsInv
<1>. QED BY <1>1, KvsInvariant, PTL

\* PhaseCommitDone is called when every entry of the phase has been started
\* and is done, and then always, in whatever order the chains, the ranges and
\* the loop of WritebackPhase bring the counts down.
THEOREM PhaseDoneWhenEntriesAreHolds == Spec => []PhaseDoneWhenEntriesAre
<1>1. KvsInv => PhaseDoneWhenEntriesAre
  <2>. SUFFICES ASSUME KvsInv PROVE PhaseDoneWhenEntriesAre OBVIOUS
  <2>1. TypeOK BY DEF KvsInv
  <2>2. ASSUME state = "committing", Quiet
        PROVE  FALSE
    <3>0. phase \in Phase /\ JobType(job) /\ ~plan.count /\ plan.keys = {} /\ plan.ranges = {}
      BY <2>1, <2>2 DEF TypeOK, JobType, Quiet, NoPlan
    <3>1. PhaseOK(phase, job, drs, plan, fate, left.n) /\ left.n # 0 BY <2>2, <3>0 DEF KvsInv
    <3>2. DoneAlone(phase, job) = Alone(phase)
      BY <2>2, <3>0, <3>1 DEF PhaseOK, JobsOK, DoneAlone, Alone, Chains, Quiet
    <3>3. ASSUME NEW r \in dels[phase] PROVE drs[r].st = "done"
      <4>1. r \in KeyRange BY <2>1, <3>0, CountsFinite
      <4>2. RangeOK(phase, r, job, drs, plan, fate) BY <3>1 DEF PhaseOK, RangesOK
      <4>3. DoneIn(phase, r, job) = Supersedes(phase, r)
        <5>1. Supersedes(phase, r) \subseteq Key BY <2>1, <3>0, <4>1, SupersededFinite
        <5>2. \A k \in Supersedes(phase, r) : k \in Chains(phase) BY <5>1 DEF Supersedes, Chains
        <5>. QED BY <2>2, <3>0, <3>1, <5>1, <5>2 DEF PhaseOK, JobsOK, DoneIn, Quiet
      <4>4. drs[r].st # "idle" BY <3>0, <4>2, <4>3 DEF RangeOK
      <4>. QED BY <2>1, <2>2, <4>1, <4>4 DEF TypeOK, Quiet
    <3>4. DoneRanges(phase, drs) = dels[phase] BY <3>3 DEF DoneRanges
    <3>5. Cardinality(Alone(phase)) \in Nat /\ Cardinality(dels[phase]) \in Nat
      BY <2>1, <3>0, CountsFinite
    <3>6. left.n = 0
      <4>1. Total(phase, plan) = Cardinality(Alone(phase)) + Cardinality(dels[phase])
        BY <3>0 DEF Total
      <4>2. left.n = Total(phase, plan) - Cardinality(Alone(phase)) - Cardinality(dels[phase])
        BY <3>1, <3>2, <3>4 DEF PhaseOK, LeftIs
      <4>. QED BY <3>5, <4>1, <4>2
    <3>. QED BY <3>1, <3>6
  <2>3. state \in {"between", "committed", "aborted"} => Quiet BY DEF KvsInv
  <2>. QED BY <2>2, <2>3 DEF PhaseDoneWhenEntriesAre, Quiet
<1>. QED BY <1>1, KvsInvariant, PTL

\* No source is told twice how its operation ended, and when the transaction
\* has ended every one has been told: by its own chain, by the range that
\* supersedes it, or by the transaction that abandons its phase.
THEOREM ToldOnceHolds == Spec => []ToldOnce
<1>1. KvsInv => ToldOnce
  <2>. SUFFICES ASSUME KvsInv PROVE ToldOnce OBVIOUS
  <2>1. TypeOK /\ OthersNotTold(fate) /\ phase \in Phase /\ Phase \subseteq Int
    BY ConstantsAssumption DEF KvsInv, TypeOK, Phase
  <2>2. ASSUME NEW p \in Phase, NEW k \in Key
        PROVE  \E e : ChainFate(fate, p, k, e)
    <3>1. CASE state \in {"open", "between", "committed", "aborted"} BY <3>1 DEF KvsInv
    <3>2. CASE state = "committing"
      <4>1. FatesOK(phase, job, drs, fate) BY <3>2 DEF KvsInv, PhaseOK
      <4>2. p < phase \/ p > phase \/ p = phase BY <2>1
      <4>. QED BY <4>1, <4>2 DEF FatesOK
    <3>. QED BY <2>1, <3>1, <3>2 DEF TypeOK
  <2>3. ASSUME NEW o \in Op PROVE fate[o].told <= 1
    <3>1. CASE \A p \in Phase, k \in Key : o \notin ToSet(chain[p][k])
      BY <2>1, <3>1 DEF OthersNotTold
    <3>2. CASE \E p \in Phase, k \in Key : o \in ToSet(chain[p][k]) BY <2>2, <3>2 DEF ChainFate
    <3>. QED BY <3>1, <3>2
  <2>4. ASSUME state \in {"committed", "aborted"}, NEW p \in Phase, NEW k \in Key,
               NEW o \in ToSet(chain[p][k])
        PROVE  fate[o].told = 1
    BY <2>4 DEF KvsInv, ChainFate
  <2>. QED BY <2>3, <2>4 DEF ToldOnce
<1>. QED BY <1>1, KvsInvariant, PTL

\* A step that leaves the commit under way does not change the phase.
LEMMA SamePhase ==
  /\ \A fs, count, error, fails :
        EntryDone(fs, count, error, fails) /\ state' = "committing" => phase' = phase
  /\ \A fs, r, count, error, fails :
        DeletedEntryDone(fs, r, count, error, fails) /\ state' = "committing" => phase' = phase
  /\ \A sources, k, orig : Success(sources, k, orig) /\ state' = "committing" => phase' = phase
  /\ \A k : Error(k) /\ state' = "committing" => phase' = phase
<1>1. ASSUME NEW fs, NEW count, NEW error, NEW fails, EntryDone(fs, count, error, fails),
             state' = "committing"
      PROVE  phase' = phase
  <2>1. CASE left.n - count # 0 BY <1>1, <2>1 DEF EntryDone
  <2>2. CASE left.n - count = 0 BY <1>1, <2>2 DEF EntryDone
  <2>. QED BY <2>1, <2>2
<1>2. ASSUME NEW fs, NEW r, NEW count, NEW error, NEW fails,
             DeletedEntryDone(fs, r, count, error, fails), state' = "committing"
      PROVE  phase' = phase
  BY <1>1, <1>2 DEF DeletedEntryDone, RangeDone
<1>3. ASSUME NEW sources, NEW k, NEW orig, Success(sources, k, orig), state' = "committing"
      PROVE  phase' = phase
  BY <1>1, <1>2, <1>3 DEF Success
<1>4. ASSUME NEW k, Error(k), state' = "committing"
      PROVE  phase' = phase
  BY <1>1, <1>2, <1>4 DEF Error
<1>. QED BY <1>1, <1>2, <1>3, <1>4

\* A range gets ready to be deleted during a phase, which goes on.
LEMMA ReadyRange ==
  ASSUME KvsInv, Next, NEW r \in KeyRange, drs[r].st = "idle", drs'[r].st = "delete",
         state' = "committing"
  PROVE  state = "committing" /\ phase' = phase /\ UNCHANGED << chain, dels >>
<1>1. drs' # drs OBVIOUS
<1>2. drs' # [s \in KeyRange |-> NoRange] BY DEF NoRange
<1>3. ~Request /\ ~Abort /\ ~Finished /\ ~AllStarted
  BY <1>1 DEF Request, Write, Modify, Read, ReadAgain, DeleteRange, Barrier, Abort, Finished, vars,
     AllStarted
<1>4. ~Commit /\ ~NextPhase BY <1>2 DEF Commit, NextPhase, StartPhase
<1>5. \A k \in Key : ~StartEntry(k) BY <1>1 DEF StartEntry
<1>6. \A k : ~External(k) BY <1>1 DEF External
<1>7. ASSUME NEW k \in Key, Ask(k)
      PROVE  state = "committing" /\ phase' = phase /\ UNCHANGED << chain, dels >>
  <2>1. state = "committing" /\ UNCHANGED << chain, dels >> BY <1>7, Zenon DEF Ask, Committing
  <2>2. CASE AskFails(k) BY <2>1, <2>2, SamePhase DEF AskFails
  <2>3. CASE AsksAnother(k) BY <2>1, <2>3 DEF AsksAnother
  <2>4. CASE AskPerforms(k)
    <3>1. PICK sources, res : Perform(sources, k, res) BY <2>4 DEF AskPerforms
    <3>2. phase' = phase \/ Success(sources, k, res.gen) BY <3>1 DEF Perform
    <3>. QED BY <2>1, <3>2, SamePhase
  <2>. QED BY <1>7, <2>2, <2>3, <2>4, AskForms
<1>8. ASSUME NEW k \in Key, Retry(k) PROVE phase' = phase
  <2>1. Error(k) \/ phase' = phase BY <1>8 DEF Retry
  <2>. QED BY <2>1, SamePhase
<1>9. ASSUME NEW k \in Key, StoreFails(k) \/ WriteStore(k) \/ Verify(k)
      PROVE  state = "committing" /\ phase' = phase /\ UNCHANGED << chain, dels >>
  <2>1. state = "committing" /\ UNCHANGED << chain, dels >>
    BY <1>9 DEF StoreFails, WriteStore, Verify, Committing
  <2>2. Error(k) \/ Retry(k) \/ Success(ops, k, job[k].res.gen)
    BY <1>9 DEF StoreFails, WriteStore, Verify
  <2>. QED BY <1>8, <2>1, <2>2, SamePhase
<1>10. ASSUME NEW s \in KeyRange, StartRange(s) \/ DeleteStore(s)
       PROVE  state = "committing" /\ phase' = phase /\ UNCHANGED << chain, dels >>
  <2>1. state = "committing" /\ UNCHANGED << chain, dels >>
    BY <1>10 DEF StartRange, DeleteStore, Committing
  <2>2. CASE StartRange(s) BY <2>1, <2>2, SamePhase DEF StartRange
  <2>3. CASE DeleteStore(s) BY <2>1, <2>3, SamePhase DEF DeleteStore, RangeDone
  <2>. QED BY <1>10, <2>2, <2>3
<1>. QED BY <1>3, <1>4, <1>5, <1>6, <1>7, <1>9, <1>10 DEF Next, Writeback

\* A range is deleted from the store only after every chain that it supersedes
\* has ended its validation, and none of them with an error: DeletedEntryDone
\* cannot bring the count of the range to zero earlier, although the chains
\* end while the loop that starts them is still running.
THEOREM DeletedAfterValidationHolds == Spec => DeletedAfterValidation
<1>. DEFINE Safe == \A r \in KeyRange : drs[r].st = "idle" /\ drs'[r].st = "delete" =>
                       \A k \in ChainsIn(r) : job'[k].st = "done" /\ ~fate'[Last(Entries(k))].error
<1>1. KvsInv /\ KvsInv' /\ [Next]_vars => [Safe]_vars
  <2>. SUFFICES ASSUME KvsInv, KvsInv', Next, NEW r \in KeyRange,
                       drs[r].st = "idle", drs'[r].st = "delete", NEW k \in ChainsIn(r)
                PROVE  job'[k].st = "done" /\ ~fate'[Last(Entries(k))].error
    OBVIOUS
  <2>1. state' = "committing" BY DEF KvsInv, Quiet
  <2>2. state = "committing" /\ phase' = phase /\ UNCHANGED << chain, dels >>
    BY <2>1, ReadyRange
  <2>3. RangesOK(phase, job, drs, plan, fate)' BY <2>1 DEF KvsInv, PhaseOK
  <2>4. RangeOK(phase, r, job, drs, plan, fate)' BY <2>3 DEF RangesOK
  <2>5. DoneIn(phase, r, job') = Supersedes(phase, r)
    BY <2>2, <2>4 DEF RangeOK, DoneIn, Supersedes
  <2>6. k \in DoneIn(phase, r, job') BY <2>5 DEF ChainsIn, Supersedes
  <2>7. job'[k].st = "done" BY <2>6 DEF DoneIn
  <2>8. Last(Entries(k)) = Last(chain[phase][k]) BY <2>2 DEF Entries
  <2>9. ~fate'[Last(chain[phase][k])].error BY <2>2, <2>4, <2>6 DEF RangeOK, DoneIn, Supersedes
  <2>. QED BY <2>7, <2>8, <2>9
<1>. QED BY <1>1, KvsInvariant, PTL DEF Spec, DeletedAfterValidation

-----------------------------------------------------------------------------
(* The assertions of the writeback.  A result that carries a mutation has a *)
(* value: this is an invariant of the sources, of every answer on its way   *)
(* up a chain, and of what a writeback has put together so far.             *)

ResultFields == {"st", "val", "gen", "time"}
GenFields == {"base", "tags"}
ResultOK(r) ==
    /\ DOMAIN r = ResultFields /\ DOMAIN r.gen = GenFields
    /\ IsDirty(r.gen) => r.st # "unspecified"

\* A write that was found not to apply has forgotten its condition.
SourceOK(o) ==
    /\ DOMAIN o = DOMAIN NoOp /\ ResultOK(o.rr)
    /\ o.kind = "write" /\ o.modified => o.rr.st # "unspecified"
    /\ o.kind = "write" /\ ~o.modified => ~o.ifNoValue
SourcesOK(sources) == DOMAIN sources = Op /\ \A o \in Op : SourceOK(sources[o])

Kinds == {"write", "read", "modify"}
KindsOK(sources) == \A p \in Phase, k \in Key : \A o \in ToSet(chain[p][k]) : sources[o].kind \in Kinds

\* The result that the writeback of k has put together.
SoFarOK(k) ==
    LET j == job[k] IN
    /\ j.st = "ask" =>
          /\ j.at \in 1 .. Len(chain[phase][k]) /\ ResultOK(j.res)
          /\ Superseded(k) => j.res.st = "missing" /\ ~IsDirty(j.res.gen)
          /\ Superseded(k) \/ j.at < Len(chain[phase][k]) => ~IsConditional(j.res.gen)
    /\ j.st = "write" => j.res.st # "unspecified"

ResultsInv ==
    /\ SourcesOK(ops) /\ KindsOK(ops)
    /\ state = "committing" => \A k \in Key : SoFarOK(k)

LEMMA SourceFields ==
  /\ DOMAIN NoOp = {"kind", "key", "cond", "fail", "needed", "modified", "ifNoValue", "rr",
                    "prevDeleted", "nonRetryable", "prov", "uncond", "dirty", "assumed"}
  /\ NoOp.kind = "none" /\ NoOp.rr = Unspecified(Unknown, Past)
BY DEF NoOp

\* Results as they are made.
LEMMA ResultsOK ==
  /\ \A val, g, time : DOMAIN g = GenFields => ResultOK(Result(val, g, time))
  /\ \A g, time : DOMAIN g = GenFields /\ ~IsDirty(g) => ResultOK(Unspecified(g, time))
  /\ \A val, g, time : Result(val, g, time).st # "unspecified" /\ Result(val, g, time).gen = g
  /\ DOMAIN Unknown = GenFields /\ ~IsDirty(Unknown)
<1>1. ASSUME NEW val, NEW g, NEW time
      PROVE  /\ Result(val, g, time).st # "unspecified" /\ Result(val, g, time).gen = g
             /\ DOMAIN Result(val, g, time) = ResultFields
  BY DEF Result, ResultFields
<1>2. ASSUME NEW g, NEW time
      PROVE  Unspecified(g, time).gen = g /\ DOMAIN Unspecified(g, time) = ResultFields
  BY DEF Unspecified, ResultFields
<1>3. DOMAIN Unknown = GenFields /\ ~IsDirty(Unknown) BY DEF Unknown, GenFields, IsDirty
<1>. QED BY <1>1, <1>2, <1>3 DEF ResultOK

LEMMA GenerationsOK ==
  ASSUME NEW g, DOMAIN g = GenFields
  PROVE  /\ \A id : DOMAIN MarkDirty(g, id) = GenFields
         /\ DOMAIN Clean(g) = GenFields /\ ~IsDirty(Clean(g)) /\ Clean(g).base = g.base
BY DEF MarkDirty, Clean, GenFields, IsDirty

LEMMA StoreReadOK ==
  ASSUME NEW k, NEW time
  PROVE  ResultOK(StoreRead(k, time))
<1>1. DOMAIN StoreGen(store[k].gen) = GenFields BY DEF StoreGen, GenFields
<1>. QED BY <1>1, ResultsOK DEF StoreRead

LEMMA ReadBelowOK ==
  ASSUME NEW o, NEW r, ResultOK(r)
  PROVE  ResultOK(ReadBelow(o, r))
<1>. DEFINE g == [base |-> NoBase, tags |-> << Deletion >>]
<1>1. DOMAIN g = GenFields BY DEF GenFields
<1>. HIDE DEF g
<1>2. ResultOK(Result(Missing, g, Future)) BY <1>1, ResultsOK
<1>. QED BY <1>2 DEF ReadBelow, g

LEMMA ModifiedOK ==
  ASSUME NEW id, NEW r, ResultOK(r)
  PROVE  ResultOK(Modified(id, r))
<1>1. DOMAIN MarkDirty(r.gen, id) = GenFields BY GenerationsOK DEF ResultOK
<1>. QED BY <1>1, ResultsOK DEF Modified

\* A source whose flags change.
LEMMA FlagsOK ==
  ASSUME NEW o, SourceOK(o), NEW n, DOMAIN n = DOMAIN NoOp, n.rr = o.rr, n.kind = o.kind,
         n.modified <=> o.modified, n.ifNoValue <=> o.ifNoValue
  PROVE  SourceOK(n)
BY DEF SourceOK

LEMMA CommonOK ==
  ASSUME NEW o, SourceOK(o), NEW r
  PROVE  /\ SourceOK(Common(o, r)) /\ Common(o, r).kind = o.kind
         /\ Common(o, r).uncond <=> ~IsConditional(r.gen)
<1>. DEFINE n == Common(o, r)
<1>0. DOMAIN o = DOMAIN NoOp BY DEF SourceOK
<1>1. /\ DOMAIN n = DOMAIN NoOp /\ n.rr = o.rr /\ n.kind = o.kind
      /\ n.modified = o.modified /\ n.ifNoValue = o.ifNoValue
  BY <1>0, SourceFields DEF Common
<1>2. n.uncond = ~IsConditional(r.gen) BY <1>0, SourceFields DEF Common
<1>. HIDE DEF n
<1>3. (n.modified <=> o.modified) /\ (n.ifNoValue <=> o.ifNoValue) BY <1>1
<1>4. SourceOK(n) BY <1>1, <1>3, FlagsOK
<1>. QED BY <1>1, <1>2, <1>4 DEF n

LEMMA AnswerOK ==
  ASSUME NEW id, NEW o, SourceOK(o), o.kind \in Kinds, NEW mode, NEW bound, Answers(o, mode, bound)
  PROVE  ResultOK(Answer(id, o, mode))
<1>0. ResultOK(o.rr) /\ DOMAIN o.rr.gen = GenFields BY DEF SourceOK, ResultOK
<1>1. CASE o.kind = "write"
  <2>1. ResultOK(Unspecified(Unknown, Past)) BY ResultsOK
  <2>. QED BY <1>0, <1>1, <2>1 DEF Answer
<1>2. CASE o.kind = "read"
  <2>1. o.rr.gen = Unknown \/ ~IsDirty(o.rr.gen) BY <1>2 DEF Answers
  <2>2. ~IsDirty(o.rr.gen) BY <2>1, ResultsOK
  <2>3. \A time : ResultOK(Unspecified(o.rr.gen, time)) BY <1>0, <2>2, ResultsOK
  <2>. QED BY <1>2, <2>3 DEF Answer
<1>3. CASE o.kind = "modify"
  <2>1. ResultOK(Unspecified(Unknown, Future)) /\ ResultOK(Modified(id, o.rr))
    BY <1>0, ResultsOK, ModifiedOK
  <2>. QED BY <1>3, <2>1 DEF Answer
<1>. QED BY <1>1, <1>2, <1>3 DEF Kinds

LEMMA ReceiveOK ==
  ASSUME NEW id, NEW o, SourceOK(o), o.kind \in Kinds, NEW mode, NEW in, ResultOK(in)
  PROVE  /\ SourceOK(Receive(id, o, mode, in).op) /\ Receive(id, o, mode, in).op.kind = o.kind
         /\ ResultOK(Receive(id, o, mode, in).res)
<1>. DEFINE R == Receive(id, o, mode, in)
<1>0. /\ DOMAIN o = DOMAIN NoOp /\ ResultOK(o.rr)
      /\ {"rr", "kind", "modified", "ifNoValue"} \subseteq DOMAIN o
  BY SourceFields DEF SourceOK
<1>1. ASSUME NEW a, NEW b, NEW c
      PROVE  Outcome(a, b, c).op = a /\ Outcome(a, b, c).res = b
  BY DEF Outcome
<1>2. CASE o.kind = "write" /\ Matches(o, in)
  <2>. DEFINE g == IF o.modified THEN MarkDirty(in.gen, id) ELSE in.gen
              rr == [o.rr EXCEPT !.gen = g, !.time = in.time]
              n == [o EXCEPT !.rr = rr]
  <2>1. R = Outcome(n, rr, FALSE) BY <1>2 DEF Receive
  <2>2. DOMAIN g = GenFields BY GenerationsOK DEF ResultOK
  <2>3. IsDirty(g) => o.rr.st # "unspecified"
    <3>1. CASE o.modified BY <1>2, <3>1 DEF SourceOK
    <3>2. CASE ~o.modified
      <4>1. ~o.ifNoValue BY <1>2, <3>2 DEF SourceOK
      <4>2. in.gen = o.rr.gen BY <1>2, <3>2, <4>1 DEF Matches, BaseGeneration
      <4>. QED BY <1>0, <3>2, <4>2 DEF ResultOK
    <3>. QED BY <3>1, <3>2
  <2>. HIDE DEF g
  <2>4. DOMAIN rr = ResultFields /\ rr.gen = g /\ rr.st = o.rr.st
    BY <1>0 DEF ResultOK, ResultFields
  <2>. HIDE DEF rr
  <2>5. ResultOK(rr) BY <2>2, <2>3, <2>4 DEF ResultOK
  <2>6. /\ DOMAIN n = DOMAIN NoOp /\ n.rr = rr /\ n.kind = o.kind
        /\ n.modified = o.modified /\ n.ifNoValue = o.ifNoValue
    BY <1>0
  <2>. HIDE DEF n
  <2>7. SourceOK(n)
    <3>1. n.kind = "write" /\ n.modified => n.rr.st # "unspecified"
      BY <2>4, <2>6, <1>2 DEF SourceOK
    <3>2. n.kind = "write" /\ ~n.modified => ~n.ifNoValue BY <2>6, <1>2 DEF SourceOK
    <3>. QED BY <2>5, <2>6, <3>1, <3>2 DEF SourceOK
  <2>. HIDE DEF R
  <2>8. R.op = n /\ R.res = rr BY <2>1 DEF Outcome
  <2>9. SourceOK(R.op) /\ R.op.kind = o.kind /\ ResultOK(R.res) BY <2>5, <2>6, <2>7, <2>8
  <2>. QED BY <2>9 DEF R
<1>3. CASE o.kind = "write" /\ ~Matches(o, in)
  <2>1. CASE o.fail
    <3>1. R = Outcome(o, in, TRUE) BY <1>3, <2>1 DEF Receive
    <3>. HIDE DEF R
    <3>2. R.op = o /\ R.res = in BY <3>1 DEF Outcome
    <3>3. SourceOK(R.op) /\ R.op.kind = o.kind /\ ResultOK(R.res) BY <3>2
    <3>. QED BY <3>3 DEF R
  <2>2. CASE ~o.fail
    <3>. DEFINE n == [o EXCEPT !.rr = in, !.ifNoValue = FALSE, !.modified = FALSE]
    <3>1. R = Outcome(n, in, FALSE) BY <1>3, <2>2 DEF Receive
    <3>2. DOMAIN n = DOMAIN NoOp /\ n.rr = in /\ n.kind = o.kind BY <1>0
    <3>3. n.modified = FALSE /\ n.ifNoValue = FALSE BY <1>0
    <3>. HIDE DEF n
    <3>4. ~n.modified /\ ~n.ifNoValue BY <3>3
    <3>5. SourceOK(n) BY <3>2, <3>4 DEF SourceOK
    <3>. HIDE DEF R
    <3>6. R.op = n /\ R.res = in BY <3>1 DEF Outcome
    <3>7. SourceOK(R.op) /\ R.op.kind = o.kind /\ ResultOK(R.res) BY <3>2, <3>5, <3>6
    <3>. QED BY <3>7 DEF R
  <2>. QED BY <2>1, <2>2
<1>4. CASE o.kind = "read"
  <2>. DEFINE x == IF mode # "specify" /\ in.st = "value" THEN [in EXCEPT !.val = Empty] ELSE in
  <2>1. \E e : R = Outcome(o, x, e) BY <1>4 DEF Receive
  <2>2. ResultOK(x)
    <3>. DEFINE y == [in EXCEPT !.val = Empty]
    <3>1. DOMAIN y = ResultFields /\ y.gen = in.gen /\ y.st = in.st
      BY DEF ResultOK, ResultFields
    <3>. HIDE DEF y
    <3>2. ResultOK(y) BY <3>1 DEF ResultOK
    <3>. QED BY <3>2 DEF y
  <2>. HIDE DEF x
  <2>. QED BY <1>1, <2>1, <2>2
<1>5. CASE o.kind = "modify"
  <2>. DEFINE n == [o EXCEPT !.rr = in]
  <2>1. R = Outcome(n, Modified(id, in), FALSE) BY <1>5 DEF Receive
  <2>2. DOMAIN n = DOMAIN NoOp /\ n.rr = in /\ n.kind = o.kind BY <1>0
  <2>. HIDE DEF n
  <2>3. SourceOK(n) BY <1>5, <2>2 DEF SourceOK
  <2>. HIDE DEF R
  <2>4. R.op = n /\ R.res = Modified(id, in) BY <2>1 DEF Outcome
  <2>5. SourceOK(R.op) /\ R.op.kind = o.kind /\ ResultOK(R.res) BY <2>2, <2>3, <2>4, ModifiedOK
  <2>. QED BY <2>5 DEF R
<1>. QED BY <1>2, <1>3, <1>4, <1>5 DEF Kinds

\* What goes up a chain of entries: an answer, and the sources so far.
AccOK(a) ==
    SourcesOK(a.ops) /\ ResultOK(a.res) /\ \A o \in Op : a.ops[o].kind = ops[o].kind

\* One source is replaced.
LEMMA SourceReplaced ==
  ASSUME NEW S, SourcesOK(S), NEW x \in Op, NEW n, SourceOK(n), n.kind = S[x].kind
  PROVE  /\ SourcesOK([S EXCEPT ![x] = n]) /\ [S EXCEPT ![x] = n][x] = n
         /\ \A o \in Op : [S EXCEPT ![x] = n][o].kind = S[o].kind
<1>. DEFINE T == [S EXCEPT ![x] = n]
<1>1. DOMAIN S = Op /\ \A o \in Op : SourceOK(S[o]) BY DEF SourcesOK
<1>2. DOMAIN T = Op /\ T[x] = n /\ \A o \in Op : o # x => T[o] = S[o] BY <1>1
<1>. HIDE DEF T
<1>3. \A o \in Op : SourceOK(T[o]) /\ T[o].kind = S[o].kind BY <1>1, <1>2
<1>. QED BY <1>2, <1>3 DEF SourcesOK, T

LEMMA AscendOK ==
  ASSUME NEW es, NEW i, NEW mode, NEW below, AccOK(below), NEW j, es[j] \in Op, es[j - 1] \in Op,
         ops[es[j]].kind \in Kinds
  PROVE  AccOK(Ascend(es, i, mode, below, j))
<1>0. SourcesOK(below.ops) /\ ResultOK(below.res) /\ \A o \in Op : below.ops[o].kind = ops[o].kind
  BY DEF AccOK
<1>. DEFINE x == es[j - 1]
            y == es[j]
            n == Common(below.ops[x], below.res)
            S == [below.ops EXCEPT ![x] = n]
            m == [S[y] EXCEPT !.uncond = @ \/ ~IsConditional(below.res.gen)]
            T == [S EXCEPT ![y] = m]
            a == Receive(y, T[y], ModeAt(es, i, mode, j), below.res)
            U == [T EXCEPT ![y] = a.op]
<1>1. SourceOK(n) /\ n.kind = below.ops[x].kind BY <1>0, CommonOK DEF SourcesOK
<1>2. SourcesOK(S) /\ \A o \in Op : S[o].kind = ops[o].kind
  <2>. HIDE DEF n
  <2>. QED BY <1>0, <1>1, SourceReplaced
<1>3. [below.ops EXCEPT ![es[j - 1]] = Common(@, below.res),
                        ![es[j]].uncond = @ \/ ~IsConditional(below.res.gen)] = T
  OBVIOUS
<1>. HIDE DEF S
<1>4. SourceOK(S[y]) BY <1>2 DEF SourcesOK
<1>5. SourceOK(m) /\ m.kind = S[y].kind
  <2>1. DOMAIN S[y] = DOMAIN NoOp BY <1>4 DEF SourceOK
  <2>2. /\ DOMAIN m = DOMAIN NoOp /\ m.rr = S[y].rr /\ m.kind = S[y].kind
        /\ m.modified = S[y].modified /\ m.ifNoValue = S[y].ifNoValue
    BY <2>1, SourceFields
  <2>. HIDE DEF m
  <2>3. (m.modified <=> S[y].modified) /\ (m.ifNoValue <=> S[y].ifNoValue) BY <2>2
  <2>. QED BY <1>4, <2>2, <2>3, FlagsOK
<1>6. SourcesOK(T) /\ T[y] = m /\ \A o \in Op : T[o].kind = ops[o].kind
  <2>. HIDE DEF m
  <2>. QED BY <1>2, <1>5, SourceReplaced
<1>. HIDE DEF m, T
<1>7. SourceOK(T[y]) /\ T[y].kind \in Kinds BY <1>5, <1>6
<1>8. SourceOK(a.op) /\ a.op.kind = T[y].kind /\ ResultOK(a.res) BY <1>0, <1>7, ReceiveOK
<1>9. Ascend(es, i, mode, below, j) =
         IF below.err THEN below ELSE [res |-> a.res, ops |-> U, err |-> a.err]
  BY <1>3 DEF Ascend
<1>. HIDE DEF a
<1>10. SourcesOK(U) /\ \A o \in Op : U[o].kind = ops[o].kind BY <1>6, <1>8, SourceReplaced
<1>. HIDE DEF U
<1>11. AccOK([res |-> a.res, ops |-> U, err |-> a.err]) BY <1>8, <1>10 DEF AccOK
<1>. QED BY <1>9, <1>11

\* The answers of the entries s .. m, one on top of the other.
Answered(f, es, i, mode, s, base, m) ==
    f = [j \in s .. m |-> IF j = s THEN base ELSE Ascend(es, i, mode, f[j - 1], j)]

LEMMA AnsweredExists ==
  ASSUME NEW es, NEW mode, NEW base, NEW s \in Nat, NEW i \in Nat, s <= i
  PROVE  \E f : Answered(f, es, i, mode, s, base, i)
<1>. DEFINE T == {m \in s .. i : ~ \E f : Answered(f, es, i, mode, s, base, m)}
<1>. SUFFICES ASSUME T # {} PROVE FALSE OBVIOUS
<1>1. PICK m \in T : \A n \in T : m <= n
  <2>1. T \in SUBSET Nat OBVIOUS
  <2>. HIDE DEF T
  <2>. QED BY <2>1, Smallest
<1>2. CASE m = s
  <2>. DEFINE f == [j \in s .. s |-> base]
  <2>1. Answered(f, es, i, mode, s, base, s) BY DEF Answered
  <2>. QED BY <1>2, <2>1
<1>3. CASE m # s
  <2>1. m - 1 \in s .. i /\ m - 1 \notin T BY <1>1, <1>3
  <2>2. PICK f : Answered(f, es, i, mode, s, base, m - 1) BY <2>1
  <2>. DEFINE g == [j \in s .. m |-> IF j = m THEN Ascend(es, i, mode, f[m - 1], m) ELSE f[j]]
  <2>3. DOMAIN g = s .. m /\ DOMAIN [j \in s .. m |-> IF j = s THEN base
                                        ELSE Ascend(es, i, mode, g[j - 1], j)] = s .. m
    OBVIOUS
  <2>4. ASSUME NEW j \in s .. m
        PROVE  g[j] = IF j = s THEN base ELSE Ascend(es, i, mode, g[j - 1], j)
    <3>1. CASE j = m
      <4>1. m - 1 \in s .. m /\ m - 1 # m BY <2>1
      <4>2. g[m - 1] = f[m - 1] BY <4>1
      <4>3. g[j] = Ascend(es, i, mode, f[m - 1], m) BY <3>1
      <4>. QED BY <1>3, <3>1, <4>2, <4>3
    <3>2. CASE j # m
      <4>1. j \in s .. m - 1 BY <2>1, <3>2
      <4>2. g[j] = f[j] BY <3>2
      <4>3. f[j] = IF j = s THEN base ELSE Ascend(es, i, mode, f[j - 1], j)
        BY <2>2, <4>1 DEF Answered
      <4>4. j # s => j - 1 \in s .. m /\ j - 1 # m BY <4>1, <2>1
      <4>5. j # s => g[j - 1] = f[j - 1] BY <4>4
      <4>. QED BY <4>2, <4>3, <4>5
    <3>. QED BY <3>1, <3>2
  <2>5. Answered(g, es, i, mode, s, base, m)
    <3>1. g = [j \in s .. m |-> g[j]] OBVIOUS
    <3>. HIDE DEF g
    <3>. QED BY <2>3, <2>4, <3>1 DEF Answered
  <2>. QED BY <2>5
<1>. QED BY <1>2, <1>3

LEMMA AnsweredOK ==
  ASSUME NEW es, NEW mode, NEW base, NEW s \in Nat, NEW i \in Nat, NEW f,
         Answered(f, es, i, mode, s, base, i), AccOK(base),
         \A j \in s .. i : es[j] \in Op /\ ops[es[j]].kind \in Kinds
  PROVE  \A j \in s .. i : AccOK(f[j])
<1>. DEFINE T == {j \in s .. i : ~AccOK(f[j])}
<1>. SUFFICES ASSUME T # {} PROVE FALSE OBVIOUS
<1>1. PICK m \in T : \A n \in T : m <= n
  <2>1. T \in SUBSET Nat OBVIOUS
  <2>. HIDE DEF T
  <2>. QED BY <2>1, Smallest
<1>2. f[m] = IF m = s THEN base ELSE Ascend(es, i, mode, f[m - 1], m) BY DEF Answered
<1>3. CASE m = s BY <1>2, <1>3
<1>4. CASE m # s
  <2>1. m - 1 \in s .. i /\ m - 1 \notin T BY <1>1, <1>4
  <2>2. AccOK(f[m - 1]) BY <2>1
  <2>3. es[m] \in Op /\ es[m - 1] \in Op /\ ops[es[m]].kind \in Kinds BY <2>1
  <2>4. AccOK(Ascend(es, i, mode, f[m - 1], m)) BY <2>2, <2>3, AscendOK
  <2>. QED BY <1>2, <1>4, <2>4
<1>. QED BY <1>3, <1>4

LEMMA LastAskedIn ==
  ASSUME NEW es, NEW i \in Nat, i >= 1, NEW mode, NEW bound
  PROVE  LastAsked(es, i, mode, bound) \in 1 .. i
<1>. DEFINE T == {1} \cup {j \in 1 .. i : \/ Answers(ops[es[j]], ModeAt(es, i, mode, j), bound)
                                          \/ ops[es[j]].prevDeleted}
<1>1. T \in SUBSET (0 .. i) /\ T # {} /\ T \subseteq 1 .. i OBVIOUS
<1>2. LastAsked(es, i, mode, bound) = Max(T) BY DEF LastAsked
<1>. HIDE DEF T
<1>3. Max(T) \in T BY <1>1, MaxIn
<1>. QED BY <1>1, <1>2, <1>3

LEMMA WritebackOK ==
  ASSUME SourcesOK(ops), NEW es, NEW i \in Nat, i >= 1,
         \A j \in 1 .. i : es[j] \in Op /\ ops[es[j]].kind \in Kinds,
         NEW mode, NEW bound, NEW r, ResultOK(r)
  PROVE  AccOK(KvsWriteback(es, i, mode, bound, r))
<1>. DEFINE s == LastAsked(es, i, mode, bound)
            m == ModeAt(es, i, mode, s)
            o == ops[es[s]]
            first == IF Answers(o, m, bound) THEN Outcome(o, Answer(es[s], o, m), FALSE)
                     ELSE Receive(es[s], o, m, ReadBelow(o, r))
            base == [res |-> first.res, ops |-> [ops EXCEPT ![es[s]] = first.op], err |-> first.err]
            up == CHOOSE f : f = [j \in s .. i |-> IF j = s THEN base
                                                   ELSE Ascend(es, i, mode, f[j - 1], j)]
<1>1. s \in Nat /\ s <= i /\ s >= 1 BY LastAskedIn
<1>2. KvsWriteback(es, i, mode, bound, r) = up[i] BY DEF KvsWriteback
<1>. HIDE DEF base
<1>3. Answered(up, es, i, mode, s, base, i)
  <2>1. \E f : f = [j \in s .. i |-> IF j = s THEN base ELSE Ascend(es, i, mode, f[j - 1], j)]
    <3>. HIDE DEF s
    <3>1. \E f : Answered(f, es, i, mode, s, base, i) BY <1>1, AnsweredExists
    <3>. QED BY <3>1, Zenon DEF Answered
  <2>. QED BY <2>1 DEF Answered
<1>. HIDE DEF up
<1>4. es[s] \in Op /\ SourceOK(o) /\ o.kind \in Kinds BY <1>1 DEF SourcesOK
<1>. HIDE DEF s, m, o
<1>5. SourceOK(first.op) /\ first.op.kind = o.kind /\ ResultOK(first.res)
  <2>1. CASE Answers(o, m, bound)
    <3>. DEFINE a == Answer(es[s], o, m)
    <3>1. ResultOK(a) BY <1>4, <2>1, AnswerOK
    <3>. HIDE DEF a
    <3>2. first = Outcome(o, a, FALSE) BY <2>1 DEF a
    <3>. HIDE DEF first
    <3>3. first.op = o /\ first.res = a BY <3>2 DEF Outcome
    <3>. QED BY <1>4, <3>1, <3>3
  <2>2. CASE ~Answers(o, m, bound)
    <3>1. ResultOK(ReadBelow(o, r)) BY ReadBelowOK
    <3>2. first = Receive(es[s], o, m, ReadBelow(o, r)) BY <2>2
    <3>. HIDE DEF first
    <3>. QED BY <1>4, <3>1, <3>2, ReceiveOK
  <2>. QED BY <2>1, <2>2
<1>. HIDE DEF first
<1>6. AccOK(base)
  <2>. DEFINE S == [ops EXCEPT ![es[s]] = first.op]
  <2>1. SourcesOK(S) /\ \A x \in Op : S[x].kind = ops[x].kind
    <3>1. first.op.kind = ops[es[s]].kind BY <1>5 DEF o
    <3>. QED BY <1>4, <1>5, <3>1, SourceReplaced
  <2>. HIDE DEF S
  <2>2. base = [res |-> first.res, ops |-> S, err |-> first.err] BY DEF base, S
  <2>3. base.res = first.res /\ base.ops = S BY <2>2
  <2>. QED BY <1>5, <2>1, <2>3 DEF AccOK
<1>7. \A j \in s .. i : es[j] \in Op /\ ops[es[j]].kind \in Kinds BY <1>1
<1>8. \A j \in s .. i : AccOK(up[j]) BY <1>1, <1>3, <1>6, <1>7, AnsweredOK
<1>9. AccOK(up[i]) BY <1>1, <1>8
<1>. QED BY <1>2, <1>9

\* FlattenSeq, by its partial results.
Flattening(f, seqs, n) == f = [i \in 1 .. n |-> IF i = 1 THEN seqs[i] ELSE f[i - 1] \o seqs[i]]

LEMMA FlatteningExists ==
  ASSUME NEW seqs, NEW N \in Nat, N >= 1
  PROVE  \E f : Flattening(f, seqs, N)
<1>. DEFINE T == {m \in 1 .. N : ~ \E f : Flattening(f, seqs, m)}
<1>. SUFFICES ASSUME T # {} PROVE FALSE OBVIOUS
<1>1. PICK m \in T : \A n \in T : m <= n
  <2>1. T \in SUBSET Nat OBVIOUS
  <2>. HIDE DEF T
  <2>. QED BY <2>1, Smallest
<1>2. CASE m = 1
  <2>. DEFINE f == [j \in 1 .. 1 |-> seqs[j]]
  <2>1. Flattening(f, seqs, 1) BY DEF Flattening
  <2>. QED BY <1>2, <2>1
<1>3. CASE m # 1
  <2>1. m - 1 \in 1 .. N /\ m - 1 \notin T BY <1>1, <1>3
  <2>2. PICK f : Flattening(f, seqs, m - 1) BY <2>1
  <2>. DEFINE g == [j \in 1 .. m |-> IF j = m THEN f[m - 1] \o seqs[m] ELSE f[j]]
  <2>3. g = [j \in 1 .. m |-> g[j]] OBVIOUS
  <2>4. ASSUME NEW j \in 1 .. m
        PROVE  g[j] = IF j = 1 THEN seqs[j] ELSE g[j - 1] \o seqs[j]
    <3>1. CASE j = m
      <4>1. m - 1 \in 1 .. m /\ m - 1 # m BY <2>1
      <4>2. g[m - 1] = f[m - 1] BY <4>1
      <4>3. g[j] = f[m - 1] \o seqs[m] BY <3>1
      <4>. QED BY <1>3, <3>1, <4>2, <4>3
    <3>2. CASE j # m
      <4>1. j \in 1 .. m - 1 BY <2>1, <3>2
      <4>2. g[j] = f[j] BY <3>2
      <4>3. f[j] = IF j = 1 THEN seqs[j] ELSE f[j - 1] \o seqs[j] BY <2>2, <4>1 DEF Flattening
      <4>4. j # 1 => j - 1 \in 1 .. m /\ j - 1 # m BY <4>1, <2>1
      <4>5. j # 1 => g[j - 1] = f[j - 1] BY <4>4
      <4>. QED BY <4>2, <4>3, <4>5
    <3>. QED BY <3>1, <3>2
  <2>5. Flattening(g, seqs, m)
    <3>. HIDE DEF g
    <3>. QED BY <2>3, <2>4 DEF Flattening
  <2>. QED BY <2>5
<1>. QED BY <1>2, <1>3

\* The elements of a flattened sequence, and when there are any.
LEMMA Flattened ==
  ASSUME NEW E, NEW N \in Nat, N >= 1, NEW seqs \in [1 .. N -> Seq(E)]
  PROVE  /\ FlattenSeq(seqs) \in Seq(E)
         /\ (\E x \in 1 .. N : seqs[x] # << >>) => FlattenSeq(seqs) # << >>
<1>. DEFINE f == CHOOSE f : f = [i \in 1 .. N |-> IF i = 1 THEN seqs[i] ELSE f[i - 1] \o seqs[i]]
<1>1. Len(seqs) = N OBVIOUS
<1>2. FlattenSeq(seqs) = f[N] BY <1>1 DEF FlattenSeq
<1>3. Flattening(f, seqs, N)
  <2>1. \E g : Flattening(g, seqs, N) BY FlatteningExists
  <2>2. \E g : g = [i \in 1 .. N |-> IF i = 1 THEN seqs[i] ELSE g[i - 1] \o seqs[i]]
    BY <2>1, Zenon DEF Flattening
  <2>. QED BY <2>2 DEF Flattening
<1>. HIDE DEF f
<1>. DEFINE Good(i) == /\ f[i] \in Seq(E)
                       /\ (\E x \in 1 .. i : seqs[x] # << >>) => f[i] # << >>
            T == {i \in 1 .. N : ~Good(i)}
<1>4. T = {}
  <2>. SUFFICES ASSUME T # {} PROVE FALSE OBVIOUS
  <2>1. PICK m \in T : \A n \in T : m <= n
    <3>1. T \in SUBSET Nat OBVIOUS
    <3>. HIDE DEF T
    <3>. QED BY <3>1, Smallest
  <2>2. f[m] = IF m = 1 THEN seqs[m] ELSE f[m - 1] \o seqs[m] BY <1>3 DEF Flattening
  <2>3. CASE m = 1
    <3>1. \A x \in 1 .. 1 : x = 1 OBVIOUS
    <3>. QED BY <2>2, <2>3, <3>1
  <2>4. CASE m # 1
    <3>1. m - 1 \in 1 .. N /\ m - 1 \notin T BY <2>1, <2>4
    <3>2. Good(m - 1) BY <3>1
    <3>3. seqs[m] \in Seq(E) /\ f[m - 1] \in Seq(E) /\ f[m] = f[m - 1] \o seqs[m]
      BY <2>2, <2>4, <3>2
    <3>4. f[m] \in Seq(E) /\ (f[m - 1] # << >> \/ seqs[m] # << >> => f[m] # << >>) BY <3>3
    <3>5. \A x \in 1 .. m : x = m \/ x \in 1 .. m - 1 OBVIOUS
    <3>. QED BY <3>2, <3>4, <3>5
  <2>. QED BY <2>3, <2>4
<1>5. Good(N)
  <2>1. N \in 1 .. N OBVIOUS
  <2>. HIDE DEF Good
  <2>. QED BY <1>4, <2>1
<1>. QED BY <1>2, <1>5

Sourced == {o \in Op : ops[o].kind \in Kinds}

\* The chains of one key, and all of them linked, are entries with a source.
LEMMA LinkedFacts ==
  ASSUME TypeOK, KindsOK(ops), NEW k \in Key
  PROVE  /\ \A p \in Phase : chain[p][k] \in Seq(Sourced)
         /\ Linked(k) \in Seq(Sourced)
         /\ Covering(k) = "entry" => Linked(k) # << >>
<1>1. ASSUME NEW p \in Phase PROVE chain[p][k] \in Seq(Sourced)
  <2>1. chain[p][k] \in Seq(Op) BY DEF TypeOK
  <2>2. ASSUME NEW i \in 1 .. Len(chain[p][k]) PROVE chain[p][k][i] \in Sourced
    <3>1. chain[p][k][i] \in ToSet(chain[p][k]) /\ chain[p][k][i] \in Op BY <2>1 DEF ToSet
    <3>. QED BY <3>1 DEF KindsOK, Sourced
  <2>. QED BY <2>1, <2>2
<1>2. phase \in Nat /\ phase + 1 >= 1 /\ \A i \in 1 .. phase + 1 : i - 1 \in Phase
  BY ConstantsAssumption DEF TypeOK, Phase
<1>. DEFINE seqs == [i \in 1 .. phase + 1 |-> chain[i - 1][k]]
<1>3. seqs \in [1 .. phase + 1 -> Seq(Sourced)] BY <1>1, <1>2
<1>4. Linked(k) = FlattenSeq(seqs) BY DEF Linked
<1>5. ASSUME Covering(k) = "entry" PROVE \E x \in 1 .. phase + 1 : seqs[x] # << >>
  <2>. DEFINE ps == {p \in Phase : p <= phase /\ Touches(p, k)}
  <2>1. ps # {} /\ ~InRange(Max(ps), k) BY <1>5 DEF Covering
  <2>2. ps \in SUBSET (0 .. MaxPhase) /\ MaxPhase \in Nat BY ConstantsAssumption DEF Phase
  <2>3. Max(ps) \in ps
    <3>. HIDE DEF ps
    <3>. QED BY <2>1, <2>2, MaxIn
  <2>4. PICK p \in Phase : p = Max(ps) /\ p <= phase /\ Touches(p, k) BY <2>3
  <2>5. chain[p][k] # << >> BY <2>1, <2>4 DEF Touches
  <2>6. p + 1 \in 1 .. phase + 1 /\ (p + 1) - 1 = p BY <1>2, <2>4, ConstantsAssumption DEF Phase
  <2>. QED BY <2>5, <2>6
<1>. HIDE DEF seqs
<1>. QED BY <1>1, <1>2, <1>3, <1>4, <1>5, Flattened

LEMMA ViewOK ==
  ASSUME TypeOK, SourcesOK(ops), KindsOK(ops), NEW k \in Key
  PROVE  AccOK(View(k))
<1>. DEFINE v == View(k)
            st == StoreRead(k, CommitStart)
            es == Linked(k)
            w == KvsWriteback(es, Len(es), "specify", Past, st)
<1>0. ResultOK(st) BY StoreReadOK
<1>1. Covering(k) \in {"none", "deleted", "entry"} BY DEF Covering
<1>. HIDE DEF st
<1>2. CASE Covering(k) = "none"
  <2>1. v = [res |-> st, ops |-> ops, err |-> FALSE, uncond |-> FALSE] BY <1>2 DEF View, st
  <2>. HIDE DEF v
  <2>2. v.res = st /\ v.ops = ops BY <2>1
  <2>3. AccOK(v) BY <1>0, <2>2 DEF AccOK
  <2>. QED BY <2>3 DEF v
<1>3. CASE Covering(k) = "deleted"
  <2>. DEFINE rb == ReadBelow([NoOp EXCEPT !.prevDeleted = TRUE], st)
  <2>0. ResultOK(rb) BY <1>0, ReadBelowOK
  <2>. HIDE DEF rb
  <2>1. v = [res |-> rb, ops |-> ops, err |-> FALSE, uncond |-> FALSE] BY <1>3 DEF View, st, rb
  <2>. HIDE DEF v
  <2>2. v.res = rb /\ v.ops = ops BY <2>1
  <2>3. AccOK(v) BY <2>0, <2>2 DEF AccOK
  <2>. QED BY <2>3 DEF v
<1>4. CASE Covering(k) = "entry"
  <2>1. es \in Seq(Sourced) /\ es # << >> BY <1>4, LinkedFacts
  <2>2. /\ Len(es) \in Nat /\ Len(es) >= 1
        /\ \A j \in 1 .. Len(es) : es[j] \in Op /\ ops[es[j]].kind \in Kinds
    <3>. HIDE DEF es
    <3>. QED BY <2>1 DEF Sourced
  <2>3. AccOK(w)
    <3>. HIDE DEF es
    <3>. QED BY <1>0, <2>2, WritebackOK
  <2>. DEFINE n == Common(w.ops[Last(es)], w.res)
              S == [w.ops EXCEPT ![Last(es)] = n]
  <2>4. v = [res |-> w.res, ops |-> S, err |-> w.err, uncond |-> ~IsConditional(w.res.gen)]
    BY <1>4 DEF View, st
  <2>5. Last(es) \in Op
    <3>. HIDE DEF es
    <3>. QED BY <2>2 DEF Last
  <2>. HIDE DEF es, w, v
  <2>6. SourcesOK(w.ops) /\ ResultOK(w.res) /\ \A o \in Op : w.ops[o].kind = ops[o].kind
    BY <2>3 DEF AccOK
  <2>7. SourceOK(n) /\ n.kind = w.ops[Last(es)].kind BY <2>5, <2>6, CommonOK DEF SourcesOK
  <2>. HIDE DEF n
  <2>8. SourcesOK(S) /\ \A o \in Op : S[o].kind = ops[o].kind
    BY <2>5, <2>6, <2>7, SourceReplaced
  <2>. HIDE DEF S
  <2>9. v.res = w.res /\ v.ops = S BY <2>4
  <2>10. AccOK(v) BY <2>6, <2>8, <2>9 DEF AccOK
  <2>. QED BY <2>10 DEF v
<1>. QED BY <1>1, <1>2, <1>3, <1>4

\* The sources once an operation has been added.
LEMMA ReadModifyWriteOK ==
  ASSUME TypeOK, KindsOK(ops), NEW k \in Key, NEW o, SourceOK(o), o.kind \in Kinds, NEW sources,
         SourcesOK(sources), \A x \in Op : sources[x].kind = ops[x].kind,
         ReadModifyWrite(k, o, sources)
  PROVE  SourcesOK(ops') /\ KindsOK(ops)'
<1>0. /\ phase \in Phase /\ nops \in 0 .. MaxOps /\ chain \in [Phase -> [Key -> Seq(Op)]]
      /\ DOMAIN o = DOMAIN NoOp /\ DOMAIN sources = Op
  BY DEF TypeOK, SourceOK, SourcesOK
<1>. DEFINE id == nops + 1
            new == [o EXCEPT !.key = k, !.prevDeleted = PrevDeleted(k),
                             !.uncond = @ \/ PrevDeleted(k),
                             !.nonRetryable = IF Covering(k) = "entry"
                                              THEN ops[Last(Linked(k))].nonRetryable
                                              ELSE o.kind # "modify"]
<1>1. /\ nops < MaxOps /\ ops' = [sources EXCEPT ![id] = new]
      /\ chain' = [chain EXCEPT ![phase][k] = Append(@, id)]
  BY DEF ReadModifyWrite
<1>2. id \in Op BY <1>0, <1>1, ConstantsAssumption DEF Op
<1>3. SourceOK(new) /\ new.kind = o.kind
  <2>1. /\ DOMAIN new = DOMAIN NoOp /\ new.rr = o.rr /\ new.kind = o.kind
        /\ new.modified = o.modified /\ new.ifNoValue = o.ifNoValue
    BY <1>0, SourceFields
  <2>. HIDE DEF new
  <2>2. (new.modified <=> o.modified) /\ (new.ifNoValue <=> o.ifNoValue) BY <2>1
  <2>. QED BY <2>1, <2>2, FlagsOK
<1>. HIDE DEF id, new
<1>4. /\ DOMAIN ops' = Op /\ ops'[id] = new /\ \A x \in Op : x # id => ops'[x] = sources[x]
  BY <1>0, <1>1, <1>2
<1>5. SourcesOK(ops') BY <1>3, <1>4 DEF SourcesOK
<1>6. ASSUME NEW p \in Phase, NEW l \in Key, NEW x \in ToSet(chain'[p][l])
      PROVE  ops'[x].kind \in Kinds
  <2>1. x = id \/ x \in ToSet(chain[p][l])
    <3>1. CASE p = phase /\ l = k
      <4>1. chain'[p][l] = Append(chain[p][l], id) BY <1>0, <1>1, <3>1
      <4>2. chain[p][l] \in Seq(Op) BY <1>0
      <4>3. ToSet(Append(chain[p][l], id)) = ToSet(chain[p][l]) \cup {id}
        BY <1>2, <4>2, AppendEntry
      <4>. QED BY <4>1, <4>3
    <3>2. CASE ~(p = phase /\ l = k)
      <4>1. chain'[p][l] = chain[p][l] BY <1>0, <1>1, <3>2
      <4>. QED BY <4>1
    <3>. QED BY <3>1, <3>2
  <2>2. CASE x = id BY <1>3, <1>4, <2>2
  <2>3. CASE x # id
    <3>1. x \in Op BY <2>1, <2>3, EntriesAreOps
    <3>2. ops[x].kind \in Kinds BY <2>1, <2>3 DEF KindsOK
    <3>. QED BY <1>4, <2>3, <3>1, <3>2
  <2>. QED BY <2>2, <2>3
<1>. QED BY <1>5, <1>6 DEF KindsOK

LEMMA WriteOK ==
  ASSUME TypeOK, SourcesOK(ops), KindsOK(ops), NEW k \in Key, NEW form, NEW cond, NEW val,
         Write(k, form, cond, val)
  PROVE  SourcesOK(ops') /\ KindsOK(ops)'
<1>. DEFINE g == MarkDirty([base |-> cond, tags |-> << >>], MutationId(nops + 1, cond, val))
            rr == Result(val, g, IF cond = NoBase THEN Future ELSE Epoch)
            o == [NoOp EXCEPT !.kind = "write", !.cond = cond, !.fail = form = "write",
                              !.needed = form = "committed", !.modified = TRUE,
                              !.ifNoValue = cond = NoValue, !.rr = rr]
<1>1. ReadModifyWrite(k, o, ops) BY DEF Write
<1>2. DOMAIN g = GenFields
  <2>1. DOMAIN [base |-> cond, tags |-> << >>] = GenFields BY DEF GenFields
  <2>. QED BY <2>1, GenerationsOK
<1>. HIDE DEF g
<1>3. ResultOK(rr) /\ rr.st # "unspecified" BY <1>2, ResultsOK
<1>. HIDE DEF rr
<1>4. DOMAIN o = DOMAIN NoOp /\ o.kind = "write" /\ o.modified = TRUE /\ o.rr = rr
  BY SourceFields
<1>. HIDE DEF o
<1>5. o.modified BY <1>4
<1>6. SourceOK(o) /\ o.kind \in Kinds BY <1>3, <1>4, <1>5 DEF SourceOK, Kinds
<1>. QED BY <1>1, <1>6, ReadModifyWriteOK

\* A source that is not a write, with what it read.
LEMMA ReaderOK ==
  ASSUME NEW o, DOMAIN o = DOMAIN NoOp, o.kind \in {"modify", "read"}, ResultOK(o.rr)
  PROVE  SourceOK(o) /\ o.kind \in Kinds
BY DEF SourceOK, Kinds

LEMMA ModifyOK ==
  ASSUME TypeOK, SourcesOK(ops), KindsOK(ops), NEW k \in Key, NEW cached, Modify(k, cached)
  PROVE  SourcesOK(ops') /\ KindsOK(ops)'
<1>. DEFINE v == View(k)
            new == [NoOp EXCEPT !.kind = "modify", !.fail = TRUE]
            old == [new EXCEPT !.rr = v.res, !.uncond = v.uncond, !.assumed = Assumed(k) # {}]
<1>1. SourcesOK(v.ops) /\ ResultOK(v.res) /\ \A x \in Op : v.ops[x].kind = ops[x].kind
  BY ViewOK DEF AccOK
<1>2. CASE cached
  <2>1. ReadModifyWrite(k, old, v.ops) BY <1>2 DEF Modify
  <2>. HIDE DEF v
  <2>2. DOMAIN old = DOMAIN NoOp /\ old.kind = "modify" /\ old.rr = v.res BY SourceFields
  <2>. HIDE DEF old
  <2>3. SourceOK(old) /\ old.kind \in Kinds BY <1>1, <2>2, ReaderOK
  <2>. QED BY <1>1, <2>1, <2>3, ReadModifyWriteOK
<1>3. CASE ~cached
  <2>1. ReadModifyWrite(k, new, ops) BY <1>3 DEF Modify
  <2>2. DOMAIN new = DOMAIN NoOp /\ new.kind = "modify" /\ new.rr = Unspecified(Unknown, Past)
    BY SourceFields
  <2>. HIDE DEF new
  <2>3. SourceOK(new) /\ new.kind \in Kinds BY <2>2, ReaderOK, ResultsOK
  <2>. QED BY <2>1, <2>3, ReadModifyWriteOK
<1>. QED BY <1>2, <1>3

LEMMA ReadOK ==
  ASSUME TypeOK, SourcesOK(ops), KindsOK(ops), NEW k \in Key, Read(k)
  PROVE  SourcesOK(ops') /\ KindsOK(ops)'
<1>. DEFINE v == View(k)
            new == [NoOp EXCEPT !.kind = "read", !.rr = v.res, !.uncond = v.uncond]
<1>1. SourcesOK(v.ops) /\ ResultOK(v.res) /\ \A x \in Op : v.ops[x].kind = ops[x].kind
  BY ViewOK DEF AccOK
<1>2. ReadModifyWrite(k, new, v.ops) BY DEF Read
<1>. HIDE DEF v
<1>3. DOMAIN new = DOMAIN NoOp /\ new.kind = "read" /\ new.rr = v.res BY SourceFields
<1>. HIDE DEF new
<1>4. SourceOK(new) /\ new.kind \in Kinds BY <1>1, <1>3, ReaderOK
<1>. QED BY <1>1, <1>2, <1>4, ReadModifyWriteOK

\* The sources are the same, but for flags and for what a cache's node read.
LEMMA InvalidatedOK ==
  ASSUME TypeOK, SourcesOK(ops), NEW p
  PROVE  SourcesOK(Invalidated(p)) /\ \A o \in Op : Invalidated(p)[o].kind = ops[o].kind
<1>1. DOMAIN Invalidated(p) = Op BY DEF Invalidated
<1>2. ASSUME NEW o \in Op
      PROVE  \/ Invalidated(p)[o] = ops[o]
             \/ Invalidated(p)[o] = [ops[o] EXCEPT !.uncond = FALSE,
                              !.rr = IF ops[o].kind = "modify" THEN NoOp.rr ELSE @]
  BY DEF Invalidated
<1>3. ASSUME NEW o \in Op
      PROVE  SourceOK(Invalidated(p)[o]) /\ Invalidated(p)[o].kind = ops[o].kind
  <2>. DEFINE n == [ops[o] EXCEPT !.uncond = FALSE,
                              !.rr = IF ops[o].kind = "modify" THEN NoOp.rr ELSE @]
  <2>0. SourceOK(ops[o]) /\ DOMAIN ops[o] = DOMAIN NoOp BY DEF SourcesOK, SourceOK
  <2>1. /\ DOMAIN n = DOMAIN NoOp /\ n.kind = ops[o].kind
        /\ n.rr = IF ops[o].kind = "modify" THEN NoOp.rr ELSE ops[o].rr
        /\ n.modified = ops[o].modified /\ n.ifNoValue = ops[o].ifNoValue
    BY <2>0, SourceFields
  <2>2. Invalidated(p)[o] = ops[o] \/ Invalidated(p)[o] = n BY <1>2
  <2>. HIDE DEF n
  <2>3. SourceOK(n)
    <3>1. CASE ops[o].kind = "modify"
      <4>1. ResultOK(n.rr) BY <2>1, <3>1, SourceFields, ResultsOK
      <4>. QED BY <2>1, <3>1, <4>1, ReaderOK
    <3>2. CASE ops[o].kind # "modify"
      <4>1. (n.modified <=> ops[o].modified) /\ (n.ifNoValue <=> ops[o].ifNoValue) BY <2>1
      <4>2. n.rr = ops[o].rr BY <2>1, <3>2
      <4>. QED BY <2>0, <2>1, <4>1, <4>2, FlagsOK
    <3>. QED BY <3>1, <3>2
  <2>. QED BY <2>0, <2>1, <2>2, <2>3
<1>. QED BY <1>1, <1>3 DEF SourcesOK

LEMMA RestartedOK ==
  ASSUME SourcesOK(ops), NEW es
  PROVE  SourcesOK(Restarted(es)) /\ \A o \in Op : Restarted(es)[o].kind = ops[o].kind
<1>1. DOMAIN Restarted(es) = Op BY DEF Restarted
<1>2. ASSUME NEW o \in Op
      PROVE  SourceOK(Restarted(es)[o]) /\ Restarted(es)[o].kind = ops[o].kind
  <2>. DEFINE n == [ops[o] EXCEPT !.prov = FALSE, !.dirty = FALSE]
  <2>0. SourceOK(ops[o]) /\ DOMAIN ops[o] = DOMAIN NoOp BY DEF SourcesOK, SourceOK
  <2>1. /\ DOMAIN n = DOMAIN NoOp /\ n.kind = ops[o].kind /\ n.rr = ops[o].rr
        /\ n.modified = ops[o].modified /\ n.ifNoValue = ops[o].ifNoValue
    BY <2>0, SourceFields
  <2>2. Restarted(es)[o] = ops[o] \/ Restarted(es)[o] = n BY DEF Restarted
  <2>. HIDE DEF n
  <2>3. (n.modified <=> ops[o].modified) /\ (n.ifNoValue <=> ops[o].ifNoValue) BY <2>1
  <2>4. SourceOK(n) BY <2>0, <2>1, <2>3, FlagsOK
  <2>. QED BY <2>0, <2>1, <2>2, <2>4
<1>. QED BY <1>1, <1>2 DEF SourcesOK

\* A condition is added to a result that has none.
LEMMA ConditionOK ==
  ASSUME NEW g, DOMAIN g = GenFields, NEW c, DOMAIN c = GenFields
  PROVE  /\ DOMAIN Condition(g, c) = GenFields
         /\ ~IsDirty(g) => ~IsDirty(Condition(g, c))
         /\ ~IsConditional(g) /\ ~IsConditional(c) => ~IsConditional(Condition(g, c))
<1>. DEFINE h == [g EXCEPT !.base = c.base]
<1>1. DOMAIN h = GenFields /\ h.base = c.base /\ h.tags = g.tags BY DEF GenFields
<1>2. Condition(g, c) = Clean(c) \/ Condition(g, c) = g \/ Condition(g, c) = h BY DEF Condition
<1>3. DOMAIN Clean(c) = GenFields /\ ~IsDirty(Clean(c)) /\ Clean(c).base = c.base
  BY GenerationsOK
<1>. HIDE DEF h
<1>. QED BY <1>1, <1>2, <1>3 DEF IsDirty, IsConditional

LEMMA CombinedOK ==
  ASSUME state = "committing", NEW k, job[k].st = "ask", SoFarOK(k), NEW got, ResultOK(got)
  PROVE  /\ ResultOK(Combined(k, got))
         /\ Superseded(k) => Combined(k, got).st = "missing" /\ ~IsDirty(Combined(k, got).gen)
         /\ ~IsConditional(got.gen) => ~IsConditional(Combined(k, got).gen)
<1>. DEFINE j == job[k]
            C == Combined(k, got)
            first == (j.at = Len(chain[phase][k]) /\ ~Superseded(k)) \/ j.res.st = "unspecified"
            g == Condition(j.res.gen, got.gen)
            t == IF got.gen # Unknown \/ j.res.time = Past THEN got.time ELSE j.res.time
            D == [j.res EXCEPT !.time = t, !.gen = g]
<1>0. /\ j.at \in 1 .. Len(chain[phase][k]) /\ ResultOK(j.res)
      /\ Superseded(k) => j.res.st = "missing" /\ ~IsDirty(j.res.gen)
      /\ Superseded(k) \/ j.at < Len(chain[phase][k]) => ~IsConditional(j.res.gen)
  BY DEF SoFarOK
<1>1. Entries(k) = chain[phase][k] BY DEF Entries
<1>2. CASE first
  <2>1. C = got BY <1>1, <1>2 DEF Combined
  <2>2. ~Superseded(k) BY <1>0, <1>2
  <2>. HIDE DEF C
  <2>3. ResultOK(C) /\ (~IsConditional(got.gen) => ~IsConditional(C.gen)) BY <2>1
  <2>. QED BY <2>2, <2>3 DEF C
<1>3. CASE ~first
  <2>0. DOMAIN j.res = ResultFields /\ DOMAIN j.res.gen = GenFields /\ DOMAIN got.gen = GenFields
    BY <1>0 DEF ResultOK
  <2>1. C = D BY <1>1, <1>3, <2>0 DEF Combined, ResultFields
  <2>2. ~IsConditional(j.res.gen) /\ j.res.st # "unspecified"
    <3>1. j.at # Len(chain[phase][k]) => j.at < Len(chain[phase][k]) BY <1>0
    <3>. QED BY <1>0, <1>3, <3>1
  <2>3. /\ DOMAIN g = GenFields /\ (~IsDirty(j.res.gen) => ~IsDirty(g))
        /\ ~IsConditional(got.gen) => ~IsConditional(g)
    BY <2>0, <2>2, ConditionOK
  <2>. HIDE DEF g, t
  <2>4. DOMAIN D = ResultFields /\ D.gen = g /\ D.st = j.res.st BY <2>0 DEF ResultFields
  <2>. HIDE DEF D, C
  <2>5. ResultOK(C) BY <2>1, <2>2, <2>3, <2>4 DEF ResultOK
  <2>6. Superseded(k) => C.st = "missing" /\ ~IsDirty(C.gen) BY <1>0, <2>1, <2>3, <2>4
  <2>7. ~IsConditional(got.gen) => ~IsConditional(C.gen) BY <2>1, <2>3, <2>4
  <2>. QED BY <2>5, <2>6, <2>7 DEF C
<1>. QED BY <1>2, <1>3

\* A writeback that starts, or starts again.
LEMMA AskedOK ==
  ASSUME TypeOK, state = "committing", NEW k \in Key, chain[phase][k] # << >>, NEW attempt, NEW bound,
         job' = [job EXCEPT ![k] = Asked(k, attempt, bound)], UNCHANGED << chain, dels, phase >>
  PROVE  SoFarOK(k)'
<1>. DEFINE a == Asked(k, attempt, bound)
            u == Unspecified(Unknown, Past)
            m == [u EXCEPT !.st = "missing"]
<1>1. DOMAIN job = Key /\ chain[phase][k] \in Seq(Op) BY DEF TypeOK
<1>2. Len(chain[phase][k]) \in 1 .. Len(chain[phase][k]) BY <1>1
<1>3. ResultOK(u) /\ u.gen = Unknown /\ ~IsDirty(Unknown) /\ ~IsConditional(Unknown)
  BY ResultsOK DEF Unspecified, IsConditional, Unknown
<1>4. DOMAIN m = ResultFields /\ m.gen = Unknown /\ m.st = "missing"
  BY DEF Unspecified, ResultFields
<1>. HIDE DEF u, m
<1>5. ResultOK(m) BY <1>3, <1>4, ResultsOK DEF ResultOK
<1>6. Entries(k) = chain[phase][k] BY DEF Entries
<1>7. /\ a.st = "ask" /\ a.at = Len(chain[phase][k])
      /\ a.res = IF Superseded(k) THEN m ELSE u
  BY <1>6 DEF Asked, u, m
<1>. HIDE DEF a
<1>8. job'[k] = a BY <1>1 DEF a
<1>9. Superseded(k)' <=> Superseded(k) BY DEF Superseded, InRange
<1>. DEFINE L == Len(chain[phase][k])
<1>10. ~(a.at < L) BY <1>2, <1>7
<1>. HIDE DEF L
<1>. QED BY <1>2, <1>3, <1>4, <1>5, <1>7, <1>8, <1>9, <1>10 DEF SoFarOK, L

\* The other writebacks are where they were.
LEMMA SoFarFrame ==
  ASSUME \A l \in Key : SoFarOK(l), NEW k, UNCHANGED << chain, dels >>,
         state' = "committing" => phase' = phase,
         \A l \in Key : l # k => job'[l] = job[l],
         state' = "committing" => SoFarOK(k)'
  PROVE  state' = "committing" => \A l \in Key : SoFarOK(l)'
<1>. SUFFICES ASSUME state' = "committing", NEW l \in Key PROVE SoFarOK(l)' OBVIOUS
<1>1. CASE l = k BY <1>1
<1>2. CASE l # k
  <2>1. job'[l] = job[l] /\ (Superseded(l)' <=> Superseded(l)) BY <1>2 DEF Superseded, InRange
  <2>. QED BY <2>1 DEF SoFarOK
<1>. QED BY <1>1, <1>2

LEMMA SoFarEnded ==
  ASSUME NEW k, job'[k].st \notin {"ask", "write"}
  PROVE  SoFarOK(k)'
BY DEF SoFarOK

\* The entries are the same, and so are the kinds of their sources.
LEMMA KindsFrame ==
  ASSUME TypeOK, KindsOK(ops), UNCHANGED chain, \A o \in Op : ops'[o].kind = ops[o].kind
  PROVE  KindsOK(ops)'
<1>1. ASSUME NEW p \in Phase, NEW k \in Key, NEW o \in ToSet(chain[p][k])
      PROVE  ops'[o].kind \in Kinds
  <2>1. o \in Op BY EntriesAreOps
  <2>. QED BY <2>1 DEF KindsOK
<1>. QED BY <1>1 DEF KindsOK

\* The end of an entry either leaves the phase or the state.
LEMMA SamePhaseGoesOn ==
  ASSUME state = "committing", NEW fates, NEW count, NEW error, NEW fails,
         EntryDone(fates, count, error, fails)
  PROVE  state' = "committing" => phase' = phase
BY DEF EntryDone

LEMMA RangeGoesOn ==
  ASSUME state = "committing", NEW fates, NEW r, NEW count, NEW error, NEW fails,
         DeletedEntryDone(fates, r, count, error, fails)
  PROVE  state' = "committing" => phase' = phase
<1>1. \/ UNCHANGED << left, state, phase >>
      \/ RangeDone(fates, r, TRUE, fails)
  BY Zenon DEF DeletedEntryDone
<1>2. ASSUME RangeDone(fates, r, TRUE, fails) PROVE state' = "committing" => phase' = phase
  BY <1>2, SamePhaseGoesOn DEF RangeDone
<1>. QED BY <1>1, <1>2

LEMMA ChainGoesOn ==
  ASSUME state = "committing", NEW k, Error(k) \/ \E sources, orig : Success(sources, k, orig)
  PROVE  state' = "committing" => phase' = phase
<1>1. CASE Error(k)
  <2>1. \/ \E a, b, c, d, e : DeletedEntryDone(a, b, c, d, e)
        \/ \E a, b, c, d : EntryDone(a, b, c, d)
    BY <1>1, Zenon DEF Error
  <2>. QED BY <2>1, SamePhaseGoesOn, RangeGoesOn
<1>2. CASE \E sources, orig : Success(sources, k, orig)
  <2>1. \/ \E a, b, c, d, e : DeletedEntryDone(a, b, c, d, e)
        \/ \E a, b, c, d : EntryDone(a, b, c, d)
    BY <1>2, Zenon DEF Success
  <2>. QED BY <2>1, SamePhaseGoesOn, RangeGoesOn
<1>. QED BY <1>1, <1>2

\* Steps that add an operation, or do not concern the sources.
LEMMA OpenStepOK ==
  ASSUME state' # "committing", SourcesOK(ops'), KindsOK(ops)'
  PROVE  ResultsInv'
BY DEF ResultsInv

LEMMA SourcesStay ==
  ASSUME TypeOK, ResultsInv, UNCHANGED << ops, chain, dels, job >>,
         state' = "committing" => state = "committing" /\ phase' = phase
  PROVE  ResultsInv'
<1>1. SourcesOK(ops') /\ KindsOK(ops)' BY KindsFrame DEF ResultsInv
<1>2. ASSUME state' = "committing", NEW l \in Key PROVE SoFarOK(l)'
  <2>1. Superseded(l)' <=> Superseded(l) BY <1>2 DEF Superseded, InRange
  <2>2. SoFarOK(l) BY <1>2 DEF ResultsInv
  <2>. QED BY <1>2, <2>1, <2>2 DEF SoFarOK
<1>. QED BY <1>1, <1>2 DEF ResultsInv

\* The writeback of k moves on within its phase.
LEMMA JobStepOK ==
  ASSUME TypeOK, ResultsInv, state = "committing", NEW k, UNCHANGED << chain, dels >>,
         SourcesOK(ops'), \A o \in Op : ops'[o].kind = ops[o].kind,
         state' = "committing" => phase' = phase,
         \A l \in Key : l # k => job'[l] = job[l],
         state' = "committing" => SoFarOK(k)'
  PROVE  ResultsInv'
<1>1. \A l \in Key : SoFarOK(l) BY DEF ResultsInv
<1>2. state' = "committing" => \A l \in Key : SoFarOK(l)' BY <1>1, SoFarFrame
<1>3. KindsOK(ops)' BY KindsFrame DEF ResultsInv
<1>. QED BY <1>2, <1>3 DEF ResultsInv

\* The writeback of k ends.
LEMMA ChainEndsOK ==
  ASSUME TypeOK, ResultsInv, state = "committing", NEW k \in Key, UNCHANGED << chain, dels >>,
         SourcesOK(ops'), \A o \in Op : ops'[o].kind = ops[o].kind,
         job' = [job EXCEPT ![k].st = "done"] \/ \E r : job' = [job EXCEPT ![k].st = "done", ![k].res = r],
         Error(k) \/ \E sources, orig : Success(sources, k, orig)
  PROVE  ResultsInv'
<1>1. DOMAIN job = Key /\ {"st", "res"} \subseteq DOMAIN job[k] BY IdleFields DEF TypeOK
<1>2. job'[k].st = "done" /\ \A l \in Key : l # k => job'[l] = job[l] BY <1>1
<1>3. SoFarOK(k)' BY <1>2, SoFarEnded
<1>4. state' = "committing" => phase' = phase BY ChainGoesOn
<1>. QED BY <1>2, <1>3, <1>4, JobStepOK

\* A chain with a writeback under way has entries.
LEMMA ChainNotEmpty ==
  ASSUME KvsInv, state = "committing", NEW k \in Key, job[k].st # "idle" \/ k \in plan.keys
  PROVE  chain[phase][k] # << >> /\ chain[phase][k] \in Seq(Op)
<1>1. PhaseOK(phase, job, drs, plan, fate, left.n) /\ TypeOK BY DEF KvsInv
<1>2. k \in Chains(phase) BY <1>1 DEF PhaseOK, JobsOK
<1>. QED BY <1>1, <1>2 DEF Chains, TypeOK

LEMMA StartEntryOK ==
  ASSUME KvsInv, ResultsInv, NEW k \in Key, StartEntry(k)
  PROVE  ResultsInv'
<1>0. /\ TypeOK /\ state = "committing" /\ k \in plan.keys
      /\ UNCHANGED << chain, dels, phase, state >>
      /\ job' = [job EXCEPT ![k] = Asked(k, 1, Past)] /\ ops' = Restarted(Entries(k))
  BY DEF KvsInv, StartEntry, Committing
<1>1. chain[phase][k] # << >> BY <1>0, ChainNotEmpty
<1>2. SoFarOK(k)' BY <1>0, <1>1, AskedOK
<1>3. SourcesOK(ops') /\ \A o \in Op : ops'[o].kind = ops[o].kind
  BY <1>0, RestartedOK DEF ResultsInv
<1>4. \A l \in Key : l # k => job'[l] = job[l] BY <1>0 DEF TypeOK
<1>. QED BY <1>0, <1>2, <1>3, <1>4, JobStepOK

LEMMA RetryOK ==
  ASSUME KvsInv, ResultsInv, NEW k \in Key, state = "committing", job[k].st # "idle", Retry(k),
         UNCHANGED << chain, dels >>
  PROVE  ResultsInv'
<1>0. TypeOK BY DEF KvsInv
<1>1. CASE ops[Last(Entries(k))].nonRetryable
  <2>1. job' = [job EXCEPT ![k].st = "done"] /\ Error(k) /\ UNCHANGED ops
    BY <1>1, Zenon DEF Retry
  <2>2. SourcesOK(ops') /\ \A o \in Op : ops'[o].kind = ops[o].kind BY <2>1 DEF ResultsInv
  <2>. QED BY <1>0, <2>1, <2>2, ChainEndsOK
<1>2. CASE ~ops[Last(Entries(k))].nonRetryable
  <2>1. /\ job' = [job EXCEPT ![k] = Asked(k, job[k].attempt + 1, Now(k) + 1)]
        /\ ops' = Restarted(Entries(k)) /\ UNCHANGED << state, phase >>
    BY <1>2 DEF Retry
  <2>2. chain[phase][k] # << >> BY ChainNotEmpty
  <2>3. SoFarOK(k)' BY <1>0, <2>1, <2>2, AskedOK
  <2>4. SourcesOK(ops') /\ \A o \in Op : ops'[o].kind = ops[o].kind
    BY <2>1, RestartedOK DEF ResultsInv
  <2>5. \A l \in Key : l # k => job'[l] = job[l] BY <1>0, <2>1 DEF TypeOK
  <2>. QED BY <1>0, <2>1, <2>3, <2>4, <2>5, JobStepOK
<1>. QED BY <1>1, <1>2

LEMMA StoreFailsOK ==
  ASSUME KvsInv, ResultsInv, NEW k \in Key, StoreFails(k)
  PROVE  ResultsInv'
<1>1. /\ TypeOK /\ state = "committing" /\ job' = [job EXCEPT ![k].st = "done"] /\ Error(k)
      /\ UNCHANGED << ops, chain, dels >>
  BY Zenon DEF KvsInv, StoreFails, Committing
<1>2. SourcesOK(ops') /\ \A o \in Op : ops'[o].kind = ops[o].kind BY <1>1 DEF ResultsInv
<1>. QED BY <1>1, <1>2, ChainEndsOK

LEMMA WriteStoreOK ==
  ASSUME KvsInv, ResultsInv, NEW k \in Key, WriteStore(k)
  PROVE  ResultsInv'
<1>1. TypeOK /\ state = "committing" /\ job[k].st = "write" /\ UNCHANGED << chain, dels >>
  BY Zenon DEF KvsInv, WriteStore, Committing
<1>2. CASE IfEqual(k)
  <2>1. /\ job' = [job EXCEPT ![k].st = "done"] /\ Success(ops, k, job[k].res.gen) /\ UNCHANGED ops
    BY <1>2, Zenon DEF WriteStore
  <2>2. SourcesOK(ops') /\ \A o \in Op : ops'[o].kind = ops[o].kind BY <2>1 DEF ResultsInv
  <2>. QED BY <1>1, <2>1, <2>2, ChainEndsOK
<1>3. CASE ~IfEqual(k)
  <2>1. Retry(k) BY <1>3, Zenon DEF WriteStore
  <2>. QED BY <1>1, <2>1, RetryOK
<1>. QED BY <1>2, <1>3

LEMMA VerifyOK ==
  ASSUME KvsInv, ResultsInv, NEW k \in Key, Verify(k)
  PROVE  ResultsInv'
<1>1. TypeOK /\ state = "committing" /\ job[k].st = "verify" /\ UNCHANGED << chain, dels >>
  BY Zenon DEF KvsInv, Verify, Committing
<1>2. CASE job[k].res.gen.base = store[k].gen
  <2>1. /\ job' = [job EXCEPT ![k].st = "done"] /\ Success(ops, k, job[k].res.gen) /\ UNCHANGED ops
    BY <1>2, Zenon DEF Verify
  <2>2. SourcesOK(ops') /\ \A o \in Op : ops'[o].kind = ops[o].kind BY <2>1 DEF ResultsInv
  <2>. QED BY <1>1, <2>1, <2>2, ChainEndsOK
<1>3. CASE job[k].res.gen.base # store[k].gen
  <2>1. Retry(k) BY <1>3, Zenon DEF Verify
  <2>. QED BY <1>1, <2>1, RetryOK
<1>. QED BY <1>2, <1>3

LEMMA PerformOK ==
  ASSUME TypeOK, ResultsInv, state = "committing", NEW k \in Key, NEW sources, NEW res,
         Perform(sources, k, res), UNCHANGED << chain, dels >>,
         SourcesOK(ops'), \A o \in Op : ops'[o].kind = ops[o].kind,
         IsDirty(res.gen) => res.st # "unspecified"
  PROVE  ResultsInv'
<1>0. DOMAIN job = Key /\ {"st", "res"} \subseteq DOMAIN job[k] BY IdleFields DEF TypeOK
<1>1. CASE IsDirty(res.gen)
  <2>1. job' = [job EXCEPT ![k].st = "write", ![k].res = res] /\ UNCHANGED << state, phase >>
    BY <1>1 DEF Perform
  <2>2. /\ job'[k].st = "write" /\ job'[k].res = res
        /\ \A l \in Key : l # k => job'[l] = job[l]
    BY <1>0, <2>1
  <2>3. SoFarOK(k)' BY <1>1, <2>2 DEF SoFarOK
  <2>. QED BY <2>1, <2>2, <2>3, JobStepOK
<1>2. CASE ~IsDirty(res.gen) /\ IsConditional(res.gen) /\ res.time <= CommitStart
  <2>1. job' = [job EXCEPT ![k].st = "verify", ![k].res = res] /\ UNCHANGED << state, phase >>
    BY <1>2 DEF Perform
  <2>2. job'[k].st = "verify" /\ \A l \in Key : l # k => job'[l] = job[l] BY <1>0, <2>1
  <2>3. SoFarOK(k)' BY <2>2, SoFarEnded
  <2>. QED BY <2>1, <2>2, <2>3, JobStepOK
<1>3. CASE ~IsDirty(res.gen) /\ ~(IsConditional(res.gen) /\ res.time <= CommitStart)
  <2>1. /\ job' = [job EXCEPT ![k].st = "done", ![k].res = res]
        /\ Success(sources, k, res.gen)
    BY <1>3, Zenon DEF Perform
  <2>. QED BY <2>1, ChainEndsOK
<1>. QED BY <1>1, <1>2, <1>3

\* The entries that GetPrevSupersededEntryToWriteback may choose from precede
\* the one that answered.
LEMMA SkippedBefore ==
  ASSUME NEW sources, NEW es, NEW at \in Nat, NEW unmodified,
         Skipped(sources, es, at, unmodified) # {}
  PROVE  Max(Skipped(sources, es, at, unmodified)) \in 1 .. at - 1
<1>. DEFINE T == Skipped(sources, es, at, unmodified)
<1>1. T \subseteq 1 .. at - 1 BY DEF Skipped
<1>2. T \in SUBSET (0 .. at) BY <1>1
<1>. HIDE DEF T
<1>3. T # {} => Max(T) \in T BY <1>2, MaxIn
<1>4. T # {} BY DEF T
<1>5. Max(T) \in 1 .. at - 1 BY <1>1, <1>3, <1>4
<1>. QED BY <1>5 DEF T

LEMMA AskOK ==
  ASSUME KvsInv, ResultsInv, NEW k \in Key, Ask(k)
  PROVE  ResultsInv'
<1>. DEFINE es == Entries(k)
            j == job[k]
            w == KvsWriteback(es, j.at, j.mode, j.bound, StoreRead(k, Now(k)))
            n == Common(w.ops[es[j.at]], w.res)
            sources == [w.ops EXCEPT ![es[j.at]] = n]
            res == Combined(k, w.res)
            unmodified == res.st = "unspecified"
            more == IF sources[es[j.at]].uncond THEN Skipped(sources, es, j.at, unmodified) ELSE {}
            last == IF Superseded(k) THEN [res EXCEPT !.st = "unspecified"] ELSE res
<1>0. /\ TypeOK /\ state = "committing" /\ job[k].st = "ask" /\ UNCHANGED << chain, dels >>
      /\ SourcesOK(ops) /\ KindsOK(ops) /\ SoFarOK(k) /\ phase \in Phase
  <2>1. state = "committing" /\ job[k].st = "ask" /\ UNCHANGED << chain, dels >>
    BY Zenon DEF Ask, Committing
  <2>. QED BY <2>1 DEF KvsInv, TypeOK, ResultsInv
<1>1. es = chain[phase][k] /\ es \in Seq(Sourced) /\ j.at \in 1 .. Len(es)
  <2>1. es = chain[phase][k] BY <1>0 DEF Entries
  <2>2. chain[phase][k] \in Seq(Sourced) BY <1>0, LinkedFacts
  <2>. QED BY <1>0, <2>1, <2>2 DEF SoFarOK
<1>2. \/ /\ w.err
         /\ job' = [job EXCEPT ![k].st = "done"] /\ ops' = w.ops /\ Error(k)
      \/ /\ ~w.err /\ more # {} /\ ops' = sources
         /\ job' = [job EXCEPT ![k].at = Max(more), ![k].res = res,
                               ![k].mode = IF unmodified THEN "normal" ELSE "validate"]
         /\ UNCHANGED << state, phase >>
      \/ ~w.err /\ more = {} /\ ops' = sources /\ Perform(sources, k, last)
  <2>1. CASE w.err BY <2>1, Zenon DEF Ask
  <2>2. CASE ~w.err /\ more # {}
    <3>1. /\ ops' = sources
          /\ job' = [job EXCEPT ![k].at = Max(more), ![k].res = res,
                                ![k].mode = IF unmodified THEN "normal" ELSE "validate"]
          /\ UNCHANGED << fate, drs, left, state, phase, failed >>
      BY <2>2, Zenon DEF Ask
    <3>. HIDE DEF more, res, sources, w, j, es
    <3>. QED BY <2>2, <3>1
  <2>3. CASE ~w.err /\ more = {} BY <2>3, Zenon DEF Ask
  <2>. QED BY <2>1, <2>2, <2>3, Zenon
<1>3. AccOK(w)
  <2>1. /\ j.at \in Nat /\ j.at >= 1
        /\ \A x \in 1 .. j.at : es[x] \in Op /\ ops[es[x]].kind \in Kinds
    <3>. HIDE DEF es, j
    <3>. QED BY <1>1 DEF Sourced
  <2>2. ResultOK(StoreRead(k, Now(k))) BY StoreReadOK
  <2>. HIDE DEF es, j
  <2>. QED BY <1>0, <2>1, <2>2, WritebackOK
<1>4. es[j.at] \in Op
  <2>. HIDE DEF es, j
  <2>. QED BY <1>1 DEF Sourced
<1>. HIDE DEF w, es
<1>5. SourcesOK(w.ops) /\ ResultOK(w.res) /\ \A o \in Op : w.ops[o].kind = ops[o].kind
  BY <1>3 DEF AccOK
<1>6. /\ SourceOK(n) /\ n.kind = w.ops[es[j.at]].kind
      /\ n.uncond <=> ~IsConditional(w.res.gen)
  BY <1>4, <1>5, CommonOK DEF SourcesOK
<1>7. /\ ResultOK(res)
      /\ Superseded(k) => res.st = "missing" /\ ~IsDirty(res.gen)
      /\ ~IsConditional(w.res.gen) => ~IsConditional(res.gen)
  BY <1>0, <1>5, CombinedOK
<1>. HIDE DEF n, res
<1>8. SourcesOK(sources) /\ sources[es[j.at]] = n /\ \A o \in Op : sources[o].kind = ops[o].kind
  BY <1>4, <1>5, <1>6, SourceReplaced
<1>. HIDE DEF sources
<1>9. CASE w.err /\ job' = [job EXCEPT ![k].st = "done"] /\ ops' = w.ops /\ Error(k)
  BY <1>0, <1>5, <1>9, ChainEndsOK
<1>10. CASE /\ ~w.err /\ more # {} /\ ops' = sources
            /\ job' = [job EXCEPT ![k].at = Max(more), ![k].res = res,
                                  ![k].mode = IF unmodified THEN "normal" ELSE "validate"]
            /\ UNCHANGED << state, phase >>
  <2>1. n.uncond /\ more = Skipped(sources, es, j.at, unmodified) BY <1>8, <1>10
  <2>2. ~IsConditional(res.gen) BY <1>6, <1>7, <2>1
  <2>3. Max(more) \in 1 .. j.at - 1
    <3>1. j.at \in Nat BY <1>1
    <3>. HIDE DEF unmodified, more
    <3>. QED BY <1>10, <2>1, <3>1, SkippedBefore
  <2>4. DOMAIN job = Key /\ {"st", "at", "res", "mode"} \subseteq DOMAIN job[k]
    BY <1>0, IdleFields DEF TypeOK
  <2>. HIDE DEF more, unmodified
  <2>5. /\ job'[k].st = "ask" /\ job'[k].at = Max(more) /\ job'[k].res = res
        /\ \A l \in Key : l # k => job'[l] = job[l]
    BY <1>0, <1>10, <2>4
  <2>6. Max(more) \in 1 .. Len(chain[phase][k])
    <3>1. Len(chain[phase][k]) \in Nat /\ j.at \in 1 .. Len(chain[phase][k]) BY <1>1
    <3>. QED BY <2>3, <3>1
  <2>7. Superseded(k)' <=> Superseded(k) BY <1>0, <1>10 DEF Superseded, InRange
  <2>8. SoFarOK(k)' BY <1>0, <1>7, <1>10, <2>2, <2>5, <2>6, <2>7 DEF SoFarOK
  <2>. QED BY <1>0, <1>8, <1>10, <2>5, <2>8, JobStepOK
<1>11. CASE ~w.err /\ more = {} /\ ops' = sources /\ Perform(sources, k, last)
  <2>1. IsDirty(last.gen) => last.st # "unspecified"
    <3>1. CASE Superseded(k)
      <4>1. DOMAIN res = ResultFields BY <1>7 DEF ResultOK
      <4>2. last.gen = res.gen BY <3>1, <4>1 DEF ResultFields
      <4>. QED BY <1>7, <3>1, <4>2
    <3>2. CASE ~Superseded(k) BY <1>7, <3>2 DEF ResultOK
    <3>. QED BY <3>1, <3>2
  <2>. HIDE DEF last
  <2>. QED BY <1>0, <1>8, <1>11, <2>1, PerformOK
<1>. QED
  <2>. HIDE DEF more, last, j, unmodified
  <2>. QED BY <1>2, <1>9, <1>10, <1>11

LEMMA StartRangeOK ==
  ASSUME KvsInv, ResultsInv, NEW r, StartRange(r)
  PROVE  ResultsInv'
<1>1. /\ TypeOK /\ state = "committing" /\ UNCHANGED << ops, chain, dels, job >>
      /\ \E a, b, c, d, e : DeletedEntryDone(a, b, c, d, e)
  BY Zenon DEF KvsInv, StartRange, Committing
<1>. QED BY <1>1, RangeGoesOn, SourcesStay

LEMMA AllStartedOK ==
  ASSUME KvsInv, ResultsInv, AllStarted
  PROVE  ResultsInv'
<1>1. /\ TypeOK /\ state = "committing" /\ UNCHANGED << ops, chain, dels, job >>
      /\ \E a, b, c, d : EntryDone(a, b, c, d)
  BY Zenon DEF KvsInv, AllStarted, Committing
<1>. QED BY <1>1, SamePhaseGoesOn, SourcesStay

LEMMA DeleteStoreOK ==
  ASSUME KvsInv, ResultsInv, NEW r, DeleteStore(r)
  PROVE  ResultsInv'
<1>1. /\ TypeOK /\ state = "committing" /\ UNCHANGED << ops, chain, dels, job >>
      /\ \E a, b, c, d : EntryDone(a, b, c, d)
  BY Zenon DEF KvsInv, DeleteStore, RangeDone, Committing
<1>. QED BY <1>1, SamePhaseGoesOn, SourcesStay

\* Nothing is being written back when a phase starts.
LEMMA StartPhaseOK ==
  ASSUME TypeOK, ResultsInv, NEW p, StartPhase(p), UNCHANGED chain
  PROVE  ResultsInv'
<1>1. ops' = Invalidated(p) /\ job' = [k \in Key |-> Idle] BY DEF StartPhase
<1>2. SourcesOK(ops') /\ \A o \in Op : ops'[o].kind = ops[o].kind
  BY <1>1, InvalidatedOK DEF ResultsInv
<1>3. KindsOK(ops)' BY <1>2, KindsFrame DEF ResultsInv
<1>4. \A k \in Key : SoFarOK(k)' BY <1>1, IdleFields, SoFarEnded
<1>. QED BY <1>2, <1>3, <1>4 DEF ResultsInv

LEMMA ReadAgainOK ==
  ASSUME TypeOK, SourcesOK(ops), KindsOK(ops), NEW k \in Key, ReadAgain(k)
  PROVE  SourcesOK(ops') /\ KindsOK(ops)'
<1>. DEFINE es == Linked(k)
            n == Len(es)
            st == StoreRead(k, CommitStart)
            first == Receive(es[n], ops[es[n]], "specify", st)
            S == [ops EXCEPT ![es[n]] = first.op]
            below == KvsWriteback(es, n - 1, "specify", Past, st)
            up == Ascend(es, n, "specify", below, n)
<1>1. /\ Covering(k) = "entry" /\ UNCHANGED chain
      /\ ops' = IF n = 1 THEN S ELSE up.ops
  BY DEF ReadAgain
<1>2. es \in Seq(Sourced) /\ es # << >> BY <1>1, LinkedFacts
<1>3. ResultOK(st) BY StoreReadOK
<1>. HIDE DEF es, st
<1>4. n \in Nat /\ n >= 1 /\ \A j \in 1 .. n : es[j] \in Op /\ ops[es[j]].kind \in Kinds
  BY <1>2 DEF Sourced
<1>. HIDE DEF n
<1>5. SourcesOK(S) /\ \A o \in Op : S[o].kind = ops[o].kind
  <2>1. n \in 1 .. n BY <1>4
  <2>2. es[n] \in Op /\ ops[es[n]].kind \in Kinds /\ SourceOK(ops[es[n]])
    BY <1>4, <2>1 DEF SourcesOK
  <2>3. SourceOK(first.op) /\ first.op.kind = ops[es[n]].kind BY <1>3, <2>2, ReceiveOK
  <2>. HIDE DEF first
  <2>. QED BY <2>2, <2>3, SourceReplaced
<1>6. CASE n = 1 BY <1>1, <1>5, <1>6, KindsFrame
<1>7. CASE n # 1
  <2>1. /\ n - 1 \in Nat /\ n - 1 >= 1 /\ n - 1 \in 1 .. n /\ n \in 1 .. n
        /\ \A j \in 1 .. n - 1 : j \in 1 .. n
    BY <1>4, <1>7
  <2>2. AccOK(below) BY <1>3, <1>4, <2>1, WritebackOK
  <2>. HIDE DEF below
  <2>3. AccOK(up) BY <1>4, <2>1, <2>2, AscendOK
  <2>. HIDE DEF up
  <2>4. SourcesOK(ops') /\ \A o \in Op : ops'[o].kind = ops[o].kind BY <1>1, <1>7, <2>3 DEF AccOK
  <2>. QED BY <1>1, <2>4, KindsFrame
<1>. QED BY <1>6, <1>7

LEMMA RequestOK ==
  ASSUME KvsInv, ResultsInv, Request
  PROVE  ResultsInv'
<1>0. TypeOK /\ SourcesOK(ops) /\ KindsOK(ops) BY DEF KvsInv, ResultsInv
<1>1. \A k \in 1 .. env.keys : k \in Key
  <2>1. env.keys \in 1 .. NKeys BY <1>0 DEF TypeOK, Key
  <2>. QED BY <2>1, ConstantsAssumption DEF Key
<1>2. ASSUME NEW k \in Key, NEW form, NEW cond, NEW val, Write(k, form, cond, val) PROVE ResultsInv'
  <2>1. state' # "committing" BY <1>2 DEF Write, Open
  <2>. QED BY <1>0, <1>2, <2>1, WriteOK, OpenStepOK
<1>3. ASSUME NEW k \in Key, NEW cached, Modify(k, cached) PROVE ResultsInv'
  <2>1. state' # "committing" BY <1>3 DEF Modify, Open
  <2>. QED BY <1>0, <1>3, <2>1, ModifyOK, OpenStepOK
<1>4. ASSUME NEW k \in Key, Read(k) PROVE ResultsInv'
  <2>1. state' # "committing" BY <1>4 DEF Read, Open
  <2>. QED BY <1>0, <1>4, <2>1, ReadOK, OpenStepOK
<1>5. ASSUME NEW k \in Key, ReadAgain(k) PROVE ResultsInv'
  <2>1. state' # "committing" BY <1>5 DEF ReadAgain, Open
  <2>. QED BY <1>0, <1>5, <2>1, ReadAgainOK, OpenStepOK
<1>6. ASSUME NEW r, DeleteRange(r) PROVE ResultsInv'
  <2>1. state' # "committing" /\ UNCHANGED << ops, chain >> BY <1>6 DEF DeleteRange, Open
  <2>. QED BY <1>0, <2>1, KindsFrame, OpenStepOK
<1>7. ASSUME Barrier PROVE ResultsInv'
  <2>1. state' # "committing" /\ UNCHANGED << ops, chain, dels, job >> BY <1>7 DEF Barrier, Open
  <2>. QED BY <1>0, <2>1, SourcesStay
<1>. QED BY <1>1, <1>2, <1>3, <1>4, <1>5, <1>6, <1>7 DEF Request

LEMMA InitResults == Init => ResultsInv
<1>. SUFFICES ASSUME Init PROVE ResultsInv OBVIOUS
<1>1. TypeOK /\ \A p \in Phase, k \in Key : chain[p][k] = << >> BY InitInv DEF KvsInv, Init
<1>2. KindsOK(ops) BY <1>1, EntriesAreOps DEF KindsOK
<1>3. SourceOK(NoOp)
  <2>1. ResultOK(NoOp.rr) BY SourceFields, ResultsOK
  <2>. QED BY <2>1, SourceFields DEF SourceOK
<1>4. SourcesOK(ops) BY <1>3 DEF SourcesOK, Init
<1>5. state = "open" BY DEF Init
<1>. QED BY <1>2, <1>4, <1>5 DEF ResultsInv

LEMMA NextResults == KvsInv /\ ResultsInv /\ [Next]_vars => ResultsInv'
<1>. SUFFICES ASSUME KvsInv, ResultsInv, [Next]_vars PROVE ResultsInv' OBVIOUS
<1>0. TypeOK /\ (state = "open" => state # "committing") BY DEF KvsInv
<1>2. CASE Request BY <1>2, RequestOK
<1>3. CASE \E k \in 1 .. env.keys : External(k)
  <2>1. UNCHANGED << ops, chain, dels, job, state, phase >> BY <1>3 DEF External
  <2>. QED BY <1>0, <2>1, SourcesStay
<1>4. CASE Commit
  <2>1. (\E p : StartPhase(p)) /\ UNCHANGED chain BY <1>4, Zenon DEF Commit
  <2>. QED BY <1>0, <2>1, StartPhaseOK
<1>5. CASE Abort
  <2>1. state' # "committing" /\ UNCHANGED << ops, chain, dels, job >> BY <1>5 DEF Abort
  <2>. QED BY <1>0, <2>1, SourcesStay
<1>6. CASE NextPhase
  <2>1. (\E p : StartPhase(p)) /\ UNCHANGED chain BY <1>6, Zenon DEF NextPhase
  <2>. QED BY <1>0, <2>1, StartPhaseOK
<1>7. CASE Writeback /\ ~NextPhase
  BY <1>7, AllStartedOK, StartEntryOK, AskOK, StoreFailsOK, WriteStoreOK, VerifyOK, StartRangeOK,
     DeleteStoreOK DEF Writeback
<1>8. CASE UNCHANGED vars
  <2>1. UNCHANGED << ops, chain, dels, job, state, phase >> BY <1>8 DEF vars
  <2>. QED BY <1>0, <2>1, SourcesStay
<1>. QED BY <1>2, <1>3, <1>4, <1>5, <1>6, <1>7, <1>8 DEF Next, Finished

\* The assertions of SequenceWritebackReceiverImpl and of PerformWriteback
\* never fail, whatever the operations, the phases, the other writers and the
\* failing requests are: a condition is only ever added to an unconditional
\* result, and a result that is written has a value.
THEOREM AssertionsAlwaysHold == Spec => []AssertionsHold
<1>1. KvsInv /\ ResultsInv => AssertionsHold
  <2>. SUFFICES ASSUME KvsInv, ResultsInv, NEW k \in Key, job[k].st \in {"ask", "write"}
                PROVE  /\ job[k].st = "ask" /\ job[k].at < Len(Entries(k)) =>
                             ~IsConditional(job[k].res.gen)
                       /\ job[k].st = "write" => job[k].res.st # "unspecified"
    BY DEF AssertionsHold
  <2>1. state = "committing" BY DEF KvsInv, Quiet
  <2>2. SoFarOK(k) BY <2>1 DEF ResultsInv
  <2>3. Entries(k) = chain[phase][k] BY <2>1 DEF Entries
  <2>. QED BY <2>2, <2>3 DEF SoFarOK
<1>. QED BY <1>1, InitResults, NextResults, KvsInvariant, PTL DEF Spec

=============================================================================
