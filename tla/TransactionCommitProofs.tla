----------------------- MODULE TransactionCommitProofs -----------------------
(***************************************************************************)
(* For every finite set of threads and nodes, any phases and any order of  *)
(* callbacks: the nodes of a transaction are prepared in order and         *)
(* committed together, phase by phase; the future becomes ready when every *)
(* node has ended; the counters never call anyone twice or forget anyone;  *)
(* and the whole implements PhasedCommit.                                  *)
(*                                                                         *)
(* At any time at most one thread is inside the transaction.  The proof    *)
(* follows the modes it goes through: what the counters                    *)
(* nodes_pending_commit_ and nodes_pending_abort_ count in each of them.   *)
(***************************************************************************)
EXTENDS TransactionCommit, FiniteSetTheorems, WellFoundedInduction, TLAPS

-----------------------------------------------------------------------------
(* Nodes.                                                                  *)

\* Where a node is in its commit: the calls made on it, one after the other.
Fresh(n) == flags[n] = {"kRegister"}

\* Nodes taken out of the tree to be committed, and those still committing.
Past == {n \in Registered : n \notin tree /\ "kAbort" \notin flags[n]}
Committing == {n \in Past : "kCommitDone" \notin flags[n]}

Aborting == {n \in Registered : "kAbort" \in flags[n] /\ "kAbortDone" \notin flags[n]}

\* Nodes that hold a weak reference: those not destroyed yet.
Alive == {n \in Registered : /\ "kAbortDone" \notin flags[n]
                             /\ ~ {"kCommit", "kCommitDone"} \subseteq flags[n]}

\* The flags that a node can have, according to where it is.
NodeFlags(n) ==
  /\ "kRegister" \notin flags[n] => flags[n] = {} /\ n \notin tree
  /\ n \in tree => flags[n] \subseteq {"kRegister", "kPrepareForCommit", "kPrepareDone",
                                       "kReadyForCommit"}
  /\ n \in tree /\ "kPrepareForCommit" \notin flags[n] => Fresh(n)
  /\ "kAbort" \in flags[n] => n \notin tree /\ flags[n] \subseteq {"kRegister", "kAbort", "kAbortDone"}
  /\ "kAbortDone" \in flags[n] => "kAbort" \in flags[n]
  /\ n \in Past => {"kPrepareForCommit", "kPrepareDone", "kReadyForCommit"} \subseteq flags[n]

\* The phases of committed nodes lie before those of all others.
PhaseOrder == \A n \in Past, m \in Registered \ Past : phase[n] < phase[m]

-----------------------------------------------------------------------------
(* The modes a commit goes through.                                        *)

Only(t, method) == \A u \in Thread : pc[u] = IF u = t THEN method ELSE "idle"
NoneRuns == \A u \in Thread : pc[u] = "idle"

NoneAborted == \A n \in Node : "kAbort" \notin flags[n]

\* Every node that was taken out of the tree has had its Commit() call.
PastCommitted == \A n \in Past : "kCommit" \in flags[n]

Prepared == {n \in tree : "kPrepareForCommit" \in flags[n]}
Undone == {n \in Prepared : "kPrepareDone" \notin flags[n]}
Unready == {n \in Prepared : "kReadyForCommit" \notin flags[n]}

\* Between phases: nothing is committing or aborting.
Between ==
  /\ promise /\ Committing = {} /\ PastCommitted /\ NoneAborted

\* An error reported so far is of the phase being prepared, or older than all.
FailedNow == \A p \in failed, n \in FirstPhase : p >= 0 => phase[n] <= p

Starting(t) ==
  /\ Only(t, "ExecuteCommitPhase") /\ Between
  /\ failed \subseteq {-1}
  /\ \A n \in tree : Fresh(n)

UpTo(n) == {m \in FirstPhase : m <= n}

Visiting(t) ==
  /\ Only(t, "ContinuePrepareForCommit") /\ Between /\ FailedNow
  /\ pending = Cardinality(Unready) + 1 /\ Undone = {}
  /\ \/ cursor[t] = {} /\ tree # {} /\ Prepared = FirstPhase
     \/ \E n \in FirstPhase : cursor[t] = {n} /\ Prepared = UpTo(n) \ {n}

Awaiting(t) ==
  /\ Only(t, "AwaitPrepareDone") /\ Between /\ FailedNow
  /\ pending = Cardinality(Unready) + 1
  /\ \E n \in FirstPhase :
       /\ cursor[t] = {n} /\ Prepared = UpTo(n)
       /\ Undone = IF waiting THEN {n} ELSE {}

Suspended ==
  /\ NoneRuns /\ Between /\ FailedNow /\ ~ waiting
  /\ pending = Cardinality(Unready) + 1
  /\ \E n \in FirstPhase : Prepared = UpTo(n) /\ Undone = {n}

AllPrepared ==
  /\ NoneRuns /\ Between /\ FailedNow
  /\ tree # {} /\ Prepared = FirstPhase /\ Undone = {}
  /\ pending = Cardinality(Unready) /\ Unready # {}

\* A phase is being committed: what is left in the tree, or returned to it, waits.
InPhase ==
  /\ promise /\ NoneAborted
  /\ \A n \in tree : Fresh(n)
  /\ \A n \in Committing, m \in Past : phase[m] <= phase[n]

Calling(t) ==
  /\ Only(t, "CommitNodes") /\ InPhase
  /\ pending = Cardinality(Committing) - count[t] /\ pending <= 0
  /\ todo[t] \subseteq Past
  /\ \A n \in Past : "kCommit" \in flags[n] <=> n \notin todo[t]

AwaitingCommit ==
  /\ NoneRuns /\ InPhase /\ PastCommitted
  /\ pending = Cardinality(Committing) /\ Committing # {}

\* A phase failed, or the transaction was aborted: the rest of the tree is aborted.
ToAbort ==
  /\ promise /\ failed # {} /\ Committing = {} /\ PastCommitted
  /\ \A n \in tree : Fresh(n)

StartingAbort(t) == Only(t, "ExecuteAbort") /\ ToAbort /\ NoneAborted

AbortingNodes(t) ==
  /\ Only(t, "AbortNodes") /\ ToAbort
  /\ pending_abort = Cardinality(Aborting) - count[t] /\ pending_abort <= 0

AwaitingAbort ==
  /\ NoneRuns /\ ToAbort /\ tree = {}
  /\ pending_abort = Cardinality(Aborting) /\ Aborting # {}

Done ==
  /\ NoneRuns /\ ~ promise /\ tree = {}
  /\ Committing = {} /\ Aborting = {} /\ PastCommitted
  /\ failed = {} => NoneAborted

Mode ==
  \/ \E t \in Thread : \/ Starting(t) \/ Visiting(t) \/ Awaiting(t) \/ Calling(t)
                       \/ StartingAbort(t) \/ AbortingNodes(t)
  \/ Suspended \/ AllPrepared \/ AwaitingCommit \/ AwaitingAbort \/ Done

\* Weak references: one per node that is alive, and those of the running thread.
References ==
  /\ \A t \in Thread : /\ pc[t] = "idle" => held[t] = 0
                       /\ pc[t] # "idle" => weak = Cardinality(Alive) + held[t]
                       /\ pc[t] = "CommitNodes" => held[t] > 0
                       /\ pc[t] \in {"ExecuteCommitPhase", "ContinuePrepareForCommit",
                                     "AwaitPrepareDone", "ExecuteAbort"}
                            => held[t] > 0 \/ tree # {}
  /\ NoneRuns => weak = Cardinality(Alive)

Types ==
  /\ tree \subseteq Node
  /\ phase \in [Node -> 0 .. MaxPhase]
  /\ flags \in [Node -> SUBSET Flag]
  /\ pending \in Int /\ pending_abort \in Int
  /\ waiting \in BOOLEAN /\ promise \in BOOLEAN
  /\ failed \subseteq -1 .. MaxPhase
  /\ weak \in Int
  /\ pc \in [Thread -> Method]
  /\ cursor \in [Thread -> SUBSET Node]
  /\ todo \in [Thread -> SUBSET Node]
  /\ count \in [Thread -> Nat]
  /\ held \in [Thread -> Nat]

Flags == \A n \in Node : NodeFlags(n)

Core == Types /\ Flags /\ PhaseOrder /\ Mode

-----------------------------------------------------------------------------
(* The tree.                                                               *)

\* A set of numbers that is not empty has a least element.
LEMMA LeastElement ==
  ASSUME NEW T, T \subseteq Nat, T # {}
  PROVE  \E x \in T : \A y \in T : x <= y
<1>1. PICK x \in T : \A y \in T : ~ (<<y, x>> \in OpToRel(<, Nat))
  BY NatLessThanWellFounded, WFMin
<1>2. \A y \in T : ~ (y < x) BY <1>1 DEF OpToRel
<1>3. \A y \in T : x \in Nat /\ y \in Nat OBVIOUS
<1>. QED BY <1>2, <1>3

\* Subsets of the nodes are finite.
LEMMA Finite ==
  ASSUME NEW S, S \subseteq Node
  PROVE  IsFiniteSet(S) /\ Cardinality(S) \in Nat /\ (Cardinality(S) = 0 <=> S = {})
<1>1. IsFiniteSet(S) BY CommitAssumption, FS_Subset
<1>. QED BY <1>1, FS_CardinalityType, FS_EmptySet

\* The leftmost node is the first of the first phase.
LEMMA LeftmostFirst ==
  ASSUME Types, NEW n \in tree, Leftmost(n)
  PROVE  n \in FirstPhase /\ UpTo(n) = {n}
<1>1. \A m \in tree : m \in Nat /\ phase[m] \in Nat BY CommitAssumption DEF Types
<1>2. \A m \in tree : phase[n] <= phase[m] BY <1>1 DEF Leftmost, Before
<1>3. \A m \in FirstPhase : m <= n => m = n BY <1>1 DEF Leftmost, Before, FirstPhase
<1>. QED BY <1>1, <1>2, <1>3 DEF FirstPhase, UpTo

\* The nodes of the first phase have the same phase.
LEMMA SamePhase ==
  ASSUME Types, NEW n \in FirstPhase, NEW m \in tree
  PROVE  /\ n \in tree /\ n \in Node /\ n \in Nat /\ m \in Nat
         /\ phase[n] \in Nat /\ phase[m] \in Nat
         /\ phase[n] <= phase[m]
         /\ m \in FirstPhase <=> phase[m] = phase[n]
<1>1. \A k \in tree : k \in Node /\ k \in Nat /\ phase[k] \in Nat BY CommitAssumption DEF Types
<1>2. n \in tree /\ \A k \in tree : phase[n] <= phase[k] BY DEF FirstPhase
<1>3. m \in FirstPhase => phase[m] <= phase[n] BY <1>2 DEF FirstPhase
<1>4. phase[m] = phase[n] => m \in FirstPhase BY <1>2 DEF FirstPhase
<1>. QED BY <1>1, <1>2, <1>3, <1>4

\* The node after n in its phase, if there is one.
LEMMA NextNode ==
  ASSUME Types, NEW n \in FirstPhase
  PROVE  \/ NextInPhase(n) = {} /\ UpTo(n) = FirstPhase
         \/ \E m \in FirstPhase : NextInPhase(n) = {m} /\ UpTo(m) \ {m} = UpTo(n)
<1>. DEFINE T == {m \in FirstPhase : n < m}
<1>1. \A m \in FirstPhase : m \in Nat /\ n \in Nat /\ m \in tree BY SamePhase DEF FirstPhase
<1>2. \A m \in tree : (phase[m] = phase[n] <=> m \in FirstPhase) BY SamePhase
<1>3. CASE T = {}
  <2>1. NextInPhase(n) = {} BY <1>2, <1>3 DEF NextInPhase
  <2>2. UpTo(n) = FirstPhase BY <1>1, <1>3 DEF UpTo
  <2>. QED BY <2>1, <2>2
<1>4. CASE T # {}
  <2>1. PICK m \in T : \A k \in T : m <= k BY <1>1, <1>4, LeastElement
  <2>2. m \in FirstPhase /\ n < m OBVIOUS
  <2>3. \A k \in NextInPhase(n) : k \in T /\ k <= m BY <1>1, <1>2, <2>2 DEF NextInPhase
  <2>4. \A k \in NextInPhase(n) : k = m BY <1>1, <2>1, <2>2, <2>3
  <2>5. m \in NextInPhase(n) BY <1>1, <1>2, <2>1, <2>2 DEF NextInPhase
  <2>6. UpTo(m) \ {m} = UpTo(n)
    <3>1. ASSUME NEW k \in FirstPhase PROVE (k <= m /\ k # m) <=> k <= n
      <4>1. k \in Nat /\ m \in Nat /\ n \in Nat BY <1>1
      <4>2. k <= n \/ k \in T BY <4>1
      <4>. QED BY <2>1, <2>2, <4>1, <4>2
    <3>. QED BY <3>1 DEF UpTo
  <2>. QED BY <2>2, <2>4, <2>5, <2>6
<1>. QED BY <1>3, <1>4

-----------------------------------------------------------------------------
(* What the calls do to the sets of nodes that the counters count.         *)

\* Where a node can be, by the flags that a callback looks at.
LEMMA WhereNodes ==
  ASSUME Types, Flags, NEW n \in Node
  PROVE  /\ "kPrepareForCommit" \in flags[n] /\ "kPrepareDone" \notin flags[n] => n \in Undone
         /\ "kPrepareForCommit" \in flags[n] /\ "kReadyForCommit" \notin flags[n] => n \in Unready
         /\ "kReadyForCommit" \in flags[n] /\ "kCommitDone" \notin flags[n] /\ n \notin tree
              => n \in Committing
         /\ "kAbort" \in flags[n] /\ "kAbortDone" \notin flags[n] => n \in Aborting
         /\ "kPrepareForCommit" \in flags[n] /\ "kCommitDone" \notin flags[n]
              => n \in Prepared \cup Committing
<1>1. NodeFlags(n) BY DEF Flags
<1>. QED
  BY <1>1 DEF NodeFlags, Undone, Unready, Prepared, Committing, Aborting, Past, Registered, Fresh

\* A step that changes the flags or the place of one node changes only its
\* membership in these sets.
LEMMA OneNode ==
  ASSUME Flags, NEW n \in Node, tree \subseteq Node, tree' \subseteq Node,
         \A m \in Node \ {n} : flags'[m] = flags[m] /\ (m \in tree' <=> m \in tree),
         NodeFlags(n)'
  PROVE  /\ Flags'
         /\ Registered' \ {n} = Registered \ {n}
         /\ Past' \ {n} = Past \ {n} /\ Committing' \ {n} = Committing \ {n}
         /\ Aborting' \ {n} = Aborting \ {n} /\ Alive' \ {n} = Alive \ {n}
         /\ Prepared' \ {n} = Prepared \ {n} /\ Undone' \ {n} = Undone \ {n}
         /\ Unready' \ {n} = Unready \ {n}
<1>1. Registered' \ {n} = Registered \ {n} /\ Prepared' \ {n} = Prepared \ {n}
  BY DEF Registered, Prepared
<1>2. /\ Past' \ {n} = Past \ {n}
      /\ Aborting' \ {n} = Aborting \ {n} /\ Alive' \ {n} = Alive \ {n}
  BY DEF Past, Aborting, Alive, Registered
<1>3. Committing' \ {n} = Committing \ {n} BY <1>2 DEF Committing, Past, Registered
<1>4. Undone' \ {n} = Undone \ {n} /\ Unready' \ {n} = Unready \ {n}
  BY <1>1 DEF Undone, Unready, Prepared
<1>5. ASSUME NEW m \in Node PROVE NodeFlags(m)'
  <2>1. CASE m # n
    <3>1. NodeFlags(m) /\ flags'[m] = flags[m] /\ (m \in tree' <=> m \in tree) BY <2>1 DEF Flags
    <3>2. m \in Past' <=> m \in Past BY <1>2, <2>1
    <3>. QED BY <3>1, <3>2 DEF NodeFlags, Fresh
  <2>. QED BY <2>1
<1>. QED BY <1>1, <1>2, <1>3, <1>4, <1>5 DEF Flags

\* PrepareForCommit is called on a node of the tree.
LEMMA MarkPrepare ==
  ASSUME Types, Flags, NEW n \in tree, Fresh(n), Mark(n, "kPrepareForCommit"), UNCHANGED <<tree, phase>>
  PROVE  /\ Flags' /\ flags' \in [Node -> SUBSET Flag] /\ FirstPhase' = FirstPhase
         /\ Registered' = Registered /\ Past' = Past /\ Committing' = Committing
         /\ Aborting' = Aborting /\ Alive' = Alive
         /\ Prepared' = Prepared \cup {n} /\ Undone' = Undone \cup {n}
         /\ Unready' = Unready \cup {n} /\ n \notin Unready
         /\ flags'[n] = flags[n] \cup {"kPrepareForCommit"}
         /\ \A m \in Node \ {n} : flags'[m] = flags[m]
<1>1. n \in Node /\ n \in tree /\ flags[n] = {"kRegister"} BY DEF Types, Fresh, Flags
<1>2. /\ flags'[n] = flags[n] \cup {"kPrepareForCommit"}
      /\ \A m \in Node \ {n} : flags'[m] = flags[m]
      /\ flags' \in [Node -> SUBSET Flag]
  BY <1>1 DEF Types, Mark, Flag
<1>3. NodeFlags(n) /\ tree \subseteq Node /\ tree' = tree /\ flags[n] \subseteq Flag
  BY <1>1 DEF Flags, Types
<1>4. NodeFlags(n)' BY <1>1, <1>2, <1>3 DEF NodeFlags, Fresh, Past, Registered
<1>5. FirstPhase' = FirstPhase BY DEF FirstPhase
<1>. QED
  BY <1>1, <1>2, <1>3, <1>4, <1>5, OneNode
     DEF Registered, Past, Committing, Aborting, Alive, Prepared, Undone, Unready, NodeFlags

\* A node of the tree calls PrepareDone.
LEMMA MarkPrepareDone ==
  ASSUME Types, Flags, NEW n \in Undone, Mark(n, "kPrepareDone"), UNCHANGED <<tree, phase>>
  PROVE  /\ Flags' /\ flags' \in [Node -> SUBSET Flag] /\ FirstPhase' = FirstPhase
         /\ Registered' = Registered /\ Past' = Past /\ Committing' = Committing
         /\ Aborting' = Aborting /\ Alive' = Alive
         /\ Prepared' = Prepared /\ Undone' = Undone \ {n} /\ Unready' = Unready
         /\ flags'[n] = flags[n] \cup {"kPrepareDone"}
         /\ \A m \in Node \ {n} : flags'[m] = flags[m]
<1>1. n \in Node /\ n \in tree /\ {"kPrepareForCommit"} \subseteq flags[n] /\ "kPrepareDone" \notin flags[n]
  BY DEF Types, Undone, Prepared
<1>2. /\ flags'[n] = flags[n] \cup {"kPrepareDone"}
      /\ \A m \in Node \ {n} : flags'[m] = flags[m]
      /\ flags' \in [Node -> SUBSET Flag]
  BY <1>1 DEF Types, Mark, Flag
<1>3. NodeFlags(n) /\ tree \subseteq Node /\ tree' = tree /\ flags[n] \subseteq Flag
  BY <1>1 DEF Flags, Types
<1>4. NodeFlags(n)' BY <1>1, <1>2, <1>3 DEF NodeFlags, Fresh, Past, Registered
<1>5. FirstPhase' = FirstPhase BY DEF FirstPhase
<1>. QED
  BY <1>1, <1>2, <1>3, <1>4, <1>5, OneNode
     DEF Registered, Past, Committing, Aborting, Alive, Prepared, Undone, Unready, NodeFlags

\* A node of the tree calls ReadyForCommit.
LEMMA MarkReady ==
  ASSUME Types, Flags, NEW n \in Unready, Mark(n, "kReadyForCommit"), UNCHANGED <<tree, phase>>
  PROVE  /\ Flags' /\ flags' \in [Node -> SUBSET Flag] /\ FirstPhase' = FirstPhase
         /\ Registered' = Registered /\ Past' = Past /\ Committing' = Committing
         /\ Aborting' = Aborting /\ Alive' = Alive
         /\ Prepared' = Prepared /\ Undone' = Undone /\ Unready' = Unready \ {n}
         /\ flags'[n] = flags[n] \cup {"kReadyForCommit"}
         /\ \A m \in Node \ {n} : flags'[m] = flags[m]
<1>1. n \in Node /\ n \in tree /\ {"kPrepareForCommit"} \subseteq flags[n] /\ "kReadyForCommit" \notin flags[n]
  BY DEF Types, Unready, Prepared
<1>2. /\ flags'[n] = flags[n] \cup {"kReadyForCommit"}
      /\ \A m \in Node \ {n} : flags'[m] = flags[m]
      /\ flags' \in [Node -> SUBSET Flag]
  BY <1>1 DEF Types, Mark, Flag
<1>3. NodeFlags(n) /\ tree \subseteq Node /\ tree' = tree /\ flags[n] \subseteq Flag
  BY <1>1 DEF Flags, Types
<1>4. NodeFlags(n)' BY <1>1, <1>2, <1>3 DEF NodeFlags, Fresh, Past, Registered
<1>5. FirstPhase' = FirstPhase BY DEF FirstPhase
<1>. QED
  BY <1>1, <1>2, <1>3, <1>4, <1>5, OneNode
     DEF Registered, Past, Committing, Aborting, Alive, Prepared, Undone, Unready, NodeFlags

\* Commit() is called on a node of the phase.
LEMMA MarkCommit ==
  ASSUME Types, Flags, NEW n \in Past, Mark(n, "kCommit"), UNCHANGED <<tree, phase>>
  PROVE  /\ Flags' /\ flags' \in [Node -> SUBSET Flag] /\ FirstPhase' = FirstPhase
         /\ Registered' = Registered /\ Past' = Past /\ Committing' = Committing
         /\ Aborting' = Aborting
         /\ Alive' = IF "kCommitDone" \in flags[n] THEN Alive \ {n} ELSE Alive
         /\ Prepared' = Prepared /\ Undone' = Undone /\ Unready' = Unready
         /\ flags'[n] = flags[n] \cup {"kCommit"}
         /\ \A m \in Node \ {n} : flags'[m] = flags[m]
<1>1. n \in Node /\ n \notin tree /\ "kRegister" \in flags[n] /\ "kAbort" \notin flags[n]
  BY DEF Types, Past, Registered
<1>2. /\ flags'[n] = flags[n] \cup {"kCommit"}
      /\ \A m \in Node \ {n} : flags'[m] = flags[m]
      /\ flags' \in [Node -> SUBSET Flag]
  BY <1>1 DEF Types, Mark, Flag
<1>3. NodeFlags(n) /\ tree \subseteq Node /\ tree' = tree /\ flags[n] \subseteq Flag
  BY <1>1 DEF Flags, Types
<1>4. NodeFlags(n)' BY <1>1, <1>2, <1>3 DEF NodeFlags, Fresh, Past, Registered
<1>5. FirstPhase' = FirstPhase BY DEF FirstPhase
<1>. QED
  BY <1>1, <1>2, <1>3, <1>4, <1>5, OneNode
     DEF Registered, Past, Committing, Aborting, Alive, Prepared, Undone, Unready, NodeFlags

\* A node of the phase calls CommitDone(0).
LEMMA MarkCommitDone ==
  ASSUME Types, Flags, NEW n \in Committing, Mark(n, "kCommitDone"), UNCHANGED <<tree, phase>>
  PROVE  /\ Flags' /\ flags' \in [Node -> SUBSET Flag] /\ FirstPhase' = FirstPhase
         /\ Registered' = Registered /\ Past' = Past /\ Committing' = Committing \ {n}
         /\ Aborting' = Aborting
         /\ Alive' = IF "kCommit" \in flags[n] THEN Alive \ {n} ELSE Alive
         /\ Prepared' = Prepared /\ Undone' = Undone /\ Unready' = Unready
         /\ flags'[n] = flags[n] \cup {"kCommitDone"}
         /\ \A m \in Node \ {n} : flags'[m] = flags[m]
<1>1. n \in Node /\ n \notin tree /\ "kRegister" \in flags[n] /\ "kAbort" \notin flags[n] /\ "kCommitDone" \notin flags[n]
  BY DEF Types, Committing, Past, Registered
<1>2. /\ flags'[n] = flags[n] \cup {"kCommitDone"}
      /\ \A m \in Node \ {n} : flags'[m] = flags[m]
      /\ flags' \in [Node -> SUBSET Flag]
  BY <1>1 DEF Types, Mark, Flag
<1>3. NodeFlags(n) /\ tree \subseteq Node /\ tree' = tree /\ flags[n] \subseteq Flag
  BY <1>1 DEF Flags, Types
<1>4. NodeFlags(n)' BY <1>1, <1>2, <1>3 DEF NodeFlags, Fresh, Past, Registered
<1>5. FirstPhase' = FirstPhase BY DEF FirstPhase
<1>. QED
  BY <1>1, <1>2, <1>3, <1>4, <1>5, OneNode
     DEF Registered, Past, Committing, Aborting, Alive, Prepared, Undone, Unready, NodeFlags

\* An aborted node calls AbortDone.
LEMMA MarkAbortDone ==
  ASSUME Types, Flags, NEW n \in Aborting, Mark(n, "kAbortDone"), UNCHANGED <<tree, phase>>
  PROVE  /\ Flags' /\ flags' \in [Node -> SUBSET Flag] /\ FirstPhase' = FirstPhase
         /\ Registered' = Registered /\ Past' = Past /\ Committing' = Committing
         /\ Aborting' = Aborting \ {n} /\ Alive' = Alive \ {n} /\ n \in Alive
         /\ Prepared' = Prepared /\ Undone' = Undone /\ Unready' = Unready
         /\ flags'[n] = flags[n] \cup {"kAbortDone"}
         /\ \A m \in Node \ {n} : flags'[m] = flags[m]
<1>1. n \in Node /\ n \notin tree /\ "kRegister" \in flags[n] /\ "kAbort" \in flags[n] /\ "kAbortDone" \notin flags[n]
  BY DEF Types, Aborting, Registered, Flags, NodeFlags
<1>2. /\ flags'[n] = flags[n] \cup {"kAbortDone"}
      /\ \A m \in Node \ {n} : flags'[m] = flags[m]
      /\ flags' \in [Node -> SUBSET Flag]
  BY <1>1 DEF Types, Mark, Flag
<1>3. NodeFlags(n) /\ tree \subseteq Node /\ tree' = tree /\ flags[n] \subseteq Flag
  BY <1>1 DEF Flags, Types
<1>4. NodeFlags(n)' BY <1>1, <1>2, <1>3 DEF NodeFlags, Fresh, Past, Registered
<1>5. FirstPhase' = FirstPhase BY DEF FirstPhase
<1>. QED
  BY <1>1, <1>2, <1>3, <1>4, <1>5, OneNode
     DEF Registered, Past, Committing, Aborting, Alive, Prepared, Undone, Unready, NodeFlags

\* Abort() is called on a node taken out of the tree.
LEMMA MarkAbort ==
  ASSUME Types, Flags, NEW n \in tree, Fresh(n), Mark(n, "kAbort"), tree' = tree \ {n}
  PROVE  /\ Flags' /\ flags' \in [Node -> SUBSET Flag]
         /\ Registered' = Registered /\ Past' = Past /\ Committing' = Committing
         /\ Aborting' = Aborting \cup {n} /\ n \notin Aborting /\ Alive' = Alive
         /\ flags'[n] = {"kRegister", "kAbort"}
         /\ \A m \in Node \ {n} : flags'[m] = flags[m]
<1>1. n \in Node /\ flags[n] = {"kRegister"} BY DEF Types, Fresh
<1>2. /\ flags'[n] = {"kRegister", "kAbort"}
      /\ \A m \in Node \ {n} : flags'[m] = flags[m] /\ (m \in tree' <=> m \in tree)
      /\ flags' \in [Node -> SUBSET Flag]
      /\ tree \subseteq Node /\ tree' \subseteq Node /\ n \notin tree'
  BY <1>1 DEF Types, Mark, Flag
<1>3. NodeFlags(n)' BY <1>1, <1>2 DEF NodeFlags, Past, Registered
<1>. QED BY <1>1, <1>2, <1>3, OneNode DEF Registered, Past, Committing, Aborting, Alive

\* A node of the phase calls CommitDone(next_phase): it returns to the tree.
LEMMA Rejoin ==
  ASSUME Types, Flags, NEW n \in Committing, "kAbort" \notin flags[n],
         flags' = [flags EXCEPT ![n] = {"kRegister"}], tree' = tree \cup {n}
  PROVE  /\ Flags' /\ flags' \in [Node -> SUBSET Flag]
         /\ Registered' = Registered /\ Past' = Past \ {n} /\ Committing' = Committing \ {n}
         /\ Aborting' = Aborting /\ Alive' = Alive
         /\ flags'[n] = {"kRegister"}
         /\ \A m \in Node \ {n} : flags'[m] = flags[m]
<1>1. n \in Node /\ n \in Registered /\ "kCommitDone" \notin flags[n] /\ NodeFlags(n)
  BY DEF Types, Committing, Past, Registered, Flags
<1>2. /\ flags'[n] = {"kRegister"}
      /\ \A m \in Node \ {n} : flags'[m] = flags[m] /\ (m \in tree' <=> m \in tree)
      /\ flags' \in [Node -> SUBSET Flag]
      /\ tree \subseteq Node /\ tree' \subseteq Node /\ n \in tree'
  BY <1>1 DEF Types, Flag
<1>3. NodeFlags(n)' BY <1>1, <1>2 DEF NodeFlags, Past, Registered, Fresh
<1>4. n \in Alive BY <1>1 DEF Alive, NodeFlags, Registered
<1>. QED BY <1>1, <1>2, <1>3, <1>4, OneNode DEF Registered, Past, Committing, Aborting, Alive

\* The last ReadyForCommit takes the nodes of the first phase out of the tree.
LEMMA TakePhase ==
  ASSUME Types, NEW R, R = FirstPhase, tree' = tree \ R, flags' \in [Node -> SUBSET Flag], Flags,
         \A n \in R : /\ "kPrepareForCommit" \in flags[n] /\ "kPrepareDone" \in flags[n]
                      /\ "kReadyForCommit" \in flags'[n],
         \A n \in Node : flags'[n] \in {flags[n], flags[n] \cup {"kReadyForCommit"}},
         \A n \in Node \ R : flags'[n] = flags[n],
         Prepared \subseteq R
  PROVE  /\ Flags' /\ Registered' = Registered
         /\ Past' = Past \cup R /\ Committing' = Committing \cup R
         /\ Aborting' = Aborting /\ Alive' = Alive
         /\ \A n \in tree' : Fresh(n)'
         /\ \A n \in R : "kCommit" \notin flags'[n]
<1>1. R \subseteq tree /\ tree \subseteq Node /\ R \subseteq Node BY DEF Types, FirstPhase
<1>2. ASSUME NEW n \in R
      PROVE  /\ "kRegister" \in flags[n] /\ n \notin tree' /\ n \in tree
             /\ flags[n] \subseteq {"kRegister", "kPrepareForCommit", "kPrepareDone",
                                    "kReadyForCommit"}
             /\ flags'[n] = {"kRegister", "kPrepareForCommit", "kPrepareDone", "kReadyForCommit"}
  BY <1>1 DEF Flags, NodeFlags
<1>3. ASSUME NEW n \in Node, n \notin R
      PROVE  flags'[n] = flags[n] /\ (n \in tree' <=> n \in tree) /\ NodeFlags(n)
  BY <1>3 DEF Flags
<1>4. Registered' = Registered BY <1>1, <1>2, <1>3 DEF Registered
<1>5. Past' = Past \cup R BY <1>1, <1>2, <1>3, <1>4 DEF Past, Registered
<1>6. Committing' = Committing \cup R BY <1>1, <1>2, <1>3, <1>5 DEF Committing, Past, Registered
<1>7. Aborting' = Aborting BY <1>1, <1>2, <1>3, <1>4 DEF Aborting, Registered
<1>8. Alive' = Alive BY <1>1, <1>2, <1>3, <1>4 DEF Alive, Registered
<1>9. \A n \in tree' : Fresh(n)'
  <2>1. ASSUME NEW n \in tree' PROVE flags'[n] = {"kRegister"}
    <3>1. n \in Node /\ n \notin R /\ n \in tree BY <1>1
    <3>2. "kPrepareForCommit" \notin flags[n] BY <3>1 DEF Prepared
    <3>. QED BY <1>3, <3>1, <3>2 DEF NodeFlags, Fresh
  <2>. QED BY <2>1 DEF Fresh
<1>10. Flags'
  <2>1. ASSUME NEW n \in R PROVE NodeFlags(n)' BY <1>1, <1>2 DEF NodeFlags, Past
  <2>2. ASSUME NEW n \in Node, n \notin R PROVE NodeFlags(n)'
    <3>1. n \in Past' <=> n \in Past BY <1>5, <2>2
    <3>. QED BY <1>3, <2>2, <3>1 DEF NodeFlags, Fresh
  <2>. QED BY <2>1, <2>2 DEF Flags
<1>11. \A n \in R : "kCommit" \notin flags'[n] BY <1>2
<1>. QED BY <1>4, <1>5, <1>6, <1>7, <1>8, <1>9, <1>10, <1>11

-----------------------------------------------------------------------------
(* Modes.                                                                  *)

\* A running thread tells the mode.
LEMMA ModeAt ==
  ASSUME Types, Mode, NEW t \in Thread
  PROVE  /\ pc[t] = "ExecuteCommitPhase" => Starting(t)
         /\ pc[t] = "ContinuePrepareForCommit" => Visiting(t)
         /\ pc[t] = "AwaitPrepareDone" => Awaiting(t)
         /\ pc[t] = "CommitNodes" => Calling(t)
         /\ pc[t] = "ExecuteAbort" => StartingAbort(t)
         /\ pc[t] = "AbortNodes" => AbortingNodes(t)
<1>1. ASSUME NEW u \in Thread, NEW m, Only(u, m), pc[t] # "idle"
      PROVE  u = t /\ pc[t] = m
  BY <1>1 DEF Only
<1>2. pc[t] # "idle" => ~ NoneRuns BY DEF NoneRuns
<1>3. CASE Suspended \/ AllPrepared \/ AwaitingCommit \/ AwaitingAbort \/ Done
  BY <1>2, <1>3 DEF Suspended, AllPrepared, AwaitingCommit, AwaitingAbort, Done
<1>4. ASSUME NEW u \in Thread, Starting(u) PROVE pc[t] # "idle" => Starting(t) /\ pc[t] = "ExecuteCommitPhase"
  BY <1>1, <1>4 DEF Starting
<1>5. ASSUME NEW u \in Thread, Visiting(u) PROVE pc[t] # "idle" => Visiting(t) /\ pc[t] = "ContinuePrepareForCommit"
  BY <1>1, <1>5 DEF Visiting
<1>6. ASSUME NEW u \in Thread, Awaiting(u) PROVE pc[t] # "idle" => Awaiting(t) /\ pc[t] = "AwaitPrepareDone"
  BY <1>1, <1>6 DEF Awaiting
<1>7. ASSUME NEW u \in Thread, Calling(u) PROVE pc[t] # "idle" => Calling(t) /\ pc[t] = "CommitNodes"
  BY <1>1, <1>7 DEF Calling
<1>8. ASSUME NEW u \in Thread, StartingAbort(u) PROVE pc[t] # "idle" => StartingAbort(t) /\ pc[t] = "ExecuteAbort"
  BY <1>1, <1>8 DEF StartingAbort
<1>9. ASSUME NEW u \in Thread, AbortingNodes(u) PROVE pc[t] # "idle" => AbortingNodes(t) /\ pc[t] = "AbortNodes"
  BY <1>1, <1>9 DEF AbortingNodes
<1>. QED BY <1>3, <1>4, <1>5, <1>6, <1>7, <1>8, <1>9 DEF Mode

\* The nodes that may call back tell the mode.
LEMMA ModeBy ==
  ASSUME Types, Mode
  PROVE  /\ Undone # {} => (\E t \in Thread : Awaiting(t)) \/ Suspended
         /\ Prepared # {} => \/ \E t \in Thread : Visiting(t) \/ Awaiting(t)
                             \/ Suspended \/ AllPrepared
         /\ Committing # {} => (\E t \in Thread : Calling(t)) \/ AwaitingCommit
         /\ Aborting # {} => (\E t \in Thread : AbortingNodes(t)) \/ AwaitingAbort
<1>. USE DEF Between, InPhase, ToAbort
<1>0. /\ (\A n \in tree : Fresh(n)) => Prepared = {}
      /\ Prepared = {} => Undone = {}
      /\ NoneAborted => Aborting = {}
      /\ tree = {} => Prepared = {}
  BY DEF Fresh, Prepared, Undone, NoneAborted, Aborting, Registered
<1>1. ASSUME NEW t \in Thread, Starting(t) PROVE Prepared = {} /\ Committing = {} /\ Aborting = {}
  BY <1>0, <1>1 DEF Starting
<1>2. ASSUME NEW t \in Thread, Visiting(t) PROVE Undone = {} /\ Committing = {} /\ Aborting = {}
  BY <1>0, <1>2 DEF Visiting
<1>3. ASSUME NEW t \in Thread, Awaiting(t) PROVE Committing = {} /\ Aborting = {}
  BY <1>0, <1>3 DEF Awaiting
<1>4. ASSUME NEW t \in Thread, Calling(t) PROVE Prepared = {} /\ Aborting = {}
  BY <1>0, <1>4 DEF Calling
<1>5. ASSUME NEW t \in Thread, StartingAbort(t) PROVE Prepared = {} /\ Committing = {} /\ Aborting = {}
  BY <1>0, <1>5 DEF StartingAbort
<1>6. ASSUME NEW t \in Thread, AbortingNodes(t) PROVE Prepared = {} /\ Committing = {}
  BY <1>0, <1>6 DEF AbortingNodes
<1>7. Suspended => Committing = {} /\ Aborting = {} BY <1>0 DEF Suspended
<1>8. AllPrepared => Undone = {} /\ Committing = {} /\ Aborting = {} BY <1>0 DEF AllPrepared
<1>9. AwaitingCommit => Prepared = {} /\ Aborting = {} BY <1>0 DEF AwaitingCommit
<1>10. AwaitingAbort => Prepared = {} /\ Committing = {} BY <1>0 DEF AwaitingAbort
<1>11. Done => Prepared = {} /\ Committing = {} /\ Aborting = {} BY <1>0 DEF Done
<1>. QED BY <1>0, <1>1, <1>2, <1>3, <1>4, <1>5, <1>6, <1>7, <1>8, <1>9, <1>10, <1>11 DEF Mode

-----------------------------------------------------------------------------
(* Threads and their references.                                           *)

Running == Method \ {"idle"}

\* The references while t runs, and while nobody does.
LEMMA ReferencesRunning ==
  ASSUME Types, References, NEW t \in Thread, NEW m \in Running, Only(t, m)
  PROVE  /\ weak = Cardinality(Alive) + held[t] /\ held[t] \in Nat
         /\ \A u \in Thread \ {t} : held[u] = 0 /\ pc[u] = "idle"
BY DEF References, Only, Types, Running

LEMMA ReferencesIdle ==
  ASSUME References, NoneRuns
  PROVE  weak = Cardinality(Alive) /\ \A u \in Thread : held[u] = 0
BY DEF References, NoneRuns

\* The last call of t returns.
LEMMA LeaveAll ==
  ASSUME Types, References, NEW t \in Thread, NEW x \in Nat, Leave(t, x),
         \A u \in Thread \ {t} : pc[u] = "idle"
  PROVE  /\ NoneRuns'
         /\ weak' = Cardinality(Alive) - x
         /\ weak' = Cardinality(Alive') => References'
<1>1. /\ \A u \in Thread : pc'[u] = "idle"
      /\ \A u \in Thread \ {t} : held[u] = 0
      /\ \A u \in Thread : held'[u] = 0
  BY DEF Leave, Types, References
<1>2. NoneRuns' BY <1>1 DEF NoneRuns
<1>3. weak = Cardinality(Alive) + held[t] /\ held[t] \in Nat
  <2>1. CASE pc[t] = "idle"
    <3>1. NoneRuns /\ held[t] = 0 BY <2>1 DEF NoneRuns, References
    <3>. QED BY <3>1 DEF References, Types
  <2>2. CASE pc[t] # "idle" BY <2>2 DEF References, Types
  <2>. QED BY <2>1, <2>2
<1>4. Cardinality(Alive) \in Nat BY Finite DEF Alive, Registered
<1>5. weak' = Cardinality(Alive) - x BY <1>3, <1>4 DEF Leave
<1>. QED BY <1>1, <1>2, <1>5 DEF References

\* The same, when nothing is released but what t holds.
LEMMA LeaveQuietly ==
  ASSUME Types, References, NEW t \in Thread, Leave(t, 0), Alive' = Alive,
         \A u \in Thread \ {t} : pc[u] = "idle"
  PROVE  NoneRuns' /\ References'
<1>1. Cardinality(Alive) \in Nat BY Finite DEF Alive, Registered
<1>2. NoneRuns' /\ weak' = Cardinality(Alive) - 0 BY LeaveAll
<1>. QED BY <1>1, <1>2, LeaveAll

\* A callback returns: an idle thread is as it was.
LEMMA LeaveIdle ==
  ASSUME Types, References, NEW t \in Thread, pc[t] = "idle", NEW x \in Nat, Leave(t, x)
  PROVE  /\ pc' = pc /\ held' = held /\ weak' = weak - x
         /\ \A u \in Thread \ {t} : /\ cursor'[u] = cursor[u] /\ todo'[u] = todo[u]
                                   /\ count'[u] = count[u]
<1>1. held[t] = 0 BY DEF References
<1>2. pc' = pc /\ held' = held BY <1>1 DEF Leave, Types
<1>3. weak' = weak - x BY <1>1 DEF Leave, Types
<1>. QED BY <1>2, <1>3 DEF Leave, Types

\* Threads stay where they are, and x nodes are destroyed.
LEMMA Released ==
  ASSUME Types, References, NEW x \in Nat, pc' = pc, held' = held, weak' = weak - x,
         Cardinality(Alive') = Cardinality(Alive) - x, tree # {} => tree' # {}
  PROVE  References'
<1>1. NoneRuns' <=> NoneRuns BY DEF NoneRuns
<1>2. Cardinality(Alive) \in Nat BY Finite DEF Alive, Registered
<1>3. NoneRuns => weak' = Cardinality(Alive') BY DEF References
<1>4. ASSUME NEW u \in Thread, pc[u] # "idle"
      PROVE  weak' = Cardinality(Alive') + held[u]
  <2>1. weak = Cardinality(Alive) + held[u] /\ held[u] \in Nat BY <1>4 DEF References, Types
  <2>. QED BY <1>2, <2>1
<1>. QED BY <1>1, <1>3, <1>4 DEF References

\* The thread t goes on, in method m.
LEMMA GoesOn ==
  ASSUME NEW t \in Thread, NEW m \in Running, Only(t, m)',
         \A u \in Thread \ {t} : held'[u] = 0,
         weak' = Cardinality(Alive') + held'[t],
         m = "CommitNodes" => held'[t] > 0,
         m \in {"ExecuteCommitPhase", "ContinuePrepareForCommit", "AwaitPrepareDone",
                "ExecuteAbort"} => held'[t] > 0 \/ tree' # {}
  PROVE  References'
<1>1. /\ pc'[t] = m /\ m # "idle"
      /\ \A u \in Thread \ {t} : pc'[u] = "idle"
  BY DEF Only, Running
<1>2. ~ NoneRuns' BY <1>1 DEF NoneRuns
<1>. QED BY <1>1, <1>2 DEF References

LEMMA TypesStep == Types /\ [Next]_vars => Types'
<1>. SUFFICES ASSUME Types, [Next]_vars PROVE Types' OBVIOUS
<1>0. /\ FirstPhase \subseteq Node /\ Cardinality(FirstPhase) \in Nat
      /\ \A n \in Node : NextInPhase(n) \subseteq Node
      /\ Method \subseteq Method /\ MaxPhase \in Nat
  BY Finite, CommitAssumption DEF FirstPhase, NextInPhase, Types
<1>1. ASSUME NEW t \in Thread, NEW x \in Nat, Leave(t, x)
      PROVE  /\ weak' \in Int
             /\ pc' \in [Thread -> Method] /\ cursor' \in [Thread -> SUBSET Node]
             /\ todo' \in [Thread -> SUBSET Node] /\ count' \in [Thread -> Nat]
             /\ held' \in [Thread -> Nat]
  BY <1>1 DEF Leave, Types, Method
<1>2. ASSUME NEW n \in Node, NEW f \in Flag, Mark(n, f)
      PROVE  flags' \in [Node -> SUBSET Flag]
  BY <1>2 DEF Mark, Types
<1>3. ASSUME NEW t \in Thread, NEW m \in Method, Enter(t, m)
      PROVE  pc' \in [Thread -> Method]
  BY <1>3 DEF Enter, Types
<1>4. {"idle", "ExecuteCommitPhase", "ContinuePrepareForCommit", "AwaitPrepareDone",
       "CommitNodes", "ExecuteAbort", "AbortNodes"} \subseteq Method
  BY DEF Method
<1>5. Flag = {"kRegister", "kPrepareForCommit", "kPrepareDone", "kReadyForCommit", "kCommit",
              "kCommitDone", "kAbort", "kAbortDone"}
  BY DEF Flag
<1>6. ASSUME NEW t \in Thread, DecrementNodesPendingReadyForCommit(t)
      PROVE  /\ pending' \in Int /\ weak' \in Int /\ tree' \subseteq Node
             /\ phase' \in [Node -> 0 .. MaxPhase] /\ pending_abort' \in Int
             /\ failed' \subseteq -1 .. MaxPhase /\ promise' \in BOOLEAN
             /\ pc' \in [Thread -> Method] /\ cursor' \in [Thread -> SUBSET Node]
             /\ todo' \in [Thread -> SUBSET Node] /\ count' \in [Thread -> Nat]
             /\ held' \in [Thread -> Nat]
  <2>1. CASE pending # 1 BY <1>1, <1>6, <2>1 DEF DecrementNodesPendingReadyForCommit, Types
  <2>2. CASE pending = 1
    BY <1>0, <1>3, <1>4, <1>6, <2>2 DEF DecrementNodesPendingReadyForCommit, Types
  <2>. QED BY <2>1, <2>2
<1>7. ASSUME NEW t \in Thread, NEW x \in Nat, PhaseCommitted(t, x)
      PROVE  /\ weak' \in Int /\ promise' \in BOOLEAN
             /\ pc' \in [Thread -> Method] /\ cursor' \in [Thread -> SUBSET Node]
             /\ todo' \in [Thread -> SUBSET Node] /\ count' \in [Thread -> Nat]
             /\ held' \in [Thread -> Nat]
  <2>1. CASE tree' = {} BY <1>1, <1>7, <2>1 DEF PhaseCommitted
  <2>2. CASE tree' # {}
    <3>1. /\ Enter(t, IF ResultOk THEN "ExecuteCommitPhase" ELSE "ExecuteAbort")
          /\ held' = [held EXCEPT ![t] = @ + x]
          /\ UNCHANGED <<promise, weak, cursor, todo, count>>
      BY <1>7, <2>2 DEF PhaseCommitted
    <3>. QED BY <1>3, <1>4, <3>1 DEF Types
  <2>. QED BY <2>1, <2>2
<1>8. ASSUME NEW t \in Thread, Run(t) PROVE Types'
  <2>1. CASE ExecuteCommitPhase(t)
    <3>1. CASE tree = {} BY <1>1, <2>1, <3>1 DEF ExecuteCommitPhase, Types
    <3>2. CASE tree # {} BY <1>0, <1>3, <1>4, <2>1, <3>2 DEF ExecuteCommitPhase, Types
    <3>. QED BY <3>1, <3>2
  <2>2. CASE PrepareForCommit(t) BY <1>2, <1>3, <1>4, <1>5, <2>2 DEF PrepareForCommit, Types
  <2>3. CASE AwaitPrepareDone(t)
    <3>1. CASE waiting BY <1>1, <2>3, <3>1 DEF AwaitPrepareDone, Types
    <3>2. CASE ~ waiting
      <4>1. (UNION {NextInPhase(n) : n \in cursor[t]}) \subseteq Node BY <1>0 DEF Types
      <4>. QED BY <1>3, <1>4, <2>3, <3>2, <4>1 DEF AwaitPrepareDone, Types
    <3>. QED BY <3>1, <3>2
  <2>4. CASE EndOfPhase(t) BY <1>6, <2>4 DEF EndOfPhase, Types
  <2>5. CASE CommitNode(t) BY <1>2, <1>5, <2>5 DEF CommitNode, Types
  <2>6. CASE CommitNodesEnd(t)
    <3>1. CASE pending' # 0 BY <1>1, <2>6, <3>1 DEF CommitNodesEnd, Types
    <3>2. CASE pending' = 0 BY <1>7, <2>6, <3>2 DEF CommitNodesEnd, Types
    <3>. QED BY <3>1, <3>2
  <2>7. CASE ExecuteAbort(t)
    <3>1. CASE tree = {} BY <1>1, <2>7, <3>1 DEF ExecuteAbort, Types
    <3>2. CASE tree # {} BY <1>0, <1>3, <1>4, <2>7, <3>2 DEF ExecuteAbort, Types
    <3>. QED BY <3>1, <3>2
  <2>8. CASE AbortNode(t) BY <1>2, <1>5, <2>8 DEF AbortNode, Types
  <2>9. CASE AbortNodesEnd(t) BY <1>1, <2>9 DEF AbortNodesEnd, Types
  <2>. QED BY <1>8, <2>1, <2>2, <2>3, <2>4, <2>5, <2>6, <2>7, <2>8, <2>9 DEF Run
<1>9. ASSUME NEW t \in Thread, NEW n \in Node, Callback(t, n) PROVE Types'
  <2>1. CASE PrepareDone(t, n)
    <3>1. /\ flags' \in [Node -> SUBSET Flag] /\ waiting' \in BOOLEAN
          /\ UNCHANGED <<tree, phase, pending, pending_abort, failed, promise, weak, todo, count, held>>
      BY <1>2, <1>5, <2>1 DEF PrepareDone
    <3>2. CASE UNCHANGED <<pc, cursor>> BY <3>1, <3>2 DEF Types
    <3>3. CASE /\ Enter(t, "ContinuePrepareForCommit")
               /\ cursor' = [cursor EXCEPT ![t] = NextInPhase(n)]
      <4>1. pc' \in [Thread -> Method] /\ cursor' \in [Thread -> SUBSET Node]
        BY <1>0, <1>3, <1>4, <3>3 DEF Types
      <4>. QED BY <3>1, <4>1 DEF Types
    <3>. QED BY <2>1, <3>2, <3>3 DEF PrepareDone
  <2>2. CASE ReadyForCommit(t, n) BY <1>2, <1>5, <1>6, <2>2 DEF ReadyForCommit, Types
  <2>3. CASE CommitDone(t, n)
    <3>. DEFINE released == IF "kCommit" \in flags[n] THEN 1 ELSE 0
    <3>1. released \in Nat /\ pending' \in Int /\ flags' \in [Node -> SUBSET Flag]
      BY <1>2, <1>5, <2>3 DEF CommitDone, Types
    <3>. HIDE DEF released
    <3>2. CASE pending' # 0
      <4>1. Leave(t, released) /\ UNCHANGED <<tree, promise>>
        BY <2>3, <3>2 DEF CommitDone, released
      <4>. QED BY <1>1, <2>3, <3>1, <4>1 DEF CommitDone, Types
    <3>3. CASE pending' = 0
      <4>1. PhaseCommitted(t, released) /\ UNCHANGED tree BY <2>3, <3>3 DEF CommitDone, released
      <4>. QED BY <1>7, <2>3, <3>1, <4>1 DEF CommitDone, Types
    <3>. QED BY <3>2, <3>3
  <2>4. ASSUME NEW p \in 1 .. MaxPhase, CommitDoneNextPhase(t, n, p) PROVE Types'
    <3>1. CASE pending' # 0 BY <1>0, <1>1, <1>5, <2>4, <3>1 DEF CommitDoneNextPhase, Types
    <3>2. CASE pending' = 0 BY <1>0, <1>5, <1>7, <2>4, <3>2 DEF CommitDoneNextPhase, Types
    <3>. QED BY <3>1, <3>2
  <2>5. CASE AbortDone(t, n) BY <1>2, <1>5, <2>5 DEF AbortDone, Types, local
  <2>6. CASE SetError(t, n)
    <3>1. phase[n] \in -1 .. MaxPhase BY <1>0 DEF Types
    <3>2. failed' \subseteq -1 .. MaxPhase BY <2>6, <3>1 DEF SetError, Types
    <3>. QED BY <2>6, <3>2 DEF SetError, Types, local
  <2>. QED BY <1>9, <2>1, <2>2, <2>3, <2>4, <2>5, <2>6 DEF Callback
<1>10. CASE UNCHANGED vars BY <1>10 DEF vars, local, Types
<1>. QED BY <1>8, <1>9, <1>10 DEF Next, Terminated

-----------------------------------------------------------------------------
(* One lemma per step: the mode it leads to.                               *)

IInv == Core /\ References

\* Everything but the types, which all steps keep.
Rest == Flags /\ PhaseOrder /\ Mode /\ References

\* What a step that leaves nodes and tree alone keeps.
LEMMA SameNodes ==
  ASSUME UNCHANGED <<tree, phase, flags>>
  PROVE  /\ Flags' <=> Flags
         /\ PhaseOrder' <=> PhaseOrder
         /\ NoneAborted' <=> NoneAborted
         /\ PastCommitted' <=> PastCommitted
         /\ Registered' = Registered /\ Past' = Past /\ Committing' = Committing
         /\ Aborting' = Aborting /\ Alive' = Alive /\ Prepared' = Prepared
         /\ Undone' = Undone /\ Unready' = Unready /\ FirstPhase' = FirstPhase
<1>1. Registered' = Registered /\ Prepared' = Prepared /\ FirstPhase' = FirstPhase
  BY DEF Registered, Prepared, FirstPhase
<1>2. Past' = Past /\ Aborting' = Aborting /\ Alive' = Alive BY <1>1 DEF Past, Aborting, Alive
<1>3. Committing' = Committing /\ Undone' = Undone /\ Unready' = Unready
  BY <1>1, <1>2 DEF Committing, Undone, Unready
<1>4. Flags' <=> Flags BY <1>2 DEF Flags, NodeFlags, Fresh
<1>. QED BY <1>1, <1>2, <1>3, <1>4 DEF PhaseOrder, NoneAborted, PastCommitted

LEMMA StepExecuteCommitPhase ==
  ASSUME IInv, NEW t \in Thread, ExecuteCommitPhase(t)
  PROVE  Rest'
<1>. USE DEF IInv, Core
<1>1. Starting(t) /\ UNCHANGED <<tree, phase, flags, failed>> BY ModeAt DEF ExecuteCommitPhase
<1>2. Flags' /\ PhaseOrder' BY <1>1, SameNodes
<1>3. CASE tree = {}
  <2>1. /\ promise' = FALSE /\ Leave(t, 0)
        /\ \A u \in Thread \ {t} : pc[u] = "idle"
    BY <1>1, <1>3 DEF ExecuteCommitPhase, Starting, Only
  <2>2. NoneRuns' /\ References' BY <1>1, <2>1, LeaveQuietly, SameNodes
  <2>3. Committing = {} /\ Aborting = {} /\ PastCommitted /\ NoneAborted
    BY <1>1 DEF Starting, Between, NoneAborted, Aborting, Registered
  <2>4. Done' BY <1>1, <1>3, <2>1, <2>2, <2>3, SameNodes DEF Done
  <2>. QED BY <1>2, <2>2, <2>4 DEF Rest, Mode
<1>4. CASE tree # {}
  <2>1. PICK n \in tree :
          /\ Leftmost(n) /\ pending' = 1 /\ Enter(t, "ContinuePrepareForCommit")
          /\ cursor' = [cursor EXCEPT ![t] = {n}]
          /\ UNCHANGED <<promise, weak, todo, count, held>>
    BY <1>1, <1>4 DEF ExecuteCommitPhase
  <2>2. n \in FirstPhase /\ UpTo(n) = {n} BY <2>1, LeftmostFirst
  <2>3. Only(t, "ContinuePrepareForCommit")' /\ cursor'[t] = {n}
    BY <1>1, <2>1 DEF Starting, Only, Enter, Types
  <2>4. Prepared = {} /\ Undone = {} /\ Unready = {} /\ Cardinality(Unready) = 0
    BY SMTT(30), <1>1, FS_EmptySet DEF Starting, Fresh, Prepared, Undone, Unready
  <2>5. UpTo(n)' = UpTo(n) BY <1>1, SameNodes DEF UpTo
  <2>6. Visiting(t)'
    <3>1. Between' /\ FailedNow' BY <1>1, <2>1, SameNodes DEF Starting, Between, FailedNow
    <3>2. pending' = Cardinality(Unready') + 1 /\ Undone' = {} BY <1>1, <2>1, <2>4, SameNodes
    <3>3. n \in FirstPhase' /\ cursor'[t] = {n} /\ Prepared' = UpTo(n)' \ {n}
      BY <1>1, <2>2, <2>3, <2>4, <2>5, SameNodes
    <3>. QED BY <2>3, <3>1, <3>2, <3>3 DEF Visiting
  <2>7. References'
    <3>1. /\ weak = Cardinality(Alive) + held[t]
          /\ \A u \in Thread \ {t} : held[u] = 0
      BY <1>1, ReferencesRunning DEF Starting, Running, Method
    <3>. QED BY <1>1, <1>4, <2>1, <2>3, <3>1, GoesOn, SameNodes DEF Running, Method
  <2>. QED BY <1>2, <2>6, <2>7 DEF Rest, Mode
<1>. QED BY <1>3, <1>4

LEMMA StepPrepareForCommit ==
  ASSUME IInv, NEW t \in Thread, PrepareForCommit(t)
  PROVE  Rest'
<1>. USE DEF IInv, Core
<1>1. Visiting(t) BY ModeAt DEF PrepareForCommit
<1>2. PICK n \in FirstPhase : cursor[t] = {n} /\ Prepared = UpTo(n) \ {n}
  BY <1>1 DEF Visiting, PrepareForCommit
<1>3. /\ waiting' = TRUE /\ pending' = pending + 1 /\ Mark(n, "kPrepareForCommit")
      /\ Enter(t, "AwaitPrepareDone")
      /\ UNCHANGED <<tree, phase, pending_abort, failed, promise, weak, cursor, todo, count, held>>
  BY <1>2 DEF PrepareForCommit
<1>4. n \in tree /\ n \in Node /\ n \in UpTo(n) /\ Fresh(n)
  <2>1. n \in tree /\ n \in Node /\ n \in Nat BY SamePhase DEF FirstPhase
  <2>2. n \in UpTo(n) BY <2>1 DEF UpTo
  <2>3. "kPrepareForCommit" \notin flags[n] /\ NodeFlags(n) BY <1>2, <2>1 DEF Prepared, Flags
  <2>. QED BY <2>1, <2>2, <2>3 DEF NodeFlags
<1>5. /\ Flags' /\ FirstPhase' = FirstPhase
      /\ Registered' = Registered /\ Past' = Past /\ Committing' = Committing
      /\ Alive' = Alive
      /\ Prepared' = Prepared \cup {n} /\ Undone' = Undone \cup {n}
      /\ Unready' = Unready \cup {n} /\ n \notin Unready
      /\ flags'[n] = flags[n] \cup {"kPrepareForCommit"}
      /\ \A m \in Node \ {n} : flags'[m] = flags[m]
  BY <1>3, <1>4, MarkPrepare
<1>6. Only(t, "AwaitPrepareDone")' BY <1>1, <1>3 DEF Visiting, Only, Enter, Types
<1>7. Between' /\ FailedNow' /\ PhaseOrder'
  <2>1. NoneAborted' BY <1>1, <1>4, <1>5 DEF NoneAborted, Visiting, Between
  <2>2. PastCommitted' BY <1>1, <1>5 DEF PastCommitted, Visiting, Between, Past, Registered
  <2>. QED BY <1>1, <1>3, <1>5, <2>1, <2>2 DEF Visiting, Between, FailedNow, PhaseOrder
<1>8. pending' = Cardinality(Unready') + 1
  <2>1. Unready \subseteq Node BY DEF Unready, Prepared, Types
  <2>2. Cardinality(Unready') = Cardinality(Unready) + 1 BY <1>5, <2>1, Finite, FS_AddElement
  <2>. QED BY <1>1, <1>3, <2>1, <2>2, Finite DEF Visiting
<1>9. Awaiting(t)'
  <2>1. UpTo(n)' = UpTo(n) BY <1>5 DEF UpTo
  <2>2. Prepared' = UpTo(n)' /\ Undone' = {n} BY <1>1, <1>2, <1>4, <1>5, <2>1 DEF Visiting
  <2>3. n \in FirstPhase' /\ cursor'[t] = {n} BY <1>2, <1>3, <1>5
  <2>. QED BY <1>3, <1>6, <1>7, <1>8, <2>2, <2>3 DEF Awaiting
<1>10. References'
  <2>1. /\ weak = Cardinality(Alive) + held[t]
        /\ \A u \in Thread \ {t} : held[u] = 0
    BY <1>1, ReferencesRunning DEF Visiting, Running, Method
  <2>2. tree' # {} BY <1>3, <1>4
  <2>. QED BY <1>3, <1>5, <1>6, <2>1, <2>2, GoesOn DEF Running, Method
<1>. QED BY <1>5, <1>7, <1>9, <1>10 DEF Rest, Mode

LEMMA StepAwaitPrepareDone ==
  ASSUME IInv, NEW t \in Thread, AwaitPrepareDone(t)
  PROVE  Rest'
<1>. USE DEF IInv, Core
<1>1. Awaiting(t) /\ UNCHANGED <<tree, phase, flags, failed, pending, promise>> /\ waiting' = FALSE
  BY ModeAt DEF AwaitPrepareDone
<1>2. /\ Flags' /\ PhaseOrder' /\ Between' /\ FailedNow'
      /\ pending' = Cardinality(Unready') + 1
  BY <1>1, SameNodes DEF Awaiting, Between, FailedNow
<1>3. PICK n \in FirstPhase :
        cursor[t] = {n} /\ Prepared = UpTo(n) /\ Undone = IF waiting THEN {n} ELSE {}
  BY <1>1 DEF Awaiting
<1>4. n \in FirstPhase' /\ tree # {} /\ \A m \in Node : UpTo(m)' = UpTo(m)
  BY <1>1, SameNodes DEF FirstPhase, UpTo
<1>5. Prepared' = Prepared /\ Undone' = Undone /\ FirstPhase' = FirstPhase /\ Alive' = Alive
  BY <1>1, SameNodes
<1>6. CASE waiting
  <2>1. /\ Leave(t, 0)
        /\ \A u \in Thread \ {t} : pc[u] = "idle"
    BY <1>1, <1>6 DEF AwaitPrepareDone, Awaiting, Only
  <2>2. NoneRuns' /\ References' BY <1>5, <2>1, LeaveQuietly
  <2>3. UpTo(n)' = UpTo(n) BY <1>4 DEF FirstPhase, Types
  <2>4. Prepared' = UpTo(n)' /\ Undone' = {n} BY <1>3, <1>5, <1>6, <2>3
  <2>5. Suspended' BY <1>1, <1>2, <1>4, <2>2, <2>4 DEF Suspended
  <2>. QED BY <1>2, <2>2, <2>5 DEF Rest, Mode
<1>7. CASE ~ waiting
  <2>1. /\ Enter(t, "ContinuePrepareForCommit")
        /\ cursor' = [cursor EXCEPT ![t] = UNION {NextInPhase(k) : k \in @}]
        /\ UNCHANGED <<weak, todo, count, held>>
    BY <1>7 DEF AwaitPrepareDone
  <2>2. cursor'[t] = NextInPhase(n)
    <3>1. UNION {NextInPhase(k) : k \in {n}} = NextInPhase(n) OBVIOUS
    <3>. QED BY <1>3, <2>1, <3>1 DEF Types
  <2>3. Only(t, "ContinuePrepareForCommit")' BY <1>1, <2>1 DEF Awaiting, Only, Enter, Types
  <2>4. Undone' = {} BY <1>3, <1>5, <1>7
  <2>5. \/ cursor'[t] = {} /\ tree' # {} /\ Prepared' = FirstPhase'
        \/ \E m \in FirstPhase' : cursor'[t] = {m} /\ Prepared' = UpTo(m)' \ {m}
    <3>1. CASE NextInPhase(n) = {} /\ UpTo(n) = FirstPhase BY <1>1, <1>3, <1>4, <1>5, <2>2, <3>1
    <3>2. CASE \E m \in FirstPhase : NextInPhase(n) = {m} /\ UpTo(m) \ {m} = UpTo(n)
      <4>1. PICK m \in FirstPhase : NextInPhase(n) = {m} /\ UpTo(m) \ {m} = UpTo(n) BY <3>2
      <4>2. UpTo(m)' = UpTo(m) BY <1>4 DEF FirstPhase, Types
      <4>. QED BY <1>3, <1>5, <2>2, <4>1, <4>2
    <3>. QED BY <3>1, <3>2, NextNode
  <2>6. Visiting(t)' BY <1>2, <2>3, <2>4, <2>5 DEF Visiting
  <2>7. References'
    <3>1. /\ weak = Cardinality(Alive) + held[t]
          /\ \A u \in Thread \ {t} : held[u] = 0
      BY <1>1, ReferencesRunning DEF Awaiting, Running, Method
    <3>. QED BY <1>1, <1>4, <1>5, <2>1, <2>3, <3>1, GoesOn DEF Running, Method
  <2>. QED BY <1>2, <2>6, <2>7 DEF Rest, Mode
<1>. QED BY <1>6, <1>7

\* The last ReadyForCommit, or the end of the preparation if all are ready by
\* then: the phase is taken out of the tree.
LEMMA PhaseTaken ==
  ASSUME IInv, NEW t \in Thread, DecrementNodesPendingReadyForCommit(t), pending = 1,
         tree # {}, Prepared = FirstPhase, Undone = {}, Between,
         \A u \in Thread \ {t} : pc[u] = "idle",
         flags' \in [Node -> SUBSET Flag],
         \A n \in FirstPhase : "kReadyForCommit" \in flags'[n],
         \A n \in Node : flags'[n] \in {flags[n], flags[n] \cup {"kReadyForCommit"}},
         \A n \in Node \ FirstPhase : flags'[n] = flags[n]
  PROVE  Rest' /\ Calling(t)' /\ Committing' = FirstPhase
<1>. USE DEF IInv, Core
<1>. DEFINE R == FirstPhase
<1>1. /\ pending' = 0
      /\ Enter(t, "CommitNodes")
      /\ tree' = tree \ R
      /\ todo' = [todo EXCEPT ![t] = R]
      /\ count' = [count EXCEPT ![t] = Cardinality(R)]
      /\ weak' = weak + 1
      /\ held' = [held EXCEPT ![t] = @ + 1]
      /\ UNCHANGED <<phase, promise>>
  BY DEF DecrementNodesPendingReadyForCommit
<1>2. R \subseteq tree /\ R \subseteq Node /\ \A n \in R : n \notin Past
  BY DEF FirstPhase, Types, Past
<1>3. \A n \in R : /\ "kPrepareForCommit" \in flags[n] /\ "kPrepareDone" \in flags[n]
                   /\ "kRegister" \in flags[n] /\ "kReadyForCommit" \in flags'[n]
  BY <1>2 DEF Prepared, Undone, Flags, NodeFlags
<1>4. /\ Flags' /\ Registered' = Registered
      /\ Past' = Past \cup R /\ Committing' = Committing \cup R
      /\ Alive' = Alive
      /\ \A n \in tree' : Fresh(n)'
      /\ \A n \in R : "kCommit" \notin flags'[n]
  BY <1>1, <1>3, TakePhase
<1>. HIDE DEF R
<1>5. Committing' = R BY <1>4 DEF Between
<1>6. ASSUME NEW n \in R, NEW m \in tree
      PROVE  /\ phase[n] \in Nat /\ phase[m] \in Nat /\ phase[n] <= phase[m]
             /\ m \in R <=> phase[m] = phase[n]
  BY SamePhase DEF R
<1>7. ASSUME NEW n \in Past, NEW m \in tree PROVE phase[n] < phase[m]
  <2>1. m \in Node /\ m \in Registered /\ m \notin Past
    BY DEF Types, Flags, NodeFlags, Past, Registered
  <2>. QED BY <2>1 DEF PhaseOrder
<1>8. PhaseOrder'
  <2>1. ASSUME NEW n \in Past \cup R, NEW m \in Registered, m \notin Past \cup R
        PROVE  phase[n] < phase[m]
    <3>1. m \in tree BY <2>1 DEF Between, NoneAborted, Past, Registered
    <3>. QED BY <1>6, <1>7, <2>1, <3>1
  <2>. QED BY <1>1, <1>4, <2>1 DEF PhaseOrder
<1>9. ASSUME NEW n \in R, NEW m \in Past \cup R PROVE phase[m] <= phase[n]
  <2>1. CASE m \in R BY <1>2, <1>6, <2>1
  <2>2. CASE m \in Past
    <3>1. phase[m] < phase[n] /\ phase[m] \in 0 .. MaxPhase /\ phase[n] \in Nat
      BY <1>2, <1>6, <1>7, <2>2 DEF Types, Past, Registered
    <3>2. phase[m] \in Nat BY <3>1, CommitAssumption
    <3>. QED BY <3>1, <3>2
  <2>. QED BY <2>1, <2>2
<1>10. NoneAborted' BY DEF NoneAborted, Between
<1>11. InPhase' BY <1>1, <1>4, <1>5, <1>9, <1>10 DEF InPhase, Between
<1>12. ASSUME NEW n \in Past' PROVE "kCommit" \in flags'[n] <=> n \notin R
  <2>1. CASE n \in R BY <1>4, <2>1
  <2>2. CASE n \notin R
    <3>1. n \in Past /\ n \in Node BY <1>4, <2>2 DEF Past, Registered
    <3>2. flags'[n] = flags[n] BY <2>2, <3>1 DEF R
    <3>. QED BY <2>2, <3>1, <3>2 DEF Between, PastCommitted
  <2>. QED BY <2>1, <2>2
<1>13. /\ Only(t, "CommitNodes")'
       /\ todo'[t] = R /\ count'[t] = Cardinality(R)
  BY <1>1 DEF Only, Enter, Types
<1>14. Cardinality(R) \in Nat BY <1>2, Finite
<1>15. Calling(t)'
  <2>1. pending' = Cardinality(Committing') - count'[t] /\ pending' <= 0
    BY <1>1, <1>5, <1>13, <1>14
  <2>. QED BY <1>4, <1>11, <1>12, <1>13, <2>1 DEF Calling
<1>16. References'
  <2>1. /\ weak = Cardinality(Alive) + held[t] /\ held[t] \in Nat
        /\ \A u \in Thread \ {t} : held[u] = 0
    <3>1. CASE pc[t] = "idle"
      <4>1. NoneRuns BY <3>1 DEF NoneRuns
      <4>2. Cardinality(Alive) \in Nat BY Finite DEF Alive, Registered
      <4>. QED BY <4>1, <4>2, ReferencesIdle
    <3>2. CASE pc[t] # "idle"
      <4>1. Only(t, pc[t]) /\ pc[t] \in Running BY <3>2 DEF Only, Running, Types
      <4>. QED BY <4>1, ReferencesRunning
    <3>. QED BY <3>1, <3>2
  <2>2. /\ \A u \in Thread \ {t} : held'[u] = 0
        /\ held'[t] = held[t] + 1 /\ held'[t] > 0
    BY <1>1, <2>1 DEF Types
  <2>3. Cardinality(Alive) \in Nat BY Finite DEF Alive, Registered
  <2>4. weak' = Cardinality(Alive') + held'[t] BY <1>1, <1>4, <2>1, <2>2, <2>3
  <2>. QED BY <1>13, <2>2, <2>4, GoesOn DEF Running, Method
<1>. QED BY <1>4, <1>5, <1>8, <1>15, <1>16 DEF Rest, Mode, R

LEMMA StepEndOfPhase ==
  ASSUME IInv, NEW t \in Thread, EndOfPhase(t)
  PROVE  Rest'
<1>. USE DEF IInv, Core
<1>1. /\ Visiting(t) /\ cursor[t] = {} /\ DecrementNodesPendingReadyForCommit(t)
      /\ UNCHANGED flags
  BY ModeAt DEF EndOfPhase
<1>2. /\ tree # {} /\ Prepared = FirstPhase /\ Undone = {} /\ Between
      /\ pending = Cardinality(Unready) + 1
      /\ \A u \in Thread \ {t} : pc[u] = "idle"
  BY <1>1 DEF Visiting, Only
<1>3. Cardinality(Unready) \in Nat /\ (Cardinality(Unready) = 0 <=> Unready = {})
  BY Finite DEF Unready, Prepared, Types
<1>4. CASE pending = 1
  <2>1. \A n \in FirstPhase : "kReadyForCommit" \in flags[n] BY <1>2, <1>3, <1>4 DEF Unready
  <2>. QED BY <1>1, <1>2, <1>4, <2>1, PhaseTaken DEF Types
<1>5. CASE pending # 1
  <2>1. /\ pending' = pending - 1 /\ Leave(t, 0)
        /\ UNCHANGED <<tree, phase, flags, failed, promise>>
    BY <1>1, <1>5 DEF DecrementNodesPendingReadyForCommit
  <2>2. NoneRuns' /\ References' BY <1>2, <2>1, LeaveQuietly, SameNodes
  <2>3. pending' = Cardinality(Unready') /\ Unready' # {} BY <1>2, <1>3, <1>5, <2>1, SameNodes
  <2>4. Between' /\ FailedNow' /\ Flags' /\ PhaseOrder'
    BY <1>1, <2>1, SameNodes DEF Visiting, Between, FailedNow
  <2>5. tree' # {} /\ Prepared' = FirstPhase' /\ Undone' = {} BY <1>2, <2>1, SameNodes
  <2>6. AllPrepared' BY <2>2, <2>3, <2>4, <2>5 DEF AllPrepared
  <2>. QED BY <2>2, <2>4, <2>6 DEF Rest, Mode
<1>. QED BY <1>4, <1>5

LEMMA StepReadyForCommit ==
  ASSUME IInv, NEW t \in Thread, NEW n \in Node, ReadyForCommit(t, n)
  PROVE  Rest'
<1>. USE DEF IInv, Core
<1>1. /\ pc[t] = "idle" /\ n \in Unready /\ Mark(n, "kReadyForCommit")
      /\ DecrementNodesPendingReadyForCommit(t) /\ waiting' = waiting
  BY WhereNodes DEF ReadyForCommit
<1>2. /\ n \in Prepared /\ n \in tree
      /\ \/ \E u \in Thread : Visiting(u) \/ Awaiting(u)
         \/ Suspended \/ AllPrepared
  BY <1>1, ModeBy DEF Unready, Prepared
<1>3. Between /\ FailedNow BY <1>2 DEF Visiting, Awaiting, Suspended, AllPrepared
<1>4. /\ Unready \subseteq Node
      /\ Cardinality(Unready) \in Nat /\ Cardinality(Unready) # 0
      /\ Cardinality(Unready \ {n}) \in Nat /\ Cardinality(Unready \ {n}) = Cardinality(Unready) - 1
      /\ Cardinality(Unready \ {n}) = 0 <=> Unready \ {n} = {}
  <2>1. Unready \subseteq Node /\ Unready \ {n} \subseteq Node BY DEF Unready, Prepared, Types
  <2>2. IsFiniteSet(Unready) /\ Cardinality(Unready) \in Nat /\ Cardinality(Unready) # 0
    BY <1>1, <2>1, Finite
  <2>3. /\ Cardinality(Unready \ {n}) \in Nat
        /\ Cardinality(Unready \ {n}) = 0 <=> Unready \ {n} = {}
    BY <2>1, Finite
  <2>4. Cardinality(Unready \ {n}) = Cardinality(Unready) - 1 BY <1>1, <2>2, FS_RemoveElement
  <2>. QED BY <2>1, <2>2, <2>3, <2>4
<1>5. CASE pending = 1
  <2>1. AllPrepared BY <1>2, <1>4, <1>5 DEF Visiting, Awaiting, Suspended
  <2>2. Unready \ {n} = {} BY <1>4, <1>5, <2>1 DEF AllPrepared
  <2>3. /\ tree # {} /\ Prepared = FirstPhase /\ Undone = {}
        /\ \A u \in Thread \ {t} : pc[u] = "idle"
    BY <2>1 DEF AllPrepared, NoneRuns
  <2>4. /\ flags'[n] = flags[n] \cup {"kReadyForCommit"}
        /\ \A m \in Node \ {n} : flags'[m] = flags[m]
        /\ flags' \in [Node -> SUBSET Flag]
    BY <1>1 DEF Mark, Types, Flag
  <2>5. \A m \in FirstPhase : m # n => "kReadyForCommit" \in flags[m] BY <2>2, <2>3 DEF Unready
  <2>6. FirstPhase \subseteq Node /\ n \in FirstPhase BY <1>2, <2>3 DEF FirstPhase, Types
  <2>7. \A m \in FirstPhase : "kReadyForCommit" \in flags'[m] BY <2>4, <2>5, <2>6
  <2>8. /\ \A m \in Node : flags'[m] \in {flags[m], flags[m] \cup {"kReadyForCommit"}}
        /\ \A m \in Node \ FirstPhase : flags'[m] = flags[m]
    BY <2>4, <2>6
  <2>. QED BY <1>1, <1>3, <1>5, <2>3, <2>4, <2>7, <2>8, PhaseTaken
<1>6. CASE pending # 1
  <2>1. /\ pending' = pending - 1 /\ Leave(t, 0)
        /\ UNCHANGED <<tree, phase, failed, promise, waiting>>
    BY <1>1, <1>6 DEF DecrementNodesPendingReadyForCommit
  <2>2. /\ Flags' /\ FirstPhase' = FirstPhase
        /\ Registered' = Registered /\ Past' = Past /\ Committing' = Committing
        /\ Alive' = Alive
        /\ Prepared' = Prepared /\ Undone' = Undone /\ Unready' = Unready \ {n}
        /\ flags'[n] = flags[n] \cup {"kReadyForCommit"}
        /\ \A m \in Node \ {n} : flags'[m] = flags[m]
    BY <1>1, <2>1, MarkReady
  <2>3. NoneAborted' /\ PastCommitted'
    <3>1. NoneAborted' BY <1>3, <2>2 DEF NoneAborted, Between
    <3>2. PastCommitted' BY <1>3, <2>2 DEF PastCommitted, Between, Past, Registered
    <3>. QED BY <3>1, <3>2
  <2>4. Between' /\ FailedNow' /\ PhaseOrder'
    BY <1>3, <2>1, <2>2, <2>3 DEF Between, FailedNow, PhaseOrder
  <2>5. /\ pc' = pc /\ held' = held /\ weak' = weak
        /\ \A u \in Thread \ {t} : cursor'[u] = cursor[u]
    <3>1. weak' = weak - 0 /\ weak \in Int BY <1>1, <2>1, LeaveIdle DEF Types
    <3>. QED BY <1>1, <2>1, <3>1, LeaveIdle
  <2>6. References'
    <3>1. Cardinality(Alive) \in Nat BY Finite DEF Alive, Registered
    <3>2. weak' = weak - 0 /\ Cardinality(Alive') = Cardinality(Alive) - 0
      BY <2>2, <2>5, <3>1 DEF Types
    <3>. QED BY <2>1, <2>5, <3>2, Released
  <2>7. /\ \A u \in Thread, m \in Method : Only(u, m)' <=> Only(u, m)
        /\ NoneRuns' <=> NoneRuns
        /\ \A m \in FirstPhase : UpTo(m)' = UpTo(m)
    BY <2>2, <2>5 DEF Only, NoneRuns, UpTo
  <2>8. ASSUME pending = Cardinality(Unready) + 1
        PROVE  pending' = Cardinality(Unready') + 1
    BY <1>4, <2>1, <2>2, <2>8
  <2>9. ASSUME NEW u \in Thread, Visiting(u) PROVE Visiting(u)'
    <3>1. u # t BY <1>1, <2>9 DEF Visiting, Only
    <3>2. Only(u, "ContinuePrepareForCommit")' /\ cursor'[u] = cursor[u]
      BY <2>5, <2>7, <2>9, <3>1 DEF Visiting, Method
    <3>3. pending' = Cardinality(Unready') + 1 /\ Undone' = {} BY <2>2, <2>8, <2>9 DEF Visiting
    <3>4. \/ cursor'[u] = {} /\ tree' # {} /\ Prepared' = FirstPhase'
          \/ \E k \in FirstPhase' : cursor'[u] = {k} /\ Prepared' = UpTo(k)' \ {k}
      BY <2>1, <2>2, <2>7, <2>9, <3>2 DEF Visiting
    <3>. QED BY <2>4, <3>2, <3>3, <3>4 DEF Visiting
  <2>10. ASSUME NEW u \in Thread, Awaiting(u) PROVE Awaiting(u)'
    <3>1. u # t BY <1>1, <2>10 DEF Awaiting, Only
    <3>2. Only(u, "AwaitPrepareDone")' /\ cursor'[u] = cursor[u]
      BY <2>5, <2>7, <2>10, <3>1 DEF Awaiting, Method
    <3>3. pending' = Cardinality(Unready') + 1 BY <2>8, <2>10 DEF Awaiting
    <3>4. \E k \in FirstPhase' : /\ cursor'[u] = {k} /\ Prepared' = UpTo(k)'
                                 /\ Undone' = IF waiting' THEN {k} ELSE {}
      BY <2>1, <2>2, <2>7, <2>10, <3>2 DEF Awaiting
    <3>. QED BY <2>4, <3>2, <3>3, <3>4 DEF Awaiting
  <2>11. ASSUME Suspended PROVE Suspended'
    <3>1. pending' = Cardinality(Unready') + 1 BY <2>8, <2>11 DEF Suspended
    <3>2. \E k \in FirstPhase' : Prepared' = UpTo(k)' /\ Undone' = {k}
      BY <2>2, <2>7, <2>11 DEF Suspended
    <3>. QED BY <2>1, <2>4, <2>7, <2>11, <3>1, <3>2 DEF Suspended
  <2>12. ASSUME AllPrepared PROVE AllPrepared'
    <3>1. pending' = Cardinality(Unready') /\ Unready' # {}
      BY <1>4, <1>6, <2>1, <2>2, <2>12 DEF AllPrepared
    <3>2. tree' # {} /\ Prepared' = FirstPhase' /\ Undone' = {}
      BY <2>1, <2>2, <2>12 DEF AllPrepared
    <3>. QED BY <2>4, <2>7, <2>12, <3>1, <3>2 DEF AllPrepared
  <2>13. Mode' BY <1>2, <2>9, <2>10, <2>11, <2>12 DEF Mode
  <2>. QED BY <2>2, <2>4, <2>6, <2>13 DEF Rest
<1>. QED BY <1>5, <1>6

LEMMA StepPrepareDone ==
  ASSUME IInv, NEW t \in Thread, NEW n \in Node, PrepareDone(t, n)
  PROVE  Rest'
<1>. USE DEF IInv, Core
<1>1. /\ pc[t] = "idle" /\ n \in Undone /\ Mark(n, "kPrepareDone") /\ waiting' = FALSE
      /\ UNCHANGED <<tree, phase, pending, failed, promise, weak, held>>
  BY WhereNodes DEF PrepareDone
<1>2. (\E u \in Thread : Awaiting(u)) \/ Suspended BY <1>1, ModeBy
<1>3. Between /\ FailedNow /\ pending = Cardinality(Unready) + 1 BY <1>2 DEF Awaiting, Suspended
<1>4. /\ Flags' /\ FirstPhase' = FirstPhase
      /\ Registered' = Registered /\ Past' = Past /\ Committing' = Committing
      /\ Alive' = Alive
      /\ Prepared' = Prepared /\ Undone' = Undone \ {n} /\ Unready' = Unready
      /\ flags'[n] = flags[n] \cup {"kPrepareDone"}
      /\ \A m \in Node \ {n} : flags'[m] = flags[m]
  BY <1>1, MarkPrepareDone
<1>5. Between' /\ FailedNow' /\ PhaseOrder' /\ pending' = Cardinality(Unready') + 1
  <2>1. NoneAborted' BY <1>3, <1>4 DEF NoneAborted, Between
  <2>2. PastCommitted' BY <1>3, <1>4 DEF PastCommitted, Between, Past, Registered
  <2>. QED BY <1>1, <1>3, <1>4, <2>1, <2>2 DEF Between, FailedNow, PhaseOrder
<1>6. \A m \in FirstPhase : UpTo(m)' = UpTo(m) BY <1>4 DEF UpTo
<1>7. ASSUME NEW u \in Thread, Awaiting(u) PROVE Rest'
  <2>1. PICK k \in FirstPhase : /\ cursor[u] = {k} /\ Prepared = UpTo(k)
                                /\ Undone = IF waiting THEN {k} ELSE {}
    BY <1>7 DEF Awaiting
  <2>2. waiting /\ k = n /\ u # t BY <1>1, <1>7, <2>1 DEF Awaiting, Only
  <2>3. pc' = pc /\ cursor' = cursor BY <2>2 DEF PrepareDone
  <2>4. Only(u, "AwaitPrepareDone")' BY <1>7, <2>3 DEF Awaiting, Only
  <2>5. Undone' = {} /\ Prepared' = UpTo(k)' /\ k \in FirstPhase' /\ cursor'[u] = {k}
    BY <1>4, <1>6, <2>1, <2>2, <2>3
  <2>6. Awaiting(u)' BY <1>1, <1>5, <2>4, <2>5 DEF Awaiting
  <2>7. References'
    <3>1. Cardinality(Alive) \in Nat BY Finite DEF Alive, Registered
    <3>2. weak' = weak - 0 /\ Cardinality(Alive') = Cardinality(Alive) - 0
      BY <1>1, <1>4, <3>1 DEF Types
    <3>. QED BY <1>1, <2>3, <3>2, Released
  <2>. QED BY <1>4, <1>5, <2>6, <2>7 DEF Rest, Mode
<1>8. CASE Suspended
  <2>1. PICK k \in FirstPhase : Prepared = UpTo(k) /\ Undone = {k} BY <1>8 DEF Suspended
  <2>2. ~ waiting /\ k = n /\ \A u \in Thread : pc[u] = "idle"
    BY <1>1, <1>8, <2>1 DEF Suspended, NoneRuns
  <2>3. /\ Enter(t, "ContinuePrepareForCommit")
        /\ cursor' = [cursor EXCEPT ![t] = NextInPhase(n)]
    BY <2>2 DEF PrepareDone
  <2>4. Only(t, "ContinuePrepareForCommit")' /\ cursor'[t] = NextInPhase(n)
    BY <2>2, <2>3 DEF Enter, Only, Types
  <2>5. Undone' = {} /\ tree' # {} BY <1>1, <1>4, <2>1, <2>2 DEF Undone, Prepared
  <2>6. \/ cursor'[t] = {} /\ tree' # {} /\ Prepared' = FirstPhase'
        \/ \E m \in FirstPhase' : cursor'[t] = {m} /\ Prepared' = UpTo(m)' \ {m}
    BY <1>4, <1>6, <2>1, <2>2, <2>4, <2>5, NextNode
  <2>7. Visiting(t)' BY <1>5, <2>4, <2>5, <2>6 DEF Visiting
  <2>8. References'
    <3>1. weak = Cardinality(Alive) /\ \A u \in Thread : held[u] = 0
      BY <1>8, ReferencesIdle DEF Suspended
    <3>2. weak' = Cardinality(Alive') + held'[t] BY <1>1, <1>4, <3>1 DEF Types
    <3>. QED BY <1>1, <2>4, <2>5, <3>1, <3>2, GoesOn DEF Running, Method
  <2>. QED BY <1>4, <1>5, <2>7, <2>8 DEF Rest, Mode
<1>. QED BY <1>2, <1>7, <1>8

LEMMA StepCommitNode ==
  ASSUME IInv, NEW t \in Thread, CommitNode(t)
  PROVE  Rest'
<1>. USE DEF IInv, Core
<1>1. Calling(t) BY ModeAt DEF CommitNode
<1>2. PICK n \in todo[t] :
        /\ Mark(n, "kCommit")
        /\ todo' = [todo EXCEPT ![t] = @ \ {n}]
        /\ weak' = weak - IF "kCommitDone" \in flags[n] THEN 1 ELSE 0
  BY DEF CommitNode
<1>3. UNCHANGED <<tree, phase, pending, waiting, pending_abort, failed, promise, pc, cursor, count, held>>
  BY DEF CommitNode
<1>4. n \in Past /\ n \in Node /\ n \notin tree /\ "kCommit" \notin flags[n]
  BY <1>1, <1>2 DEF Calling, Past, Registered
<1>5. /\ Flags' /\ FirstPhase' = FirstPhase
      /\ Registered' = Registered /\ Past' = Past /\ Committing' = Committing
      /\ Alive' = IF "kCommitDone" \in flags[n] THEN Alive \ {n} ELSE Alive
      /\ flags'[n] = flags[n] \cup {"kCommit"}
      /\ \A m \in Node \ {n} : flags'[m] = flags[m]
  BY <1>2, <1>3, <1>4, MarkCommit
<1>6. InPhase' /\ PhaseOrder'
  <2>1. NoneAborted' BY <1>1, <1>4, <1>5 DEF NoneAborted, Calling, InPhase
  <2>2. \A m \in tree' : Fresh(m)' BY <1>1, <1>3, <1>4, <1>5 DEF Calling, InPhase, Fresh, Types
  <2>. QED BY <1>1, <1>3, <1>5, <2>1, <2>2 DEF InPhase, Calling, PhaseOrder
<1>7. Calling(t)'
  <2>1. Only(t, "CommitNodes")' /\ todo'[t] = todo[t] \ {n}
    BY <1>1, <1>2, <1>3 DEF Calling, Only, Types
  <2>2. pending' = Cardinality(Committing') - count'[t] /\ pending' <= 0 /\ todo'[t] \subseteq Past'
    BY <1>1, <1>3, <1>5, <2>1 DEF Calling
  <2>3. ASSUME NEW m \in Past' PROVE "kCommit" \in flags'[m] <=> m \notin todo'[t]
    BY <1>1, <1>4, <1>5, <2>1 DEF Calling, Past, Registered
  <2>. QED BY <1>6, <2>1, <2>2, <2>3 DEF Calling
<1>8. References'
  <2>1. Cardinality(Alive) \in Nat /\ IsFiniteSet(Alive) BY Finite DEF Alive, Registered
  <2>2. n \in Alive BY <1>4 DEF Past, Alive, Registered, Flags, NodeFlags
  <2>3. CASE "kCommitDone" \in flags[n]
    <3>1. weak' = weak - 1 /\ Cardinality(Alive') = Cardinality(Alive) - 1
      BY <1>2, <1>5, <2>1, <2>2, <2>3, FS_RemoveElement
    <3>. QED BY <1>3, <3>1, Released
  <2>4. CASE "kCommitDone" \notin flags[n]
    <3>1. weak' = weak - 0 /\ Cardinality(Alive') = Cardinality(Alive) - 0
      BY <1>2, <1>5, <2>1, <2>4
    <3>. QED BY <1>3, <3>1, Released
  <2>. QED BY <2>3, <2>4
<1>. QED BY <1>5, <1>6, <1>7, <1>8 DEF Rest, Mode

\* The phase has been committed: the transaction ends, goes on with the next
\* phase, or aborts what is left.
LEMMA PhaseEnds ==
  ASSUME Types, References, NEW t \in Thread, NEW x \in Nat, PhaseCommitted(t, x),
         \A u \in Thread \ {t} : pc[u] = "idle",
         Cardinality(Alive') = Cardinality(Alive) - x,
         promise, failed' = failed, Committing' = {}, PastCommitted', NoneAborted',
         \A n \in tree' : Fresh(n)'
  PROVE  Mode' /\ References'
<1>1. Aborting' = {} BY DEF NoneAborted, Aborting, Registered
<1>2. CASE tree' = {}
  <2>1. promise' = FALSE /\ Leave(t, x) BY <1>2 DEF PhaseCommitted
  <2>2. NoneRuns' /\ References' BY <2>1, LeaveAll
  <2>3. Done' BY <1>1, <1>2, <2>1, <2>2 DEF Done
  <2>. QED BY <2>2, <2>3 DEF Mode
<1>3. CASE tree' # {}
  <2>1. /\ Enter(t, IF ResultOk THEN "ExecuteCommitPhase" ELSE "ExecuteAbort")
        /\ held' = [held EXCEPT ![t] = @ + x]
        /\ UNCHANGED <<promise, weak, cursor, todo, count>>
    BY <1>3 DEF PhaseCommitted
  <2>2. ASSUME failed = {} PROVE Mode'
    <3>1. Only(t, "ExecuteCommitPhase")' BY <2>1, <2>2 DEF Enter, ResultOk, Only, Types
    <3>. QED BY <2>1, <2>2, <3>1 DEF Starting, Between, Mode
  <2>3. ASSUME failed # {} PROVE Mode'
    <3>1. Only(t, "ExecuteAbort")' BY <2>1, <2>3 DEF Enter, ResultOk, Only, Types
    <3>. QED BY <2>1, <2>3, <3>1 DEF StartingAbort, ToAbort, Mode
  <2>4. /\ weak = Cardinality(Alive) + held[t] /\ held[t] \in Nat
        /\ \A u \in Thread \ {t} : held[u] = 0
    <3>1. CASE pc[t] = "idle"
      <4>1. NoneRuns BY <3>1 DEF NoneRuns
      <4>2. Cardinality(Alive) \in Nat BY Finite DEF Alive, Registered
      <4>. QED BY <4>1, <4>2, ReferencesIdle
    <3>2. CASE pc[t] # "idle"
      <4>1. Only(t, pc[t]) /\ pc[t] \in Running BY <3>2 DEF Only, Running, Types
      <4>. QED BY <4>1, ReferencesRunning
    <3>. QED BY <3>1, <3>2
  <2>5. /\ \A u \in Thread \ {t} : held'[u] = 0
        /\ held'[t] = held[t] + x
    BY <2>1, <2>4 DEF Types
  <2>6. Cardinality(Alive) \in Nat BY Finite DEF Alive, Registered
  <2>7. weak' = Cardinality(Alive') + held'[t] BY <2>1, <2>4, <2>5, <2>6
  <2>8. \E m \in {"ExecuteCommitPhase", "ExecuteAbort"} : Only(t, m)'
    BY <2>1 DEF Enter, Only, Types
  <2>9. PICK m \in {"ExecuteCommitPhase", "ExecuteAbort"} : Only(t, m)' BY <2>8
  <2>10. m \in Running /\ m # "CommitNodes" BY DEF Running, Method
  <2>11. References' BY <1>3, <2>5, <2>7, <2>9, <2>10, GoesOn
  <2>. QED BY <2>2, <2>3, <2>11
<1>. QED BY <1>2, <1>3

LEMMA StepCommitNodesEnd ==
  ASSUME IInv, NEW t \in Thread, CommitNodesEnd(t)
  PROVE  Rest'
<1>. USE DEF IInv, Core
<1>1. /\ Calling(t) /\ todo[t] = {} /\ pending' = pending + count[t]
      /\ UNCHANGED <<tree, phase, flags, failed>>
  BY ModeAt DEF CommitNodesEnd
<1>2. Cardinality(Committing) \in Nat /\ (Cardinality(Committing) = 0 <=> Committing = {})
  BY Finite DEF Committing, Past, Registered
<1>3. pending' = Cardinality(Committing) /\ PastCommitted
  BY <1>1, <1>2 DEF Calling, PastCommitted, Types
<1>4. /\ \A u \in Thread \ {t} : pc[u] = "idle"
      /\ InPhase
  BY <1>1 DEF Calling, Only
<1>5. /\ Flags' /\ PhaseOrder' /\ PastCommitted' /\ Committing' = Committing /\ Past' = Past
      /\ Alive' = Alive /\ NoneAborted'
      /\ \A n \in tree' : Fresh(n)'
  BY <1>1, <1>3, <1>4, SameNodes DEF InPhase, Fresh
<1>6. CASE pending' # 0
  <2>1. Leave(t, 0) /\ UNCHANGED promise BY <1>6 DEF CommitNodesEnd
  <2>2. NoneRuns' /\ References' BY <1>4, <1>5, <2>1, LeaveQuietly
  <2>3. InPhase' BY <1>1, <1>4, <1>5, <2>1 DEF InPhase
  <2>4. AwaitingCommit' BY <1>2, <1>3, <1>5, <1>6, <2>2, <2>3 DEF AwaitingCommit
  <2>. QED BY <1>5, <2>2, <2>4 DEF Rest, Mode
<1>7. CASE pending' = 0
  <2>1. PhaseCommitted(t, 0) /\ Committing' = {} /\ promise
    BY <1>2, <1>3, <1>4, <1>5, <1>7 DEF CommitNodesEnd, InPhase
  <2>2. Cardinality(Alive') = Cardinality(Alive) - 0
    <3>1. Cardinality(Alive) \in Nat BY Finite DEF Alive, Registered
    <3>. QED BY <1>5, <3>1
  <2>3. Mode' /\ References' BY <1>1, <1>4, <1>5, <2>1, <2>2, PhaseEnds
  <2>. QED BY <1>5, <2>3 DEF Rest
<1>. QED BY <1>6, <1>7

\* A node ends its part in the phase: x is 1 if it is destroyed by it.
LEMMA NodeEnds ==
  ASSUME IInv, NEW t \in Thread, pc[t] = "idle", NEW n \in Committing, NEW x \in Nat,
         pending' = pending - 1, failed' = failed,
         NoneAborted', \A m \in tree' : Fresh(m)',
         \A k \in Committing', m \in Past' : phase'[m] <= phase'[k],
         Committing' = Committing \ {n}, Past' \subseteq Past,
         \A m \in Past : m \in Past' \/ "kCommit" \in flags[m],
         \A m \in Past' : "kCommit" \in flags'[m] <=> "kCommit" \in flags[m],
         Cardinality(Alive') = Cardinality(Alive) - x, tree \subseteq tree',
         \/ pending' # 0 /\ Leave(t, x) /\ promise' = promise
         \/ pending' = 0 /\ PhaseCommitted(t, x)
  PROVE  Mode' /\ References'
<1>. USE DEF IInv, Core
<1>1. (\E u \in Thread : Calling(u)) \/ AwaitingCommit BY ModeBy
<1>2. InPhase BY <1>1 DEF Calling, AwaitingCommit
<1>3. /\ Cardinality(Committing) \in Nat
      /\ Cardinality(Committing') \in Nat /\ Cardinality(Committing') = Cardinality(Committing) - 1
      /\ Cardinality(Committing') = 0 <=> Committing' = {}
  <2>1. Committing \subseteq Node /\ Committing' \subseteq Node
    BY DEF Committing, Past, Registered
  <2>2. IsFiniteSet(Committing) /\ Cardinality(Committing) \in Nat BY <2>1, Finite
  <2>3. /\ Cardinality(Committing') \in Nat
        /\ Cardinality(Committing') = 0 <=> Committing' = {}
    BY <2>1, Finite
  <2>4. Cardinality(Committing \ {n}) = Cardinality(Committing) - 1 BY <2>2, FS_RemoveElement
  <2>. QED BY <2>2, <2>3, <2>4
<1>4. ASSUME pending' # 0
      PROVE  /\ pc' = pc /\ held' = held /\ InPhase' /\ References'
             /\ \A u \in Thread \ {t} : todo'[u] = todo[u] /\ count'[u] = count[u]
  <2>1. Leave(t, x) /\ promise' = promise BY <1>4
  <2>2. /\ pc' = pc /\ held' = held /\ weak' = weak - x
        /\ \A u \in Thread \ {t} : todo'[u] = todo[u] /\ count'[u] = count[u]
    BY <2>1, LeaveIdle
  <2>3. tree # {} => tree' # {} OBVIOUS
  <2>4. References' BY <2>2, <2>3, Released
  <2>. QED BY <1>2, <2>1, <2>2, <2>4 DEF InPhase
<1>5. ASSUME NEW u \in Thread, Calling(u) PROVE Mode' /\ References'
  <2>1. u # t /\ pending' # 0 BY <1>5 DEF Calling, Only, Types
  <2>2. Only(u, "CommitNodes")' /\ todo'[u] = todo[u] /\ count'[u] = count[u]
    BY <1>4, <1>5, <2>1 DEF Calling, Only
  <2>3. pending' = Cardinality(Committing') - count'[u] /\ pending' <= 0
    <3>1. count[u] \in Nat /\ pending = Cardinality(Committing) - count[u] /\ pending <= 0
      BY <1>5 DEF Calling, Types
    <3>. QED BY <1>3, <2>2, <3>1
  <2>4. todo'[u] \subseteq Past' BY <1>5, <2>2 DEF Calling
  <2>5. \A m \in Past' : "kCommit" \in flags'[m] <=> m \notin todo'[u] BY <1>5, <2>2 DEF Calling
  <2>6. Calling(u)' BY <1>4, <2>1, <2>2, <2>3, <2>4, <2>5 DEF Calling
  <2>. QED BY <1>4, <2>1, <2>6 DEF Mode
<1>6. CASE AwaitingCommit
  <2>1. NoneRuns /\ PastCommitted /\ pending' = Cardinality(Committing') /\ promise
    BY <1>3, <1>6 DEF AwaitingCommit, InPhase
  <2>2. PastCommitted' BY <2>1 DEF PastCommitted
  <2>3. CASE pending' # 0
    <3>1. NoneRuns' BY <1>4, <2>1, <2>3 DEF NoneRuns
    <3>2. AwaitingCommit' BY <1>3, <1>4, <2>1, <2>2, <2>3, <3>1 DEF AwaitingCommit
    <3>. QED BY <1>4, <2>3, <3>2 DEF Mode
  <2>4. CASE pending' = 0
    <3>1. Committing' = {} /\ PhaseCommitted(t, x) BY <1>3, <2>1, <2>4
    <3>2. \A u \in Thread \ {t} : pc[u] = "idle" BY <2>1 DEF NoneRuns
    <3>. QED BY <2>1, <2>2, <3>1, <3>2, PhaseEnds
  <2>. QED BY <2>3, <2>4
<1>. QED BY <1>1, <1>5, <1>6

LEMMA StepCommitDone ==
  ASSUME IInv, NEW t \in Thread, NEW n \in Node, CommitDone(t, n)
  PROVE  Rest'
<1>. USE DEF IInv, Core
<1>. DEFINE x == IF "kCommit" \in flags[n] THEN 1 ELSE 0
<1>1. /\ pc[t] = "idle" /\ n \in Committing /\ Mark(n, "kCommitDone")
      /\ pending' = pending - 1 /\ UNCHANGED <<tree, phase, failed>>
      /\ x \in Nat
      /\ \/ pending' # 0 /\ Leave(t, x) /\ promise' = promise
         \/ pending' = 0 /\ PhaseCommitted(t, x)
  BY WhereNodes DEF CommitDone, MayReportCommit
<1>2. /\ Flags' /\ Registered' = Registered /\ Past' = Past /\ Committing' = Committing \ {n}
      /\ Alive' = IF "kCommit" \in flags[n] THEN Alive \ {n} ELSE Alive
      /\ flags'[n] = flags[n] \cup {"kCommitDone"}
      /\ \A m \in Node \ {n} : flags'[m] = flags[m]
  BY <1>1, MarkCommitDone
<1>3. InPhase BY <1>1, ModeBy DEF Calling, AwaitingCommit
<1>4. Cardinality(Alive') = Cardinality(Alive) - x
  <2>1. Cardinality(Alive) \in Nat /\ IsFiniteSet(Alive) BY Finite DEF Alive, Registered
  <2>2. n \in Alive BY <1>1 DEF Committing, Past, Alive, Registered, Flags, NodeFlags
  <2>3. Cardinality(Alive \ {n}) = Cardinality(Alive) - 1 BY <2>1, <2>2, FS_RemoveElement
  <2>. QED BY <1>2, <2>1, <2>3
<1>5. n \notin tree /\ tree \subseteq Node /\ n \in Past BY <1>1 DEF Committing, Past, Types
<1>6. NoneAborted' BY <1>2, <1>3 DEF InPhase, NoneAborted
<1>7. \A m \in tree' : Fresh(m)' BY <1>1, <1>2, <1>3, <1>5 DEF InPhase, Fresh
<1>8. \A k \in Committing', m \in Past' : phase'[m] <= phase'[k] BY <1>1, <1>2, <1>3 DEF InPhase
<1>9. \A m \in Past' : "kCommit" \in flags'[m] <=> "kCommit" \in flags[m]
  BY <1>2 DEF Past, Registered
<1>. HIDE DEF x
<1>10. Past' \subseteq Past /\ tree \subseteq tree' /\ \A m \in Past : m \in Past' \/ "kCommit" \in flags[m]
  BY <1>1, <1>2
<1>11. Mode' /\ References' BY <1>1, <1>2, <1>4, <1>6, <1>7, <1>8, <1>9, <1>10, NodeEnds
<1>12. PhaseOrder' BY <1>1, <1>2 DEF PhaseOrder
<1>. QED BY <1>2, <1>11, <1>12 DEF Rest

LEMMA StepCommitDoneNextPhase ==
  ASSUME IInv, NEW t \in Thread, NEW n \in Node, NEW p \in 1 .. MaxPhase,
         CommitDoneNextPhase(t, n, p)
  PROVE  Rest'
<1>. USE DEF IInv, Core
<1>1. /\ pc[t] = "idle" /\ n \in Committing /\ "kCommit" \in flags[n]
      /\ p > phase[n] /\ flags' = [flags EXCEPT ![n] = {"kRegister"}]
      /\ phase' = [phase EXCEPT ![n] = p] /\ tree' = tree \cup {n}
      /\ pending' = pending - 1 /\ failed' = failed
      /\ \/ pending' # 0 /\ Leave(t, 0) /\ promise' = promise
         \/ pending' = 0 /\ PhaseCommitted(t, 0)
  BY WhereNodes DEF CommitDoneNextPhase, MayReportCommit
<1>2. n \in Past /\ "kAbort" \notin flags[n] BY <1>1 DEF Committing, Past
<1>3. /\ Flags'
      /\ Registered' = Registered /\ Past' = Past \ {n} /\ Committing' = Committing \ {n}
      /\ Alive' = Alive
      /\ flags'[n] = {"kRegister"}
      /\ \A m \in Node \ {n} : flags'[m] = flags[m]
  BY <1>1, <1>2, Rejoin
<1>4. InPhase BY <1>1, ModeBy DEF Calling, AwaitingCommit
<1>5. /\ phase'[n] = p
      /\ \A m \in Node \ {n} : phase'[m] = phase[m]
      /\ \A m \in Node : phase[m] \in Nat /\ phase'[m] \in Nat
  BY <1>1, CommitAssumption DEF Types
<1>6. Past \subseteq Node /\ Registered \subseteq Node /\ Committing \subseteq Past
  BY DEF Past, Registered, Committing
<1>7. NoneAborted' BY <1>3, <1>4 DEF InPhase, NoneAborted
<1>8. \A m \in tree' : Fresh(m)' BY <1>1, <1>3, <1>4 DEF InPhase, Fresh, Types
<1>9. \A k \in Committing', m \in Past' : phase'[m] <= phase'[k]
  BY <1>3, <1>4, <1>5, <1>6 DEF InPhase
<1>10. \A m \in Past' : "kCommit" \in flags'[m] <=> "kCommit" \in flags[m] BY <1>3, <1>6
<1>11. Past' \subseteq Past /\ tree \subseteq tree' /\ \A m \in Past : m \in Past' \/ "kCommit" \in flags[m]
  BY <1>1, <1>3
<1>12. Cardinality(Alive') = Cardinality(Alive) - 0
  <2>1. Cardinality(Alive) \in Nat BY Finite DEF Alive, Registered
  <2>. QED BY <1>3, <2>1
<1>13. Mode' /\ References' BY <1>1, <1>3, <1>7, <1>8, <1>9, <1>10, <1>11, <1>12, NodeEnds
<1>14. ASSUME NEW k \in Past \ {n}, NEW m \in Registered, m \notin Past \ {n}
       PROVE  phase'[k] < phase'[m]
  <2>1. k \in Node /\ m \in Node /\ phase'[k] = phase[k] BY <1>5, <1>6
  <2>2. CASE m = n
    <3>1. phase[k] <= phase[n] /\ n \in Node BY <1>1, <1>4 DEF InPhase
    <3>. QED BY <1>1, <1>5, <2>1, <2>2, <3>1
  <2>3. CASE m # n BY <1>5, <1>14, <2>1, <2>3 DEF PhaseOrder
  <2>. QED BY <2>2, <2>3
<1>15. PhaseOrder' BY <1>3, <1>14 DEF PhaseOrder
<1>. QED BY <1>3, <1>13, <1>15 DEF Rest

LEMMA StepExecuteAbort ==
  ASSUME IInv, NEW t \in Thread, ExecuteAbort(t)
  PROVE  Rest'
<1>. USE DEF IInv, Core
<1>1. StartingAbort(t) /\ UNCHANGED <<tree, phase, flags, failed>> BY ModeAt DEF ExecuteAbort
<1>2. /\ Flags' /\ PhaseOrder' /\ Committing' = {} /\ Aborting' = {} /\ PastCommitted'
      /\ NoneAborted' /\ Alive' = Alive
  <2>1. Committing = {} /\ PastCommitted /\ NoneAborted /\ Aborting = {}
    BY <1>1 DEF StartingAbort, ToAbort, NoneAborted, Aborting, Registered
  <2>. QED BY <1>1, <2>1, SameNodes
<1>3. \A u \in Thread \ {t} : pc[u] = "idle" BY <1>1 DEF StartingAbort, Only
<1>4. CASE tree = {}
  <2>1. promise' = FALSE /\ Leave(t, 0) BY <1>4 DEF ExecuteAbort
  <2>2. NoneRuns' /\ References' BY <1>2, <1>3, <2>1, LeaveQuietly
  <2>3. Done' BY <1>1, <1>2, <1>4, <2>1, <2>2 DEF Done
  <2>. QED BY <1>2, <2>2, <2>3 DEF Rest, Mode
<1>5. CASE tree # {}
  <2>1. /\ pending_abort' = 0 /\ Enter(t, "AbortNodes")
        /\ count' = [count EXCEPT ![t] = 0]
        /\ UNCHANGED <<promise, weak, held>>
    BY <1>5 DEF ExecuteAbort
  <2>2. Only(t, "AbortNodes")' /\ count'[t] = 0 BY <1>3, <2>1 DEF Only, Enter, Types
  <2>3. ToAbort' BY <1>1, <1>2, <2>1 DEF StartingAbort, ToAbort, Fresh
  <2>4. pending_abort' = Cardinality(Aborting') - count'[t] /\ pending_abort' <= 0
    BY <1>2, <2>1, <2>2, FS_EmptySet
  <2>5. AbortingNodes(t)' BY <2>2, <2>3, <2>4 DEF AbortingNodes
  <2>6. References'
    <3>1. /\ weak = Cardinality(Alive) + held[t]
          /\ \A u \in Thread \ {t} : held[u] = 0
      BY <1>1, ReferencesRunning DEF StartingAbort, Running, Method
    <3>. QED BY <1>2, <2>1, <2>2, <3>1, GoesOn DEF Running, Method
  <2>. QED BY <1>2, <2>5, <2>6 DEF Rest, Mode
<1>. QED BY <1>4, <1>5

LEMMA StepAbortNode ==
  ASSUME IInv, NEW t \in Thread, AbortNode(t)
  PROVE  Rest'
<1>. USE DEF IInv, Core
<1>1. AbortingNodes(t) BY ModeAt DEF AbortNode
<1>2. PICK n \in tree : tree' = tree \ {n} /\ Mark(n, "kAbort") BY DEF AbortNode
<1>3. /\ count' = [count EXCEPT ![t] = @ + 1]
      /\ UNCHANGED <<phase, pending_abort, failed, promise, weak, pc, held>>
  BY DEF AbortNode
<1>4. Fresh(n) /\ n \in Node BY <1>1 DEF AbortingNodes, ToAbort, Types
<1>5. /\ Flags' /\ Registered' = Registered /\ Past' = Past /\ Committing' = Committing
      /\ Aborting' = Aborting \cup {n} /\ n \notin Aborting /\ Alive' = Alive
      /\ flags'[n] = {"kRegister", "kAbort"}
      /\ \A m \in Node \ {n} : flags'[m] = flags[m]
  BY <1>2, <1>4, MarkAbort
<1>6. n \notin Past /\ Past \subseteq Node BY DEF Past, Registered
<1>7. ToAbort'
  <2>1. PastCommitted' BY <1>1, <1>5, <1>6 DEF PastCommitted, AbortingNodes, ToAbort
  <2>2. \A m \in tree' : Fresh(m)' BY <1>1, <1>2, <1>5 DEF AbortingNodes, ToAbort, Fresh, Types
  <2>. QED BY <1>1, <1>3, <1>5, <2>1, <2>2 DEF AbortingNodes, ToAbort
<1>8. pending_abort' = Cardinality(Aborting') - count'[t] /\ pending_abort' <= 0
  <2>1. IsFiniteSet(Aborting) /\ Cardinality(Aborting) \in Nat
    BY Finite DEF Aborting, Registered
  <2>2. Cardinality(Aborting') = Cardinality(Aborting) + 1 BY <1>5, <2>1, FS_AddElement
  <2>3. count'[t] = count[t] + 1 /\ count[t] \in Nat BY <1>3 DEF Types
  <2>. QED BY <1>1, <1>3, <2>1, <2>2, <2>3 DEF AbortingNodes
<1>9. Only(t, "AbortNodes")' /\ Only(t, "AbortNodes") BY <1>1, <1>3 DEF AbortingNodes, Only
<1>10. AbortingNodes(t)' BY <1>7, <1>8, <1>9 DEF AbortingNodes
<1>11. References'
  <2>1. /\ weak = Cardinality(Alive) + held[t]
        /\ \A u \in Thread \ {t} : held[u] = 0
    BY <1>9, ReferencesRunning DEF Running, Method
  <2>. QED BY <1>3, <1>5, <1>9, <2>1, GoesOn DEF Running, Method
<1>12. PhaseOrder' BY <1>3, <1>5 DEF PhaseOrder
<1>. QED BY <1>5, <1>10, <1>11, <1>12 DEF Rest, Mode

LEMMA StepAbortNodesEnd ==
  ASSUME IInv, NEW t \in Thread, AbortNodesEnd(t)
  PROVE  Rest'
<1>. USE DEF IInv, Core
<1>1. /\ AbortingNodes(t) /\ tree = {} /\ pending_abort' = pending_abort + count[t]
      /\ promise' = (promise /\ pending_abort' # 0) /\ Leave(t, 0)
      /\ UNCHANGED <<tree, phase, flags, failed>>
  BY ModeAt DEF AbortNodesEnd
<1>2. Cardinality(Aborting) \in Nat /\ (Cardinality(Aborting) = 0 <=> Aborting = {})
  BY Finite DEF Aborting, Registered
<1>3. pending_abort' = Cardinality(Aborting) BY <1>1, <1>2 DEF AbortingNodes, Types
<1>4. \A u \in Thread \ {t} : pc[u] = "idle" BY <1>1 DEF AbortingNodes, Only
<1>5. /\ promise /\ failed # {} /\ Committing = {} /\ PastCommitted
  BY <1>1 DEF AbortingNodes, ToAbort
<1>6. /\ Flags' /\ PhaseOrder' /\ PastCommitted' /\ Committing' = {} /\ Aborting' = Aborting
      /\ Alive' = Alive
  BY <1>1, <1>5, SameNodes
<1>7. NoneRuns' /\ References' BY <1>1, <1>4, <1>6, LeaveQuietly
<1>8. CASE Aborting = {}
  <2>1. promise' = FALSE BY <1>1, <1>2, <1>3, <1>8
  <2>2. Done' BY <1>1, <1>5, <1>6, <1>7, <1>8, <2>1 DEF Done
  <2>. QED BY <1>6, <1>7, <2>2 DEF Rest, Mode
<1>9. CASE Aborting # {}
  <2>1. promise' BY <1>1, <1>2, <1>3, <1>5, <1>9
  <2>2. ToAbort' BY <1>1, <1>5, <1>6, <2>1 DEF ToAbort
  <2>3. AwaitingAbort' BY <1>1, <1>3, <1>6, <1>7, <1>9, <2>2 DEF AwaitingAbort
  <2>. QED BY <1>6, <1>7, <2>3 DEF Rest, Mode
<1>. QED BY <1>8, <1>9

LEMMA StepAbortDone ==
  ASSUME IInv, NEW t \in Thread, NEW n \in Node, AbortDone(t, n)
  PROVE  Rest'
<1>. USE DEF IInv, Core
<1>1. /\ pc[t] = "idle" /\ n \in Aborting /\ Mark(n, "kAbortDone")
      /\ pending_abort' = pending_abort - 1
      /\ promise' = (promise /\ pending_abort' # 0)
      /\ weak' = weak - 1
      /\ UNCHANGED <<tree, phase, failed, pc, count, held>>
  BY WhereNodes DEF AbortDone, local
<1>2. (\E u \in Thread : AbortingNodes(u)) \/ AwaitingAbort BY <1>1, ModeBy
<1>3. ToAbort BY <1>2 DEF AbortingNodes, AwaitingAbort
<1>4. /\ Flags' /\ Registered' = Registered /\ Past' = Past /\ Committing' = Committing
      /\ Aborting' = Aborting \ {n} /\ Alive' = Alive \ {n} /\ n \in Alive
      /\ flags'[n] = flags[n] \cup {"kAbortDone"}
      /\ \A m \in Node \ {n} : flags'[m] = flags[m]
  BY <1>1, MarkAbortDone
<1>5. /\ Cardinality(Aborting) \in Nat /\ Cardinality(Aborting') \in Nat
      /\ Cardinality(Aborting') = Cardinality(Aborting) - 1
      /\ Cardinality(Aborting') = 0 <=> Aborting' = {}
  <2>1. Aborting \subseteq Node /\ Aborting' \subseteq Node BY DEF Aborting, Registered
  <2>2. IsFiniteSet(Aborting) /\ Cardinality(Aborting) \in Nat BY <2>1, Finite
  <2>3. /\ Cardinality(Aborting') \in Nat
        /\ Cardinality(Aborting') = 0 <=> Aborting' = {}
    BY <2>1, Finite
  <2>4. Cardinality(Aborting \ {n}) = Cardinality(Aborting) - 1 BY <1>1, <2>2, FS_RemoveElement
  <2>. QED BY <1>4, <2>2, <2>3, <2>4
<1>6. References'
  <2>1. Cardinality(Alive') = Cardinality(Alive) - 1
    <3>1. IsFiniteSet(Alive) BY Finite DEF Alive, Registered
    <3>. QED BY <1>4, <3>1, FS_RemoveElement
  <2>. QED BY <1>1, <2>1, Released
<1>7. PastCommitted' /\ PhaseOrder' /\ Committing' = {}
  <2>1. PastCommitted' BY <1>3, <1>4 DEF PastCommitted, ToAbort, Past, Registered
  <2>. QED BY <1>1, <1>3, <1>4, <2>1 DEF PhaseOrder, ToAbort
<1>8. \A m \in tree' : Fresh(m)'
  <2>1. n \notin tree BY <1>1 DEF Aborting, Flags, NodeFlags
  <2>. QED BY <1>1, <1>3, <1>4, <2>1 DEF ToAbort, Fresh, Types
<1>9. promise' => ToAbort' BY <1>1, <1>3, <1>7, <1>8 DEF ToAbort
<1>10. ASSUME NEW u \in Thread, AbortingNodes(u) PROVE Mode'
  <2>1. Only(u, "AbortNodes")' BY <1>1, <1>10 DEF AbortingNodes, Only
  <2>2. pending_abort' = Cardinality(Aborting') - count'[u] /\ pending_abort' < 0
    <3>1. count[u] \in Nat /\ pending_abort = Cardinality(Aborting) - count[u] /\ pending_abort <= 0
      BY <1>10 DEF AbortingNodes, Types
    <3>. QED BY <1>1, <1>5, <3>1
  <2>3. pending_abort' # 0 /\ pending_abort' <= 0 BY <1>1, <2>2 DEF Types
  <2>4. promise' BY <1>1, <1>3, <2>3 DEF ToAbort
  <2>5. AbortingNodes(u)' BY <1>9, <2>1, <2>2, <2>3, <2>4 DEF AbortingNodes
  <2>. QED BY <2>5 DEF Mode
<1>11. CASE AwaitingAbort
  <2>1. NoneRuns' /\ tree' = {} /\ pending_abort' = Cardinality(Aborting')
    BY <1>1, <1>5, <1>11 DEF AwaitingAbort, NoneRuns
  <2>2. ASSUME Aborting' = {} PROVE Done'
    BY <1>1, <1>3, <1>5, <1>7, <2>1, <2>2 DEF Done, ToAbort
  <2>3. ASSUME Aborting' # {} PROVE AwaitingAbort'
    <3>1. promise' /\ ToAbort' BY <1>1, <1>3, <1>5, <1>9, <2>1, <2>3 DEF ToAbort
    <3>. QED BY <2>1, <2>3, <3>1 DEF AwaitingAbort
  <2>4. Mode' BY <2>2, <2>3 DEF Mode
  <2>. QED BY <1>4, <1>6, <1>7, <2>4 DEF Rest
<1>. QED BY <1>2, <1>4, <1>6, <1>7, <1>10, <1>11 DEF Rest

LEMMA StepSetError ==
  ASSUME IInv, NEW t \in Thread, NEW n \in Node, SetError(t, n)
  PROVE  Rest'
<1>. USE DEF IInv, Core
<1>1. /\ n \in Prepared \cup Committing /\ failed' = failed \cup {phase[n]}
      /\ UNCHANGED <<tree, phase, flags, pending, waiting, pending_abort, promise, weak, local>>
  BY WhereNodes DEF SetError
<1>2. /\ Flags' /\ PhaseOrder' /\ (NoneAborted' <=> NoneAborted) /\ (PastCommitted' <=> PastCommitted)
      /\ Past' = Past /\ Committing' = Committing
      /\ Alive' = Alive /\ Prepared' = Prepared
      /\ Undone' = Undone /\ Unready' = Unready /\ FirstPhase' = FirstPhase
  BY <1>1, SameNodes
<1>3. /\ UNCHANGED <<pc, cursor, todo, count, held>>
      /\ \A u \in Thread, m \in Method : Only(u, m)' <=> Only(u, m)
      /\ NoneRuns' <=> NoneRuns
      /\ \A m \in FirstPhase : UpTo(m)' = UpTo(m)
  BY <1>1, <1>2 DEF local, Only, NoneRuns, UpTo
<1>4. References' BY <1>1, <1>2, <1>3 DEF References
<1>5. Between => Between' BY <1>1, <1>2 DEF Between
<1>6. ASSUME n \in Prepared, Prepared \subseteq FirstPhase, FailedNow PROVE FailedNow'
  <2>1. n \in FirstPhase BY <1>6
  <2>2. \A m \in FirstPhase : phase[m] <= phase[n] BY <2>1 DEF FirstPhase
  <2>. QED BY <1>1, <1>2, <1>6, <2>2 DEF FailedNow
<1>7. \A m \in FirstPhase : UpTo(m) \subseteq FirstPhase BY DEF UpTo
<1>8. CASE n \in Prepared
  <2>1. ASSUME NEW u \in Thread, Visiting(u) PROVE Visiting(u)'
    <3>1. Prepared \subseteq FirstPhase /\ FailedNow /\ Between BY <1>7, <2>1 DEF Visiting
    <3>2. Between' /\ FailedNow' BY <1>5, <1>6, <1>8, <3>1
    <3>. QED BY <1>1, <1>2, <1>3, <2>1, <3>2 DEF Visiting, Method
  <2>2. ASSUME NEW u \in Thread, Awaiting(u) PROVE Awaiting(u)'
    <3>1. Prepared \subseteq FirstPhase /\ FailedNow /\ Between BY <1>7, <2>2 DEF Awaiting
    <3>2. Between' /\ FailedNow' BY <1>5, <1>6, <1>8, <3>1
    <3>. QED BY <1>1, <1>2, <1>3, <2>2, <3>2 DEF Awaiting, Method
  <2>3. ASSUME Suspended PROVE Suspended'
    <3>1. Prepared \subseteq FirstPhase /\ FailedNow /\ Between BY <1>7, <2>3 DEF Suspended
    <3>2. Between' /\ FailedNow' BY <1>5, <1>6, <1>8, <3>1
    <3>. QED BY <1>1, <1>2, <1>3, <2>3, <3>2 DEF Suspended
  <2>4. ASSUME AllPrepared PROVE AllPrepared'
    <3>1. Prepared \subseteq FirstPhase /\ FailedNow /\ Between BY <2>4 DEF AllPrepared
    <3>2. Between' /\ FailedNow' BY <1>5, <1>6, <1>8, <3>1
    <3>. QED BY <1>1, <1>2, <1>3, <2>4, <3>2 DEF AllPrepared
  <2>5. Mode' BY <1>8, <2>1, <2>2, <2>3, <2>4, ModeBy DEF Mode
  <2>. QED BY <1>2, <1>4, <2>5 DEF Rest
<1>9. CASE n \in Committing
  <2>1. InPhase => InPhase' BY <1>1, <1>2 DEF InPhase, Fresh
  <2>2. ASSUME NEW u \in Thread, Calling(u) PROVE Calling(u)'
    <3>1. Only(u, "CommitNodes")' /\ InPhase' BY <1>3, <2>1, <2>2 DEF Calling, Method
    <3>. QED BY <1>1, <1>2, <1>3, <2>2, <3>1 DEF Calling
  <2>3. AwaitingCommit => AwaitingCommit' BY <1>1, <1>2, <1>3, <2>1 DEF AwaitingCommit
  <2>4. Mode' BY <1>9, <2>2, <2>3, ModeBy DEF Mode
  <2>. QED BY <1>2, <1>4, <2>4 DEF Rest
<1>. QED BY <1>1, <1>8, <1>9

-----------------------------------------------------------------------------
(* The invariant and what follows from it.                                 *)

LEMMA InitInv == Init => IInv
<1>. SUFFICES ASSUME Init PROVE IInv OBVIOUS
<1>1. PICK t \in Thread, start \in {"ExecuteCommitPhase", "ExecuteAbort"} :
        /\ pc = [u \in Thread |-> IF u = t THEN start ELSE "idle"]
        /\ held = [u \in Thread |-> IF u = t THEN 1 ELSE 0]
        /\ failed \in {{}, {-1}}
        /\ start = "ExecuteAbort" => failed = {-1}
  BY DEF Init
<1>2. /\ tree \subseteq Node
      /\ \A n \in Node : flags[n] = IF n \in tree THEN {"kRegister"} ELSE {}
      /\ promise /\ weak = Cardinality(tree) + 1
  BY DEF Init
<1>3. Types
  <2>1. Cardinality(tree) \in Nat BY <1>2, Finite
  <2>2. pc \in [Thread -> Method] BY <1>1 DEF Method
  <2>3. failed \subseteq -1 .. MaxPhase BY <1>1, CommitAssumption
  <2>4. flags \in [Node -> SUBSET Flag] BY DEF Init, Flag
  <2>5. held \in [Thread -> Nat] BY <1>1
  <2>6. /\ cursor \in [Thread -> SUBSET Node] /\ todo \in [Thread -> SUBSET Node]
        /\ count \in [Thread -> Nat]
    BY DEF Init
  <2>7. phase \in [Node -> 0 .. MaxPhase] /\ weak \in Int /\ pending \in Int /\ pending_abort \in Int
    BY <1>2, <2>1 DEF Init
  <2>8. waiting \in BOOLEAN /\ promise \in BOOLEAN BY DEF Init
  <2>. QED BY <1>2, <2>2, <2>3, <2>4, <2>5, <2>6, <2>7, <2>8 DEF Types
<1>4. Registered = tree /\ Past = {} /\ Committing = {} /\ Alive = tree
  BY <1>2 DEF Registered, Past, Committing, Alive
<1>5. Flags BY <1>2, <1>4 DEF Flags, NodeFlags, Fresh
<1>6. PhaseOrder BY <1>4 DEF PhaseOrder
<1>7. Only(t, start) BY <1>1 DEF Only
<1>8. NoneAborted /\ PastCommitted /\ \A n \in tree : Fresh(n)
  BY <1>2, <1>4 DEF NoneAborted, PastCommitted, Fresh
<1>9. Mode
  <2>1. CASE start = "ExecuteCommitPhase"
    <3>1. Starting(t) BY <1>1, <1>2, <1>4, <1>7, <1>8, <2>1 DEF Starting, Between
    <3>. QED BY <3>1 DEF Mode
  <2>2. CASE start = "ExecuteAbort"
    <3>1. StartingAbort(t) BY <1>1, <1>2, <1>4, <1>7, <1>8, <2>2 DEF StartingAbort, ToAbort
    <3>. QED BY <3>1 DEF Mode
  <2>. QED BY <2>1, <2>2
<1>10. References
  <2>1. /\ held[t] = 1 /\ \A u \in Thread \ {t} : held[u] = 0 /\ pc[u] = "idle"
        /\ pc[t] = start /\ start # "idle"
    BY <1>1
  <2>2. ~ NoneRuns BY <2>1 DEF NoneRuns
  <2>. QED BY <1>2, <1>4, <2>1, <2>2 DEF References
<1>. QED BY <1>3, <1>5, <1>6, <1>9, <1>10 DEF IInv, Core

LEMMA Stutters ==
  ASSUME IInv, UNCHANGED vars
  PROVE  IInv'
<1>1. /\ tree' = tree /\ phase' = phase /\ flags' = flags /\ pending' = pending
      /\ waiting' = waiting /\ pending_abort' = pending_abort /\ failed' = failed
      /\ promise' = promise /\ weak' = weak /\ pc' = pc /\ cursor' = cursor
      /\ todo' = todo /\ count' = count /\ held' = held
  BY DEF vars, local
<1>2. /\ Flags' /\ PhaseOrder' /\ (NoneAborted' <=> NoneAborted)
      /\ (PastCommitted' <=> PastCommitted)
      /\ Past' = Past /\ Committing' = Committing /\ Aborting' = Aborting
      /\ Alive' = Alive /\ Prepared' = Prepared
      /\ Undone' = Undone /\ Unready' = Unready /\ FirstPhase' = FirstPhase
  BY <1>1, SameNodes DEF IInv, Core
<1>3. /\ NoneRuns' <=> NoneRuns
      /\ \A u \in Thread : /\ Only(u, "ExecuteCommitPhase")' <=> Only(u, "ExecuteCommitPhase")
                           /\ Only(u, "ContinuePrepareForCommit")' <=> Only(u, "ContinuePrepareForCommit")
                           /\ Only(u, "AwaitPrepareDone")' <=> Only(u, "AwaitPrepareDone")
                           /\ Only(u, "CommitNodes")' <=> Only(u, "CommitNodes")
                           /\ Only(u, "ExecuteAbort")' <=> Only(u, "ExecuteAbort")
                           /\ Only(u, "AbortNodes")' <=> Only(u, "AbortNodes")
      /\ \A m \in FirstPhase : UpTo(m)' = UpTo(m)
      /\ \A m \in tree : Fresh(m)' <=> Fresh(m)
  BY <1>1, <1>2 DEF NoneRuns, Only, UpTo, Fresh
<1>4. /\ Between' <=> Between
      /\ InPhase' <=> InPhase
      /\ ToAbort' <=> ToAbort
      /\ FailedNow' <=> FailedNow
  BY <1>1, <1>2, <1>3 DEF Between, InPhase, ToAbort, FailedNow
<1>5. ASSUME NEW t \in Thread
      PROVE  /\ Starting(t) => Starting(t)'
             /\ Visiting(t) => Visiting(t)'
             /\ Awaiting(t) => Awaiting(t)'
             /\ Calling(t) => Calling(t)'
             /\ StartingAbort(t) => StartingAbort(t)'
             /\ AbortingNodes(t) => AbortingNodes(t)'
  <2>1. Starting(t) => Starting(t)' BY <1>1, <1>3, <1>4 DEF Starting
  <2>2. Visiting(t) => Visiting(t)' BY <1>1, <1>2, <1>3, <1>4 DEF Visiting
  <2>3. Awaiting(t) => Awaiting(t)' BY <1>1, <1>2, <1>3, <1>4 DEF Awaiting
  <2>4. Calling(t) => Calling(t)' BY <1>1, <1>2, <1>3, <1>4 DEF Calling
  <2>5. StartingAbort(t) => StartingAbort(t)' BY <1>1, <1>2, <1>3, <1>4 DEF StartingAbort
  <2>6. AbortingNodes(t) => AbortingNodes(t)' BY <1>1, <1>2, <1>3, <1>4 DEF AbortingNodes
  <2>. QED BY <2>1, <2>2, <2>3, <2>4, <2>5, <2>6
<1>6. /\ Suspended => Suspended'
      /\ AllPrepared => AllPrepared'
      /\ AwaitingCommit => AwaitingCommit'
      /\ AwaitingAbort => AwaitingAbort'
      /\ Done => Done'
  BY <1>1, <1>2, <1>3, <1>4 DEF Suspended, AllPrepared, AwaitingCommit, AwaitingAbort, Done
<1>7. Mode' BY <1>5, <1>6 DEF IInv, Core, Mode
<1>8. Types' /\ References' BY <1>1, <1>2, <1>3 DEF IInv, Core, Types, References
<1>. QED BY <1>2, <1>7, <1>8 DEF IInv, Core

LEMMA NextInv == IInv /\ [Next]_vars => IInv'
<1>. SUFFICES ASSUME IInv, [Next]_vars PROVE IInv' OBVIOUS
<1>1. Types' BY TypesStep DEF IInv, Core
<1>2. ASSUME NEW t \in Thread, Run(t) PROVE Rest'
  BY <1>2, StepExecuteCommitPhase, StepPrepareForCommit, StepAwaitPrepareDone, StepEndOfPhase,
     StepCommitNode, StepCommitNodesEnd, StepExecuteAbort, StepAbortNode, StepAbortNodesEnd
     DEF Run
<1>3. ASSUME NEW t \in Thread, NEW n \in Node, Callback(t, n) PROVE Rest'
  BY <1>3, StepPrepareDone, StepReadyForCommit, StepCommitDone, StepCommitDoneNextPhase,
     StepAbortDone, StepSetError DEF Callback
<1>4. CASE UNCHANGED vars BY <1>4, Stutters
<1>. QED BY <1>1, <1>2, <1>3, <1>4 DEF Next, Terminated, Rest, IInv, Core

LEMMA Invariant == Spec => []IInv
<1>. QED BY InitInv, NextInv, PTL DEF Spec

\* While the promise is held, the transaction is in a mode before the end.
LEMMA ResolvedMode ==
  ASSUME IInv
  PROVE  promise \/ Done
BY DEF IInv, Core, Mode, Starting, Visiting, Awaiting, Suspended, AllPrepared, Calling,
   AwaitingCommit, StartingAbort, AbortingNodes, AwaitingAbort, Between, InPhase, ToAbort

\* The weak reference count is never negative.
LEMMA WeakIsNat ==
  ASSUME IInv
  PROVE  weak \in Nat
<1>1. Cardinality(Alive) \in Nat BY Finite DEF Alive, Registered
<1>2. CASE NoneRuns BY <1>1, <1>2 DEF IInv, References
<1>3. CASE ~ NoneRuns
  <2>1. PICK t \in Thread : pc[t] # "idle" BY <1>3 DEF NoneRuns
  <2>2. weak = Cardinality(Alive) + held[t] /\ held[t] \in Nat
    BY <2>1 DEF IInv, Core, References, Types
  <2>. QED BY <1>1, <2>2
<1>. QED BY <1>2, <1>3

\* The nodes of one phase that have been prepared are an initial part of it.
LEMMA InOrder == IInv => PreparedInOrder
<1>. SUFFICES ASSUME IInv, NEW n \in Registered, NEW m \in Registered, phase[m] = phase[n]
              PROVE  /\ "kPrepareForCommit" \in flags[n] /\ m < n => "kPrepareDone" \in flags[m]
                     /\ "kCommit" \in flags[n]
                          => {"kPrepareDone", "kReadyForCommit"} \subseteq flags[m]
  BY DEF PreparedInOrder
<1>. USE DEF IInv, Core
<1>1. n \in Node /\ m \in Node /\ NodeFlags(n) /\ NodeFlags(m) /\ n \in Nat /\ m \in Nat
  BY CommitAssumption DEF Registered, Flags
<1>2. phase[n] \in Nat /\ phase[m] \in Nat BY <1>1, CommitAssumption DEF Types
<1>3. n \in Past <=> m \in Past BY <1>2 DEF PhaseOrder
<1>4. CASE n \in Past BY <1>1, <1>3, <1>4 DEF NodeFlags
<1>5. CASE n \notin Past
  <2>1. "kCommit" \notin flags[n] BY <1>1, <1>5 DEF NodeFlags, Past
  <2>2. ASSUME "kPrepareForCommit" \in flags[n], m < n PROVE "kPrepareDone" \in flags[m]
    <3>1. n \in Prepared BY <1>1, <1>5, <2>2 DEF NodeFlags, Past, Prepared
    <3>2. \/ \E u \in Thread : Visiting(u) \/ Awaiting(u)
          \/ Suspended \/ AllPrepared
      BY <3>1, ModeBy
    <3>3. NoneAborted BY <3>2 DEF Visiting, Awaiting, Suspended, AllPrepared, Between
    <3>4. m \in tree BY <1>1, <1>3, <1>5, <3>3 DEF NoneAborted, Past
    <3>5. n \in FirstPhase => m \in FirstPhase BY <3>4, SamePhase
    <3>6. ASSUME Prepared = FirstPhase, Undone = {} PROVE "kPrepareDone" \in flags[m]
      BY <3>1, <3>5, <3>6 DEF Undone
    <3>7. ASSUME NEW k \in FirstPhase, Prepared = UpTo(k) \/ Prepared = UpTo(k) \ {k},
                 Undone \subseteq {k}
          PROVE  "kPrepareDone" \in flags[m]
      <4>1. n \in FirstPhase /\ n <= k /\ k \in Nat BY <3>1, <3>4, <3>7, SamePhase DEF UpTo
      <4>2. m \in FirstPhase /\ m <= k /\ m # k BY <1>1, <2>2, <3>5, <4>1
      <4>3. m \in Prepared /\ m \notin Undone BY <3>7, <4>2 DEF UpTo
      <4>. QED BY <4>3 DEF Undone
    <3>8. ASSUME NEW u \in Thread, Visiting(u) PROVE "kPrepareDone" \in flags[m]
      BY <3>6, <3>7, <3>8 DEF Visiting
    <3>9. ASSUME NEW u \in Thread, Awaiting(u) PROVE "kPrepareDone" \in flags[m]
      BY <3>7, <3>9 DEF Awaiting
    <3>10. CASE Suspended BY <3>7, <3>10 DEF Suspended
    <3>11. CASE AllPrepared BY <3>6, <3>11 DEF AllPrepared
    <3>. QED BY <3>2, <3>8, <3>9, <3>10, <3>11
  <2>. QED BY <2>1, <2>2
<1>. QED BY <1>4, <1>5

\* At the end every node has committed, or has been aborted after an error.
LEMMA EndOfNodes ==
  ASSUME IInv, Done, NEW n \in Registered
  PROVE  /\ n \notin tree
         /\ "kAbort" \notin flags[n] => n \in Past /\ "kCommitDone" \in flags[n]
         /\ "kAbort" \in flags[n] => "kAbortDone" \in flags[n] /\ failed # {}
BY DEF Done, Committing, Aborting, Past, NoneAborted, Registered

LEMMA FinishedAtEnd == IInv => ResolvedWhenFinished
<1>. SUFFICES ASSUME IInv, ~ promise PROVE ResolvedWhenFinished BY DEF ResolvedWhenFinished
<1>1. Done BY ResolvedMode
<1>2. \A n \in Registered : Finished(n) /\ (ResultOk => "kCommitDone" \in flags[n])
  BY <1>1, EndOfNodes DEF Finished, ResultOk
<1>. QED BY <1>2 DEF ResolvedWhenFinished

LEMMA NotFreedEarly == IInv => NoUseAfterFree
<1>. SUFFICES ASSUME IInv, weak = 0 PROVE NoUseAfterFree BY DEF NoUseAfterFree
<1>. USE DEF IInv, Core
<1>1. Cardinality(Alive) \in Nat /\ (Cardinality(Alive) = 0 <=> Alive = {})
  BY Finite DEF Alive, Registered
<1>2. Alive = {}
  <2>1. CASE NoneRuns BY <1>1, <2>1 DEF References
  <2>2. CASE ~ NoneRuns
    <3>1. PICK t \in Thread : pc[t] # "idle" BY <2>2 DEF NoneRuns
    <3>2. weak = Cardinality(Alive) + held[t] /\ held[t] \in Nat BY <3>1 DEF References, Types
    <3>. QED BY <1>1, <3>2
  <2>. QED BY <2>1, <2>2
<1>3. tree = {}
  <2>1. \A n \in tree : n \in Alive BY DEF Alive, Registered, Flags, NodeFlags, Types
  <2>. QED BY <1>2, <2>1
<1>4. ASSUME NEW t \in Thread PROVE pc[t] = "idle" \/ (pc[t] = "AbortNodes" /\ held[t] = 0)
  <2>1. CASE pc[t] = "idle" BY <2>1
  <2>2. CASE pc[t] # "idle"
    <3>1. weak = Cardinality(Alive) + held[t] /\ held[t] \in Nat /\ pc[t] \in Method
      BY <2>2 DEF References, Types
    <3>2. held[t] = 0 BY <1>1, <3>1
    <3>. QED BY <1>3, <2>2, <3>1, <3>2 DEF References, Method
  <2>. QED BY <2>1, <2>2
<1>5. \A n \in Registered : Finished(n) BY <1>2 DEF Alive, Finished
<1>. QED BY <1>4, <1>5 DEF NoUseAfterFree

\* Type correctness; in particular weak_reference_count_ never passes zero, which
\* would delete the TransactionState twice.
THEOREM TypeCorrect == Spec => []TypeOK
<1>1. IInv => TypeOK BY WeakIsNat DEF IInv, Core, Types, TypeOK
<1>. QED BY <1>1, Invariant, PTL

\* PrepareForCommit is called on the nodes of a phase in the order of the tree,
\* each after PrepareDone of the one before it, and Commit() only when all of them
\* are prepared and ready, for any number of threads, nodes and phases.
THEOREM NodesPreparedInOrder == Spec => []PreparedInOrder
<1>. QED BY InOrder, Invariant, PTL

\* The promise is released when every node has ended, and with success only when
\* every node has committed.
THEOREM PromiseKept == Spec => []ResolvedWhenFinished
<1>. QED BY FinishedAtEnd, Invariant, PTL

\* The TransactionState is not deleted under a thread that runs in it or a node
\* that will call it, but for the loop of ExecuteAbort after its last node.
THEOREM FreedWhenUnused == Spec => []NoUseAfterFree
<1>. QED BY NotFreedEarly, Invariant, PTL

-----------------------------------------------------------------------------
(* The refinement of PhasedCommit.                                         *)

\* The abstract status of a node, by the sets that the invariant speaks of.
LEMMA StatusOf ==
  IInv => \A n \in Node :
            /\ NodeStatus(n) = "unused" <=> n \notin Registered
            /\ NodeStatus(n) = "pending" <=> n \in tree
            /\ NodeStatus(n) = "committing" <=> n \in Committing
            /\ NodeStatus(n) = "committed" <=> n \in Past \ Committing
            /\ NodeStatus(n) = "aborting" <=> n \in Aborting
            /\ NodeStatus(n) = "aborted" <=> n \in Registered /\ "kAbortDone" \in flags[n]
            /\ NodeStatus(n) \in Abstract!Status
<1>. SUFFICES ASSUME IInv, NEW n \in Node
              PROVE  /\ NodeStatus(n) = "unused" <=> n \notin Registered
                     /\ NodeStatus(n) = "pending" <=> n \in tree
                     /\ NodeStatus(n) = "committing" <=> n \in Committing
                     /\ NodeStatus(n) = "committed" <=> n \in Past \ Committing
                     /\ NodeStatus(n) = "aborting" <=> n \in Aborting
                     /\ NodeStatus(n) = "aborted" <=> n \in Registered /\ "kAbortDone" \in flags[n]
                     /\ NodeStatus(n) \in Abstract!Status
  OBVIOUS
<1>1. NodeFlags(n) BY DEF IInv, Core, Flags
<1>2. CASE "kRegister" \notin flags[n]
  <2>1. flags[n] = {} /\ n \notin tree BY <1>1, <1>2 DEF NodeFlags
  <2>2. NodeStatus(n) = "unused" BY <2>1 DEF NodeStatus
  <2>. QED BY <2>1, <2>2 DEF Registered, Committing, Past, Aborting, Abstract!Status
<1>3. CASE "kAbortDone" \in flags[n]
  <2>1. n \notin tree /\ flags[n] = {"kRegister", "kAbort", "kAbortDone"}
    BY <1>1, <1>3 DEF NodeFlags
  <2>2. NodeStatus(n) = "aborted" BY <2>1 DEF NodeStatus
  <2>. QED BY <2>1, <2>2 DEF Registered, Committing, Past, Aborting, Abstract!Status
<1>4. CASE "kAbort" \in flags[n] /\ "kAbortDone" \notin flags[n]
  <2>1. n \notin tree /\ flags[n] = {"kRegister", "kAbort"} BY <1>1, <1>4 DEF NodeFlags
  <2>2. NodeStatus(n) = "aborting" BY <2>1 DEF NodeStatus
  <2>. QED BY <2>1, <2>2 DEF Registered, Committing, Past, Aborting, Abstract!Status
<1>5. CASE n \in tree
  <2>1. /\ "kRegister" \in flags[n] /\ "kAbortDone" \notin flags[n] /\ "kAbort" \notin flags[n]
        /\ "kCommitDone" \notin flags[n]
    BY <1>1, <1>5 DEF NodeFlags
  <2>2. NodeStatus(n) = "pending" BY <1>5, <2>1 DEF NodeStatus
  <2>. QED BY <1>5, <2>1, <2>2 DEF Registered, Committing, Past, Aborting, Abstract!Status
<1>6. CASE /\ "kRegister" \in flags[n] /\ "kAbortDone" \notin flags[n] /\ "kAbort" \notin flags[n]
           /\ n \notin tree
  <2>1. NodeStatus(n) = IF "kCommitDone" \in flags[n] THEN "committed" ELSE "committing"
    BY <1>6 DEF NodeStatus
  <2>. QED BY <1>6, <2>1 DEF Registered, Committing, Past, Aborting, Abstract!Status
<1>. QED BY <1>2, <1>3, <1>4, <1>5, <1>6

\* The sets of nodes of the abstract specification.
LEMMA AbstractSets ==
  ASSUME IInv
  PROVE  /\ Abstract!In("pending") = tree /\ Abstract!In("committing") = Committing
         /\ Abstract!NextPhase = FirstPhase
<1>1. tree \subseteq Node /\ Committing \subseteq Node
  BY DEF IInv, Core, Types, Committing, Past, Registered
<1>2. Abstract!In("pending") = tree /\ Abstract!In("committing") = Committing
  BY <1>1, StatusOf DEF Abstract!In
<1>. QED BY <1>2 DEF Abstract!NextPhase, FirstPhase

\* A step that touches none of the flags that the status depends on.
LEMMA SameStatus ==
  ASSUME tree' = tree,
         \A n \in Node : \A f \in {"kRegister", "kAbort", "kAbortDone", "kCommitDone"} :
            f \in flags'[n] <=> f \in flags[n]
  PROVE  \A n \in Node : NodeStatus(n)' = NodeStatus(n)
BY DEF NodeStatus

\* The promise may be released: every node has ended.
LEMMA MayAnnounce ==
  IInv => \/ promise
          \/ /\ Abstract!Ended([n \in Node |-> NodeStatus(n)])
             /\ Abstract!In("aborted") # {} => failed # {}
<1>. SUFFICES ASSUME IInv, ~ promise
              PROVE  /\ Abstract!Ended([n \in Node |-> NodeStatus(n)])
                     /\ Abstract!In("aborted") # {} => failed # {}
  OBVIOUS
<1>1. Done BY ResolvedMode
<1>2. ASSUME NEW n \in Node
      PROVE  /\ NodeStatus(n) \in {"unused", "committed", "aborted"}
             /\ NodeStatus(n) = "aborted" => failed # {}
  <2>1. CASE n \notin Registered BY <2>1, StatusOf
  <2>2. CASE n \in Registered
    <3>1. CASE "kAbort" \in flags[n]
      <4>1. "kAbortDone" \in flags[n] /\ failed # {} BY <1>1, <2>2, <3>1, EndOfNodes
      <4>. QED BY <2>2, <4>1, StatusOf
    <3>2. CASE "kAbort" \notin flags[n]
      <4>1. n \in Past \ Committing BY <1>1, <2>2, <3>2, EndOfNodes DEF Committing
      <4>. QED BY <2>2, <4>1, StatusOf
    <3>. QED BY <3>1, <3>2
  <2>. QED BY <2>1, <2>2
<1>. QED BY <1>2 DEF Abstract!Ended, Abstract!In

\* The same lemmas about the state after a step.
LEMMA StatusAfter ==
  IInv' => \A n \in Node :
            /\ NodeStatus(n)' = "unused" <=> n \notin Registered'
            /\ NodeStatus(n)' = "pending" <=> n \in tree'
            /\ NodeStatus(n)' = "committing" <=> n \in Committing'
            /\ NodeStatus(n)' = "committed" <=> n \in Past' \ Committing'
            /\ NodeStatus(n)' = "aborting" <=> n \in Aborting'
            /\ NodeStatus(n)' = "aborted" <=> n \in Registered' /\ "kAbortDone" \in flags'[n]
            /\ NodeStatus(n)' \in Abstract!Status
<1>1. IInv' => (\A n \in Node :
            /\ NodeStatus(n) = "unused" <=> n \notin Registered
            /\ NodeStatus(n) = "pending" <=> n \in tree
            /\ NodeStatus(n) = "committing" <=> n \in Committing
            /\ NodeStatus(n) = "committed" <=> n \in Past \ Committing
            /\ NodeStatus(n) = "aborting" <=> n \in Aborting
            /\ NodeStatus(n) = "aborted" <=> n \in Registered /\ "kAbortDone" \in flags[n]
            /\ NodeStatus(n) \in Abstract!Status)'
  BY StatusOf, PTL
<1>. QED BY <1>1

LEMMA AnnounceAfter ==
  IInv' => \/ promise'
           \/ /\ Abstract!Ended([n \in Node |-> NodeStatus(n)])'
              /\ Abstract!In("aborted")' # {} => failed' # {}
<1>1. IInv' => (\/ promise
                \/ /\ Abstract!Ended([n \in Node |-> NodeStatus(n)])
                   /\ Abstract!In("aborted") # {} => failed # {})'
  BY MayAnnounce, PTL
<1>. QED BY <1>1

\* Resolved is announced when, and only when, it may be.
LEMMA Announces ==
  ASSUME IInv', promise' \in BOOLEAN, promise' = promise \/ promise' = FALSE
  PROVE  Abstract!Announce
<1>1. CASE promise' = promise BY <1>1 DEF Abstract!Announce
<1>2. CASE promise' = FALSE BY <1>2, AnnounceAfter DEF Abstract!Announce
<1>. QED BY <1>1, <1>2

\* A step that changes no node, phase or error stutters or resolves.
LEMMA Quiet ==
  ASSUME IInv', \A n \in Node : NodeStatus(n)' = NodeStatus(n),
         UNCHANGED <<phase, failed>>, promise \in BOOLEAN, promise' \in BOOLEAN,
         promise' = promise \/ promise' = FALSE
  PROVE  [Abstract!Next]_(Abstract!vars)
<1>1. [n \in Node |-> NodeStatus(n)]' = [n \in Node |-> NodeStatus(n)] OBVIOUS
<1>2. CASE promise' = promise BY <1>1, <1>2 DEF Abstract!vars
<1>3. CASE promise' = FALSE /\ promise = TRUE
  <2>1. Abstract!Announce BY Announces
  <2>2. Abstract!Resolve BY <1>1, <1>3, <2>1 DEF Abstract!Resolve
  <2>. QED BY <2>2 DEF Abstract!Next
<1>. QED BY <1>2, <1>3


\* A tree that is not empty has a first phase.
LEMMA FirstPhaseExists ==
  ASSUME Types, tree # {}
  PROVE  FirstPhase # {}
<1>. DEFINE T == {phase[n] : n \in tree}
<1>1. \A n \in tree : phase[n] \in Nat BY CommitAssumption DEF Types
<1>2. T \subseteq Nat /\ T # {} BY <1>1
<1>3. PICK p \in T : \A q \in T : p <= q BY <1>2, LeastElement
<1>4. PICK n \in tree : phase[n] = p BY <1>3
<1>. QED BY <1>3, <1>4 DEF FirstPhase

\* Taking the phase out of the tree is where the abstract phase begins.
LEMMA PhaseBegins ==
  ASSUME IInv, IInv', NEW t \in Thread, DecrementNodesPendingReadyForCommit(t), pending = 1,
         tree # {}, Prepared = FirstPhase, Undone = {}, Between, FailedNow,
         \A u \in Thread \ {t} : pc[u] = "idle",
         flags' \in [Node -> SUBSET Flag],
         \A n \in FirstPhase : "kReadyForCommit" \in flags'[n],
         \A n \in Node : flags'[n] \in {flags[n], flags[n] \cup {"kReadyForCommit"}},
         \A n \in Node \ FirstPhase : flags'[n] = flags[n]
  PROVE  Abstract!BeginPhase
<1>1. Committing' = FirstPhase BY PhaseTaken
<1>2. tree' = tree \ FirstPhase /\ UNCHANGED <<phase, failed, promise>>
  BY DEF DecrementNodesPendingReadyForCommit
<1>3. /\ Abstract!In("committing") = {}
      /\ Abstract!NextPhase = FirstPhase /\ FirstPhase # {}
  BY AbstractSets, FirstPhaseExists DEF Between, IInv, Core
<1>4. ASSUME NEW n \in Node
      PROVE  NodeStatus(n)' = IF n \in FirstPhase THEN "committing" ELSE NodeStatus(n)
  <2>1. CASE n \in FirstPhase BY <1>1, <2>1, StatusAfter
  <2>2. CASE n \notin FirstPhase
    <3>1. flags'[n] = flags[n] /\ (n \in tree' <=> n \in tree) BY <1>2, <2>2
    <3>. QED BY <2>2, <3>1 DEF NodeStatus
  <2>. QED BY <2>1, <2>2
<1>5. [n \in Node |-> NodeStatus(n)]'
        = [n \in Node |-> IF n \in Abstract!NextPhase THEN "committing"
                                                      ELSE [m \in Node |-> NodeStatus(m)][n]]
  BY <1>3, <1>4
<1>6. \A p \in failed, n \in Abstract!NextPhase : p >= 0 => phase[n] <= p BY <1>3 DEF FailedNow
<1>. QED BY <1>2, <1>3, <1>5, <1>6 DEF Abstract!BeginPhase

LEMMA SimulatesEndOfPhase ==
  ASSUME IInv, IInv', NEW t \in Thread, EndOfPhase(t)
  PROVE  [Abstract!Next]_(Abstract!vars)
<1>. USE DEF IInv, Core
<1>1. /\ Visiting(t) /\ cursor[t] = {} /\ DecrementNodesPendingReadyForCommit(t)
      /\ UNCHANGED <<flags, phase, failed, promise>>
  BY ModeAt DEF EndOfPhase, DecrementNodesPendingReadyForCommit
<1>2. /\ tree # {} /\ Prepared = FirstPhase /\ Undone = {} /\ Between /\ FailedNow
      /\ pending = Cardinality(Unready) + 1
      /\ \A u \in Thread \ {t} : pc[u] = "idle"
  BY <1>1 DEF Visiting, Only
<1>3. CASE pending = 1
  <2>1. Unready = {}
    <3>1. Cardinality(Unready) \in Nat /\ (Cardinality(Unready) = 0 <=> Unready = {})
      BY Finite DEF Unready, Prepared, Types
    <3>. QED BY <1>2, <1>3, <3>1
  <2>2. \A n \in FirstPhase : "kReadyForCommit" \in flags[n] BY <1>2, <2>1 DEF Unready
  <2>3. Abstract!BeginPhase BY <1>1, <1>2, <1>3, <2>2, PhaseBegins DEF Types
  <2>. QED BY <2>3 DEF Abstract!Next
<1>4. CASE pending # 1
  <2>1. tree' = tree BY <1>1, <1>4 DEF DecrementNodesPendingReadyForCommit
  <2>2. \A n \in Node : NodeStatus(n)' = NodeStatus(n) BY <1>1, <2>1, SameStatus
  <2>. QED BY <1>1, <2>2, Quiet DEF Types
<1>. QED BY <1>3, <1>4

LEMMA SimulatesReadyForCommit ==
  ASSUME IInv, IInv', NEW t \in Thread, NEW n \in Node, ReadyForCommit(t, n)
  PROVE  [Abstract!Next]_(Abstract!vars)
<1>. USE DEF IInv, Core
<1>1. /\ pc[t] = "idle" /\ n \in Unready /\ Mark(n, "kReadyForCommit")
      /\ DecrementNodesPendingReadyForCommit(t) /\ UNCHANGED <<phase, failed, promise>>
  BY WhereNodes DEF ReadyForCommit, DecrementNodesPendingReadyForCommit
<1>2. /\ n \in Prepared /\ n \in tree
      /\ \/ \E u \in Thread : Visiting(u) \/ Awaiting(u)
         \/ Suspended \/ AllPrepared
  BY <1>1, ModeBy DEF Unready, Prepared
<1>3. /\ flags'[n] = flags[n] \cup {"kReadyForCommit"}
      /\ \A m \in Node \ {n} : flags'[m] = flags[m]
      /\ flags' \in [Node -> SUBSET Flag]
  BY <1>1 DEF Mark, Types, Flag
<1>4. CASE pending = 1
  <2>1. /\ Unready \subseteq Node /\ Cardinality(Unready) \in Nat /\ Cardinality(Unready) # 0
        /\ IsFiniteSet(Unready)
    BY <1>1, Finite DEF Unready, Prepared, Types
  <2>2. AllPrepared BY <1>2, <1>4, <2>1 DEF Visiting, Awaiting, Suspended
  <2>3. Unready \ {n} = {}
    <3>1. Cardinality(Unready) = 1 BY <1>4, <2>2 DEF AllPrepared
    <3>2. Cardinality(Unready \ {n}) = Cardinality(Unready) - 1 BY <1>1, <2>1, FS_RemoveElement
    <3>3. Cardinality(Unready \ {n}) = 0 <=> Unready \ {n} = {} BY <2>1, Finite
    <3>. QED BY <3>1, <3>2, <3>3
  <2>4. /\ tree # {} /\ Prepared = FirstPhase /\ Undone = {} /\ Between /\ FailedNow
        /\ \A u \in Thread \ {t} : pc[u] = "idle"
    BY <2>2 DEF AllPrepared, NoneRuns
  <2>5. \A m \in FirstPhase : m # n => "kReadyForCommit" \in flags[m] BY <2>3, <2>4 DEF Unready
  <2>6. FirstPhase \subseteq Node /\ n \in FirstPhase BY <1>2, <2>4 DEF FirstPhase, Types
  <2>7. \A m \in FirstPhase : "kReadyForCommit" \in flags'[m] BY <1>3, <2>5, <2>6
  <2>8. /\ \A m \in Node : flags'[m] \in {flags[m], flags[m] \cup {"kReadyForCommit"}}
        /\ \A m \in Node \ FirstPhase : flags'[m] = flags[m]
    BY <1>3, <2>6
  <2>9. Abstract!BeginPhase BY <1>1, <1>3, <1>4, <2>4, <2>7, <2>8, PhaseBegins
  <2>. QED BY <2>9 DEF Abstract!Next
<1>5. CASE pending # 1
  <2>1. tree' = tree BY <1>1, <1>5 DEF DecrementNodesPendingReadyForCommit
  <2>2. \A m \in Node : NodeStatus(m)' = NodeStatus(m) BY <1>3, <2>1, SameStatus
  <2>. QED BY <1>1, <2>2, Quiet DEF Types
<1>. QED BY <1>4, <1>5

\* Only the end of the transaction releases the promise.
LEMMA PromiseOnce ==
  ASSUME NEW t \in Thread, NEW x \in Nat, PhaseCommitted(t, x)
  PROVE  promise' = promise \/ promise' = FALSE
BY DEF PhaseCommitted

LEMMA SimulatesCommitDone ==
  ASSUME IInv, IInv', NEW t \in Thread, NEW n \in Node, CommitDone(t, n)
  PROVE  Abstract!CommitNode(n)
<1>. USE DEF IInv, Core
<1>1. /\ n \in Committing /\ Mark(n, "kCommitDone") /\ UNCHANGED <<tree, phase, failed>>
      /\ promise' = promise \/ promise' = FALSE
  BY WhereNodes, PromiseOnce DEF CommitDone, MayReportCommit
<1>2. /\ flags'[n] = flags[n] \cup {"kCommitDone"}
      /\ \A m \in Node \ {n} : flags'[m] = flags[m]
      /\ Past' = Past /\ Committing' = Committing \ {n}
  BY <1>1, MarkCommitDone
<1>3. NodeStatus(n) = "committing" /\ NodeStatus(n)' = "committed"
  BY <1>1, <1>2, StatusOf, StatusAfter DEF Committing
<1>4. \A m \in Node \ {n} : NodeStatus(m)' = NodeStatus(m) BY <1>1, <1>2 DEF NodeStatus
<1>5. Abstract!Announce BY <1>1, Announces DEF Types
<1>6. [m \in Node |-> NodeStatus(m)]'
        = [[m \in Node |-> NodeStatus(m)] EXCEPT ![n] = "committed"]
  BY <1>3, <1>4
<1>. QED BY <1>1, <1>3, <1>5, <1>6 DEF Abstract!CommitNode

LEMMA SimulatesNextPhase ==
  ASSUME IInv, IInv', NEW t \in Thread, NEW n \in Node, NEW p \in 1 .. MaxPhase,
         CommitDoneNextPhase(t, n, p)
  PROVE  Abstract!Rejoin(n)
<1>. USE DEF IInv, Core
<1>1. /\ n \in Committing /\ p > phase[n] /\ flags' = [flags EXCEPT ![n] = {"kRegister"}]
      /\ phase' = [phase EXCEPT ![n] = p] /\ tree' = tree \cup {n} /\ failed' = failed
  BY WhereNodes DEF CommitDoneNextPhase, MayReportCommit
<1>2. promise' = promise BY <1>1 DEF CommitDoneNextPhase, PhaseCommitted
<1>3. NodeStatus(n) = "committing" /\ NodeStatus(n)' = "pending" BY <1>1, StatusOf, StatusAfter
<1>4. \A m \in Node \ {n} : NodeStatus(m)' = NodeStatus(m)
  <2>1. \A m \in Node \ {n} : flags'[m] = flags[m] /\ (m \in tree' <=> m \in tree)
    BY <1>1 DEF Types
  <2>. QED BY <2>1 DEF NodeStatus
<1>5. [m \in Node |-> NodeStatus(m)]'
        = [[m \in Node |-> NodeStatus(m)] EXCEPT ![n] = "pending"]
  BY <1>3, <1>4
<1>. QED BY <1>1, <1>2, <1>3, <1>5 DEF Abstract!Rejoin

LEMMA SimulatesAbortNode ==
  ASSUME IInv, IInv', NEW t \in Thread, AbortNode(t)
  PROVE  \E n \in Node : Abstract!AbortNode(n)
<1>. USE DEF IInv, Core
<1>1. AbortingNodes(t) /\ UNCHANGED <<phase, failed, promise>> BY ModeAt DEF AbortNode
<1>2. PICK n \in tree : tree' = tree \ {n} /\ Mark(n, "kAbort") BY DEF AbortNode
<1>3. Fresh(n) /\ n \in Node BY <1>1 DEF AbortingNodes, ToAbort, Types
<1>4. /\ Aborting' = Aborting \cup {n}
      /\ \A m \in Node \ {n} : flags'[m] = flags[m] /\ (m \in tree' <=> m \in tree)
  BY <1>2, <1>3, MarkAbort
<1>5. NodeStatus(n) = "pending" /\ NodeStatus(n)' = "aborting"
  BY <1>2, <1>3, <1>4, StatusOf, StatusAfter
<1>6. \A m \in Node \ {n} : NodeStatus(m)' = NodeStatus(m) BY <1>4 DEF NodeStatus
<1>7. [m \in Node |-> NodeStatus(m)]'
        = [[m \in Node |-> NodeStatus(m)] EXCEPT ![n] = "aborting"]
  BY <1>5, <1>6
<1>8. Abstract!In("committing") = {} /\ failed # {}
  BY <1>1, AbstractSets DEF AbortingNodes, ToAbort
<1>. QED BY <1>1, <1>3, <1>5, <1>7, <1>8 DEF Abstract!AbortNode

LEMMA SimulatesAbortDone ==
  ASSUME IInv, IInv', NEW t \in Thread, NEW n \in Node, AbortDone(t, n)
  PROVE  Abstract!AbortedNode(n)
<1>. USE DEF IInv, Core
<1>1. /\ n \in Aborting /\ Mark(n, "kAbortDone") /\ UNCHANGED <<tree, phase, failed>>
      /\ promise' = (promise /\ pending_abort' # 0)
  BY WhereNodes DEF AbortDone
<1>2. promise' = promise \/ promise' = FALSE BY <1>1 DEF Types
<1>3. /\ flags'[n] = flags[n] \cup {"kAbortDone"}
      /\ \A m \in Node \ {n} : flags'[m] = flags[m]
      /\ Registered' = Registered
  BY <1>1, MarkAbortDone
<1>4. NodeStatus(n) = "aborting" /\ NodeStatus(n)' = "aborted"
  BY <1>1, <1>3, StatusOf, StatusAfter DEF Aborting
<1>5. \A m \in Node \ {n} : NodeStatus(m)' = NodeStatus(m) BY <1>1, <1>3 DEF NodeStatus
<1>6. Abstract!Announce BY <1>2, Announces DEF Types
<1>7. [m \in Node |-> NodeStatus(m)]'
        = [[m \in Node |-> NodeStatus(m)] EXCEPT ![n] = "aborted"]
  BY <1>4, <1>5
<1>. QED BY <1>1, <1>4, <1>6, <1>7 DEF Abstract!AbortedNode

LEMMA SimulatesSetError ==
  ASSUME IInv, IInv', NEW t \in Thread, NEW n \in Node, SetError(t, n)
  PROVE  Abstract!Fail(n)
<1>. USE DEF IInv, Core
<1>1. /\ n \in Prepared \cup Committing /\ failed' = failed \cup {phase[n]}
      /\ UNCHANGED <<tree, phase, flags, promise>>
  BY WhereNodes DEF SetError
<1>2. [m \in Node |-> NodeStatus(m)]' = [m \in Node |-> NodeStatus(m)] BY <1>1, SameStatus
<1>3. CASE n \in Committing
  <2>1. NodeStatus(n) = "committing" BY <1>3, StatusOf
  <2>. QED BY <1>1, <1>2, <2>1 DEF Abstract!Fail
<1>4. CASE n \in Prepared
  <2>1. \/ \E u \in Thread : Visiting(u) \/ Awaiting(u)
        \/ Suspended \/ AllPrepared
    BY <1>4, ModeBy
  <2>2. Committing = {} /\ n \in FirstPhase
    BY <1>4, <2>1 DEF Visiting, Awaiting, Suspended, AllPrepared, Between, UpTo
  <2>3. Abstract!In("committing") = {} /\ n \in Abstract!NextPhase BY <2>2, AbstractSets
  <2>. QED BY <1>1, <1>2, <2>3 DEF Abstract!Fail
<1>. QED BY <1>1, <1>3, <1>4

\* The remaining steps change no status.
LEMMA SimulatesOthers ==
  ASSUME IInv, IInv', NEW t \in Thread,
         \/ ExecuteCommitPhase(t) \/ PrepareForCommit(t) \/ AwaitPrepareDone(t)
         \/ CommitNode(t) \/ CommitNodesEnd(t) \/ ExecuteAbort(t) \/ AbortNodesEnd(t)
         \/ \E n \in Node : PrepareDone(t, n)
  PROVE  [Abstract!Next]_(Abstract!vars)
<1>. USE DEF IInv, Core
<1>1. UNCHANGED <<tree, phase, failed>>
  BY DEF ExecuteCommitPhase, PrepareForCommit, AwaitPrepareDone, CommitNode, CommitNodesEnd,
     ExecuteAbort, AbortNodesEnd, PrepareDone
<1>2. promise' = promise \/ promise' = FALSE
  <2>1. CASE CommitNodesEnd(t) BY <2>1, PromiseOnce DEF CommitNodesEnd
  <2>2. CASE AbortNodesEnd(t) BY <2>2 DEF AbortNodesEnd, Types
  <2>. QED
    BY <2>1, <2>2 DEF ExecuteCommitPhase, PrepareForCommit, AwaitPrepareDone, CommitNode,
       ExecuteAbort, PrepareDone
<1>3. \/ flags' = flags
      \/ \E n \in Node, f \in {"kPrepareForCommit", "kPrepareDone", "kCommit"} : Mark(n, f)
  BY DEF ExecuteCommitPhase, PrepareForCommit, AwaitPrepareDone, CommitNode, CommitNodesEnd,
     ExecuteAbort, AbortNodesEnd, PrepareDone, Types
<1>4. \A n \in Node : \A f \in {"kRegister", "kAbort", "kAbortDone", "kCommitDone"} :
        f \in flags'[n] <=> f \in flags[n]
  BY <1>3 DEF Mark, Types
<1>5. \A n \in Node : NodeStatus(n)' = NodeStatus(n) BY <1>1, <1>4, SameStatus
<1>. QED BY <1>1, <1>2, <1>5, Quiet DEF Types

LEMMA Simulation == IInv /\ IInv' /\ [Next]_vars => [Abstract!Next]_(Abstract!vars)
<1>. SUFFICES ASSUME IInv, IInv', [Next]_vars PROVE [Abstract!Next]_(Abstract!vars) OBVIOUS
<1>1. ASSUME NEW t \in Thread, Run(t) PROVE [Abstract!Next]_(Abstract!vars)
  BY <1>1, SimulatesOthers, SimulatesEndOfPhase, SimulatesAbortNode DEF Run, Abstract!Next
<1>2. ASSUME NEW t \in Thread, NEW n \in Node, Callback(t, n)
      PROVE  [Abstract!Next]_(Abstract!vars)
  BY <1>2, SimulatesOthers, SimulatesReadyForCommit, SimulatesCommitDone, SimulatesNextPhase,
     SimulatesAbortDone, SimulatesSetError DEF Callback, Abstract!Next
<1>3. CASE UNCHANGED vars
  <2>1. UNCHANGED <<tree, flags, phase, failed, promise>> BY <1>3 DEF vars
  <2>2. \A n \in Node : NodeStatus(n)' = NodeStatus(n) BY <2>1, SameStatus
  <2>. QED BY <2>1, <2>2, Quiet DEF IInv, Core, Types
<1>. QED BY <1>1, <1>2, <1>3 DEF Next, Terminated

\* ImplementsPhasedCommit: whatever the order of the callbacks and the threads they
\* arrive on, the phases commit one after the other, an error stops the later ones,
\* and the outcome is announced once, when every node has ended.
THEOREM PhasedCommitImplemented == Spec => ImplementsPhasedCommit
<1>1. Init => Abstract!Init
  <2>. SUFFICES ASSUME Init PROVE Abstract!Init OBVIOUS
  <2>1. \A n \in Node : flags[n] = IF n \in tree THEN {"kRegister"} ELSE {} BY DEF Init
  <2>2. \A n \in Node : NodeStatus(n) \in {"unused", "pending"}
    <3>1. ASSUME NEW n \in Node, n \in tree PROVE NodeStatus(n) = "pending"
      BY <2>1, <3>1 DEF NodeStatus
    <3>2. ASSUME NEW n \in Node, n \notin tree PROVE NodeStatus(n) = "unused"
      BY <2>1, <3>2 DEF NodeStatus
    <3>. QED BY <3>1, <3>2
  <2>. QED BY <2>2 DEF Init, Abstract!Init
<1>. QED BY <1>1, Invariant, Simulation, PTL DEF Spec, ImplementsPhasedCommit, Abstract!Spec

=============================================================================
