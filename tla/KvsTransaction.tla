--------------------------- MODULE KvsTransaction ---------------------------
(***************************************************************************)
(* The mutations that a non-atomic transaction holds for one key-value     *)
(* store (MultiPhaseMutation, kvstore/transaction.cc), and their writeback: *)
(* conditional and unconditional writes, repeatable reads, the read-modify- *)
(* writes of a cache, and deletions of ranges, in several phases, against  *)
(* a store that others write to as well.                                   *)
(*                                                                         *)
(* The interval trees are kept by what they say of each key: chain[p][k] is *)
(* the sequence of entries that phase p has for key k (linked by prev_),   *)
(* and dels[p] the ranges of its DeleteRangeEntry objects.  A chain whose  *)
(* key is in such a range is one that the range supersedes (kDeleted); the *)
(* entry that covers a key in the tree is the last one of the last phase   *)
(* that has one.                                                           *)
(*                                                                         *)
(* A generation is a base and the mutations applied on top of it, the last *)
(* one first.  The store's read or write that an entry waits for is a step *)
(* of its own; what follows an answer runs to the next wait in one step.   *)
(***************************************************************************)
EXTENDS Integers, Sequences, SequencesExt, FiniteSets, FiniteSetsExt

CONSTANTS
    NKeys,          \* keys are 1 .. NKeys
    MaxOps,         \* bound: operations of the transaction
    MaxPhase,       \* bound: the last phase
    Workloads       \* what the clients, the other writers and the store do

AllForms == {"write", "committed", "dropped", "modify", "read", "delete_range"}

ASSUME ConstantsAssumption ==
    /\ NKeys \in Nat \ {0} /\ MaxOps \in Nat /\ MaxPhase \in Nat
    /\ Workloads \subseteq [forms : SUBSET AllForms, keys : 1 .. NKeys, phases : 0 .. MaxPhase,
                             external : Nat, errors : Nat]

Key == 1 .. NKeys
Op == 1 .. MaxOps
Phase == 0 .. MaxPhase
KeyRange == {r \in Key \X Key : r[1] <= r[2]}
KeysOf(r) == r[1] .. r[2]

VARIABLES
    store,      \* [Key -> value and generation]
    clock,      \* the last generation the store has given
    ops,        \* [Op -> the entry and its ReadModifyWriteSource]
    fate,       \* [Op -> what the source was told about the end of its operation]
    nops,       \* operations added
    phase,      \* the transaction's phase, before and during the commit
    chain,      \* [Phase -> [Key -> sequence of entries]]
    dels,       \* [Phase -> set of ranges]
    state,      \* "open", "committing", "committed", "aborted"
    failed,     \* an error was set on the transaction
    plan,       \* what WritebackPhase has left to do: chains to start, ranges whose
                \* chains are being started, and the count of the phase
    job,        \* [Key -> the writeback of the key's chain]
    drs,        \* [KeyRange -> its DeleteRangeEntry during the writeback]
    left,       \* remaining_entries_ of the phase
    env         \* the workload: forms of operations, keys and phases used, writes
                \* by others and failing requests still to come

vars == << store, clock, ops, fate, nops, phase, chain, dels, state, failed, plan, job, drs, left,
           env >>

-----------------------------------------------------------------------------
(* StorageGeneration and ReadResult.                                        *)

NoBase == -1           \* the base of an unconditional generation
NoValue == 0        \* the generation of a missing value
Deletion == 0       \* kDeletionMutationId
Missing == << -1000 >>
Empty == << -1001 >>      \* a value of which only the size was asked

Unknown == [base |-> NoBase, tags |-> << >>]
Clean(g) == [g EXCEPT !.tags = << >>]
MarkDirty(g, id) == [g EXCEPT !.tags = << id >> \o @]
StripTag(g) == [g EXCEPT !.tags = Tail(@)]
IsDirty(g) == g.tags # << >>
IsConditional(g) == g.base # NoBase

\* A slip: any of the mutations.
MutatedBy(g, id) == id \in ToSet(g.tags)

LastMutatedBy(g, id) == IsDirty(g) /\ Head(g.tags) = id

\* A slip: the tags of the condition are kept.
ConditionTagged(g, c) ==
    IF g = Unknown THEN c
    ELSE IF IsConditional(g) THEN g ELSE [g EXCEPT !.base = c.base]

\* StorageGeneration::Condition.
Condition(g, c) ==
    IF g = Unknown THEN Clean(c)
    ELSE IF IsConditional(g) THEN g ELSE [g EXCEPT !.base = c.base]

Past == -1          \* absl::InfinitePast()
Epoch == 0          \* absl::Time()
CommitStart == 1    \* commit_start_time; a read made before it has this time
Future == 99

Result(val, g, time) ==
    [st |-> IF val = Missing THEN "missing" ELSE "value", val |-> val, gen |-> g, time |-> time]
Unspecified(g, time) == [st |-> "unspecified", val |-> Missing, gen |-> g, time |-> time]

StoreGen(g) == [base |-> g, tags |-> << >>]

\* What the store answers to a read.
StoreRead(k, time) == Result(store[k].val, StoreGen(store[k].gen), time)

-----------------------------------------------------------------------------
(* The chains.                                                              *)

InRange(p, k) == \E r \in dels[p] : k \in KeysOf(r)
Touches(p, k) == chain[p][k] # << >> \/ InRange(p, k)

\* FindExistingEntryCoveringKey.
Covering(k) ==
    LET ps == {p \in Phase : p <= phase /\ Touches(p, k)}
    IN IF ps = {} THEN "none"
       ELSE IF InRange(Max(ps), k) THEN "deleted" ELSE "entry"

\* The entries of k from the first phase on: the chain that a read follows
\* while the transaction is open.
Linked(k) == FlattenSeq([i \in 1 .. phase + 1 |-> chain[i - 1][k]])

\* The chain that a writeback of k follows.
Entries(k) == IF state = "open" THEN Linked(k) ELSE chain[phase][k]

\* The last field is not in the code: it marks a node that has read what another
\* operation assumes (see Assumed).
NoOp == [kind |-> "none", key |-> 0, cond |-> NoBase, fail |-> FALSE, needed |-> FALSE,
         modified |-> FALSE, ifNoValue |-> FALSE, rr |-> Unspecified(Unknown, Past),
         prevDeleted |-> FALSE, nonRetryable |-> FALSE,
         prov |-> FALSE, uncond |-> FALSE, dirty |-> FALSE, assumed |-> FALSE]

\* Calls of KvsWritebackSuccess and KvsWritebackError, what the last one made
\* of the promise, and kError.
NotTold == [told |-> 0, report |-> "none", error |-> FALSE]
Tell(f, report, error) == [told |-> f.told + 1, report |-> report, error |-> error]

-----------------------------------------------------------------------------
(* ReadModifyWriteSource::KvsWriteback of the three kinds of sources.       *)
(* rr is read_result_ of a write, expected_stamp_ of a repeatable read and  *)
(* the cached read state of a cache's node.                                 *)

\* The source answers without asking its target for a read.
Answers(o, mode, bound) ==
    CASE o.kind = "write" ->
            \/ mode = "validate" /\ ~o.fail /\ ~o.needed
            \/ ~IsConditional(o.rr.gen)
            \/ o.fail /\ state = "open"
      [] o.kind = "read" ->
            /\ mode \in {"normal", "validate"}
            /\ o.rr.gen = Unknown \/ (~IsDirty(o.rr.gen) /\ o.rr.time >= bound)
      [] o.kind = "modify" ->
            \/ mode = "validate"
            \/ o.rr.st # "unspecified" /\ o.rr.time >= bound

\* What a cache's node makes of the value that it read.
Modified(id, in) ==
    Result(IF in.st = "missing" THEN << id >> ELSE Append(in.val, id),
           MarkDirty(in.gen, id), in.time)

Answer(id, o, mode) ==
    CASE o.kind = "write" ->
            IF mode = "validate" /\ ~o.fail /\ ~o.needed THEN Unspecified(Unknown, Past) ELSE o.rr
      [] o.kind = "read" ->
            Unspecified(o.rr.gen, IF o.rr.gen = Unknown THEN Future ELSE o.rr.time)
      [] o.kind = "modify" ->
            IF mode = "validate" THEN Unspecified(Unknown, Future) ELSE Modified(id, o.rr)

\* GetBaseGeneration.
BaseGeneration(o) == IF o.modified THEN StripTag(o.rr.gen) ELSE o.rr.gen

Matches(o, in) == in.gen = BaseGeneration(o) \/ (o.ifNoValue /\ in.st = "missing")

Outcome(o, res, err) == [op |-> o, res |-> res, err |-> err]

\* The source's receiver, given what it asked for.
Receive(id, o, mode, in) ==
    CASE o.kind = "write" /\ Matches(o, in) ->
            LET rr == [o.rr EXCEPT !.gen = IF o.modified THEN MarkDirty(in.gen, id) ELSE in.gen,
                                   !.time = in.time]
            IN Outcome([o EXCEPT !.rr = rr], rr, FALSE)
      [] o.kind = "write" /\ ~Matches(o, in) ->
            IF o.fail THEN Outcome(o, in, TRUE)
            ELSE Outcome([o EXCEPT !.rr = in, !.ifNoValue = FALSE, !.modified = FALSE], in, FALSE)
      [] o.kind = "read" ->
            Outcome(o, IF mode # "specify" /\ in.st = "value" THEN [in EXCEPT !.val = Empty]
                       ELSE in,
                    mode # "discard" /\ o.rr.gen # Unknown /\ in.gen # o.rr.gen)
      [] o.kind = "modify" -> Outcome([o EXCEPT !.rr = in], Modified(id, in), FALSE)

\* ReceiveWritebackCommon.
Common(o, res) ==
    [o EXCEPT !.prov = TRUE, !.uncond = ~IsConditional(res.gen), !.dirty = res.st # "unspecified"]

\* The mode in which the i-th entry of es ends up asking the j-th one: a
\* repeatable read that only has to be validated asks for the size of the
\* value, and the other sources ask for the value.
ModeAt(es, i, mode, j) ==
    IF j = i THEN mode
    ELSE IF mode # "specify" /\ \A x \in j + 1 .. i : ops[es[x]].kind = "read"
         THEN "discard" ELSE "specify"

\* The entry at which the chain of KvsRead calls ends that a writeback
\* request to the i-th entry of es leads to.
LastAsked(es, i, mode, bound) ==
    Max({1} \cup {j \in 1 .. i : \/ Answers(ops[es[j]], ModeAt(es, i, mode, j), bound)
                                 \/ ops[es[j]].prevDeleted})

\* That entry has to read from the store.
NeedsStore(es, i, mode, bound) ==
    LET s == LastAsked(es, i, mode, bound)
    IN ~Answers(ops[es[s]], ModeAt(es, i, mode, s), bound) /\ ~ops[es[s]].prevDeleted

\* KvsRead of the first entry: nothing is left of a deleted key.
ReadBelow(o, fromStore) ==
    IF o.prevDeleted THEN Result(Missing, [base |-> NoBase, tags |-> << Deletion >>], Future)
    ELSE fromStore

\* ReadReceiverImpl of RequestWritebackForRead, and the j-th source, which is
\* given what the entry below it has answered.
Ascend(es, i, mode, below, j) ==
    LET sources == [below.ops EXCEPT ![es[j - 1]] = Common(@, below.res),
                                     ![es[j]].uncond = @ \/ ~IsConditional(below.res.gen)]
        a == Receive(es[j], sources[es[j]], ModeAt(es, i, mode, j), below.res)
    IN IF below.err THEN below
       ELSE [res |-> a.res, ops |-> [sources EXCEPT ![es[j]] = a.op], err |-> a.err]

\* KvsWriteback of the i-th entry of es: the result, the sources as they are
\* afterwards, and whether one of them found its condition violated.
KvsWriteback(es, i, mode, bound, fromStore) ==
    LET s == LastAsked(es, i, mode, bound)
        m == ModeAt(es, i, mode, s)
        o == ops[es[s]]
        first == IF Answers(o, m, bound) THEN Outcome(o, Answer(es[s], o, m), FALSE)
                 ELSE Receive(es[s], o, m, ReadBelow(o, fromStore))
        up[j \in s .. i] ==
            IF j = s THEN [res |-> first.res, ops |-> [ops EXCEPT ![es[s]] = first.op],
                           err |-> first.err]
            ELSE Ascend(es, i, mode, up[j - 1], j)
    IN up[i]

-----------------------------------------------------------------------------
(* The open transaction: ReadModifyWrite, DeleteRange, ReadImpl.            *)

Idle == [st |-> "idle", at |-> 0, mode |-> "normal", bound |-> Past, attempt |-> 1,
         res |-> Unspecified(Unknown, Past)]
NoRange == [st |-> "idle", n |-> 0, err |-> FALSE]
NoPlan == [keys |-> {}, ranges |-> {}, count |-> FALSE]

\* What the store holds before the transaction: every other key has a value.
Found(k) == IF k % 2 = 1 THEN [val |-> << -1 >>, gen |-> 1] ELSE [val |-> Missing, gen |-> NoValue]

Init ==
    /\ store = [k \in Key |-> Found(k)]
    /\ clock = 1
    /\ ops = [o \in Op |-> NoOp] /\ fate = [o \in Op |-> NotTold] /\ nops = 0
    /\ phase = 0
    /\ chain = [p \in Phase |-> [k \in Key |-> << >>]]
    /\ dels = [p \in Phase |-> {}]
    /\ state = "open" /\ failed = FALSE
    /\ plan = NoPlan
    /\ job = [k \in Key |-> Idle]
    /\ drs = [r \in KeyRange |-> NoRange]
    /\ left = [n |-> 0, err |-> FALSE]
    /\ env \in Workloads

Open == state = "open" /\ ~failed

\* The parts of a range that are left when k is taken out of it.
Split(r, k) == {x \in {<< r[1], k - 1 >>, << k + 1, r[2] >>} : x[1] <= x[2]}

\* The new entry for k follows a deletion.
PrevDeleted(k) == Covering(k) = "deleted"

\* ReadModifyWrite: the entry is linked to the one it supersedes, or splits
\* the range that covers its key.
ReadModifyWrite(k, o, sources) ==
    LET id == nops + 1
        last == Last(Linked(k))
        new == [o EXCEPT !.key = k, !.prevDeleted = PrevDeleted(k), !.uncond = @ \/ PrevDeleted(k),
                         !.nonRetryable = IF Covering(k) = "entry" THEN ops[last].nonRetryable
                                          ELSE o.kind # "modify"]
    IN /\ nops < MaxOps
       /\ nops' = id
       /\ ops' = [sources EXCEPT ![id] = new]
       /\ chain' = [chain EXCEPT ![phase][k] = Append(@, id)]
       /\ dels' = [dels EXCEPT ![phase] =
                      UNION {IF k \in KeysOf(r) THEN Split(r, k) ELSE {r} : r \in @}]

\* What a read of k through the transaction gives, the sources afterwards, an
\* error, and whether the entry that reads becomes kTransitivelyUnconditional.
View(k) ==
    LET es == Linked(k)
        w == KvsWriteback(es, Len(es), "specify", Past, StoreRead(k, CommitStart))
        Direct(res) == [res |-> res, ops |-> ops, err |-> FALSE, uncond |-> FALSE]
    IN CASE Covering(k) = "none" -> Direct(StoreRead(k, CommitStart))
         [] Covering(k) = "deleted" ->
               Direct(ReadBelow([NoOp EXCEPT !.prevDeleted = TRUE], StoreRead(k, CommitStart)))
         [] Covering(k) = "entry" ->
               [res |-> w.res, ops |-> [w.ops EXCEPT ![Last(es)] = Common(@, w.res)],
                err |-> w.err, uncond |-> ~IsConditional(w.res.gen)]

\* All unconditional deletions have the same mutation id.
MutationId(id, cond, val) == IF cond = NoBase /\ val = Missing THEN Deletion ELSE id

\* kvstore::Write ("write": a mismatch fails the transaction), and
\* WriteCommitted, whose future the client keeps or drops.
Write(k, form, cond, val) ==
    /\ Open /\ form \in env.forms
    /\ LET g == MarkDirty([base |-> cond, tags |-> << >>], MutationId(nops + 1, cond, val)) IN
       ReadModifyWrite(k, [NoOp EXCEPT !.kind = "write", !.cond = cond, !.fail = form = "write",
                                       !.needed = form = "committed", !.modified = TRUE,
                                       !.ifNoValue = cond = NoValue,
                                       !.rr = Result(val, g, IF cond = NoBase THEN Future
                                                             ELSE Epoch)],
                       ops)
    /\ UNCHANGED << store, clock, fate, phase, state, failed, plan, job, drs, left, env >>

\* The conditional writes of k that an answer given before the commit assumes
\* to succeed, or decides on what an earlier phase has yet to write.
Assumed(k) ==
    {o \in ToSet(Linked(k)) : IsConditional(ops[o].rr.gen) /\ (ops[o].fail \/ phase > 0)}

\* A node of a KvsBackedCache, which may have read its entry already.
Modify(k, cached) ==
    /\ Open /\ "modify" \in env.forms
    /\ LET v == View(k)
           new == [NoOp EXCEPT !.kind = "modify", !.fail = TRUE]
       IN IF cached
          THEN /\ ReadModifyWrite(k, [new EXCEPT !.rr = v.res, !.uncond = v.uncond,
                                                 !.assumed = Assumed(k) # {}], v.ops)
               /\ failed' = (failed \/ v.err)
          ELSE ReadModifyWrite(k, new, ops) /\ UNCHANGED failed
    /\ UNCHANGED << store, clock, fate, phase, state, plan, job, drs, left, env >>

\* ReadImpl of a repeatable_read transaction: a deleted key is known to be
\* missing, and otherwise a node remembers the generation read.
Read(k) ==
    /\ Open /\ "read" \in env.forms
    /\ Covering(k) # "deleted"
    /\ Covering(k) = "entry" => ops[Last(Linked(k))].kind # "read"
    /\ LET v == View(k) IN
          /\ ReadModifyWrite(k, [NoOp EXCEPT !.kind = "read", !.rr = v.res, !.uncond = v.uncond],
                             v.ops)
          /\ failed' = (failed \/ v.err)
    /\ UNCHANGED << store, clock, fate, phase, state, plan, job, drs, left, env >>

\* A read that finds a node of an earlier read asks again, and fails the
\* transaction when the generation is another one.
ReadAgain(k) ==
    /\ Open /\ "read" \in env.forms /\ Covering(k) = "entry"
    /\ LET es == Linked(k)
           n == Len(es)
           o == ops[es[n]]
           first == Receive(es[n], o, "specify", StoreRead(k, CommitStart))
           below == KvsWriteback(es, n - 1, "specify", Past, StoreRead(k, CommitStart))
           v == IF n = 1 THEN [ops |-> [ops EXCEPT ![es[n]] = first.op], err |-> first.err]
                ELSE Ascend(es, n, "specify", below, n)
       IN /\ o.kind = "read"
          /\ ops' = v.ops
          /\ failed' = (failed \/ v.err)
    /\ UNCHANGED << store, clock, fate, nops, phase, chain, dels, state, plan, job, drs, left, env >>

Meets(r, x) == KeysOf(r) \cap KeysOf(x) # {}

\* DeleteRange: the ranges of the phase that the new one meets are merged
\* into it, and the entries of the phase in the range are superseded.
DeleteRange(r) ==
    /\ Open /\ "delete_range" \in env.forms /\ nops < MaxOps
    /\ nops' = nops + 1
    /\ LET met == {x \in dels[phase] : Meets(r, x)}
           all == UNION {KeysOf(x) : x \in met \cup {r}}
       IN dels' = [dels EXCEPT ![phase] = (@ \ met) \cup {<< Min(all), Max(all) >>}]
    /\ UNCHANGED << store, clock, ops, fate, phase, chain, state, failed, plan, job, drs, left,
                    env >>

\* Transaction::Barrier: the next operation creates a new SinglePhaseMutation.
Barrier ==
    /\ Open /\ phase < env.phases /\ \E k \in Key : Touches(phase, k)
    /\ phase' = phase + 1
    /\ UNCHANGED << store, clock, ops, fate, nops, chain, dels, state, failed, plan, job, drs, left,
                    env >>

\* Another writer of the same store.
External(k) ==
    /\ env.external > 0 /\ state \in {"open", "committing", "between"}
    /\ env' = [env EXCEPT !.external = @ - 1]
    /\ \/ /\ store' = [store EXCEPT ![k] = [val |-> << -1 - clock >>, gen |-> clock + 1]]
          /\ clock' = clock + 1
       \/ /\ store[k].val # Missing
          /\ store' = [store EXCEPT ![k] = [val |-> Missing, gen |-> NoValue]]
          /\ UNCHANGED clock
    /\ UNCHANGED << ops, fate, nops, phase, chain, dels, state, failed, plan, job, drs, left >>

-----------------------------------------------------------------------------
(* CommitNextPhase and WritebackPhase.                                      *)

HasWork(p) == \E k \in Key : Touches(p, k)

\* A slip: the count does not include the last entry.
EntryCountShort(n) == IF n > 1 THEN n - 1 ELSE n

\* EntryCounter: what is added to the count of a range, or of the phase, once
\* all its entries have been started.
EntryCount(n) == n

\* The entries of a phase's tree: the chains that are not superseded, and the
\* ranges, with the chains that they supersede.
Chains(p) == {k \in Key : chain[p][k] # << >>}
Alone(p) == {k \in Chains(p) : ~InRange(p, k)}
ChainsIn(r) == {k \in KeysOf(r) : chain[phase][k] # << >>}

\* InvalidateReadStateGoingForward, for the entries that follow one of phase p
\* in a later phase: they no longer read from it.
Invalidated(p) ==
    LET Next(k) == {q \in Phase : q > p /\ Touches(q, k)}
        cut == {k \in Key : chain[p][k] # << >> /\ ~InRange(p, k) /\ Next(k) # {}}
        hit == UNION {{o \in ToSet(chain[Min(Next(k))][k]) :
                          ~ops[Head(chain[Min(Next(k))][k])].prevDeleted} : k \in cut}
    IN [o \in Op |-> IF o \notin hit THEN ops[o]
                     ELSE [ops[o] EXCEPT !.uncond = FALSE,
                              !.rr = IF ops[o].kind = "modify" THEN NoOp.rr ELSE @]]

StartPhase(p) ==
    /\ phase' = p
    /\ plan' = [keys |-> Chains(p), ranges |-> dels[p], count |-> TRUE]
    /\ ops' = Invalidated(p)
    /\ job' = [k \in Key |-> Idle]
    /\ drs' = [r \in KeyRange |-> NoRange]
    /\ left' = [n |-> 0, err |-> FALSE]

\* RequestCommit, once no operation is being added.
Commit ==
    /\ Open /\ \E p \in Phase : HasWork(p)
    /\ state' = "committing"
    /\ StartPhase(Min({p \in Phase : HasWork(p)}))
    /\ UNCHANGED << store, clock, fate, nops, chain, dels, failed, env >>

\* The operations of phases that are not committed are told by the transaction.
Abandoned(fates, p) ==
    [o \in Op |-> IF \E q \in Phase : q >= p /\ \E k \in Key : o \in ToSet(chain[q][k])
                  THEN Tell(fates[o], "error", fates[o].error) ELSE fates[o]]

\* RequestAbort, or the end of a transaction that has failed already.
Abort ==
    /\ state = "open"
    /\ state' = "aborted"
    /\ fate' = Abandoned(fate, 0)
    /\ UNCHANGED << store, clock, ops, nops, phase, chain, dels, failed, plan, job, drs, left,
                    env >>

-----------------------------------------------------------------------------
(* The end of an entry, of a range and of a phase.  A count is decreased by *)
(* each part that is done and increased at the end of the loop that started *)
(* the parts; whoever brings it to zero goes on.                            *)

Committing == state = "committing"
Superseded(k) == InRange(phase, k)
RangeOf(k) == CHOOSE r \in dels[phase] : k \in KeysOf(r)

\* WritebackSuccess of the chains of ks: what the promise of each entry is given.
Reported(sources, fates, ks, orig) ==
    LET Report(o) ==
            CASE sources[o].kind = "write" /\ ~sources[o].modified -> "mismatch"
              [] sources[o].kind = "write" /\ sources[o].modified
                 /\ ~LastMutatedBy(orig, MutationId(o, sources[o].cond, sources[o].rr.val)) ->
                    "superseded"
              [] OTHER -> "ok"
    IN [o \in Op |-> IF \E k \in ks : o \in ToSet(chain[phase][k])
                     THEN Tell(fates[o], Report(o), fates[o].error)
                     ELSE fates[o]]

\* A slip: the entries of a chain are told again.
AlreadyToldNever(f) == FALSE

\* kError of the chain's last entry.
AlreadyTold(f) == f.error

\* WritebackError of the chains of ks.
Failed(fates, ks) ==
    [o \in Op |-> IF \E k \in ks : /\ o \in ToSet(chain[phase][k])
                                   /\ ~AlreadyTold(fates[Last(chain[phase][k])])
                  THEN Tell(fates[o], "error", TRUE)
                  ELSE fates[o]]

\* EntryDone, and PhaseCommitDone when the phase is done: the next phase with
\* operations follows, unless the transaction has failed.
EntryDone(fates, count, error, fails) ==
    LET new == [n |-> left.n - count, err |-> left.err \/ error]
        next == {p \in Phase : p > phase /\ HasWork(p)}
    IN /\ failed' = fails
       /\ left' = new
       /\ IF new.n # 0
          THEN fate' = fates /\ UNCHANGED << state, phase >>
          ELSE IF fails \/ next = {}
          THEN /\ state' = IF fails THEN "aborted" ELSE "committed"
               /\ UNCHANGED phase
               /\ fate' = IF fails THEN Abandoned(fates, phase + 1) ELSE fates
          ELSE /\ state' = "between"
               /\ phase' = Min(next)
               /\ fate' = fates

\* HandleDeleteRangeDone.
RangeDone(fates, r, error, fails) ==
    EntryDone(IF error THEN Failed(fates, ChainsIn(r))
              ELSE Reported(ops, fates, ChainsIn(r), Unknown),
              1, error, fails)

\* DeletedEntryDone.
DeletedEntryDone(fates, r, count, error, fails) ==
    LET n == drs[r].n - count
        err == drs[r].err \/ error
        New(st) == [st |-> st, n |-> n, err |-> err]
    IN IF n # 0
       THEN /\ drs' = [drs EXCEPT ![r] = New(drs[r].st)]
            /\ fate' = fates /\ failed' = fails
            /\ UNCHANGED << left, state, phase >>
       ELSE IF err
            THEN /\ drs' = [drs EXCEPT ![r] = New("done")]
                 /\ RangeDone(fates, r, TRUE, fails)
            ELSE /\ drs' = [drs EXCEPT ![r] = New("delete")]
                 /\ fate' = fates /\ failed' = fails
                 /\ UNCHANGED << left, state, phase >>

\* Controller::Success and Controller::Error for the chain of k.
Success(sources, k, orig) ==
    IF Superseded(k) THEN DeletedEntryDone(fate, RangeOf(k), 1, FALSE, failed)
    ELSE /\ EntryDone(Reported(sources, fate, {k}, orig), 1, FALSE, failed)
         /\ UNCHANGED drs

Error(k) ==
    IF Superseded(k) THEN DeletedEntryDone(Failed(fate, {k}), RangeOf(k), 1, TRUE, TRUE)
    ELSE EntryDone(Failed(fate, {k}), 1, TRUE, TRUE) /\ UNCHANGED drs

\* The next phase of the transaction.
NextPhase ==
    /\ state = "between"
    /\ state' = "committing"
    /\ StartPhase(phase)
    /\ UNCHANGED << store, clock, fate, nops, chain, dels, failed, env >>

-----------------------------------------------------------------------------
(* The steps of a writeback.                                                *)

\* StartWriteback: no entry of the chain has provided a writeback yet.
Restarted(es) ==
    [o \in Op |-> IF o \in ToSet(es) THEN [ops[o] EXCEPT !.prov = FALSE, !.dirty = FALSE]
                  ELSE ops[o]]

Asked(k, attempt, bound) ==
    [st |-> "ask", at |-> Len(Entries(k)), mode |-> IF Superseded(k) THEN "validate" ELSE "normal",
     bound |-> bound, attempt |-> attempt,
     res |-> IF Superseded(k) THEN [Unspecified(Unknown, Past) EXCEPT !.st = "missing"]
             ELSE Unspecified(Unknown, Past)]

\* The loop of WritebackPhase, in the order of the keys.
StartEntry(k) ==
    /\ Committing /\ k \in plan.keys
    /\ \A x \in plan.keys : k <= x
    /\ \A r \in plan.ranges : k <= r[2]
    /\ job' = [job EXCEPT ![k] = Asked(k, 1, Past)]
    /\ ops' = Restarted(Entries(k))
    /\ plan' = [plan EXCEPT !.keys = @ \ {k}]
    /\ UNCHANGED << store, clock, fate, nops, phase, chain, dels, state, failed, drs, left, env >>

StartRange(r) ==
    /\ Committing /\ r \in plan.ranges
    /\ \A x \in plan.keys : r[2] < x
    /\ \A x \in plan.ranges : r[2] <= x[2]
    /\ DeletedEntryDone(fate, r, -EntryCount(Cardinality(ChainsIn(r))), FALSE, failed)
    /\ plan' = [plan EXCEPT !.ranges = @ \ {r}]
    /\ UNCHANGED << store, clock, ops, nops, chain, dels, job, env >>

AllStarted ==
    /\ Committing /\ plan = [NoPlan EXCEPT !.count = TRUE]
    /\ EntryDone(fate, -EntryCount(Cardinality(Alone(phase)) + Cardinality(dels[phase])), FALSE,
                 failed)
    /\ plan' = NoPlan
    /\ UNCHANGED << store, clock, ops, nops, chain, dels, job, drs, env >>

Now(k) == CommitStart + job[k].attempt

\* SequenceWritebackReceiverImpl::set_value: the result so far and the one
\* just obtained.
Combined(k, got) ==
    LET j == job[k] IN
    IF (j.at = Len(Entries(k)) /\ ~Superseded(k)) \/ j.res.st = "unspecified" THEN got
    ELSE [j.res EXCEPT !.time = IF got.gen # Unknown \/ @ = Past THEN got.time ELSE @,
                       !.gen = Condition(@, got.gen)]

\* A slip: the entries that were written over are not asked.
SkippedNever(sources, es, at, unmodified) == {}

\* GetPrevSupersededEntryToWriteback.
Skipped(sources, es, at, unmodified) ==
    {j \in 1 .. at - 1 :
        LET o == sources[es[j]]
        IN IF unmodified THEN ~o.prov \/ o.dirty ELSE ~o.prov /\ ~o.uncond}

\* PerformWriteback of the combined result.
Perform(sources, k, res) ==
    IF IsDirty(res.gen)
    THEN /\ job' = [job EXCEPT ![k].st = "write", ![k].res = res]
         /\ UNCHANGED << fate, drs, left, state, phase, failed >>
    ELSE IF IsConditional(res.gen) /\ res.time <= CommitStart
         THEN /\ job' = [job EXCEPT ![k].st = "verify", ![k].res = res]
              /\ UNCHANGED << fate, drs, left, state, phase, failed >>
         ELSE /\ job' = [job EXCEPT ![k].st = "done", ![k].res = res]
              /\ Success(sources, k, res.gen)

\* A source of the chain of k answers the request made to it.
Ask(k) ==
    /\ Committing /\ job[k].st = "ask"
    /\ LET es == Entries(k)
           j == job[k]
           w == KvsWriteback(es, j.at, j.mode, j.bound, StoreRead(k, Now(k)))
           sources == [w.ops EXCEPT ![es[j.at]] = Common(@, w.res)]
           res == Combined(k, w.res)
           unmodified == res.st = "unspecified"
           more == IF sources[es[j.at]].uncond THEN Skipped(sources, es, j.at, unmodified) ELSE {}
       IN IF w.err
          THEN /\ job' = [job EXCEPT ![k].st = "done"]
               /\ ops' = w.ops
               /\ Error(k)
          ELSE IF more # {}
          THEN /\ job' = [job EXCEPT ![k].at = Max(more), ![k].res = res,
                             ![k].mode = IF unmodified THEN "normal" ELSE "validate"]
               /\ ops' = sources
               /\ UNCHANGED << fate, drs, left, state, phase, failed >>
          ELSE /\ ops' = sources
               /\ Perform(sources, k, IF Superseded(k) THEN [res EXCEPT !.st = "unspecified"]
                                      ELSE res)
    /\ UNCHANGED << store, clock, nops, chain, dels, plan, env >>

\* A request to the store fails.
StoreFails(k) ==
    /\ Committing /\ env.errors > 0
    /\ \/ job[k].st \in {"write", "verify"}
       \/ job[k].st = "ask" /\ NeedsStore(Entries(k), job[k].at, job[k].mode, job[k].bound)
    /\ env' = [env EXCEPT !.errors = @ - 1]
    /\ job' = [job EXCEPT ![k].st = "done"]
    /\ Error(k)
    /\ UNCHANGED << store, clock, ops, nops, chain, dels, plan >>

\* The store's test of if_equal.
IfEqual(k) == job[k].res.gen.base \in {NoBase, store[k].gen}

\* Controller::Retry.
Retry(k) ==
    IF ops[Last(Entries(k))].nonRetryable
    THEN /\ job' = [job EXCEPT ![k].st = "done"]
         /\ Error(k) /\ UNCHANGED ops
    ELSE /\ job' = [job EXCEPT ![k] = Asked(k, @.attempt + 1, Now(k) + 1)]
         /\ ops' = Restarted(Entries(k))
         /\ UNCHANGED << fate, drs, left, state, phase, failed >>

\* The conditional write of a dirty result.
WriteStore(k) ==
    /\ Committing /\ job[k].st = "write"
    /\ IF IfEqual(k)
       THEN /\ store' = [store EXCEPT ![k] =
                            [val |-> job[k].res.val,
                             gen |-> IF job[k].res.val = Missing THEN NoValue ELSE clock + 1]]
            /\ clock' = IF job[k].res.val = Missing THEN clock ELSE clock + 1
            /\ job' = [job EXCEPT ![k].st = "done"]
            /\ Success(ops, k, job[k].res.gen) /\ UNCHANGED ops
       ELSE Retry(k) /\ UNCHANGED << store, clock >>
    /\ UNCHANGED << nops, chain, dels, plan, env >>

\* The read that verifies a result from before the commit.
Verify(k) ==
    /\ Committing /\ job[k].st = "verify"
    /\ IF job[k].res.gen.base = store[k].gen
       THEN /\ job' = [job EXCEPT ![k].st = "done"]
            /\ Success(ops, k, job[k].res.gen) /\ UNCHANGED ops
       ELSE Retry(k)
    /\ UNCHANGED << store, clock, nops, chain, dels, plan, env >>

\* WritebackDirectly of a range.
DeleteStore(r) ==
    /\ Committing /\ drs[r].st = "delete"
    /\ drs' = [drs EXCEPT ![r].st = "done"]
    /\ \/ /\ store' = [k \in Key |-> IF k \in KeysOf(r) THEN [val |-> Missing, gen |-> NoValue]
                                     ELSE store[k]]
          /\ RangeDone(fate, r, FALSE, failed)
          /\ UNCHANGED env
       \/ /\ env.errors > 0
          /\ env' = [env EXCEPT !.errors = @ - 1]
          /\ RangeDone(fate, r, TRUE, TRUE)
          /\ UNCHANGED store
    /\ UNCHANGED << clock, ops, nops, chain, dels, plan, job >>

Finished == state \in {"committed", "aborted"} /\ UNCHANGED vars

Request ==
    \/ \E k \in 1 .. env.keys :
          \/ \E form \in {"write", "committed", "dropped"},
                cond \in {NoBase, NoValue, store[k].gen},
                val \in {<< nops + 1 >>, Missing} : Write(k, form, cond, val)
          \/ \E cached \in BOOLEAN : Modify(k, cached)
          \/ Read(k) \/ ReadAgain(k)
    \/ \E r \in KeyRange : r[2] <= env.keys /\ DeleteRange(r)
    \/ Barrier

Writeback ==
    \/ NextPhase \/ AllStarted
    \/ \E k \in Key : StartEntry(k) \/ Ask(k) \/ StoreFails(k) \/ WriteStore(k) \/ Verify(k)
    \/ \E r \in KeyRange : StartRange(r) \/ DeleteStore(r)

Next ==
    \/ Request \/ (\E k \in 1 .. env.keys : External(k)) \/ Commit \/ Abort
    \/ Writeback \/ Finished

Spec == Init /\ [][Next]_vars

-----------------------------------------------------------------------------
(* Properties.                                                              *)

Reports == {"none", "ok", "superseded", "mismatch", "error"}

TypeOK ==
    /\ state \in {"open", "committing", "between", "committed", "aborted"}
    /\ phase \in Phase /\ nops \in 0 .. MaxOps /\ failed \in BOOLEAN
    /\ chain \in [Phase -> [Key -> Seq(Op)]]
    /\ dels \in [Phase -> SUBSET KeyRange]
    /\ fate \in [Op -> [told : Nat, report : Reports, error : BOOLEAN]]
    /\ plan \in [keys : SUBSET Key, ranges : SUBSET KeyRange, count : BOOLEAN]
    /\ DOMAIN job = Key
    /\ \A k \in Key : /\ DOMAIN job[k] = DOMAIN Idle
                      /\ job[k].st \in {"idle", "ask", "write", "verify", "done"}
    /\ drs \in [KeyRange -> [st : {"idle", "delete", "done"}, n : Int, err : BOOLEAN]]
    /\ left \in [n : Int, err : BOOLEAN]
    /\ env \in [forms : SUBSET AllForms, keys : Key, phases : Phase, external : Nat, errors : Nat]

\* The reference: the operations of es, one after the other, on the value
\* that the store holds for k.  `clean`: no operation has changed it yet.  A
\* condition that does not hold must have been noticed, by failing or in the
\* result that the client waits for.
Sequential(es, found, sources) ==
    LET Start == [val |-> found.val, clean |-> TRUE, ok |-> TRUE, last |-> 0]
        Holds(s, o) ==
            \/ o.cond = NoBase
            \/ s.clean /\ found.gen = o.cond
            \/ o.cond = NoValue /\ s.val = Missing
        Step(s0, id) ==
            LET o == sources[id]
                s == IF o.prevDeleted THEN [s0 EXCEPT !.val = Missing, !.clean = FALSE, !.last = 0]
                     ELSE s0
            IN CASE o.kind = "write" /\ o.modified /\ Holds(s, o) ->
                       [s EXCEPT !.val = o.rr.val, !.clean = FALSE, !.last = id]
                 [] o.kind = "write" /\ ~(o.modified /\ Holds(s, o)) ->
                       [s EXCEPT !.ok = @ /\ (o.modified => ~o.fail /\ ~o.needed)]
                 [] o.kind = "modify" ->
                       [val |-> IF s.val = Missing THEN << id >> ELSE Append(s.val, id),
                        clean |-> FALSE, ok |-> s.ok, last |-> id]
                 [] o.kind = "read" ->
                       [s EXCEPT !.ok = @ /\ IF IsDirty(o.rr.gen) THEN s.val = o.rr.val
                                             ELSE s.clean /\ found.gen = o.rr.gen.base]
    IN FoldLeft(Step, Start, es)

\* The writeback of the chain of k ends, successfully, in this step.
Completes(k) ==
    /\ job[k].st \in {"ask", "write", "verify"} /\ job'[k].st = "done"
    /\ ~fate'[Last(Entries(k))].error

\* The chains of k that the code does not write back in order (transaction.cc
\* 1431, 1166 and 2095; SomeKeyIsInOrder shows what becomes of them): an entry
\* reads a value written by its own transaction; an entry whose condition cannot
\* hold after the deletion that it follows is written over; a cache's node has
\* read what another operation assumes.
ReadsOwnWrite(k) == \E i \in DOMAIN Entries(k) : i > 1 /\ ops[Entries(k)[i]].kind = "read"

OverwritesDeleted(k) ==
    \E i \in DOMAIN Entries(k) :
        /\ ops[Entries(k)[i]].prevDeleted /\ ops[Entries(k)[i]].cond \notin {NoBase, NoValue}
        /\ i < Len(Entries(k)) \/ Superseded(k)

ReadsAssumed(k) == \E o \in ToSet(Entries(k)) : ops[o].assumed

Disordered(k) == ReadsOwnWrite(k) \/ OverwritesDeleted(k) \/ ReadsAssumed(k)

\* A chain that completes, and is not Disordered, has the effect of its
\* operations, executed one after the other on the value that the store holds at
\* that moment, all their conditions satisfied: entries that are written over
\* still have their conditions and reads validated, whatever others write in
\* between, and a chain that a deleted range supersedes writes nothing.  For the
\* Disordered chains this fails.
WritebackIsSequential ==
    [][\A k \in Key : Completes(k) /\ ~Disordered(k) =>
          LET ref == Sequential(Entries(k), store[k], ops')
          IN /\ ref.ok
             /\ store'[k].val = IF Superseded(k) THEN store[k].val ELSE ref.val]_vars

\* At least one key is left by a commit as its operations in their order leave
\* it, all their conditions satisfied, in a transaction of one phase whose keys
\* nobody else writes.  The comments on the validation of superseded entries
\* (transaction.cc:614-617), on conditions assumed until the commit (2102-2103)
\* and on a node that leaves the value unchanged (read_modify_write.h:99-104) say
\* this of every key.  A commit that leaves no key so has broken all three: it
\* can have one chain of each kind of Disordered.
SomeKeyIsInOrder ==
    state = "committed" /\ MaxPhase = 0 /\ env.external = 0 =>
        \E k \in Key : LET ref == Sequential(chain[0][k], Found(k), ops)
                       IN ref.ok /\ store[k].val = ref.val

\* What the future of a write says is true of the store, for the chains that are
\* not Disordered: a generation is given
\* to the write whose value is now in the store and to no other, except to an
\* unconditional deletion when the key has ended up deleted; a write said to be
\* superseded was written over in its own transaction; a mismatch is reported
\* when the condition did not hold.
ReportsAreTrue ==
    [][/\ \A k \in Key : Completes(k) /\ ~Superseded(k) /\ ~Disordered(k) =>
             \A o \in ToSet(Entries(k)) : ops[o].kind = "write" =>
                LET ref == Sequential(Entries(k), store[k], ops')
                    deletion == MutationId(o, ops[o].cond, ops[o].rr.val) = Deletion
                IN /\ ref.last = o => fate'[o].report = "ok"
                   /\ fate'[o].report = "ok" => ref.last = o \/ (deletion /\ ref.val = Missing)
       /\ \A o \in Op : (/\ ops[o].kind = "write" /\ ops[o].modified /\ ~ops'[o].modified
                       /\ ~Disordered(ops[o].key)') =>
             LET es == Entries(ops[o].key)
                 before == SubSeq(es, 1, (CHOOSE i \in DOMAIN es : es[i] = o))
             IN Sequential(before, store[ops[o].key], ops).last # o]_vars

\* A range is deleted from the store only after every chain that it supersedes
\* has been validated, and not at all if one of them failed.
DeletedAfterValidation ==
    [][\A r \in KeyRange : drs[r].st = "idle" /\ drs'[r].st = "delete" =>
          \A k \in ChainsIn(r) : job'[k].st = "done" /\ ~fate'[Last(Entries(k))].error]_vars

\* Every source is told exactly once how its operation ended, however the
\* entries of its chain, of its range and of its phase succeed and fail.
ToldOnce ==
    /\ \A o \in Op : fate[o].told <= 1
    /\ state \in {"committed", "aborted"} =>
          \A p \in Phase, k \in Key : \A o \in ToSet(chain[p][k]) : fate[o].told = 1

\* PhaseCommitDone destroys the entries of the phase: it is called when all of
\* them have been started and are done, and then always.
PhaseDoneWhenEntriesAre ==
    LET done == /\ plan = NoPlan
                /\ \A k \in Key : job[k].st \in {"idle", "done"}
                /\ \A r \in KeyRange : drs[r].st # "delete"
    IN /\ state \in {"between", "committed", "aborted"} => done
       /\ state = "committing" => ~done

\* The assertions of SequenceWritebackReceiverImpl and of PerformWriteback: a
\* result to which a condition is added is unconditional, and a dirty result
\* has a value.
AssertionsHold ==
    \A k \in Key :
        /\ job[k].st = "ask" /\ job[k].at < Len(Entries(k)) => ~IsConditional(job[k].res.gen)
        /\ job[k].st = "write" => job[k].res.st # "unspecified"

=============================================================================
