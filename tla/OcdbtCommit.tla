---------------------------- MODULE OcdbtCommit ----------------------------
(***************************************************************************)
(* The non-distributed OCDBT writer: several processes, each with one      *)
(* NonDistributedBtreeWriter, commit batches of key-value requests to one  *)
(* manifest (btree_writer.cc, staged_mutations.cc,                         *)
(* btree_writer_commit_operation.{h,cc}, manifest_cache.cc).               *)
(*                                                                         *)
(*  - A manifest is identified by its generation number; generation 0 is   *)
(*    "no manifest".  `history` holds every manifest ever stored, in order:*)
(*    the single manifest file is only ever replaced by a write            *)
(*    conditional on its previous content.                                 *)
(*  - A time is abstracted to the generation that was stored at that time. *)
(*    A cached manifest with time t >= bound is then one whose generation  *)
(*    is >= the bound's.                                                   *)
(*  - A stored value is the number of the request that wrote it, which is  *)
(*    also its storage generation (its reference in a data file).          *)
(*  - The B+tree is the function from keys to values it represents; the    *)
(*    data a manifest refers to is the set of items written to data files. *)
(***************************************************************************)
EXTENDS Integers, Sequences, SequencesExt, Functions, TLC

CONSTANTS
    Writer,         \* processes, each with its own writer and manifest cache
    Assumed,        \* the writers opened with an assumed configuration
    Key,            \* keys
    MaxRequest,     \* bound: requests made
    Writes,         \* the writes callers make: key, if_equal, delete or not
    Ranges,         \* the key ranges that DeleteRange is called with
    MaxFault        \* bound: faults of a process and errors of the kvstore

Request == 1 .. MaxRequest

\* StorageGeneration values other than those of stored values (requests).
NoValue == 0
Unspecified == -1
Unknown == -2

ASSUME ConstantsAssumption ==
    /\ Assumed \subseteq Writer
    /\ MaxRequest \in Nat /\ MaxFault \in Nat
    /\ Writes \subseteq [key : Key, cond : {Unspecified, NoValue} \cup Request, delete : BOOLEAN]
    /\ Ranges \subseteq SUBSET Key

\* What the future of a request holds: nothing yet, an error, nothing ever because
\* its process crashed, or a value.
Waiting == << "waiting" >>
Failed == << "failed" >>
Lost == << "lost" >>
Ready(value) == << "ready", value >>

RangeDone == -3     \* the value of delete_range_promise, OK

NoManifest == -1    \* a manifest cache that was never read

NoNext == [same |-> TRUE, tree |-> [k \in Key |-> NoValue], data |-> {}]

VARIABLES
    history,        \* manifests stored so far; the index is the generation
    durable,        \* data items present in data files
    op,             \* the requests made so far, in order
    answer,         \* [Request -> what the caller's future holds]
    generation,     \* [Request -> generation in the promise, not yet ready]
    pending,        \* [Writer -> PendingRequests::requests]
    phase,          \* [Writer -> what its commit operation waits for]
    staged,         \* [Writer -> [Key -> staged mutations of the key]]
    batch,          \* [Writer -> requests merged into staged_, in order]
    existing,       \* [Writer -> generation of existing_manifest_]
    bound,          \* [Writer -> staleness_bound_]
    next,           \* [Writer -> new_manifest_, or Same]
    unflushed,      \* [Writer -> items linked to flush_promise_]
    cache,          \* [Writer -> generation in the manifest cache]
    config,         \* [Writer -> whether the configuration is known]
    commits,        \* history variable: successful TryUpdateManifest calls
    faults          \* faults and errors so far

vars == << history, durable, op, answer, generation, pending, phase, staged, batch,
           existing, bound, next, unflushed, cache, config, commits, faults >>

-----------------------------------------------------------------------------
(* Staged mutations.  For each key, the tree of staged mutations holds at   *)
(* most one entry: a write, with the chain of writes it supersedes, or a    *)
(* DeleteRange entry covering the key, with the writes of the key that it   *)
(* superseded.  Splitting and joining ranges leaves this unchanged for      *)
(* every other key.                                                         *)

NoneStaged == [k \in Key |-> [kind |-> "none", chain |-> << >>]]

\* A slip: the deletion between two staged writes of a key is forgotten.
InsertWriteEntryUntagged(s, r) ==
    [s EXCEPT ![op[r].key] = [kind |-> "write",
                              chain |-> Append(@.chain, [req |-> r, tag |-> FALSE])]]

\* InsertWriteEntry.  The tag is set only when the DeleteRange entry that is
\* split holds a superseded write of the key (split_result.center).
InsertWriteEntry(s, r) ==
    [s EXCEPT ![op[r].key] =
        [kind |-> "write",
         chain |-> Append(@.chain,
                          [req |-> r, tag |-> @.kind = "range" /\ @.chain # << >>])]]

\* InsertDeleteRangeEntry.
InsertDeleteRangeEntry(s, r) ==
    [k \in Key |-> IF k \in op[r].keys THEN [s[k] EXCEPT !.kind = "range"] ELSE s[k]]

\* StageMutations: merges the pending requests, in order, into staged_.
StageMutations(s, requests) ==
    FoldLeft(LAMBDA acc, r : IF op[r].kind = "write" THEN InsertWriteEntry(acc, r)
                             ELSE InsertDeleteRangeEntry(acc, r),
             s, requests)

-----------------------------------------------------------------------------
(* Applying staged mutations to the existing tree.                          *)

\* The generation a write leaves behind when its condition is met.
Written(r) == IF op[r].delete THEN NoValue ELSE r

\* StorageGeneration::EqualOrUnspecified.
EqualOrUnspecified(g, condition) == condition \in {Unspecified, g}

\* The start of a chain: std::nullopt, "the existing value should be retained".
ChainStart(g) == [gen |-> g, retain |-> TRUE, results |-> << >>]

\* One iteration of the loop of ApplyWriteEntryChain, oldest write first.
ApplyLink(acc, link) ==
    LET seen == IF link.tag THEN [acc EXCEPT !.gen = NoValue, !.retain = FALSE] ELSE acc
    IN  IF EqualOrUnspecified(seen.gen, op[link.req].cond)
        THEN [gen |-> Written(link.req), retain |-> FALSE,
              results |-> (link.req :> Written(link.req)) @@ seen.results]
        ELSE [seen EXCEPT !.results = (link.req :> Unknown) @@ @]

ApplyWriteEntryChain(g, chain) == FoldLeft(ApplyLink, ChainStart(g), chain)

\* Generation 0 is the missing manifest, with the empty tree.
Tree(g) == IF g = 0 THEN [k \in Key |-> NoValue] ELSE history[g].tree

Data(g) == IF g = 0 THEN {} ELSE history[g].data

\* VisitLeafNode, for every key: ValidateSupersededWriteEntries for a
\* DeleteRange entry, ApplyWriteEntryChain for a write entry.
Applied(tree, s) == [k \in Key |-> ApplyWriteEntryChain(tree[k], s[k].chain)]

NewTree(tree, s) ==
    [k \in Key |-> IF s[k].kind = "range" THEN NoValue
                   ELSE IF s[k].kind = "none" \/ Applied(tree, s)[k].retain THEN tree[k]
                   ELSE Applied(tree, s)[k].gen]

\* Whether some node was modified: a write whose condition was met, even by the
\* value that was there, or a range that held a value.
Modified(tree, s) ==
    \E k \in Key : \/ s[k].kind = "write" /\ ~ Applied(tree, s)[k].retain
                   \/ s[k].kind = "range" /\ tree[k] # NoValue

-----------------------------------------------------------------------------
(* Requests.                                                                *)

\* MaybeStart: a commit starts unless one is in progress.
MaybeStart(w, requests) ==
    IF phase[w] = "idle" /\ requests # << >>
    THEN phase' = [phase EXCEPT ![w] = IF config[w] THEN "read" ELSE "ensure"]
    ELSE UNCHANGED phase

Enqueue(w, request) ==
    /\ Len(op) < MaxRequest
    /\ op' = Append(op, request)
    /\ pending' = [pending EXCEPT ![w] = Append(@, Len(op) + 1)]
    /\ MaybeStart(w, pending'[w])
    /\ UNCHANGED << history, durable, answer, generation, staged, batch, existing, bound,
                    next, unflushed, cache, config, commits, faults >>

\* NonDistributedBtreeWriter::Write.  A caller can only name generations it has
\* seen, those of earlier requests.
Write(w) ==
    \E e \in Writes :
        /\ e.cond <= Len(op)
        /\ Enqueue(w, [kind |-> "write", key |-> e.key, cond |-> e.cond, delete |-> e.delete])

\* NonDistributedBtreeWriter::DeleteRange.
DeleteRange(w) == \E keys \in Ranges : Enqueue(w, [kind |-> "range", keys |-> keys])

-----------------------------------------------------------------------------
(* The commit operation.                                                    *)

\* GetManifest(b): the cached manifest if it is recent enough, else the stored
\* one.  The result is what the cache then holds.
GetManifest(w, b) ==
    IF cache[w] # NoManifest /\ cache[w] >= b THEN cache[w] ELSE Len(history)

\* Seeing a manifest makes its configuration known.
Observe(w, g) ==
    /\ cache' = [cache EXCEPT ![w] = g]
    /\ config' = [config EXCEPT ![w] = @ \/ g > 0]

\* EnsureExistingManifest, while the configuration is unknown: reads whatever is
\* there, and when nothing is ...
EnsureExistingManifest(w) ==
    LET g == GetManifest(w, 0)
    IN  /\ phase[w] = "ensure"
        /\ Observe(w, g)
        /\ phase' = [phase EXCEPT ![w] = IF g > 0 THEN "read" ELSE "create"]
        /\ bound' = [bound EXCEPT ![w] = IF g > @ THEN g ELSE @]
        /\ UNCHANGED << history, durable, op, answer, generation, pending, staged, batch,
                        existing, next, unflushed, commits, faults >>

\* ... writes a first manifest, empty, conditional on there being none.  Whether
\* or not that succeeds, the manifest is then read as of the time of the answer.
CreateInitialManifest(w) ==
    /\ phase[w] = "create"
    /\ IF history = << >>
       THEN /\ history' = << [tree |-> Tree(0), data |-> {}] >>
            /\ Observe(w, 1)
       ELSE UNCHANGED << history, cache, config >>
    /\ bound' = [bound EXCEPT ![w] = Len(history')]
    /\ phase' = [phase EXCEPT ![w] = "read"]
    /\ UNCHANGED << durable, op, answer, generation, pending, staged, batch, existing,
                    next, unflushed, commits, faults >>

\* ReadManifest, once the configuration is known.
ReadManifest(w) ==
    LET g == GetManifest(w, bound[w])
    IN  /\ phase[w] = "read"
        /\ Observe(w, g)
        /\ existing' = [existing EXCEPT ![w] = g]
        /\ bound' = [bound EXCEPT ![w] = g]
        /\ phase' = [phase EXCEPT ![w] = "stage"]
        /\ UNCHANGED << history, durable, op, answer, generation, pending, staged, batch,
                        next, unflushed, commits, faults >>

\* The data item of a new tree: it is written for this batch and this base.
Node(w, requests) == << w, existing[w], requests >>

\* The data items of the values that requests write.
Values(requests) ==
    {<< r >> : r \in {q \in Range(requests) : op[q].kind = "write" /\ ~ op[q].delete}}

\* StagePending, TraverseBtreeStartingFromRoot and, if a node was modified or
\* there is no manifest yet, CreateNewManifest.  Each attempt overwrites the
\* generations that the previous one left in the promises.
StageAndApply(w) ==
    LET s == StageMutations(staged[w], pending[w])
        requests == batch[w] \o pending[w]
        old == Tree(existing[w])
        same == existing[w] > 0 /\ ~ Modified(old, s)
    IN  /\ phase[w] = "stage"
        /\ staged' = [staged EXCEPT ![w] = s]
        /\ batch' = [batch EXCEPT ![w] = requests]
        /\ pending' = [pending EXCEPT ![w] = << >>]
        /\ generation' = [r \in Request |->
                            IF r \in Range(requests) /\ op[r].kind = "write"
                            THEN Applied(old, s)[op[r].key].results[r] ELSE generation[r]]
        /\ next' = [next EXCEPT ![w] =
                      [same |-> same, tree |-> NewTree(old, s),
                       data |-> Data(existing[w]) \cup Values(requests)
                                \cup (IF same THEN {} ELSE {Node(w, requests)})]]
        /\ unflushed' = [unflushed EXCEPT ![w] =
                           @ \cup Values(pending[w])
                             \cup (IF same THEN {} ELSE {Node(w, requests)})]
        /\ phase' = [phase EXCEPT ![w] = "flush"]
        /\ UNCHANGED << history, durable, op, answer, existing, bound, cache, config,
                        commits, faults >>

\* A slip: the manifest is written without waiting for the flush.
NewManifestReadyEarly(w) ==
    /\ phase[w] = "flush"
    /\ phase' = [phase EXCEPT ![w] = "update"]
    /\ UNCHANGED << history, durable, op, answer, generation, pending, staged, batch,
                    existing, bound, next, unflushed, cache, config, commits, faults >>

\* NewManifestReady: everything linked to flush_promise_ has been written to
\* data files before the traversal's promise becomes ready.
NewManifestReady(w) ==
    /\ phase[w] = "flush"
    /\ durable' = durable \cup unflushed[w]
    /\ unflushed' = [unflushed EXCEPT ![w] = {}]
    /\ phase' = [phase EXCEPT ![w] = "update"]
    /\ UNCHANGED << history, op, answer, generation, pending, staged, batch, existing,
                    bound, next, cache, config, commits, faults >>

\* WriteNewManifest was answered success = false: Retry, with a manifest at
\* least as recent as the time t of that answer.
Retry(w, t) ==
    /\ bound' = [bound EXCEPT ![w] = t]
    /\ phase' = [phase EXCEPT ![w] = "read"]
    /\ UNCHANGED << history, durable, op, answer, generation, pending, staged, batch,
                    existing, next, unflushed, config, commits, faults >>

\* A slip: requests that arrived during the commit are answered with it.
ResultsWithPending(w) ==
    [r \in Range(batch[w]) \cup Range(pending[w]) |->
        IF op[r].kind = "write" THEN generation[r] ELSE RangeDone]

\* What the promises of the batch would now be answered with.
Results(w) == [r \in Range(batch[w]) |-> IF op[r].kind = "write" THEN generation[r] ELSE RangeDone]

\* WriteNewManifest was answered success = true, not yet handled.
Committed(w, g) ==
    /\ phase' = [phase EXCEPT ![w] = "commit"]
    /\ commits' = Append(commits, [gen |-> g, changed |-> ~ next[w].same, batch |-> batch[w],
                                   results |-> Results(w)])
    /\ UNCHANGED << durable, op, answer, generation, pending, staged, batch, existing,
                    bound, next, unflushed, config, faults >>

\* TryUpdateManifestOp::Start with old_manifest == new_manifest: the commit
\* succeeds if the stored manifest is still the one that was read.
ConfirmUnchanged(w) ==
    /\ phase[w] = "update" /\ next[w].same
    /\ cache' = [cache EXCEPT ![w] = Len(history)]
    /\ IF Len(history) = existing[w]
       THEN Committed(w, existing[w]) /\ UNCHANGED history
       ELSE Retry(w, Len(history))

\* ManifestCache::TransactionNode::Commit when the cache no longer holds the old
\* manifest: fails, from the cached manifest or from the one read instead.
AbortFromCache(w) ==
    /\ phase[w] = "update" /\ ~ next[w].same /\ cache[w] # existing[w]
    /\ \E t \in {cache[w], Len(history)} :
         /\ cache' = [cache EXCEPT ![w] = t]
         /\ Retry(w, t)

\* The condition if_equal of the write of the manifest, checked by the kvstore.
SameGeneration(w) == Len(history) = existing[w]

\* The conditional write of the manifest: it succeeds, or another process has
\* replaced the manifest in the meantime.
WriteManifest(w) ==
    /\ phase[w] = "update" /\ ~ next[w].same /\ cache[w] = existing[w]
    /\ IF SameGeneration(w)
       THEN /\ history' = Append(history, [tree |-> next[w].tree, data |-> next[w].data])
            /\ cache' = [cache EXCEPT ![w] = Len(history')]
            /\ Committed(w, Len(history'))
       ELSE Retry(w, Len(history)) /\ UNCHANGED cache

\* The commit operation is deleted, and with it the entries of its requests.
Reset(w) ==
    /\ generation' = [r \in Request |-> IF r \in Range(batch[w]) THEN Unknown ELSE generation[r]]
    /\ staged' = [staged EXCEPT ![w] = NoneStaged]
    /\ batch' = [batch EXCEPT ![w] = << >>]
    /\ existing' = [existing EXCEPT ![w] = 0]
    /\ bound' = [bound EXCEPT ![w] = 0]
    /\ next' = [next EXCEPT ![w] = NoNext]
    /\ unflushed' = [unflushed EXCEPT ![w] = {}]

\* A slip: requests made during the commit wait for the next one.
RestartNever(w) == phase' = [phase EXCEPT ![w] = "idle"]

\* commit_in_progress_ = false, then MaybeStart if requests are pending.
Restart(w) ==
    phase' = [phase EXCEPT ![w] = IF pending[w] = << >> THEN "idle"
                                  ELSE IF config[w] THEN "read" ELSE "ensure"]

\* CommitSuccessful: every staged request is answered.
CommitSuccessful(w) ==
    /\ phase[w] = "commit"
    /\ answer' = [r \in Request |-> IF r \in DOMAIN Results(w) THEN Ready(Results(w)[r])
                                    ELSE answer[r]]
    /\ Restart(w)
    /\ Reset(w)
    /\ UNCHANGED << history, durable, op, pending, cache, config, commits, faults >>

\* Fail: the staged requests and all pending ones are answered with the error.
Fail(w) ==
    /\ answer' = [r \in Request |-> IF r \in Range(batch[w] \o pending[w]) THEN Failed
                                    ELSE answer[r]]
    /\ pending' = [pending EXCEPT ![w] = << >>]
    /\ phase' = [phase EXCEPT ![w] = "idle"]
    /\ faults < MaxFault /\ faults' = faults + 1
    /\ Reset(w)
    /\ UNCHANGED << durable, op, cache, config >>

\* A read or write of the underlying kvstore fails.
StoreError(w) ==
    /\ phase[w] \in {"ensure", "create", "read", "stage", "flush", "update"}
    /\ Fail(w)
    /\ UNCHANGED << history, commits >>

\* The write of the manifest is carried out, but answered with an error.
WriteManifestUnconfirmed(w) ==
    /\ phase[w] = "update" /\ ~ next[w].same /\ cache[w] = existing[w]
    /\ SameGeneration(w)
    /\ history' = Append(history, [tree |-> next[w].tree, data |-> next[w].data])
    /\ commits' = Append(commits, [gen |-> Len(history'), changed |-> TRUE,
                                   batch |-> batch[w], results |-> Results(w)])
    /\ Fail(w)

\* A reader of the same process refreshes the shared manifest cache.
RefreshCache(w) ==
    /\ cache[w] # Len(history)
    /\ Observe(w, Len(history))
    /\ UNCHANGED << history, durable, op, answer, generation, pending, phase, staged, batch,
                    existing, bound, next, unflushed, commits, faults >>

\* The process dies and is started again: all that was in memory is gone.
Crash(w) ==
    /\ faults < MaxFault /\ phase[w] # "idle"
    /\ faults' = faults + 1
    /\ answer' = [r \in Request |-> IF r \in Range(batch[w] \o pending[w]) THEN Lost
                                    ELSE answer[r]]
    /\ pending' = [pending EXCEPT ![w] = << >>]
    /\ phase' = [phase EXCEPT ![w] = "idle"]
    /\ cache' = [cache EXCEPT ![w] = NoManifest]
    /\ config' = [config EXCEPT ![w] = w \in Assumed]
    /\ Reset(w)
    /\ UNCHANGED << history, durable, op, commits >>

-----------------------------------------------------------------------------
Init ==
    /\ history = << >>
    /\ durable = {}
    /\ op = << >>
    /\ answer = [r \in Request |-> Waiting]
    /\ generation = [r \in Request |-> Unknown]
    /\ pending = [w \in Writer |-> << >>]
    /\ phase = [w \in Writer |-> "idle"]
    /\ staged = [w \in Writer |-> NoneStaged]
    /\ batch = [w \in Writer |-> << >>]
    /\ existing = [w \in Writer |-> 0]
    /\ bound = [w \in Writer |-> 0]
    /\ next = [w \in Writer |-> NoNext]
    /\ unflushed = [w \in Writer |-> {}]
    /\ cache = [w \in Writer |-> NoManifest]
    /\ config = [w \in Writer |-> w \in Assumed]
    /\ commits = << >>
    /\ faults = 0

\* The steps of a commit operation that the executor and the kvstore carry out.
CommitStep(w) ==
    \/ EnsureExistingManifest(w)
    \/ CreateInitialManifest(w)
    \/ ReadManifest(w)
    \/ StageAndApply(w)
    \/ NewManifestReady(w)
    \/ ConfirmUnchanged(w)
    \/ AbortFromCache(w)
    \/ WriteManifest(w)
    \/ CommitSuccessful(w)

WriterStep(w) ==
    \/ Write(w)
    \/ DeleteRange(w)
    \/ CommitStep(w)
    \/ StoreError(w)
    \/ WriteManifestUnconfirmed(w)
    \/ RefreshCache(w)
    \/ Crash(w)

Next == \E w \in Writer : WriterStep(w)

Spec == Init /\ [][Next]_vars

-----------------------------------------------------------------------------
(* Properties.                                                              *)

Generations == {Unknown, NoValue} \cup Request

Operation ==
    [kind : {"write"}, key : Key, cond : {Unspecified, NoValue} \cup Request,
     delete : BOOLEAN] \cup [kind : {"range"}, keys : Ranges]

Items == Seq(Request) \cup (Writer \X Nat \X Seq(Request))

\* The values the state of the writers and of the store ranges over.
TypeOK ==
    /\ history \in Seq([tree : [Key -> {NoValue} \cup Request], data : SUBSET Items])
    /\ durable \in SUBSET Items
    /\ op \in Seq(Operation) /\ Len(op) <= MaxRequest
    /\ answer \in [Request -> {Waiting, Failed, Lost}
                                \cup {Ready(g) : g \in Generations \cup {RangeDone}}]
    /\ generation \in [Request -> Generations]
    /\ pending \in [Writer -> Seq(Request)]
    /\ phase \in [Writer -> {"idle", "ensure", "create", "read", "stage", "flush", "update",
                             "commit"}]
    /\ staged \in [Writer -> [Key -> [kind : {"none", "write", "range"},
                                      chain : Seq([req : Request, tag : BOOLEAN])]]]
    /\ batch \in [Writer -> Seq(Request)]
    /\ existing \in [Writer -> Nat]
    /\ bound \in [Writer -> Nat]
    /\ next \in [Writer -> [same : BOOLEAN, tree : [Key -> {NoValue} \cup Request],
                            data : SUBSET Items]]
    /\ unflushed \in [Writer -> SUBSET Items]
    /\ cache \in [Writer -> Nat \cup {NoManifest}]
    /\ config \in [Writer -> BOOLEAN]
    /\ commits \in Seq([gen : Nat, changed : BOOLEAN, batch : Seq(Request),
                        results : UNION {[R -> Generations \cup {RangeDone}] :
                                           R \in SUBSET Request}])
    /\ faults \in 0 .. MaxFault

\* The reference: one request after the other, each on what the last one left.
Perform(acc, r) ==
    IF op[r].kind = "range"
    THEN [acc EXCEPT !.tree = [k \in Key |-> IF k \in op[r].keys THEN NoValue ELSE @[k]]]
    ELSE IF EqualOrUnspecified(acc.tree[op[r].key], op[r].cond)
    THEN [tree |-> [acc.tree EXCEPT ![op[r].key] = Written(r)],
          results |-> [acc.results EXCEPT ![r] = Written(r)]]
    ELSE [acc EXCEPT !.results[r] = Unknown]

\* A commit does to the manifest it replaced, and answers its requests, what the
\* requests would in the order they were made.
Sequential(c) ==
    FoldLeft(Perform, [tree |-> Tree(IF c.changed THEN c.gen - 1 ELSE c.gen),
                       results |-> c.results], c.batch)
        = [tree |-> Tree(c.gen), results |-> c.results]

\* A conditional write of a key that the batch deletes with DeleteRange, and
\* writes nowhere before: the staged mutations forget that deletion.
Forgets(c) ==
    \E i, j \in DOMAIN c.batch :
        LET r == c.batch[i]  d == c.batch[j]
        IN  /\ j < i /\ op[d].kind = "range"
            /\ op[r].kind = "write" /\ op[r].key \in op[d].keys
            /\ op[r].cond # Unspecified
            /\ \A h \in 1 .. i - 1 : ~ (op[c.batch[h]].kind = "write"
                                         /\ op[c.batch[h]].key = op[r].key)

\* StageMutations and ApplyWriteEntryChain over any number of retries: every
\* commit is its requests carried out one by one on the manifest it replaced,
\* except the commits that forget a deletion.
BatchesAreSequential == \A i \in DOMAIN commits : Forgets(commits[i]) \/ Sequential(commits[i])

\* The same without exception.
EveryBatchIsSequential == \A i \in DOMAIN commits : Sequential(commits[i])

\* CommitSuccessful: retries never apply a request twice, and a caller that is
\* answered had its request applied, with exactly the result it was told.
AppliedExactlyOnce ==
    /\ \A i \in DOMAIN commits : IsInjective(commits[i].batch)
    /\ \A i, j \in DOMAIN commits :
         i # j => Range(commits[i].batch) \cap Range(commits[j].batch) = {}
    /\ \A r \in Request : answer[r] \notin {Waiting, Failed, Lost} =>
         \E i \in DOMAIN commits :
            /\ r \in Range(commits[i].batch)
            /\ answer[r] = Ready(commits[i].results[r])

\* NewManifestReady before WriteNewManifest: whatever fails or crashes, every
\* manifest in the store refers only to data that is in data files.
ManifestDataDurable == \A g \in DOMAIN history : history[g].data \subseteq durable

\* MaybeStart, CommitSuccessful and Fail: a request that is not answered is held
\* by a commit operation in progress, or is waiting for the one in progress.
NoRequestForgotten ==
    \A r \in DOMAIN op : answer[r] = Waiting =>
        \E w \in Writer : phase[w] # "idle" /\ r \in Range(batch[w]) \cup Range(pending[w])

=============================================================================
