------------------------------ MODULE AsyncCache ------------------------------
(***************************************************************************)
(* Entries of an AsyncCache (internal/cache/async_cache.cc) shared by      *)
(* readers and by transactions that write them back.  Each entry has its   *)
(* read request state (the cached read state, the issued read and the      *)
(* queued read) and its queue of transaction nodes waiting for writeback.  *)
(*                                                                         *)
(* Every step is one critical section of an entry's mutex, or one of the   *)
(* calls that the code makes after releasing it: DoRead, PrepareDone,      *)
(* ReadyForCommit, CommitDone, and setting the result of a promise.  The   *)
(* calls a thread still has to make are its `work`.                        *)
(*                                                                         *)
(* The transactions follow TransactionCommit, with a single phase: nodes   *)
(* are prepared in tree order, the next one after PrepareDone of the       *)
(* previous one, and committed together once all are ready.  The kvstore   *)
(* below (reads and writebacks in flight) answers at any time, from any    *)
(* thread.                                                                 *)
(***************************************************************************)
EXTENDS Integers, Sequences, FiniteSets, SequencesExt

CONSTANTS
  Thread,       \* threads that read, commit, or deliver answers
  Reader,       \* each makes one read request
  Transaction,  \* transactions of one phase
  Entry,        \* entries, ordered by address: the order of a transaction's tree
  Copies,       \* nodes a transaction can have on an entry (revoked and current)
  Markable,     \* entries whose owner calls MarkStale (zip directory entries)
  Outcome,      \* what KvsWritebackSuccess can report, see WritebackSuccess
  MaxTime       \* bound on the clock

ASSUME AsyncCacheAssumption ==
  /\ Entry \subseteq Nat /\ IsFiniteSet(Entry) /\ Entry # {} /\ Markable \subseteq Entry
  /\ Copies \in Nat /\ MaxTime \in Nat \ {0}
  /\ Outcome \subseteq {"cached", "unmodified", "unspecified"}

Node == [txn : Transaction, entry : Entry, copy : 1 .. Copies]

VARIABLES
  now,             \* absl::Now(); time 0 is InfinitePast
  request,         \* per entry: read_request_state_
  reading,         \* per entry: DoRead has been called and has not answered
  queue,           \* per entry: the nodes from committing_transaction_node_ on
  prepare_state,   \* per node: prepare_for_commit_state_
  called,          \* per node: calls made on or by it so far
  pending,         \* per transaction: nodes_pending_commit_
  waiting,         \* per transaction: waiting_for_prepare_done_
  reader,          \* per reader: where its request is
  work             \* per thread: calls still to be made

cache == <<request, reading, queue, prepare_state>>
transactions == <<called, pending, waiting>>
vars == <<now, cache, transactions, reader, work>>

Time == 0 .. MaxTime
RequestState ==
  [issued : BOOLEAN, issued_time : Time,
   queued : BOOLEAN, queued_time : Time,
   deferred : BOOLEAN,   \* queued_request_is_deferred
   time : Time,          \* read_state.stamp.time
   stale : BOOLEAN]      \* known_to_be_stale

PrepareState == {"kNone", "kPrepareDoneCalled", "kReadyForCommitCalled"}

NodeCall == {"Register", "RequestCommit", "PrepareForCommit", "PrepareDone",
             "ReadyForCommit", "Commit", "Writeback", "CommitDone"}

Operation == {"Loop", "DoRead", "SetResult", "PrepareForCommit", "PrepareReturned",
              "PrepareDone", "EndOfPhase", "ReadyForCommit", "CommitDone"}

\* Reader: what its future hangs on, and the time its data must not be older than.
\* "ok" and "assumed" are the same to the reader: a promise that is set, but on
\* the word of a writeback that did not say what the entry holds.
Promise == {"none", "issued", "queued", "taken", "ok", "assumed", "error", "dropped"}

Earlier(a, b) == IF a < b THEN a ELSE b
Later(a, b) == IF a < b THEN b ELSE a

-----------------------------------------------------------------------------
(* Threads.                                                                *)

Idle(t) == work[t] = <<>>

At(t, op) == work[t] # <<>> /\ Head(work[t]).op = op

Arg(t) == Head(work[t]).arg

Item(op, arg) == <<[op |-> op, arg |-> arg]>>

If(condition, items) == IF condition THEN items ELSE <<>>

\* Work that t goes on with after the step it is making.
Rest(t) == IF Idle(t) THEN <<>> ELSE Tail(work[t])

Do(t, items) == work' = [work EXCEPT ![t] = items \o Rest(t)]

-----------------------------------------------------------------------------
(* Readers.                                                                *)

On(readers, e, promise) ==
  {r \in Reader : readers[r].entry = e /\ readers[r].on = promise}

Move(readers, who, promise) ==
  [r \in Reader |-> IF r \in who THEN [readers[r] EXCEPT !.on = promise]
                                 ELSE readers[r]]

\* The promise of a queued read is gone: its batch entry no longer matches it.
Unbatch(readers, e) ==
  [r \in Reader |-> IF readers[r].entry = e THEN [readers[r] EXCEPT !.batch = FALSE]
                                            ELSE readers[r]]

Resolution(who, result) ==
  If(who # {}, <<[op |-> "SetResult", arg |-> who, result |-> result]>>)

-----------------------------------------------------------------------------
(* MaybeStartReadOrWriteback.                                              *)

\* The list as a sequence, from committing_transaction_node_ on.
Position(q, n) == CHOOSE i \in 1 .. Len(q) : q[i] = n

\* GetNext in the circular list.
NextInQueue(q, n) == q[(Position(q, n) % Len(q)) + 1]

\* Remove from the list; the node after the head becomes the new head.
Unlink(q, n) == IF Contains(q, n) THEN RemoveAt(q, Position(q, n)) ELSE q

\* A slip: a read in flight does not delay the commit.
TurnIgnoringRead(t, e, c, q, s, after) ==
  /\ prepare_state' = [prepare_state EXCEPT ![c] = "kReadyForCommitCalled"]
  /\ Do(t, If(prepare_state[c] = "kNone", Item("PrepareDone", c))
             \o If(prepare_state[c] # "kReadyForCommitCalled",
                   Item("ReadyForCommit", c))
             \o after)

\* A slip: the new state is not stored before the lock is released.
TurnForgetting(t, e, c, q, s, after) ==
  /\ UNCHANGED prepare_state
  /\ Do(t, If(prepare_state[c] = "kNone", Item("PrepareDone", c))
             \o If(~s.issued, Item("ReadyForCommit", c)) \o after)

\* One turn of the loop, at node c, in the critical section of entry e with
\* queue q and request state s.
Turn(t, e, c, q, s, after) ==
  LET old == prepare_state[c]
      new == IF old # "kReadyForCommitCalled" /\ s.issued
               THEN "kPrepareDoneCalled" ELSE "kReadyForCommitCalled"
      next == NextInQueue(q, c)
      more == /\ next # c /\ next.txn = c.txn
              /\ prepare_state[next] # "kReadyForCommitCalled"
      return == s.issued /\ old # "kReadyForCommitCalled"
  IN  /\ prepare_state' = [prepare_state EXCEPT ![c] = new]
      /\ Do(t, If(old = "kNone", Item("PrepareDone", c))
                 \o If(old # "kReadyForCommitCalled" /\ ~return,
                       Item("ReadyForCommit", c))
                 \o If(more /\ ~return, Item("Loop", next))
                 \o after)

\* EntryOrNodeStartRead with the lock held; readers are those of the entry.
StartRead(t, e, s, readers, after) ==
  LET wanted == On(readers, e, "queued")
      none == [s EXCEPT !.queued = FALSE, !.queued_time = 0, !.deferred = TRUE]
  IN  \/ /\ s.deferred
         /\ request' = [request EXCEPT ![e] = s]
         /\ reader' = readers
         /\ Do(t, after)
      \/ /\ ~s.deferred /\ wanted = {}
         /\ request' = [request EXCEPT ![e] = none]
         /\ reader' = Unbatch(readers, e)
         /\ Do(t, after)
      \/ /\ ~s.deferred /\ wanted # {}
         /\ request' = [request EXCEPT ![e] =
              [none EXCEPT !.issued = TRUE, !.issued_time = s.queued_time]]
         /\ reader' = Unbatch(Move(readers, wanted, "issued"), e)
         /\ Do(t, Item("DoRead", e) \o after)

\* With the lock of e held and its state already updated to s, q and readers;
\* `after` is what the caller does when this call returns.
MaybeStartReadOrWriteback(t, e, s, q, readers, after) ==
  /\ queue' = [queue EXCEPT ![e] = q]
  /\ IF q # <<>>
       THEN /\ Turn(t, e, Head(q), q, s, after)
            /\ request' = [request EXCEPT ![e] = s]
            /\ reader' = readers
       ELSE /\ UNCHANGED prepare_state
            /\ IF s.issued
                 THEN /\ request' = [request EXCEPT ![e] = s]
                      /\ reader' = readers
                      /\ Do(t, after)
                 ELSE StartRead(t, e, s, readers, after)

\* The lock is taken again for the next node.  Nothing keeps that node in the
\* queue meanwhile; if it is gone, its state is already
\* kReadyForCommitCalled and, as long as its memory is intact, no call is made.
Loop(t) ==
  /\ At(t, "Loop")
  /\ LET c == Arg(t)
     IN  IF Contains(queue[c.entry], c)
           THEN Turn(t, c.entry, c, queue[c.entry], request[c.entry], <<>>)
           ELSE Do(t, <<>>) /\ UNCHANGED prepare_state
  /\ UNCHANGED <<now, request, reading, queue, transactions, reader>>

-----------------------------------------------------------------------------
(* Reading.                                                                *)

\* RequestRead on an entry: `bound` is the staleness bound, `strict` is
\* must_not_be_known_to_be_stale, `batch` whether the batch is deferred.
Read(t, r, e, bound, strict, batch) ==
  LET s == request[e]
      cached == s.time # 0 /\ s.time >= bound
      forced == cached /\ strict /\ s.stale
      limit == IF forced THEN s.time + 1 ELSE bound
      asked == [s EXCEPT !.queued_time = Later(@, Earlier(limit, now))]
      request_of(on, in_batch) ==
        [reader EXCEPT ![r] = [entry |-> e, on |-> on, batch |-> in_batch,
                               bound |-> Earlier(limit, now)]]
      fresh == ~s.queued \/ On(reader, e, "queued") = {}
      defer == batch /\ s.deferred
  IN  /\ Idle(t) /\ reader[r].on = "none"
      /\ \/ /\ cached /\ ~forced
            /\ reader' = request_of("ok", FALSE)
            /\ UNCHANGED <<request, queue, prepare_state, work>>
         \/ /\ ~cached \/ forced
            /\ s.issued /\ s.issued_time >= limit
            /\ reader' = request_of("issued", FALSE)
            /\ request' = [request EXCEPT ![e] = asked]
            /\ UNCHANGED <<queue, prepare_state, work>>
         \/ /\ ~cached \/ forced
            /\ ~(s.issued /\ s.issued_time >= limit)
            /\ LET before == IF fresh THEN Unbatch(reader, e) ELSE reader
                   mine == [entry |-> e, on |-> "queued", batch |-> defer,
                            bound |-> Earlier(limit, now)]
               IN  MaybeStartReadOrWriteback(t, e,
                     [asked EXCEPT !.queued = TRUE, !.deferred = defer],
                     queue[e], [before EXCEPT ![r] = mine], <<>>)
      /\ UNCHANGED <<now, reading, transactions>>

\* AsyncCacheBatchEntry::Submit of the batch of r.
Submit(t, r) ==
  /\ Idle(t)
  /\ reader[r].batch
  /\ LET e == reader[r].entry
     IN  MaybeStartReadOrWriteback(t, e, [request[e] EXCEPT !.deferred = FALSE],
           queue[e], [reader EXCEPT ![r].batch = FALSE], <<>>)
  /\ UNCHANGED <<now, reading, transactions>>

\* A reader drops its future: the promise is no longer needed on its account.
DropFuture(r) ==
  /\ reader[r].on \in {"issued", "queued"}
  /\ reader' = Move(reader, {r}, "dropped")
  /\ UNCHANGED <<now, cache, transactions, work>>

\* The call of DoRead, after the lock is released.
DoRead(t) ==
  /\ At(t, "DoRead")
  /\ reading' = [reading EXCEPT ![Arg(t)] = TRUE]
  /\ Do(t, <<>>)
  /\ UNCHANGED <<now, request, queue, prepare_state, transactions,
                 reader>>

\* A slip: the time of the new data is not looked at.
TakesQueuedAlways(s, time) == s.queued

\* QueuedReadHandler: a queued read that `time` satisfies is taken as well.
TakesQueued(s, time) == s.queued /\ time >= s.queued_time

Unqueued(s) == [s EXCEPT !.queued = FALSE, !.queued_time = 0, !.deferred = TRUE]

\* A slip: what waits for the read is not started.
ResolveIssuedReadQuietly(t, e, s, result) ==
  /\ request' = [request EXCEPT ![e] = [s EXCEPT !.issued = FALSE]]
  /\ reader' = Move(reader, On(reader, e, "issued"), "taken")
  /\ Do(t, Resolution(On(reader, e, "issued"), result))
  /\ UNCHANGED <<queue, prepare_state>>

\* ResolveIssuedRead, s being the request state after SetReadState.
ResolveIssuedRead(t, e, s, result) ==
  LET done == On(reader, e, "issued")
      take == TakesQueued(s, s.time)
      also == IF take THEN On(reader, e, "queued") ELSE {}
      left == Move(reader, done \cup also, "taken")
      rest == [(IF take THEN Unqueued(s) ELSE s) EXCEPT !.issued = FALSE]
  IN  MaybeStartReadOrWriteback(t, e, rest, queue[e],
        IF take THEN Unbatch(left, e) ELSE left,
        Resolution(done, result) \o Resolution(also, "ok"))

\* The kvstore answers; what it read is current as of `time`.
ReadSuccess(t, e, time) ==
  /\ Idle(t)
  /\ reading[e]
  /\ reading' = [reading EXCEPT ![e] = FALSE]
  /\ ResolveIssuedRead(t, e, [request[e] EXCEPT !.time = time, !.stale = FALSE], "ok")
  /\ UNCHANGED <<now, transactions>>

ReadError(t, e) ==
  /\ Idle(t)
  /\ reading[e]
  /\ reading' = [reading EXCEPT ![e] = FALSE]
  /\ ResolveIssuedRead(t, e, request[e], "error")
  /\ UNCHANGED <<now, transactions>>

\* Setting the result of a promise, after the lock is released.
SetResult(t) ==
  /\ At(t, "SetResult")
  /\ reader' = Move(reader, Arg(t), Head(work[t]).result)
  /\ Do(t, <<>>)
  /\ UNCHANGED <<now, cache, transactions>>

MarkStale(e) ==
  /\ request[e].time < now /\ ~request[e].stale
  /\ request' = [request EXCEPT ![e].stale = TRUE]
  /\ UNCHANGED <<now, reading, queue, prepare_state, transactions, reader,
                 work>>

-----------------------------------------------------------------------------
(* Transactions (TransactionCommit, one phase) and writeback.              *)

Registered(x) == {n \in Node : n.txn = x /\ "Register" \in called[n]}

Mark(n, what) == called' = [called EXCEPT ![n] = @ \cup {what}]

\* A slip: nodes in the order of their registration, which is not
\* the same for all transactions.
RegisteredBefore(m, n) ==
  IF m.txn = CHOOSE x \in Transaction : TRUE
    THEN m.entry > n.entry \/ (m.entry = n.entry /\ m.copy > n.copy)
    ELSE m.entry < n.entry \/ (m.entry = n.entry /\ m.copy < n.copy)

\* NodeTreeCompare, within a phase.
NodeBefore(m, n) == m.entry < n.entry \/ (m.entry = n.entry /\ m.copy < n.copy)

\* The nodes after n in the tree: at most the next one.
After(n) ==
  LET later == {m \in Registered(n.txn) : NodeBefore(n, m)}
  IN  {m \in later : \A k \in later : k = m \/ NodeBefore(m, k)}

First(x) == {n \in Registered(x) : \A m \in Registered(x) : m = n \/ NodeBefore(n, m)}

\* ContinuePrepareForCommit with the node after n.
Continue(n) ==
  IF After(n) = {} THEN Item("EndOfPhase", n.txn)
  ELSE Item("PrepareForCommit", CHOOSE m \in After(n) : TRUE)

\* ExecuteCommit of x, in the thread that drops the last open reference.
RequestCommit(t, x) ==
  /\ Idle(t)
  /\ \E n \in First(x) :
       /\ "RequestCommit" \notin called[n]
       /\ Mark(n, "RequestCommit")
       /\ Do(t, Item("PrepareForCommit", n))
  /\ pending' = [pending EXCEPT ![x] = 1]
  /\ UNCHANGED <<now, cache, waiting, reader>>

\* A slip: the node does not queue up behind the nodes of
\* other transactions.
PrepareForCommitJumping(t) ==
  /\ At(t, "PrepareForCommit")
  /\ LET n == Arg(t)
     IN  /\ Mark(n, "PrepareForCommit")
         /\ pending' = [pending EXCEPT ![n.txn] = @ + 1]
         /\ waiting' = [waiting EXCEPT ![n.txn] = TRUE]
         /\ MaybeStartReadOrWriteback(t, n.entry, request[n.entry],
              <<n>> \o queue[n.entry], reader, Item("PrepareReturned", n))
  /\ UNCHANGED <<now, reading>>

\* AsyncCache::TransactionNode::PrepareForCommit.  A node of the transaction
\* that is already first in line becomes the head of the list.  (The map from
\* transactions to nodes, from which the node is removed, is not modelled.)
PrepareForCommit(t) ==
  /\ At(t, "PrepareForCommit")
  /\ LET n == Arg(t)
         e == n.entry
         q == queue[e]
         returned == Item("PrepareReturned", n)
     IN  /\ Mark(n, "PrepareForCommit")
         /\ pending' = [pending EXCEPT ![n.txn] = @ + 1]
         /\ waiting' = [waiting EXCEPT ![n.txn] = TRUE]
         /\ IF q # <<>> /\ Head(q).txn # n.txn
              THEN /\ queue' = [queue EXCEPT ![e] = Append(q, n)]
                   /\ Do(t, returned)
                   /\ UNCHANGED <<request, prepare_state, reader>>
              ELSE MaybeStartReadOrWriteback(t, e, request[e], <<n>> \o q, reader,
                                             returned)
  /\ UNCHANGED <<now, reading>>

\* Whoever finds waiting_for_prepare_done_ cleared continues with the next node.
PrepareReturned(t) ==
  /\ At(t, "PrepareReturned")
  /\ waiting' = [waiting EXCEPT ![Arg(t).txn] = FALSE]
  /\ Do(t, If(~waiting[Arg(t).txn], Continue(Arg(t))))
  /\ UNCHANGED <<now, cache, called, pending, reader>>

PrepareDone(t) ==
  /\ At(t, "PrepareDone")
  /\ Mark(Arg(t), "PrepareDone")
  /\ waiting' = [waiting EXCEPT ![Arg(t).txn] = FALSE]
  /\ Do(t, If(~waiting[Arg(t).txn], Continue(Arg(t))))
  /\ UNCHANGED <<now, cache, pending, reader>>

\* The last decrement of nodes_pending_commit_ calls Commit() on all nodes.
Decrement(x, marked) ==
  /\ pending' = [pending EXCEPT ![x] = @ - 1]
  /\ called' = IF pending[x] = 1
                 THEN [n \in Node |-> IF n \in Registered(x)
                                        THEN marked[n] \cup {"Commit"} ELSE marked[n]]
                 ELSE marked

EndOfPhase(t) ==
  /\ At(t, "EndOfPhase")
  /\ Decrement(Arg(t), called)
  /\ Do(t, <<>>)
  /\ UNCHANGED <<now, cache, waiting, reader>>

ReadyForCommit(t) ==
  /\ At(t, "ReadyForCommit")
  /\ Decrement(Arg(t).txn,
               [called EXCEPT ![Arg(t)] = @ \cup {"ReadyForCommit"}])
  /\ Do(t, <<>>)
  /\ UNCHANGED <<now, cache, waiting, reader>>

WritingBack(n) == "Commit" \in called[n] /\ "Writeback" \notin called[n]

\* A slip: what waits for the writeback is not started.
ResolveIssuedWritebackQuietly(t, n, s, readers, after) ==
  /\ Mark(n, "Writeback")
  /\ queue' = [queue EXCEPT ![n.entry] = Unlink(@, n)]
  /\ request' = [request EXCEPT ![n.entry] = s]
  /\ reader' = readers
  /\ Do(t, Item("CommitDone", n) \o after)
  /\ UNCHANGED prepare_state

\* ResolveIssuedWriteback: unlink the node, then go on with the entry.
ResolveIssuedWriteback(t, n, s, readers, after) ==
  /\ Mark(n, "Writeback")
  /\ MaybeStartReadOrWriteback(t, n.entry, s, Unlink(queue[n.entry], n), readers,
                               Item("CommitDone", n) \o after)

\* KvsWritebackSuccess: what it passes to WritebackSuccess.  "cached": the
\* node's data is what was written, and is cached.  "unmodified" passes
\* ReadState{}: the node changed nothing, or a later DeleteRange of the same
\* transaction superseded what it wrote.  "unspecified": OCDBT
\* reports an unmodified value with the time of the commit and an unknown
\* generation.
KvsWritebackSuccess(outcome, stamp) ==
  [known |-> outcome = "cached",
   time |-> IF outcome = "unmodified" THEN 0 ELSE stamp]

\* `stamp` is the time the kvstore reports, asserted to be no older than that of
\* the read state.
WritebackSuccess(t, n, outcome, stamp) ==
  LET e == n.entry
      s == request[e]
      known == KvsWritebackSuccess(outcome, stamp).known
      time == KvsWritebackSuccess(outcome, stamp).time
      new == IF known THEN [s EXCEPT !.time = time, !.stale = FALSE]
             ELSE IF time > s.time THEN [s EXCEPT !.stale = TRUE]
             ELSE s
      take == TakesQueued(new, time)
      also == IF take THEN On(reader, e, "queued") ELSE {}
      told == IF known THEN "ok" ELSE "assumed"
  IN  /\ Idle(t)
      /\ WritingBack(n)
      /\ stamp > 0 /\ stamp >= s.time
      /\ ResolveIssuedWriteback(t, n, IF take THEN Unqueued(new) ELSE new,
           IF take THEN Unbatch(Move(reader, also, "taken"), e) ELSE reader,
           Resolution(also, told))
      /\ UNCHANGED <<now, reading, pending, waiting>>

WritebackError(t, n) ==
  /\ Idle(t)
  /\ WritingBack(n)
  /\ ResolveIssuedWriteback(t, n, request[n.entry], reader, <<>>)
  /\ UNCHANGED <<now, reading, pending, waiting>>

CommitDone(t) ==
  /\ At(t, "CommitDone")
  /\ Mark(Arg(t), "CommitDone")
  /\ Do(t, <<>>)
  /\ UNCHANGED <<now, cache, pending, waiting, reader>>

Tick ==
  /\ now < MaxTime
  /\ now' = now + 1
  /\ UNCHANGED <<cache, transactions, reader, work>>

-----------------------------------------------------------------------------
Init ==
  /\ now = 1
  /\ request = [e \in Entry |-> [issued |-> FALSE, issued_time |-> 0,
                                 queued |-> FALSE, queued_time |-> 0,
                                 deferred |-> TRUE, time |-> 0, stale |-> FALSE]]
  /\ reading = [e \in Entry |-> FALSE]
  /\ queue = [e \in Entry |-> <<>>]
  /\ prepare_state = [n \in Node |-> "kNone"]
  /\ called \in [Node -> {{}, {"Register"}}]
  /\ pending = [x \in Transaction |-> 0]
  /\ waiting = [x \in Transaction |-> FALSE]
  /\ reader \in [Reader -> [entry : Entry, on : {"none", "dropped"}, batch : {FALSE}, bound : {0}]]
  /\ work = [t \in Thread |-> <<>>]

Call(t) ==
  \/ Loop(t) \/ DoRead(t) \/ SetResult(t)
  \/ PrepareForCommit(t) \/ PrepareReturned(t) \/ PrepareDone(t)
  \/ EndOfPhase(t) \/ ReadyForCommit(t) \/ CommitDone(t)

ReadAnswer(t, e) ==
  \/ \E time \in request[e].issued_time .. now : time > 0 /\ ReadSuccess(t, e, time)
  \/ ReadError(t, e)

WriteAnswer(t, n) ==
  \/ \E outcome \in Outcome, stamp \in 1 .. now : WritebackSuccess(t, n, outcome, stamp)
  \/ WritebackError(t, n)

Requested(x) == \E n \in Registered(x) : "RequestCommit" \in called[n]

\* Nothing is under way: every answer has come and been dealt with.
Quiescent ==
  /\ \A t \in Thread : Idle(t)
  /\ \A x \in Transaction : Requested(x) =>
       \A n \in Registered(x) : "CommitDone" \in called[n]
  /\ \A r \in Reader : reader[r].on \in {"issued", "queued"} => reader[r].batch

Next ==
  \/ Quiescent /\ UNCHANGED vars
  \/ \E t \in Thread :
       \/ Call(t)
       \/ \E r \in Reader : Submit(t, r)
       \/ \E r \in Reader, bound \in Time, strict \in BOOLEAN, batch \in BOOLEAN :
             Read(t, r, reader[r].entry, bound, strict, batch)
       \/ \E e \in Entry : ReadAnswer(t, e)
       \/ \E x \in Transaction : RequestCommit(t, x)
       \/ \E n \in Node : WriteAnswer(t, n)
  \/ \E r \in Reader : DropFuture(r)
  \/ \E e \in Markable : MarkStale(e)
  \/ Tick

Spec == Init /\ [][Next]_vars

\* Threads make the calls they owe, and the kvstore answers reads and writes.
\* Readers, committers and the owners of batches promise nothing.
Fairness ==
  /\ \A t \in Thread : WF_vars(Call(t))
  /\ \A e \in Entry : WF_vars(\E t \in Thread : ReadAnswer(t, e))
  /\ \A n \in Node : WF_vars(\E t \in Thread : WriteAnswer(t, n))

FairSpec == Spec /\ Fairness

-----------------------------------------------------------------------------
(* Properties.                                                             *)

TypeOK ==
  /\ now \in Time
  /\ request \in [Entry -> RequestState]
  /\ reading \in [Entry -> BOOLEAN]
  /\ queue \in [Entry -> Seq(Node)]
  /\ prepare_state \in [Node -> PrepareState]
  /\ \A n \in Node : called[n] \subseteq NodeCall
  /\ pending \in [Transaction -> Nat] /\ waiting \in [Transaction -> BOOLEAN]
  /\ reader \in [Reader -> [entry : Entry, on : Promise, batch : BOOLEAN,
                            bound : Time]]
  /\ \A t \in Thread : \A i \in DOMAIN work[t] : work[t][i].op \in Operation

\* The assertions of ResolveIssuedWriteback: a node that is written back is in
\* the queue of its entry, ready, and of the transaction whose turn it is, and no
\* read of the entry is in progress.
WritebackInTurn ==
  \A n \in Node : WritingBack(n) =>
    /\ Contains(queue[n.entry], n)
    /\ prepare_state[n] = "kReadyForCommitCalled"
    /\ Head(queue[n.entry]).txn = n.txn
    /\ ~request[n.entry].issued

\* The entry has data, no older than the bound that r asked for.
Satisfied(r) ==
  LET time == request[reader[r].entry].time IN time # 0 /\ time >= reader[r].bound

\* A read that a read or a writeback has answered with a read state leaves the
\* entry with data no older than the bound its reader asked for.  The reads that
\* WritebackSuccess completes without a read state (async_cache.cc:613-622) are
\* "assumed" and not covered: EveryReadSatisfiesBound fails for them.
ReadSatisfiesBound == \A r \in Reader : reader[r].on = "ok" => Satisfied(r)

\* Every read that succeeds leaves the entry with data no older than the bound
\* its reader asked for, also when a writeback has completed it: what
\* async_cache.h says of AsyncCacheReadRequest::staleness_bound.
EveryReadSatisfiesBound == \A r \in Reader : reader[r].on \in {"ok", "assumed"} => Satisfied(r)

Owed(op, n) ==
  UNION {{t} \X {i \in DOMAIN work[t] : work[t][i].op = op /\ work[t][i].arg = n} : t \in Thread}

\* PrepareDone and ReadyForCommit are called once per node, although every
\* read and writeback that ends on the entry looks at the node again, and
\* although the calls are made after the lock is released.
CallbacksOnce ==
  \A n \in Node : \A op \in {"PrepareDone", "ReadyForCommit"} :
    Cardinality(Owed(op, n)) + (IF op \in called[n] THEN 1 ELSE 0) <= 1

\* Nobody waits without somebody to wake him: a queued read that is not
\* deferred waits for an issued read or for a writeback, and the node at the
\* head of the queue waits only for an issued read.  (MaybeStartReadOrWriteback
\* at the end of every read and writeback.)
NoLostWakeup ==
  \A e \in Entry :
    /\ request[e].queued /\ ~request[e].deferred =>
         request[e].issued \/ queue[e] # <<>>
    /\ queue[e] # <<>> /\ prepare_state[Head(queue[e])] # "kReadyForCommitCalled" =>
         request[e].issued

\* A late answer never replaces the read state by an older one.
ReadTimeMonotone == [][\A e \in Entry : request'[e].time >= request[e].time]_vars

\* Transactions that share entries do not wait for each other forever: each
\* commit that is requested is completed.
CommitsComplete ==
  \A x \in Transaction :
    Requested(x) ~> \A n \in Registered(x) : "CommitDone" \in called[n]

\* Every read that is issued, or queued and not deferred, is answered.
ReadsComplete ==
  \A r \in Reader :
    (\/ reader[r].on \in {"issued", "taken"}
     \/ reader[r].on = "queued" /\ ~request[reader[r].entry].deferred)
      ~> reader[r].on \in {"ok", "assumed", "error", "dropped"}

=============================================================================
