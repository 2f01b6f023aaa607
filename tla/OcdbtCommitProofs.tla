------------------------- MODULE OcdbtCommitProofs -------------------------
(***************************************************************************)
(* For every set of writers, keys and requests, any number of retries, and *)
(* wherever the kvstore fails or a process crashes: a stored manifest      *)
(* refers only to durable data, no request is forgotten, and none is       *)
(* applied or answered twice.                                              *)
(*                                                                         *)
(* What a commit computes (the folds of StageMutations and                 *)
(* ApplyWriteEntryChain) plays no part here: the trees, and the results a  *)
(* commit announces, are left arbitrary.                                   *)
(***************************************************************************)
EXTENDS OcdbtCommit, SequenceTheorems, TLAPS

-----------------------------------------------------------------------------
(* Sequences.                                                              *)

\* A sequence, of whatever elements.
IsSeq(s) == s \in Seq(Range(s))

\* A sequence is a function on 1 .. Len.
LEMMA SeqDomain ==
  ASSUME NEW s, IsSeq(s)
  PROVE  Len(s) \in Nat /\ DOMAIN s = 1 .. Len(s)
BY LenProperties DEF IsSeq

\* A sequence of elements of a set is a sequence.
LEMMA SeqIsSeq ==
  ASSUME NEW S, NEW s \in Seq(S)
  PROVE  IsSeq(s) /\ Range(s) \subseteq S
BY RangeOfSeq, SeqOfRange DEF IsSeq

\* What appending an element does.
LEMMA AppendShape ==
  ASSUME NEW s, IsSeq(s), NEW e
  PROVE  /\ IsSeq(Append(s, e))
         /\ Len(Append(s, e)) = Len(s) + 1
         /\ DOMAIN Append(s, e) = 1 .. Len(s) + 1
         /\ \A i \in 1 .. Len(s) : Append(s, e)[i] = s[i]
         /\ Append(s, e)[Len(s) + 1] = e
         /\ Range(Append(s, e)) = Range(s) \cup {e}
         /\ Append(s, e) # << >>
<1>. DEFINE S == Range(s) \cup {e}
<1>1. s \in Seq(S) BY SeqMonotonic DEF IsSeq
<1>2. /\ Append(s, e) \in Seq(S)
      /\ Len(Append(s, e)) = Len(s) + 1
      /\ \A i \in 1 .. Len(s) : Append(s, e)[i] = s[i]
      /\ Append(s, e)[Len(s) + 1] = e
  BY <1>1, AppendProperties
<1>3. /\ Len(s) \in Nat /\ DOMAIN s = 1 .. Len(s)
      /\ DOMAIN Append(s, e) = 1 .. Len(s) + 1
  BY <1>1, <1>2, LenProperties
<1>4. Range(Append(s, e)) = Range(s) \cup {e} BY <1>2, <1>3 DEF Range
<1>5. ASSUME Append(s, e) = << >> PROVE FALSE BY <1>4, <1>5 DEF Range
<1>. QED BY <1>2, <1>3, <1>4, <1>5, SeqIsSeq

\* Appending a new element keeps a sequence free of repetitions.
LEMMA AppendOnce ==
  ASSUME NEW s, IsSeq(s), IsInjective(s), NEW e, e \notin Range(s)
  PROVE  IsInjective(Append(s, e))
<1>1. Len(s) \in Nat /\ DOMAIN s = 1 .. Len(s) BY SeqDomain
<1>2. \A i \in 1 .. Len(s) : s[i] # e BY <1>1 DEF Range
<1>. QED BY <1>1, <1>2, AppendShape DEF IsInjective

\* Concatenating sequences that share nothing.
LEMMA ConcatOnce ==
  ASSUME NEW S, NEW s \in Seq(S), NEW t \in Seq(S)
  PROVE  /\ s \o t \in Seq(S)
         /\ Range(s \o t) = Range(s) \cup Range(t)
         /\ IsInjective(s) /\ IsInjective(t) /\ Range(s) \cap Range(t) = {}
              => IsInjective(s \o t)
<1>. DEFINE u == s \o t
<1>1. /\ u \in Seq(S) /\ Len(u) = Len(s) + Len(t)
      /\ \A i \in 1 .. Len(s) + Len(t) : u[i] = IF i <= Len(s) THEN s[i] ELSE t[i - Len(s)]
  BY ConcatProperties
<1>2. /\ Len(s) \in Nat /\ DOMAIN s = 1 .. Len(s)
      /\ Len(t) \in Nat /\ DOMAIN t = 1 .. Len(t)
      /\ DOMAIN u = 1 .. Len(s) + Len(t)
  BY <1>1, LenProperties
<1>. HIDE DEF u
<1>3. Range(u) = Range(s) \cup Range(t) BY RangeConcatenation DEF u
<1>4. ASSUME IsInjective(s), IsInjective(t), Range(s) \cap Range(t) = {},
             NEW a \in DOMAIN u, NEW b \in DOMAIN u, u[a] = u[b]
      PROVE  a = b
  <2>1. ASSUME NEW i \in DOMAIN s, NEW j \in DOMAIN t
        PROVE  s[i] # t[j]
    BY <1>4 DEF Range
  <2>2. CASE a <= Len(s) /\ b <= Len(s) BY <1>1, <1>2, <1>4, <2>2 DEF IsInjective
  <2>3. CASE a > Len(s) /\ b > Len(s)
    <3>1. a - Len(s) \in DOMAIN t /\ b - Len(s) \in DOMAIN t BY <1>2, <2>3
    <3>2. u[a] = t[a - Len(s)] /\ u[b] = t[b - Len(s)] BY <1>1, <1>2, <2>3
    <3>3. a - Len(s) = b - Len(s) BY <1>4, <3>1, <3>2 DEF IsInjective
    <3>4. a \in Int /\ b \in Int BY <1>2
    <3>. QED BY <1>2, <3>3, <3>4
  <2>4. CASE a <= Len(s) /\ b > Len(s)
    <3>1. a \in DOMAIN s /\ b - Len(s) \in DOMAIN t BY <1>2, <2>4
    <3>. QED BY <1>1, <1>2, <1>4, <2>1, <2>4, <3>1
  <2>5. CASE a > Len(s) /\ b <= Len(s)
    <3>1. b \in DOMAIN s /\ a - Len(s) \in DOMAIN t BY <1>2, <2>5
    <3>. QED BY <1>1, <1>2, <1>4, <2>1, <2>5, <3>1
  <2>. QED BY <1>2, <2>2, <2>3, <2>4, <2>5
<1>. QED BY <1>1, <1>3, <1>4 DEF IsInjective, u

-----------------------------------------------------------------------------
(* The manifests: what is stored, what a writer has read of it.            *)

\* A manifest that was read, or is cached, is one that was stored.
StoreShape ==
    /\ IsSeq(history)
    /\ DOMAIN existing = Writer /\ DOMAIN cache = Writer
    /\ \A w \in Writer : existing[w] \in 0 .. Len(history) /\ cache[w] \in -1 .. Len(history)

LEMMA StoreInit == Init => StoreShape
<1>1. IsSeq(<< >>) /\ Len(<< >>) = 0 BY EmptySeq, SeqIsSeq
<1>. QED BY <1>1 DEF Init, StoreShape, NoManifest

\* What a step of writer w may do to the store, and to what w knows of it.
Reads(w) ==
    /\ history' = history \/ \E m : history' = Append(history, m)
    /\ DOMAIN existing' = Writer /\ DOMAIN cache' = Writer
    /\ \A v \in Writer \ {w} : existing'[v] = existing[v] /\ cache'[v] = cache[v]
    /\ existing'[w] \in {existing[w], 0} \cup 0 .. Len(history)
    /\ cache'[w] \in {cache[w], -1, Len(history')} \cup 0 .. Len(history)

\* A manifest obtained from the cache is one that was stored.
LEMMA GetManifestStored ==
  ASSUME StoreShape, NEW w \in Writer, NEW b
  PROVE  GetManifest(w, b) \in 0 .. Len(history)
BY SeqDomain DEF GetManifest, StoreShape, NoManifest

LEMMA ReadsStep ==
  ASSUME StoreShape, NEW w \in Writer, WriterStep(w)
  PROVE  Reads(w)
<1>0. Len(history) \in Nat /\ (Len(history) = 0 => history = << >>)
  BY SeqDomain, EmptySeq DEF StoreShape, IsSeq
<1>1. ASSUME NEW e, Enqueue(w, e) PROVE Reads(w) BY <1>0, <1>1 DEF Enqueue, Reads, StoreShape
<1>2. CASE Write(w) \/ DeleteRange(w) BY <1>1, <1>2 DEF Write, DeleteRange
<1>3. CASE EnsureExistingManifest(w)
  BY <1>0, <1>3, GetManifestStored DEF EnsureExistingManifest, Observe, Reads, StoreShape
<1>4. CASE CreateInitialManifest(w)
  <2>1. CASE history = << >>
    <3>. DEFINE m == [tree |-> Tree(0), data |-> {}]
    <3>1. history' = << m >> /\ cache' = [cache EXCEPT ![w] = 1] /\ existing' = existing
      BY <1>4, <2>1 DEF CreateInitialManifest, Observe
    <3>2. history' = Append(history, m) BY <2>1, <3>1
    <3>3. Len(history') = 1 BY <3>1
    <3>. HIDE DEF m
    <3>. QED BY <1>0, <3>1, <3>2, <3>3 DEF Reads, StoreShape
  <2>2. CASE history # << >> BY <1>0, <1>4, <2>2 DEF CreateInitialManifest, Reads, StoreShape
  <2>. QED BY <2>1, <2>2
<1>5. CASE ReadManifest(w)
  BY <1>0, <1>5, GetManifestStored DEF ReadManifest, Observe, Reads, StoreShape
<1>6. CASE StageAndApply(w) \/ NewManifestReady(w)
  BY <1>0, <1>6 DEF StageAndApply, NewManifestReady, Reads, StoreShape
<1>7. CASE ConfirmUnchanged(w)
  BY <1>0, <1>7 DEF ConfirmUnchanged, Committed, Retry, Reads, StoreShape
<1>8. CASE AbortFromCache(w) BY <1>0, <1>8 DEF AbortFromCache, Retry, Reads, StoreShape
<1>9. CASE WriteManifest(w) BY <1>0, <1>9 DEF WriteManifest, Committed, Retry, Reads, StoreShape
<1>10. CASE CommitSuccessful(w) BY <1>0, <1>10 DEF CommitSuccessful, Reset, Reads, StoreShape
<1>11. CASE StoreError(w) BY <1>0, <1>11 DEF StoreError, Fail, Reset, Reads, StoreShape
<1>12. CASE WriteManifestUnconfirmed(w)
  BY <1>0, <1>12 DEF WriteManifestUnconfirmed, Fail, Reset, Reads, StoreShape
<1>13. CASE RefreshCache(w) BY <1>0, <1>13 DEF RefreshCache, Observe, Reads, StoreShape
<1>14. CASE Crash(w) BY <1>0, <1>14 DEF Crash, Reset, Reads, StoreShape, NoManifest
<1>. QED
  BY <1>2, <1>3, <1>4, <1>5, <1>6, <1>7, <1>8, <1>9, <1>10, <1>11, <1>12, <1>13, <1>14
     DEF WriterStep, CommitStep

\* The store only grows, and what was read stays stored.
LEMMA StoreStep == StoreShape /\ [Next]_vars => StoreShape'
<1>. SUFFICES ASSUME StoreShape, [Next]_vars PROVE StoreShape' OBVIOUS
<1>0. Len(history) \in Nat BY SeqDomain DEF StoreShape
<1>1. CASE UNCHANGED vars BY <1>1 DEF vars, StoreShape
<1>2. ASSUME NEW w \in Writer, WriterStep(w)
      PROVE  StoreShape'
  <2>1. Reads(w) BY <1>2, ReadsStep
  <2>2. /\ IsSeq(history')
        /\ Len(history') \in {Len(history), Len(history) + 1}
    BY <2>1, AppendShape DEF StoreShape, Reads
  <2>3. Len(history') \in Nat /\ Len(history) <= Len(history') BY <1>0, <2>2
  <2>4. ASSUME NEW v \in Writer
        PROVE  existing'[v] \in 0 .. Len(history') /\ cache'[v] \in -1 .. Len(history')
    BY <1>0, <2>1, <2>3 DEF StoreShape, Reads
  <2>. QED BY <2>1, <2>2, <2>4 DEF Reads, StoreShape
<1>. QED BY <1>1, <1>2 DEF Next

-----------------------------------------------------------------------------
(* The requests: made, pending, staged, committed and answered.            *)

Phase == {"idle", "ensure", "create", "read", "stage", "flush", "update", "commit"}

\* The phases in which a commit operation is at work.
Working == Phase \ {"idle", "commit"}

RequestShape ==
    /\ IsSeq(op) /\ IsSeq(commits)
    /\ Len(op) <= MaxRequest
    /\ DOMAIN answer = Request /\ DOMAIN generation = Request
    /\ pending \in [Writer -> Seq(Request)]
    /\ batch \in [Writer -> Seq(Request)]
    /\ phase \in [Writer -> Phase]

LEMMA RequestInit == Init => RequestShape
<1>1. << >> \in Seq(Request) /\ IsSeq(<< >>) /\ Len(<< >>) = 0 BY EmptySeq, SeqIsSeq
<1>. QED BY <1>1, ConstantsAssumption DEF Init, RequestShape, Phase

\* The requests a writer has not answered yet.
Held(w) == Range(batch[w]) \cup Range(pending[w])

\* Only the generations in the promises of the requests R may change.
Regenerates(R) ==
    /\ DOMAIN generation' = Request
    /\ \A r \in Request \ R : generation'[r] = generation[r]

\* The requests of w change hands: what its steps do to them.
Quiet(w) ==
    /\ UNCHANGED << op, answer, pending, batch, commits, generation >>
    /\ \/ phase' = phase
       \/ phase[w] \in Working /\ \E p \in Working : phase' = [phase EXCEPT ![w] = p]

Enters(w) ==
    /\ Len(op) < MaxRequest
    /\ \E e : op' = Append(op, e)
    /\ pending' = [pending EXCEPT ![w] = Append(@, Len(op) + 1)]
    /\ \/ phase[w] # "idle" /\ phase' = phase
       \/ phase[w] = "idle" /\ \E p \in Working : phase' = [phase EXCEPT ![w] = p]
    /\ UNCHANGED << answer, batch, commits, generation >>

Stages(w) ==
    /\ phase[w] = "stage" /\ phase' = [phase EXCEPT ![w] = "flush"]
    /\ batch' = [batch EXCEPT ![w] = @ \o pending[w]]
    /\ pending' = [pending EXCEPT ![w] = << >>]
    /\ Regenerates(Range(batch[w] \o pending[w]))
    /\ UNCHANGED << op, answer, commits >>

Commits(w) ==
    /\ phase[w] = "update" /\ phase' = [phase EXCEPT ![w] = "commit"]
    /\ \E c : /\ commits' = Append(commits, c)
              /\ c.batch = batch[w] /\ c.results = Results(w)
    /\ UNCHANGED << op, answer, pending, batch, generation >>

Answers(w) ==
    /\ phase[w] = "commit"
    /\ \E p \in Working \cup {"idle"} :
         /\ p = "idle" => pending[w] = << >>
         /\ phase' = [phase EXCEPT ![w] = p]
    /\ answer' = [r \in Request |-> IF r \in Range(batch[w]) THEN Ready(Results(w)[r])
                                    ELSE answer[r]]
    /\ batch' = [batch EXCEPT ![w] = << >>]
    /\ Regenerates(Range(batch[w]))
    /\ UNCHANGED << op, pending, commits >>

GivesUp(w) ==
    /\ \E x \in {Failed, Lost} :
         answer' = [r \in Request |-> IF r \in Range(batch[w] \o pending[w]) THEN x
                                      ELSE answer[r]]
    /\ phase' = [phase EXCEPT ![w] = "idle"]
    /\ batch' = [batch EXCEPT ![w] = << >>]
    /\ pending' = [pending EXCEPT ![w] = << >>]
    /\ \/ commits' = commits
       \/ /\ phase[w] = "update"
          /\ \E c : /\ commits' = Append(commits, c)
                    /\ c.batch = batch[w] /\ c.results = Results(w)
    /\ Regenerates(Range(batch[w]))
    /\ UNCHANGED op

Handles(w) == Quiet(w) \/ Enters(w) \/ Stages(w) \/ Commits(w) \/ Answers(w) \/ GivesUp(w)

LEMMA HandlesStep ==
  ASSUME RequestShape, NEW w \in Writer, WriterStep(w)
  PROVE  Handles(w)
<1>. USE DEF RequestShape, Phase, Working
<1>1. ASSUME NEW e, Enqueue(w, e) PROVE Enters(w)
  BY <1>1, SeqIsSeq, AppendShape DEF Enqueue, MaybeStart, Enters
<1>2. CASE Write(w) \/ DeleteRange(w) BY <1>1, <1>2 DEF Write, DeleteRange, Handles
<1>3. CASE EnsureExistingManifest(w) BY <1>3 DEF EnsureExistingManifest, Quiet, Handles
<1>4. CASE CreateInitialManifest(w) BY <1>4 DEF CreateInitialManifest, Quiet, Handles
<1>5. CASE ReadManifest(w) BY <1>5 DEF ReadManifest, Quiet, Handles
<1>6. CASE StageAndApply(w) BY <1>6 DEF StageAndApply, Stages, Regenerates, Handles
<1>7. CASE NewManifestReady(w) BY <1>7 DEF NewManifestReady, Quiet, Handles
<1>8. ASSUME NEW t, Retry(w, t), phase[w] = "update"
      PROVE  Handles(w)
  BY <1>8 DEF Retry, Quiet, Handles
<1>9. ASSUME NEW g, Committed(w, g), phase[w] = "update"
      PROVE  Handles(w)
  <2>. DEFINE c == [gen |-> g, changed |-> ~ next[w].same, batch |-> batch[w],
                    results |-> Results(w)]
  <2>1. commits' = Append(commits, c) BY <1>9 DEF Committed
  <2>2. c.batch = batch[w] /\ c.results = Results(w) OBVIOUS
  <2>. HIDE DEF c
  <2>. QED BY <1>9, <2>1, <2>2 DEF Committed, Commits, Handles
<1>10. CASE ConfirmUnchanged(w) \/ AbortFromCache(w) \/ WriteManifest(w)
  BY <1>8, <1>9, <1>10 DEF ConfirmUnchanged, AbortFromCache, WriteManifest
<1>11. ASSUME Reset(w) PROVE Regenerates(Range(batch[w])) /\ batch' = [batch EXCEPT ![w] = << >>]
  BY <1>11 DEF Reset, Regenerates
<1>12. CASE CommitSuccessful(w)
  <2>1. DOMAIN Results(w) = Range(batch[w]) BY DEF Results
  <2>2. \E p \in Working \cup {"idle"} :
          /\ p = "idle" => pending[w] = << >>
          /\ phase' = [phase EXCEPT ![w] = p]
    <3>1. CASE pending[w] = << >> BY <1>12, <3>1 DEF CommitSuccessful, Restart
    <3>2. CASE pending[w] # << >>
      <4>1. phase' = [phase EXCEPT ![w] = IF config[w] THEN "read" ELSE "ensure"]
        BY <1>12, <3>2 DEF CommitSuccessful, Restart
      <4>. QED BY <4>1
    <3>. QED BY <3>1, <3>2
  <2>. QED BY <1>11, <1>12, <2>1, <2>2 DEF CommitSuccessful, Answers, Handles
<1>13. CASE StoreError(w) BY <1>11, <1>13 DEF StoreError, Fail, GivesUp, Handles
<1>14. CASE WriteManifestUnconfirmed(w)
  <2>. DEFINE c == [gen |-> Len(history'), changed |-> TRUE, batch |-> batch[w],
                    results |-> Results(w)]
  <2>1. commits' = Append(commits, c) BY <1>14 DEF WriteManifestUnconfirmed
  <2>2. c.batch = batch[w] /\ c.results = Results(w) OBVIOUS
  <2>. HIDE DEF c
  <2>. QED BY <1>11, <1>14, <2>1, <2>2 DEF WriteManifestUnconfirmed, Fail, GivesUp, Handles
<1>15. CASE RefreshCache(w) BY <1>15 DEF RefreshCache, Quiet, Handles
<1>16. CASE Crash(w) BY <1>11, <1>16 DEF Crash, GivesUp, Handles
<1>. QED
  BY <1>2, <1>3, <1>4, <1>5, <1>6, <1>7, <1>10, <1>12, <1>13, <1>14, <1>15, <1>16
     DEF WriterStep, CommitStep

\* A step of w keeps the requests made so far and what other writers hold.
LEMMA Undisturbed ==
  ASSUME RequestShape, NEW w \in Writer, Handles(w)
  PROVE  /\ RequestShape'
         /\ \A v \in Writer \ {w} : /\ batch'[v] = batch[v]
                                    /\ pending'[v] = pending[v]
                                    /\ phase'[v] = phase[v]
         /\ Len(op) \in Nat /\ Len(op') \in {Len(op), Len(op) + 1}
         /\ \A r \in 1 .. Len(op) : op'[r] = op[r]
<1>. USE DEF RequestShape
<1>1. /\ Len(op) \in Nat /\ MaxRequest \in Nat
      /\ << >> \in Seq(Request)
      /\ batch[w] \in Seq(Request) /\ pending[w] \in Seq(Request)
  BY SeqDomain, ConstantsAssumption
<1>2. CASE Quiet(w) BY <1>1, <1>2 DEF Quiet, Working
<1>3. CASE Enters(w)
  <2>1. PICK e : op' = Append(op, e) BY <1>3 DEF Enters
  <2>2. /\ IsSeq(op') /\ Len(op') = Len(op) + 1
        /\ \A r \in 1 .. Len(op) : op'[r] = op[r]
    BY <2>1, AppendShape
  <2>3. Len(op) + 1 \in Request /\ Len(op') <= MaxRequest
    BY <1>1, <1>3, <2>2 DEF Enters, Request
  <2>4. Append(pending[w], Len(op) + 1) \in Seq(Request) BY <1>1, <2>3, AppendProperties
  <2>5. pending' \in [Writer -> Seq(Request)] BY <1>3, <2>4 DEF Enters
  <2>6. phase' \in [Writer -> Phase] BY <1>3 DEF Enters, Working
  <2>7. \A v \in Writer \ {w} : pending'[v] = pending[v] /\ phase'[v] = phase[v]
    BY <1>3 DEF Enters
  <2>. QED BY <1>1, <1>3, <2>2, <2>3, <2>5, <2>6, <2>7 DEF Enters
<1>4. CASE Stages(w) BY <1>1, <1>4, ConcatProperties DEF Stages, Regenerates, Phase
<1>5. ASSUME NEW c, commits' = Append(commits, c) PROVE IsSeq(commits') BY <1>5, AppendShape
<1>6. CASE Commits(w) BY <1>1, <1>5, <1>6 DEF Commits, Phase
<1>7. CASE Answers(w) BY <1>1, <1>7 DEF Answers, Regenerates, Phase, Working
<1>8. CASE GivesUp(w) BY <1>1, <1>5, <1>8 DEF GivesUp, Regenerates, Phase
<1>. QED BY <1>2, <1>3, <1>4, <1>6, <1>7, <1>8 DEF Handles

\* The requests a writer holds were made, are held once, and are not answered.
HeldBy(w) ==
    /\ IsInjective(batch[w]) /\ IsInjective(pending[w])
    /\ Range(batch[w]) \cap Range(pending[w]) = {}
    /\ Held(w) \subseteq 1 .. Len(op)
    /\ phase[w] = "idle" => Held(w) = {}
    /\ \A r \in Held(w) : answer[r] = Waiting

HeldOnce ==
    /\ \A w \in Writer : HeldBy(w)
    /\ \A v, w \in Writer : v # w => Held(v) \cap Held(w) = {}
    /\ \A r \in Request : answer[r] = Waiting =>
         r > Len(op) \/ \E w \in Writer : r \in Held(w)
    /\ \A r \in Request : r > Len(op) => answer[r] = Waiting

\* The empty sequence.
LEMMA EmptyHeld == Range(<< >>) = {} /\ IsInjective(<< >>)
BY DEF Range, IsInjective

LEMMA HeldInit == Init => HeldOnce
<1>. SUFFICES ASSUME Init PROVE HeldOnce OBVIOUS
<1>1. \A w \in Writer : Held(w) = {} /\ HeldBy(w) BY EmptyHeld DEF Init, Held, HeldBy
<1>2. \A r \in Request : r > Len(op) BY DEF Init, Request
<1>. QED BY <1>1, <1>2 DEF Init, HeldOnce

\* A value is not a wait.
LEMMA ReadyIsFinal ==
  /\ \A v : Ready(v) \notin {Waiting, Failed, Lost}
  /\ Waiting \notin {Failed, Lost}
<1>1. Waiting[1] = "waiting" /\ Failed[1] = "failed" /\ Lost[1] = "lost"
  BY DEF Waiting, Failed, Lost
<1>2. \A v : Ready(v)[1] = "ready" BY DEF Ready
<1>. QED BY <1>1, <1>2

\* What becomes of the requests of w: it may get the one just made, it keeps the
\* others, or answers all that it lets go of; it answers no other.
LEMMA Handover ==
  ASSUME RequestShape, HeldOnce, NEW w \in Writer, Handles(w)
  PROVE  /\ Held(w)' \subseteq Held(w) \cup {Len(op) + 1}
         /\ Len(op) + 1 \in Held(w)' => Len(op') = Len(op) + 1
         /\ Len(op') = Len(op) + 1 => Len(op) + 1 \in Held(w)'
         /\ \A r \in Request \ Held(w) : answer'[r] = answer[r]
         /\ \A r \in Held(w) : IF r \in Held(w)' THEN answer'[r] = answer[r]
                                                 ELSE answer'[r] # Waiting
         /\ phase'[w] = "idle" => Held(w)' = {}
         /\ IsInjective(batch'[w]) /\ IsInjective(pending'[w])
         /\ Range(batch'[w]) \cap Range(pending'[w]) = {}
<1>. USE DEF RequestShape
<1>1. /\ Len(op) \in Nat
      /\ batch[w] \in Seq(Request) /\ pending[w] \in Seq(Request)
      /\ IsSeq(pending[w])
  BY SeqDomain, SeqIsSeq
<1>2. /\ HeldBy(w)
      /\ Range(batch[w]) \subseteq 1 .. Len(op) /\ Range(pending[w]) \subseteq 1 .. Len(op)
  BY DEF HeldOnce, HeldBy, Held
<1>3. Held(w) \subseteq Request /\ Len(op) + 1 \notin Held(w) BY <1>1, <1>2, SeqIsSeq DEF Held
<1>4. Range(batch[w] \o pending[w]) = Held(w) BY <1>1, ConcatOnce DEF Held
<1>5. CASE Quiet(w) BY <1>1, <1>2, <1>3, <1>5 DEF Quiet, Held, HeldBy, Working
<1>6. CASE Enters(w)
  <2>1. /\ pending'[w] = Append(pending[w], Len(op) + 1)
        /\ batch'[w] = batch[w] /\ answer' = answer
    BY <1>6 DEF Enters
  <2>2. Range(pending'[w]) = Range(pending[w]) \cup {Len(op) + 1} BY <1>1, <2>1, AppendShape
  <2>3. Held(w)' = Held(w) \cup {Len(op) + 1} BY <2>1, <2>2 DEF Held
  <2>4. IsInjective(pending'[w]) BY <1>1, <1>2, <1>3, <2>1, AppendOnce DEF Held, HeldBy
  <2>5. Len(op') = Len(op) + 1 BY <1>6, AppendShape DEF Enters
  <2>6. phase'[w] # "idle" BY <1>6 DEF Enters, Working
  <2>7. Range(batch'[w]) \cap Range(pending'[w]) = {} BY <1>2, <1>3, <2>1, <2>2 DEF Held, HeldBy
  <2>. QED BY <1>1, <1>2, <1>3, <2>1, <2>3, <2>4, <2>5, <2>6, <2>7 DEF HeldBy
<1>7. CASE Stages(w)
  <2>1. /\ batch'[w] = batch[w] \o pending[w] /\ pending'[w] = << >>
        /\ answer' = answer /\ op' = op /\ phase'[w] = "flush"
    BY <1>7 DEF Stages
  <2>2. Held(w)' = Held(w) BY <1>4, <2>1, EmptyHeld DEF Held
  <2>3. IsInjective(batch'[w]) BY <1>1, <1>2, <2>1, ConcatOnce DEF HeldBy
  <2>. QED BY <1>1, <1>2, <1>3, <2>1, <2>2, <2>3, EmptyHeld
<1>8. CASE Commits(w) BY <1>1, <1>2, <1>3, <1>8 DEF Commits, Held, HeldBy
<1>9. CASE Answers(w)
  <2>1. /\ batch'[w] = << >> /\ pending'[w] = pending[w] /\ op' = op
        /\ phase'[w] = "idle" => pending[w] = << >>
    BY <1>9 DEF Answers
  <2>2. Held(w)' = Range(pending[w]) BY <2>1, EmptyHeld DEF Held
  <2>3. \A r \in Request : answer'[r] = IF r \in Range(batch[w]) THEN Ready(Results(w)[r])
                                        ELSE answer[r]
    BY <1>9 DEF Answers
  <2>4. ASSUME NEW r \in Held(w)
        PROVE  IF r \in Held(w)' THEN answer'[r] = answer[r] ELSE answer'[r] # Waiting
    BY <1>2, <1>3, <2>2, <2>3, ReadyIsFinal DEF Held, HeldBy
  <2>5. /\ Held(w)' \subseteq Held(w)
        /\ \A r \in Request \ Held(w) : answer'[r] = answer[r]
        /\ phase'[w] = "idle" => Held(w)' = {}
    BY <2>1, <2>2, <2>3, EmptyHeld DEF Held
  <2>6. /\ IsInjective(batch'[w]) /\ IsInjective(pending'[w])
        /\ Range(batch'[w]) \cap Range(pending'[w]) = {}
    BY <1>2, <2>1, EmptyHeld DEF HeldBy
  <2>7. Len(op') # Len(op) + 1 BY <1>1, <2>1
  <2>. QED BY <1>3, <2>4, <2>5, <2>6, <2>7
<1>10. CASE GivesUp(w)
  <2>1. /\ batch'[w] = << >> /\ pending'[w] = << >> /\ op' = op BY <1>10 DEF GivesUp
  <2>2. Held(w)' = {} BY <2>1, EmptyHeld DEF Held
  <2>3. PICK x \in {Failed, Lost} :
          answer' = [r \in Request |-> IF r \in Range(batch[w] \o pending[w]) THEN x
                                       ELSE answer[r]]
    BY <1>10 DEF GivesUp
  <2>4. \A r \in Request : answer'[r] = IF r \in Held(w) THEN x ELSE answer[r] BY <1>4, <2>3
  <2>5. Len(op') # Len(op) + 1 BY <1>1, <2>1
  <2>. QED BY <1>3, <2>1, <2>2, <2>4, <2>5, EmptyHeld, ReadyIsFinal
<1>. QED BY <1>5, <1>6, <1>7, <1>8, <1>9, <1>10 DEF Handles

LEMMA HeldStep ==
  ASSUME RequestShape, HeldOnce, NEW w \in Writer, Handles(w)
  PROVE  /\ HeldOnce'
         /\ \A r \in Request : answer[r] # Waiting => answer'[r] = answer[r]
<1>0. Len(op) \in Nat /\ Len(op') \in {Len(op), Len(op) + 1} BY Undisturbed
<1>1. ASSUME NEW v \in Writer, v # w
      PROVE  /\ batch'[v] = batch[v] /\ pending'[v] = pending[v] /\ phase'[v] = phase[v]
             /\ Held(v)' = Held(v)
             /\ Held(v) \cap Held(w) = {}
             /\ Held(v) \subseteq 1 .. Len(op)
  BY <1>1, Undisturbed DEF Held, HeldOnce, HeldBy
<1>2. 1 .. Len(op) \subseteq Request BY <1>0, ConstantsAssumption DEF RequestShape, Request
<1>3. Held(w) \subseteq 1 .. Len(op) /\ \A r \in Held(w) : answer[r] = Waiting
  BY DEF HeldOnce, HeldBy
<1>4. Held(w)' \subseteq 1 .. Len(op') BY <1>0, <1>3, Handover
<1>5. ASSUME NEW v \in Writer PROVE HeldBy(v)'
  <2>1. CASE v = w
    <3>1. ASSUME NEW r \in Held(w)' PROVE answer'[r] = Waiting
      <4>1. CASE r \in Held(w) BY <1>3, <3>1, <4>1, Handover
      <4>2. CASE r \notin Held(w)
        <5>1. r = Len(op) + 1 /\ Len(op') = Len(op) + 1 BY <3>1, <4>2, Handover
        <5>2. r \in Request
          BY <1>0, <5>1, ConstantsAssumption, Undisturbed DEF RequestShape, Request
        <5>3. answer[r] = Waiting BY <1>0, <5>1, <5>2 DEF HeldOnce
        <5>. QED BY <4>2, <5>2, <5>3, Handover
      <4>. QED BY <4>1, <4>2
    <3>. QED BY <1>4, <2>1, <3>1, Handover DEF HeldBy
  <2>2. CASE v # w
    <3>1. HeldBy(v) BY DEF HeldOnce
    <3>2. Held(v) \subseteq 1 .. Len(op') BY <1>0, <1>1, <2>2
    <3>3. ASSUME NEW r \in Held(v) PROVE answer'[r] = Waiting
      BY <1>1, <1>2, <2>2, <3>3, <3>1, Handover DEF HeldBy
    <3>. QED BY <1>1, <2>2, <3>1, <3>2, <3>3 DEF HeldBy
  <2>. QED BY <2>1, <2>2
<1>6. ASSUME NEW u \in Writer, NEW v \in Writer, u # v
      PROVE  Held(u)' \cap Held(v)' = {}
  BY <1>0, <1>1, <1>6, Handover DEF HeldOnce
<1>7. ASSUME NEW r \in Request, answer'[r] = Waiting, ~ r > Len(op')
      PROVE  \E v \in Writer : r \in Held(v)'
  BY <1>7, <1>0, <1>1, Handover DEF Request, HeldOnce
<1>8. ASSUME NEW r \in Request, r > Len(op') PROVE answer'[r] = Waiting
  BY <1>0, <1>8, <1>3, Handover DEF Request, HeldOnce
<1>9. ASSUME NEW r \in Request, answer[r] # Waiting PROVE answer'[r] = answer[r]
  BY <1>3, <1>9, Handover
<1>. QED BY <1>5, <1>6, <1>7, <1>8, <1>9 DEF HeldOnce

-----------------------------------------------------------------------------
(* The commits.                                                            *)

CommittedOnce ==
    /\ \A i \in DOMAIN commits : /\ IsInjective(commits[i].batch)
                                 /\ Range(commits[i].batch) \subseteq 1 .. Len(op)
    /\ \A i, j \in DOMAIN commits :
         i # j => Range(commits[i].batch) \cap Range(commits[j].batch) = {}

\* A request that is held was not committed, unless its commit is being answered.
HeldApart(w) ==
    /\ \A i \in DOMAIN commits : Range(commits[i].batch) \cap Range(pending[w]) = {}
    /\ phase[w] # "commit" =>
         \A i \in DOMAIN commits : Range(commits[i].batch) \cap Range(batch[w]) = {}
    /\ phase[w] = "commit" =>
         \E i \in DOMAIN commits : commits[i].batch = batch[w] /\ commits[i].results = Results(w)

\* Who is told a value had the request applied, with that value.
AnswersCommitted ==
    \A r \in Request : answer[r] \notin {Waiting, Failed, Lost} =>
         \E i \in DOMAIN commits :
            /\ r \in Range(commits[i].batch)
            /\ answer[r] = Ready(commits[i].results[r])

CommitInv == CommittedOnce /\ (\A w \in Writer : HeldApart(w)) /\ AnswersCommitted

LEMMA CommitInit == Init => CommitInv
<1>. SUFFICES ASSUME Init PROVE CommitInv OBVIOUS
<1>1. DOMAIN commits = {} BY DEF Init
<1>2. CommittedOnce BY <1>1 DEF CommittedOnce
<1>3. \A w \in Writer : HeldApart(w) BY <1>1 DEF HeldApart, Init
<1>4. AnswersCommitted BY DEF AnswersCommitted, Init
<1>. QED BY <1>2, <1>3, <1>4 DEF CommitInv

\* The results of a batch change only with the batch, or the promises of its
\* requests.
LEMMA ResultsKept ==
  ASSUME NEW w \in Writer, batch'[w] = batch[w],
         \A r \in Range(batch[w]) : op'[r] = op[r] /\ generation'[r] = generation[r]
  PROVE  Results(w)' = Results(w)
<1>1. Range(batch'[w]) = Range(batch[w]) OBVIOUS
<1>2. \A r \in Range(batch[w]) :
        (IF op[r].kind = "write" THEN generation[r] ELSE RangeDone)' =
        (IF op[r].kind = "write" THEN generation[r] ELSE RangeDone)
  BY DEF RangeDone
<1>. QED BY <1>1, <1>2 DEF Results

\* The results of other writers, and of w while it does not touch its batch, stay.
LEMMA ResultsStay ==
  ASSUME RequestShape, HeldOnce, NEW w \in Writer, Handles(w), NEW v \in Writer,
         \/ v # w
         \/ batch'[w] = batch[w] /\ generation' = generation
  PROVE  Results(v)' = Results(v)
<1>1. Range(batch[v]) \subseteq 1 .. Len(op) /\ Range(batch[v]) \subseteq Request
  BY SeqIsSeq DEF HeldOnce, HeldBy, Held, RequestShape
<1>2. \A r \in Range(batch[v]) : op'[r] = op[r] BY <1>1, Undisturbed
<1>3. CASE batch'[w] = batch[w] /\ generation' = generation /\ v = w BY <1>2, <1>3, ResultsKept
<1>4. CASE v # w
  <2>1. batch'[v] = batch[v] BY <1>4, Undisturbed
  <2>2. Range(batch[v]) \cap Held(w) = {} BY <1>4 DEF HeldOnce, Held
  <2>3. Regenerates(Held(w))
    <3>1. Range(batch[w] \o pending[w]) = Held(w) BY ConcatOnce DEF Held, RequestShape
    <3>. QED
      BY <3>1 DEF Handles, Quiet, Enters, Stages, Commits, Answers, GivesUp, Regenerates,
                  Held, RequestShape
  <2>. QED BY <1>1, <1>2, <2>1, <2>2, <2>3, ResultsKept DEF Regenerates
<1>. QED BY <1>3, <1>4

\* How a step of w changes its batch and its phase, when it commits nothing.
LEMMA BatchMoves ==
  ASSUME RequestShape, HeldOnce, NEW w \in Writer, Handles(w), commits' = commits
  PROVE  /\ Range(pending'[w]) \subseteq Range(pending[w]) \cup {Len(op) + 1}
         /\ phase'[w] # "commit" =>
              \/ Range(batch'[w]) = {}
              \/ phase[w] # "commit" /\ Range(batch'[w]) \subseteq Held(w)
         /\ phase'[w] = "commit" =>
              phase[w] = "commit" /\ batch'[w] = batch[w] /\ generation' = generation
<1>. USE DEF RequestShape
<1>1. /\ Len(op) \in Nat
      /\ batch[w] \in Seq(Request) /\ pending[w] \in Seq(Request)
      /\ IsSeq(pending[w])
  BY SeqDomain, SeqIsSeq
<1>2. Range(batch[w] \o pending[w]) = Held(w) BY <1>1, ConcatOnce DEF Held
<1>3. CASE Quiet(w) BY <1>3 DEF Quiet, Held, Working
<1>4. CASE Enters(w) BY <1>1, <1>4, AppendShape DEF Enters, Held, Working
<1>5. CASE Stages(w) BY <1>2, <1>5, EmptyHeld DEF Stages, Held
<1>6. CASE Commits(w)
  <2>1. PICK c : commits' = Append(commits, c) BY <1>6 DEF Commits
  <2>2. Len(commits') = Len(commits) + 1 /\ Len(commits) \in Nat BY <2>1, AppendShape, SeqDomain
  <2>. QED BY <2>2
<1>7. CASE Answers(w) BY <1>7, EmptyHeld DEF Answers, Working
<1>8. CASE GivesUp(w) BY <1>8, EmptyHeld DEF GivesUp
<1>. QED BY <1>3, <1>4, <1>5, <1>6, <1>7, <1>8 DEF Handles

\* A step that commits nothing keeps the commits apart.
LEMMA ApartWithoutCommit ==
  ASSUME RequestShape, HeldOnce, CommittedOnce, \A v \in Writer : HeldApart(v),
         NEW w \in Writer, Handles(w), commits' = commits
  PROVE  CommittedOnce' /\ \A v \in Writer : HeldApart(v)'
<1>0. Len(op) \in Nat /\ Len(op') \in {Len(op), Len(op) + 1} BY Undisturbed
<1>1. CommittedOnce'
  <2>1. 1 .. Len(op) \subseteq 1 .. Len(op') BY <1>0
  <2>. QED BY <2>1 DEF CommittedOnce
<1>2. ASSUME NEW v \in Writer, v # w PROVE HeldApart(v)'
  <2>1. batch'[v] = batch[v] /\ pending'[v] = pending[v] /\ phase'[v] = phase[v]
    BY <1>2, Undisturbed
  <2>2. Results(v)' = Results(v) BY <1>2, ResultsStay
  <2>3. HeldApart(v) OBVIOUS
  <2>. QED BY <2>1, <2>2, <2>3 DEF HeldApart
<1>3. HeldApart(w)'
  <2>1. HeldApart(w) OBVIOUS
  <2>2. ASSUME NEW i \in DOMAIN commits
        PROVE  Len(op) + 1 \notin Range(commits[i].batch)
    BY <1>0 DEF CommittedOnce
  <2>3. \A i \in DOMAIN commits' : Range(commits'[i].batch) \cap Range(pending'[w]) = {}
    BY <2>1, <2>2, BatchMoves DEF HeldApart
  <2>4. ASSUME phase'[w] # "commit", NEW i \in DOMAIN commits'
        PROVE  Range(commits'[i].batch) \cap Range(batch'[w]) = {}
    BY <2>1, <2>4, BatchMoves DEF HeldApart, Held
  <2>5. ASSUME phase'[w] = "commit"
        PROVE  \E i \in DOMAIN commits' :
                 commits'[i].batch = batch'[w] /\ commits'[i].results = Results(w)'
    BY <2>5, <2>1, BatchMoves, ResultsStay DEF HeldApart
  <2>. QED BY <2>3, <2>4, <2>5 DEF HeldApart
<1>. QED BY <1>1, <1>2, <1>3

\* A step that commits a batch: it was not committed before, by w or another.
LEMMA ApartWithCommit ==
  ASSUME RequestShape, HeldOnce, CommittedOnce, \A v \in Writer : HeldApart(v),
         NEW w \in Writer, Handles(w), phase[w] = "update",
         NEW c, commits' = Append(commits, c), c.batch = batch[w], c.results = Results(w)
  PROVE  CommittedOnce' /\ \A v \in Writer : HeldApart(v)'
<1>. DEFINE n == Len(commits)
<1>0. /\ n \in Nat /\ DOMAIN commits = 1 .. n
      /\ DOMAIN commits' = 1 .. n + 1
      /\ \A i \in 1 .. n : commits'[i] = commits[i]
      /\ commits'[n + 1] = c
      /\ commits' # commits
      /\ \A i \in DOMAIN commits' : i \in 1 .. n \/ i = n + 1
  BY SeqDomain, AppendShape DEF RequestShape
<1>. HIDE DEF n
<1>1. Len(op) \in Nat /\ Len(op') \in {Len(op), Len(op) + 1} BY Undisturbed
<1>2. /\ IsInjective(c.batch) /\ Range(c.batch) \subseteq 1 .. Len(op)
      /\ Range(c.batch) \subseteq Held(w)
      /\ Range(c.batch) \cap Range(pending[w]) = {}
      /\ \A i \in 1 .. n : Range(commits[i].batch) \cap Range(c.batch) = {}
      /\ \A v \in Writer \ {w} : Range(c.batch) \cap Held(v) = {}
  BY <1>0 DEF HeldOnce, HeldBy, Held, HeldApart
<1>3. CommittedOnce'
  <2>1. ASSUME NEW i \in DOMAIN commits'
        PROVE  IsInjective(commits'[i].batch) /\ Range(commits'[i].batch) \subseteq 1 .. Len(op')
    BY <1>0, <1>1, <1>2 DEF CommittedOnce
  <2>2. ASSUME NEW i \in DOMAIN commits', NEW j \in DOMAIN commits', i # j
        PROVE  Range(commits'[i].batch) \cap Range(commits'[j].batch) = {}
    BY <1>0, <2>2, <1>2 DEF CommittedOnce
  <2>. QED BY <2>1, <2>2 DEF CommittedOnce
<1>4. ASSUME NEW v \in Writer, v # w PROVE HeldApart(v)'
  <2>1. batch'[v] = batch[v] /\ pending'[v] = pending[v] /\ phase'[v] = phase[v]
    BY <1>4, Undisturbed
  <2>2. Results(v)' = Results(v) BY <1>4, ResultsStay
  <2>3. HeldApart(v) OBVIOUS
  <2>4. ASSUME NEW i \in DOMAIN commits'
        PROVE  /\ Range(commits'[i].batch) \cap Range(pending'[v]) = {}
               /\ phase'[v] # "commit" => Range(commits'[i].batch) \cap Range(batch'[v]) = {}
    BY <1>0, <2>1, <2>3, <1>2, <1>4 DEF HeldApart, Held
  <2>5. ASSUME phase'[v] = "commit"
        PROVE  \E i \in DOMAIN commits' :
                 commits'[i].batch = batch'[v] /\ commits'[i].results = Results(v)'
    <3>1. PICK i \in 1 .. n : commits[i].batch = batch[v] /\ commits[i].results = Results(v)
      BY <1>0, <2>1, <2>3, <2>5 DEF HeldApart
    <3>2. i \in DOMAIN commits' /\ commits'[i] = commits[i] BY <1>0
    <3>. QED BY <2>1, <2>2, <3>1, <3>2
  <2>. QED BY <2>4, <2>5 DEF HeldApart
<1>5. HeldApart(w)'
  <2>1. CASE Commits(w) BY <2>1, <1>0, <1>2, ResultsStay DEF Commits, RequestShape, HeldApart
  <2>2. CASE GivesUp(w) BY <2>2, EmptyHeld DEF GivesUp, RequestShape, HeldApart
  <2>3. ~ (Quiet(w) \/ Enters(w) \/ Stages(w) \/ Answers(w))
    BY <1>0 DEF Quiet, Enters, Stages, Answers
  <2>. QED BY <2>1, <2>2, <2>3 DEF Handles
<1>. QED BY <1>3, <1>4, <1>5

\* Answers have their commit.
LEMMA AnswersStep ==
  ASSUME RequestShape, HeldOnce, CommitInv, NEW w \in Writer, Handles(w)
  PROVE  AnswersCommitted'
<1>0. ASSUME NEW i \in DOMAIN commits
      PROVE  i \in DOMAIN commits' /\ commits'[i] = commits[i]
  <2>1. CASE commits' = commits BY <2>1
  <2>2. ASSUME NEW c, commits' = Append(commits, c)
        PROVE  i \in DOMAIN commits' /\ commits'[i] = commits[i]
    BY <2>2, SeqDomain, AppendShape DEF RequestShape
  <2>. QED BY <2>1, <2>2 DEF Handles, Quiet, Enters, Stages, Commits, Answers, GivesUp
<1>1. ASSUME NEW r \in Request, answer'[r] = answer[r], answer[r] \notin {Waiting, Failed, Lost}
      PROVE  \E i \in DOMAIN commits' : /\ r \in Range(commits'[i].batch)
                                        /\ answer'[r] = Ready(commits'[i].results[r])
  <2>1. PICK i \in DOMAIN commits : /\ r \in Range(commits[i].batch)
                                    /\ answer[r] = Ready(commits[i].results[r])
    BY <1>1 DEF CommitInv, AnswersCommitted
  <2>2. i \in DOMAIN commits' /\ commits'[i] = commits[i] BY <1>0
  <2>. QED BY <1>1, <2>1, <2>2
<1>2. CASE Answers(w)
  <2>1. PICK i \in DOMAIN commits : commits[i].batch = batch[w] /\ commits[i].results = Results(w)
    BY <1>2 DEF Answers, CommitInv, HeldApart
  <2>2. i \in DOMAIN commits' /\ commits'[i] = commits[i] BY <1>0
  <2>3. ASSUME NEW r \in Request
        PROVE  IF r \in Range(batch[w]) THEN answer'[r] = Ready(Results(w)[r])
               ELSE answer'[r] = answer[r]
    BY <1>2 DEF Answers
  <2>4. ASSUME NEW r \in Range(batch[w])
        PROVE  r \in Range(commits'[i].batch) /\ commits'[i].results[r] = Results(w)[r]
    BY <2>1, <2>2
  <2>. QED BY <1>1, <2>2, <2>3, <2>4 DEF AnswersCommitted
<1>3. CASE GivesUp(w) BY <1>1, <1>3 DEF GivesUp, AnswersCommitted
<1>4. CASE answer' = answer BY <1>1, <1>4 DEF AnswersCommitted
<1>. QED BY <1>2, <1>3, <1>4 DEF Handles, Quiet, Enters, Stages, Commits

-----------------------------------------------------------------------------
(* The data that manifests refer to.                                       *)

\* The values of the batch are written or will be flushed; so is all that the new
\* manifest refers to, and it is all written once the manifest may be.
DataSafe(w) ==
    /\ Values(batch[w]) \subseteq durable \cup unflushed[w]
    /\ phase[w] = "flush" => next[w].data \subseteq durable \cup unflushed[w]
    /\ phase[w] = "update" => next[w].data \subseteq durable

DataInv ==
    /\ DOMAIN next = Writer /\ DOMAIN unflushed = Writer
    /\ \A w \in Writer : DataSafe(w)
    /\ ManifestDataDurable

LEMMA NoValues == Values(<< >>) = {}
BY EmptyHeld DEF Values

LEMMA DataInit == Init => DataInv
BY NoValues DEF Init, DataInv, DataSafe, ManifestDataDurable

\* The requests that a writer holds stay as they were made.
LEMMA ValuesKept ==
  ASSUME RequestShape, HeldOnce, NEW w \in Writer, Handles(w), NEW v \in Writer,
         batch'[v] = batch[v]
  PROVE  Values(batch[v])' = Values(batch[v])
<1>1. Range(batch[v]) \subseteq 1 .. Len(op) BY DEF HeldOnce, HeldBy, Held
<1>2. \A r \in Range(batch[v]) : op'[r] = op[r] BY <1>1, Undisturbed
<1>3. {q \in Range(batch'[v]) : op'[q].kind = "write" /\ ~ op'[q].delete}
        = {q \in Range(batch[v]) : op[q].kind = "write" /\ ~ op[q].delete}
  BY <1>2
<1>. QED BY <1>3 DEF Values

\* What a step of w does to data and manifests: a manifest that it adds refers to
\* nothing, or to what the manifest it was about to write refers to.
Saves(w) ==
    /\ \/ history' = history
       \/ \E m : /\ history' = Append(history, m)
                 /\ \/ m.data = {}
                    \/ phase[w] = "update" /\ m.data = next[w].data
    /\ durable \subseteq durable'
    /\ DOMAIN next' = Writer /\ DOMAIN unflushed' = Writer
    /\ \A v \in Writer \ {w} : next'[v] = next[v] /\ unflushed'[v] = unflushed[v]
    /\ DataSafe(w)'

LEMMA SavesStep ==
  ASSUME StoreShape, RequestShape, HeldOnce, DataInv, NEW w \in Writer, WriterStep(w)
  PROVE  Saves(w)
<1>0. Handles(w) /\ DataSafe(w) BY HandlesStep DEF DataInv
<1>1. ASSUME batch'[w] = batch[w], durable' = durable, next' = next, unflushed' = unflushed,
             phase'[w] = phase[w] \/ phase'[w] \notin {"flush", "update"}
      PROVE  DataSafe(w)'
  BY <1>0, <1>1, ValuesKept DEF DataSafe
<1>2. ASSUME Reset(w), phase'[w] \notin {"flush", "update"}
      PROVE  /\ DataSafe(w)' /\ DOMAIN next' = Writer /\ DOMAIN unflushed' = Writer
             /\ \A v \in Writer \ {w} : next'[v] = next[v] /\ unflushed'[v] = unflushed[v]
  BY <1>2, EmptyHeld DEF Reset, RequestShape, Values, DataSafe, DataInv
<1>3. ASSUME NEW e, Enqueue(w, e) PROVE Saves(w)
  BY <1>3, <1>1 DEF Enqueue, MaybeStart, RequestShape, Saves, DataInv
<1>4. CASE Write(w) \/ DeleteRange(w) BY <1>3, <1>4 DEF Write, DeleteRange
<1>5. CASE EnsureExistingManifest(w)
  BY <1>5, <1>1 DEF EnsureExistingManifest, RequestShape, Saves, DataInv
<1>6. CASE CreateInitialManifest(w)
  <2>1. phase'[w] = "read" BY <1>6 DEF CreateInitialManifest, RequestShape
  <2>2. DataSafe(w)' BY <1>1, <1>6, <2>1 DEF CreateInitialManifest
  <2>3. CASE history = << >>
    <3>. DEFINE m == [tree |-> Tree(0), data |-> {}]
    <3>1. history' = << m >> BY <1>6, <2>3 DEF CreateInitialManifest
    <3>2. history' = Append(history, m) /\ m.data = {} BY <2>3, <3>1
    <3>. HIDE DEF m
    <3>. QED BY <1>6, <2>2, <3>2 DEF CreateInitialManifest, Saves, DataInv
  <2>4. CASE history # << >> BY <1>6, <2>2, <2>4 DEF CreateInitialManifest, Saves, DataInv
  <2>. QED BY <2>3, <2>4
<1>7. CASE ReadManifest(w) BY <1>7, <1>1 DEF ReadManifest, RequestShape, Saves, DataInv
<1>8. CASE StageAndApply(w)
  <2>. DEFINE requests == batch[w] \o pending[w]
              same == existing[w] > 0 /\ ~ Modified(Tree(existing[w]), StageMutations(staged[w], pending[w]))
              X == IF same THEN {} ELSE {Node(w, requests)}
  <2>1. /\ batch'[w] = requests
        /\ next'[w].data = Data(existing[w]) \cup Values(requests) \cup X
        /\ unflushed'[w] = unflushed[w] \cup Values(pending[w]) \cup X
        /\ phase'[w] = "flush" /\ durable' = durable /\ op' = op
    BY <1>8 DEF StageAndApply, DataInv, RequestShape
  <2>2. Range(requests) = Range(batch[w]) \cup Range(pending[w]) BY ConcatOnce DEF RequestShape
  <2>. HIDE DEF requests, X
  <2>3. Values(requests) = Values(batch[w]) \cup Values(pending[w]) BY <2>2 DEF Values
  <2>4. Values(batch[w])' = Values(requests) BY <2>1 DEF Values
  <2>5. Data(existing[w]) \subseteq durable
    BY SeqDomain DEF StoreShape, Data, DataInv, ManifestDataDurable
  <2>6. DataSafe(w)' BY <1>0, <2>1, <2>3, <2>4, <2>5 DEF DataSafe
  <2>. QED BY <1>8, <2>6 DEF StageAndApply, Saves, DataInv
<1>9. CASE NewManifestReady(w)
  <2>1. /\ batch'[w] = batch[w] /\ phase[w] = "flush" /\ phase'[w] = "update"
        /\ durable' = durable \cup unflushed[w] /\ next' = next
    BY <1>9 DEF NewManifestReady, RequestShape
  <2>2. Values(batch[w])' = Values(batch[w]) BY <1>0, <2>1, ValuesKept
  <2>3. DataSafe(w)' BY <1>0, <2>1, <2>2 DEF DataSafe
  <2>. QED BY <1>9, <2>3 DEF NewManifestReady, Saves, DataInv
<1>10. ASSUME NEW t, Retry(w, t) PROVE Saves(w)
  BY <1>10, <1>1 DEF Retry, RequestShape, Saves, DataInv
<1>11. ASSUME NEW g, Committed(w, g)
       PROVE  /\ DataSafe(w)' /\ durable' = durable /\ next' = next /\ unflushed' = unflushed
  BY <1>11, <1>1 DEF Committed, RequestShape
<1>12. ASSUME history' = Append(history, [tree |-> next[w].tree, data |-> next[w].data]),
              phase[w] = "update"
       PROVE  \E m : /\ history' = Append(history, m)
                     /\ phase[w] = "update" /\ m.data = next[w].data
  <2>. DEFINE m == [tree |-> next[w].tree, data |-> next[w].data]
  <2>1. history' = Append(history, m) /\ m.data = next[w].data BY <1>12
  <2>. HIDE DEF m
  <2>. QED BY <1>12, <2>1
<1>13. CASE ConfirmUnchanged(w) BY <1>10, <1>11, <1>13 DEF ConfirmUnchanged, Saves, DataInv
<1>14. CASE AbortFromCache(w) BY <1>10, <1>14 DEF AbortFromCache
<1>15. CASE WriteManifest(w) BY <1>15, <1>11, <1>12, <1>10 DEF WriteManifest, Saves, DataInv
<1>16. CASE CommitSuccessful(w)
  BY <1>16, <1>2 DEF CommitSuccessful, Restart, RequestShape, Saves
<1>17. ASSUME Fail(w)
       PROVE  /\ DataSafe(w)' /\ DOMAIN next' = Writer /\ DOMAIN unflushed' = Writer
              /\ \A v \in Writer \ {w} : next'[v] = next[v] /\ unflushed'[v] = unflushed[v]
              /\ durable' = durable
  BY <1>17, <1>2 DEF Fail, RequestShape
<1>18. CASE StoreError(w) BY <1>17, <1>18 DEF StoreError, Saves
<1>19. CASE WriteManifestUnconfirmed(w)
  BY <1>12, <1>17, <1>19 DEF WriteManifestUnconfirmed, Saves
<1>20. CASE RefreshCache(w) BY <1>1, <1>20 DEF RefreshCache, Saves, DataInv
<1>21. CASE Crash(w) BY <1>21, <1>2 DEF Crash, RequestShape, Saves
<1>. QED
  BY <1>4, <1>5, <1>6, <1>7, <1>8, <1>9, <1>13, <1>14, <1>15, <1>16, <1>18, <1>19, <1>20, <1>21
     DEF WriterStep, CommitStep

LEMMA DataStep ==
  ASSUME StoreShape, RequestShape, HeldOnce, DataInv, NEW w \in Writer, WriterStep(w)
  PROVE  DataInv'
<1>1. Saves(w) /\ Handles(w) BY SavesStep, HandlesStep
<1>2. ASSUME NEW v \in Writer PROVE DataSafe(v)'
  BY <1>1, Undisturbed, ValuesKept DEF Saves, DataInv, DataSafe
<1>3. ManifestDataDurable'
  <2>1. ManifestDataDurable /\ durable \subseteq durable' /\ DataSafe(w)
    BY <1>1 DEF Saves, DataInv
  <2>2. CASE history' = history BY <2>1, <2>2 DEF ManifestDataDurable
  <2>3. ASSUME NEW m, history' = Append(history, m), m.data \subseteq durable
        PROVE  ManifestDataDurable'
    BY <2>3, <2>1, SeqDomain, AppendShape DEF StoreShape, ManifestDataDurable
  <2>. QED BY <1>1, <2>1, <2>2, <2>3 DEF Saves, DataSafe
<1>. QED BY <1>1, <1>2, <1>3 DEF DataInv, Saves

-----------------------------------------------------------------------------
(* The theorems.                                                           *)

IInv == StoreShape /\ RequestShape /\ HeldOnce /\ CommitInv /\ DataInv

\* A future that was answered, or lost, keeps its answer: the promise of a request
\* is resolved once, by whichever commit operation or failure comes first.
AnsweredOnce == [][\A r \in Request : answer[r] # Waiting => answer'[r] = answer[r]]_vars

LEMMA IInvInit == Init => IInv
BY StoreInit, RequestInit, HeldInit, CommitInit, DataInit DEF IInv

LEMMA IInvStep ==
  ASSUME IInv, [Next]_vars
  PROVE  IInv' /\ \A r \in Request : answer[r] # Waiting => answer'[r] = answer[r]
<1>1. CASE UNCHANGED vars
  <2>1. StoreShape' /\ RequestShape' /\ answer' = answer
    BY <1>1 DEF vars, IInv, StoreShape, RequestShape
  <2>2. HeldOnce' BY <1>1 DEF vars, IInv, HeldOnce, HeldBy, Held
  <2>3. \A w \in Writer : HeldApart(w)' BY <1>1 DEF vars, IInv, CommitInv, HeldApart, Results
  <2>4. CommittedOnce' /\ AnswersCommitted'
    BY <1>1 DEF vars, IInv, CommitInv, CommittedOnce, AnswersCommitted
  <2>5. \A w \in Writer : DataSafe(w)' BY <1>1 DEF vars, IInv, DataInv, DataSafe, Values
  <2>6. ManifestDataDurable' /\ DOMAIN next' = Writer /\ DOMAIN unflushed' = Writer
    BY <1>1 DEF vars, IInv, DataInv, ManifestDataDurable
  <2>. QED BY <2>1, <2>2, <2>3, <2>4, <2>5, <2>6 DEF IInv, CommitInv, DataInv
<1>2. ASSUME NEW w \in Writer, WriterStep(w)
      PROVE  IInv' /\ \A r \in Request : answer[r] # Waiting => answer'[r] = answer[r]
  <2>1. Handles(w) BY <1>2, HandlesStep DEF IInv
  <2>2. StoreShape' BY StoreStep DEF IInv
  <2>3. RequestShape' BY <2>1, Undisturbed DEF IInv
  <2>4. HeldOnce' /\ \A r \in Request : answer[r] # Waiting => answer'[r] = answer[r]
    BY <2>1, HeldStep DEF IInv
  <2>5. CommittedOnce' /\ \A v \in Writer : HeldApart(v)'
    <3>. USE DEF IInv, CommitInv
    <3>1. CASE commits' = commits BY <2>1, <3>1, ApartWithoutCommit
    <3>2. ASSUME NEW c, commits' = Append(commits, c), phase[w] = "update",
                 c.batch = batch[w], c.results = Results(w)
          PROVE  CommittedOnce' /\ \A v \in Writer : HeldApart(v)'
      BY <2>1, <3>2, ApartWithCommit
    <3>. QED BY <2>1, <3>1, <3>2 DEF Handles, Quiet, Enters, Stages, Commits, Answers, GivesUp
  <2>6. AnswersCommitted' BY <2>1, AnswersStep DEF IInv
  <2>7. DataInv' BY <1>2, DataStep DEF IInv
  <2>. QED BY <2>2, <2>3, <2>4, <2>5, <2>6, <2>7 DEF IInv, CommitInv
<1>. QED BY <1>1, <1>2 DEF Next

LEMMA AlwaysIInv == Spec => []IInv
<1>1. IInv /\ [Next]_vars => IInv' BY IInvStep
<1>. QED BY IInvInit, <1>1, PTL DEF Spec

\* NewManifestReady waits for flush_promise_ before the manifest is written: for
\* any writers, requests, retries, kvstore errors and crashes, every manifest ever
\* stored refers only to data that is in data files.
THEOREM ManifestDataIsDurable == Spec => []ManifestDataDurable
<1>1. IInv => ManifestDataDurable BY DEF IInv, DataInv
<1>. QED BY AlwaysIInv, <1>1, PTL

\* MaybeStart, CommitSuccessful and Fail: for any writers and requests, a request
\* that has no answer yet belongs to a writer that is committing.
THEOREM NothingForgotten == Spec => []NoRequestForgotten
<1>1. ASSUME IInv, NEW r \in DOMAIN op, answer[r] = Waiting
      PROVE  \E w \in Writer : phase[w] # "idle" /\ r \in Range(batch[w]) \cup Range(pending[w])
  <2>1. /\ Len(op) \in Nat /\ DOMAIN op = 1 .. Len(op) /\ Len(op) <= MaxRequest
    BY <1>1, SeqDomain DEF IInv, RequestShape
  <2>2. r \in Request /\ ~ r > Len(op) BY <2>1, ConstantsAssumption DEF Request
  <2>3. PICK w \in Writer : r \in Held(w) BY <1>1, <2>2 DEF IInv, HeldOnce
  <2>4. phase[w] # "idle" BY <1>1, <2>3 DEF IInv, HeldOnce, HeldBy
  <2>. QED BY <2>3, <2>4 DEF Held
<1>2. IInv => NoRequestForgotten BY <1>1 DEF NoRequestForgotten
<1>. QED BY AlwaysIInv, <1>2, PTL

\* CommitSuccessful, Retry, Fail and a restart: for any writers and requests, no
\* request is part of two commits, and a caller that is told a value had its request
\* applied by a commit that computed that value.
THEOREM RequestsAppliedOnce == Spec => []AppliedExactlyOnce
<1>1. IInv => AppliedExactlyOnce
  BY DEF IInv, CommitInv, CommittedOnce, AnswersCommitted, AppliedExactlyOnce
<1>. QED BY AlwaysIInv, <1>1, PTL

\* The promise of a request: for any writers and requests, it is resolved at most
\* once, whether by a commit, by an error or by the loss of its process.
THEOREM AnswersAreFinal == Spec => AnsweredOnce
<1>1. IInv /\ [Next]_vars => (\A r \in Request : answer[r] # Waiting => answer'[r] = answer[r])
  BY IInvStep
<1>. QED BY AlwaysIInv, <1>1, PTL DEF Spec, AnsweredOnce

=============================================================================
