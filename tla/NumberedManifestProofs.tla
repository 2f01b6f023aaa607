----------------------- MODULE NumberedManifestProofs -----------------------
(***************************************************************************)
(* For every set of processes, every number of manifests kept and any      *)
(* number of attempts, crashes and delayed requests: the newest numbered   *)
(* manifest is never deleted or replaced by an older one, and the log of   *)
(* versions only grows at its end; and the manifests implement ManifestLog *)
(* when there are no more processes than manifests are kept.               *)
(***************************************************************************)
EXTENDS NumberedManifest, FiniteSetTheorems, SequenceTheorems, TLAPS

-----------------------------------------------------------------------------
(* Manifests.                                                              *)

\* A manifest that may be read: shorter than the log, or the log.
Good(m, l) == m = l \/ Len(m) < Len(l)

\* A manifest whose write may still take effect: too late, or the next one.
NextOrLate(m, l) == Len(m) <= Len(l) \/ \E v \in Version : m = Append(l, v)

\* A manifest and one more version.
LEMMA AppendVersion ==
  ASSUME NEW m \in Manifest, NEW v \in Version
  PROVE  /\ Append(m, v) \in Manifest
         /\ Append(m, v) # << >>
         /\ Len(Append(m, v)) = Len(m) + 1
         /\ Append(m, v)[Len(m) + 1] = v
         /\ \A i \in 1 .. Len(m) : Append(m, v)[i] = m[i]
BY AppendProperties DEF Manifest

\* Appending to a manifest that may be read gives one that may be written.
LEMMA AppendGood ==
  ASSUME NEW m \in Manifest, NEW l \in Manifest, NEW v \in Version, Good(m, l)
  PROVE  NextOrLate(Append(m, v), l)
<1>1. CASE m = l BY <1>1 DEF NextOrLate
<1>2. CASE Len(m) < Len(l)
  <2>1. Len(m) \in Nat /\ Len(l) \in Nat BY DEF Manifest
  <2>2. Len(Append(m, v)) <= Len(l) BY <1>2, <2>1, AppendVersion
  <2>. QED BY <2>2 DEF NextOrLate
<1>. QED BY <1>1, <1>2 DEF Good

\* What may be read or written stays so when the log grows.
LEMMA GrowKeeps ==
  ASSUME NEW m \in Manifest, NEW l \in Manifest, NEW v \in Version
  PROVE  /\ Good(m, l) => Good(m, Append(l, v))
         /\ NextOrLate(m, l) => NextOrLate(m, Append(l, v))
<1>1. /\ Len(m) \in Nat /\ Len(l) \in Nat
      /\ Len(Append(l, v)) = Len(l) + 1
  BY AppendVersion DEF Manifest
<1>2. Good(m, l) => Good(m, Append(l, v)) BY <1>1 DEF Good
<1>3. ASSUME NextOrLate(m, l)
      PROVE  Len(m) <= Len(l) + 1
  <2>1. ASSUME NEW u \in Version, m = Append(l, u)
        PROVE  Len(m) = Len(l) + 1
    BY <2>1, AppendVersion
  <2>. QED BY <1>1, <1>3, <2>1 DEF NextOrLate
<1>. QED BY <1>1, <1>2, <1>3 DEF NextOrLate

-----------------------------------------------------------------------------
(* The values of the variables.                                            *)

\* A process with a manifest to validate has made one.
MineMade ==
  \A p \in Process : mine[p] = << >> =>
     goal[p] = "attempt" /\ phase[p] \notin {"write", "validate"}

\* TypeOK is preserved by every step, given MineMade.
LEMMA TypeStep == TypeOK /\ MineMade /\ [Next]_vars => TypeOK'
<1> SUFFICES ASSUME TypeOK, MineMade, [Next]_vars PROVE TypeOK'
  OBVIOUS
<1>0. << >> \in Manifest /\ made \in Nat BY EmptySeq, ConstantsAssumption DEF Manifest, TypeOK
<1>1. \A m \in Manifest : Len(m) \in Nat BY DEF Manifest
<1>2. Generations(files) \in SUBSET Nat BY <1>1 DEF Generations, TypeOK
<1>3. ASSUME NEW p \in Process, NEW m \in Manifest, NEW g \in SUBSET Nat,
             ReadDone(p, m, g)
      PROVE  /\ cache' \in [Process -> Manifest] /\ base' \in [Process -> Manifest]
             /\ known' \in [Process -> Manifest]
             /\ present' \in [Process -> SUBSET Nat] /\ listed' \in [Process -> SUBSET Nat]
             /\ phase' \in [Process -> {"idle", "list", "fetch", "attempt", "write",
                                        "validate"}]
  BY <1>0, <1>3 DEF ReadDone, TypeOK
<1>4. ASSUME NEW p \in Process, List(p)
      PROVE  TypeOK'
  <2>1. CASE ReadDone(p, << >>, {}) BY <1>0, <1>3, <1>4, <2>1 DEF List, TypeOK
  <2>2. CASE ReadDone(p, known[p], Generations(files))
    <3>1. known[p] \in Manifest BY DEF TypeOK
    <3>. QED BY <1>2, <1>3, <1>4, <2>2, <3>1 DEF List, TypeOK
  <2>3. CASE /\ listed' = [listed EXCEPT ![p] = Generations(files)]
             /\ phase' = [phase EXCEPT ![p] = "fetch"]
             /\ UNCHANGED << cache, present, base, known >>
    BY <1>2, <1>4, <2>3 DEF List, TypeOK
  <2>. QED BY <1>4, <2>1, <2>2, <2>3 DEF List
<1>5. ASSUME NEW p \in Process, Fetch(p)
      PROVE  TypeOK'
  <2>1. ASSUME NEW m \in files, ReadDone(p, m, listed[p])
        PROVE  TypeOK'
    <3>1. m \in Manifest /\ listed[p] \in SUBSET Nat BY DEF TypeOK
    <3>. QED BY <1>3, <1>5, <2>1, <3>1 DEF Fetch, TypeOK
  <2>2. CASE /\ known' = [known EXCEPT ![p] = << >>]
             /\ listed' = [listed EXCEPT ![p] = {}]
             /\ phase' = [phase EXCEPT ![p] = "list"]
             /\ UNCHANGED << cache, present, base >>
    BY <1>0, <1>5, <2>2 DEF Fetch, TypeOK
  <2>. QED BY <1>5, <2>1, <2>2 DEF Fetch
<1>6. ASSUME NEW p \in Process, Refresh(p)
      PROVE  TypeOK'
  <2>1. PICK m \in files : cache' = [cache EXCEPT ![p] = m] BY <1>6 DEF Refresh
  <2>2. m \in Manifest BY DEF TypeOK
  <2>. QED BY <1>2, <1>6, <2>1, <2>2 DEF Refresh, TypeOK
<1>7. ASSUME NEW p \in Process, Start(p)
      PROVE  TypeOK'
  BY <1>0, <1>7 DEF Start, StartRead, TypeOK
<1>8. ASSUME NEW p \in Process, TryUpdate(p)
      PROVE  TypeOK'
  <2>1. made + 1 \in Version /\ base[p] \in Manifest
    BY <1>8, ConstantsAssumption DEF TryUpdate, TypeOK, Version
  <2>2. NewManifest(p) \in Manifest BY <2>1, AppendVersion DEF NewManifest
  <2>3. ToDelete(p, Len(NewManifest(p))) \subseteq Nat BY DEF ToDelete, TypeOK
  <2>4. writes' \subseteq Manifest /\ deletes' \subseteq Version \X Nat
    BY <1>8, <2>1, <2>2, <2>3 DEF TryUpdate, TypeOK
  <2>5. made' \in 0 .. MaxVersion BY <1>8, ConstantsAssumption DEF TryUpdate, TypeOK
  <2>. QED BY <1>8, <2>2, <2>4, <2>5 DEF TryUpdate, TypeOK
<1>9. ASSUME NEW p \in Process, TryUpdateOutOfDate(p)
      PROVE  TypeOK'
  BY <1>9 DEF TryUpdateOutOfDate, TypeOK
<1>10. ASSUME NEW m \in writes, KvsWrite(m)
       PROVE  TypeOK'
  <2>1. m \in Manifest BY DEF TypeOK
  <2>2. files' \subseteq Manifest /\ log' \in Manifest
    BY <1>10, <2>1 DEF KvsWrite, Create, TypeOK
  <2>3. wrote' \in [Process -> {"waiting", "ok", "mismatch", "error"}]
    BY <1>10 DEF KvsWrite, AnswerWrite, TypeOK
  <2>. QED BY <1>10, <2>2, <2>3 DEF KvsWrite, TypeOK
<1>11. ASSUME NEW d \in deletes, KvsDelete(d)
       PROVE  TypeOK'
  BY <1>11 DEF KvsDelete, TypeOK
<1>12. ASSUME NEW p \in Process, WriteNewNumberedManifestDone(p) \/ Mismatched(p)
       PROVE  TypeOK'
  BY <1>12 DEF WriteNewNumberedManifestDone, Mismatched, StartRead, TypeOK
<1>13. ASSUME NEW p \in Process, WriteFailed(p) \/ ReadFailed(p)
       PROVE  TypeOK'
  BY <1>0, <1>13 DEF WriteFailed, ReadFailed, EndCommit, TypeOK
<1>14. ASSUME NEW p \in Process, ValidateNewNumberedManifest(p)
       PROVE  TypeOK'
  <2>1. LatestVersion(mine[p]) \in Version
    BY <1>14 DEF ValidateNewNumberedManifest, MineMade, TypeOK, Manifest, LatestVersion
  <2>. QED BY <1>0, <1>14, <2>1 DEF ValidateNewNumberedManifest, EndCommit, TypeOK
<1>15. ASSUME NEW p \in Process, Crash(p)
       PROVE  TypeOK'
  BY <1>0, <1>15 DEF Crash, EndCommit, TypeOK
<1>16. CASE UNCHANGED vars BY <1>16 DEF vars, TypeOK
<1>. QED
  BY <1>4, <1>5, <1>6, <1>7, <1>8, <1>9, <1>10, <1>11, <1>12, <1>13, <1>14, <1>15, <1>16
     DEF Next, CommitStep, KvsStep

\* So is MineMade.
LEMMA MineStep == TypeOK /\ MineMade /\ [Next]_vars => MineMade'
<1> SUFFICES ASSUME TypeOK, MineMade, [Next]_vars PROVE MineMade'
  OBVIOUS
<1>1. ASSUME NEW p \in Process, List(p) \/ Fetch(p)
      PROVE  MineMade'
  BY <1>1 DEF List, Fetch, ReadDone, MineMade, TypeOK
<1>2. ASSUME NEW p \in Process, Refresh(p) \/ Start(p) \/ TryUpdateOutOfDate(p)
      PROVE  MineMade'
  BY <1>2 DEF Refresh, Start, StartRead, TryUpdateOutOfDate, MineMade, TypeOK
<1>3. ASSUME NEW p \in Process, TryUpdate(p)
      PROVE  MineMade'
  <2>1. NewManifest(p) # << >>
    BY <1>3, AppendVersion, ConstantsAssumption DEF NewManifest, TryUpdate, TypeOK, Version
  <2>. QED BY <1>3, <2>1 DEF TryUpdate, MineMade, TypeOK
<1>4. ASSUME NEW p \in Process, WriteNewNumberedManifestDone(p) \/ Mismatched(p)
      PROVE  MineMade'
  BY <1>4 DEF WriteNewNumberedManifestDone, Mismatched, AllAnswered, StartRead, MineMade, TypeOK
<1>5. ASSUME NEW p \in Process, WriteFailed(p) \/ ReadFailed(p) \/ ValidateNewNumberedManifest(p) \/ Crash(p)
      PROVE  MineMade'
  BY <1>5 DEF WriteFailed, ReadFailed, ValidateNewNumberedManifest, Crash, EndCommit, MineMade, TypeOK
<1>6. CASE KvsStep \/ UNCHANGED vars BY <1>6 DEF KvsStep, KvsWrite, KvsDelete, MineMade, vars
<1>. QED BY <1>1, <1>2, <1>3, <1>4, <1>5, <1>6 DEF Next, CommitStep

\* The initial state.
LEMMA TypeInit == Init => TypeOK /\ MineMade
<1>1. << >> \in Manifest BY EmptySeq DEF Manifest
<1>. QED BY <1>1, ConstantsAssumption DEF Init, TypeOK, MineMade

\* The state of processes and files always has its type.
THEOREM TypeCorrect == Spec => []TypeOK
<1>1. Init => TypeOK /\ MineMade BY TypeInit
<1>2. TypeOK /\ MineMade /\ [Next]_vars => (TypeOK /\ MineMade)' BY TypeStep, MineStep
<1>. QED BY <1>1, <1>2, PTL DEF Spec

-----------------------------------------------------------------------------
(* The newest manifest.  NewestIsLog alone is not inductive: what a delayed *)
(* write will do depends on the manifest it was made from, and what a       *)
(* delayed deletion will do on the files that were listed before it.        *)

\* Every manifest that a process holds is older than the log, or is the log.
Readable ==
  \A p \in Process : Good(cache[p], log) /\ Good(known[p], log) /\ Good(base[p], log)

\* So is a manifest whose file was written.
WrittenIsOld == \A p \in Process : wrote[p] = "ok" => Good(mine[p], log)

\* A write in flight comes too late, or would be the next one.
Writable == \A m \in writes : m # << >> /\ NextOrLate(m, log)

\* A deletion in flight is of an older manifest.
Deletable == \A d \in deletes : d[2] < Len(log)

LogInv == NewestIsLog /\ Readable /\ WrittenIsOld /\ Writable /\ Deletable

\* What a step that changes neither the files nor the log has to keep.
LEMMA ReadStep ==
  ASSUME TypeOK, LogInv, MineMade, NEW p \in Process,
         UNCHANGED << files, writes, deletes, log >>,
         NEW m \in Manifest, Good(m, log),
         cache' = [cache EXCEPT ![p] = m] \/ cache' = cache,
         \/ known' = [known EXCEPT ![p] = m] \/ known' = [known EXCEPT ![p] = << >>]
         \/ known' = known,
         \/ base' = [base EXCEPT ![p] = m] \/ base' = [base EXCEPT ![p] = << >>]
         \/ base' = base,
         \/ wrote' = wrote /\ mine' = mine
         \/ wrote' = [wrote EXCEPT ![p] = "waiting"] /\ \A q \in Process \ {p} : mine'[q] = mine[q]
  PROVE  LogInv'
<1>1. Good(<< >>, log) BY DEF Good, TypeOK, Manifest
<1>2. NewestIsLog' /\ Writable' /\ Deletable' BY DEF LogInv, NewestIsLog, Writable, Deletable
<1>3. Readable' BY <1>1 DEF LogInv, Readable, TypeOK
<1>4. WrittenIsOld' BY DEF LogInv, WrittenIsOld, TypeOK
<1>. QED BY <1>2, <1>3, <1>4 DEF LogInv

\* A write that takes effect extends the log, or creates an old file again.
LEMMA CreateStep ==
  ASSUME TypeOK, LogInv, NEW m \in writes, Absent(m), Create(m)
  PROVE  /\ log' = log \/ \E v \in Version : m = Append(log, v) /\ log' = m
         /\ NewestIsLog'
         /\ Good(m, log')
<1>1. m \in Manifest /\ log \in Manifest /\ Len(m) \in Nat /\ Len(log) \in Nat
  BY DEF TypeOK, Manifest
<1>2. m # << >> /\ NextOrLate(m, log) /\ \A f \in files : Len(f) # Len(m)
  BY DEF LogInv, Writable, Absent, Generations
<1>3. CASE Len(m) > Len(log)
  <2>1. PICK v \in Version : m = Append(log, v) BY <1>1, <1>2, <1>3 DEF NextOrLate
  <2>2. log' = m /\ files' = files \cup {m} BY <1>3 DEF Create
  <2>3. \A f \in files : f # m => Len(f) < Len(m)
    BY <1>1, <1>3 DEF LogInv, NewestIsLog, TypeOK, Manifest
  <2>. QED BY <2>1, <2>2, <2>3 DEF NewestIsLog, Good
<1>4. CASE ~ (Len(m) > Len(log))
  <2>1. log' = log /\ files' = files \cup {m} BY <1>4 DEF Create
  <2>2. log # << >> BY <1>1, <1>2, <1>4, EmptySeq DEF Manifest
  <2>3. files # {} /\ log \in files BY <2>2 DEF LogInv, NewestIsLog
  <2>4. Len(m) < Len(log) BY <1>1, <1>2, <1>4, <2>3
  <2>. QED BY <2>1, <2>2, <2>3, <2>4 DEF LogInv, NewestIsLog, Good
<1>. QED BY <1>3, <1>4

\* LogInv is preserved by every step.
LEMMA LogStep == TypeOK /\ MineMade /\ LogInv /\ [Next]_vars => LogInv'
<1> SUFFICES ASSUME TypeOK, MineMade, LogInv, [Next]_vars PROVE LogInv'
  OBVIOUS
<1>0. /\ log \in Manifest /\ Len(log) \in Nat
      /\ << >> \in Manifest /\ Good(<< >>, log)
      /\ \A m \in files : m \in Manifest /\ Good(m, log)
      /\ \A p \in Process : /\ cache[p] \in Manifest /\ Good(cache[p], log)
                            /\ known[p] \in Manifest /\ Good(known[p], log)
                            /\ base[p] \in Manifest /\ Good(base[p], log)
                            /\ mine[p] \in Manifest
  BY EmptySeq DEF TypeOK, Manifest, LogInv, NewestIsLog, Readable, Good
<1>1. ASSUME NEW p \in Process, List(p)
      PROVE  LogInv'
  <2>1. CASE ReadDone(p, << >>, {}) BY <1>0, <1>1, <2>1, ReadStep DEF List, ReadDone
  <2>2. CASE ReadDone(p, known[p], Generations(files))
    BY <1>0, <1>1, <2>2, ReadStep DEF List, ReadDone
  <2>3. CASE UNCHANGED << cache, present, base, known >> BY <1>0, <1>1, <2>3, ReadStep DEF List
  <2>. QED BY <1>1, <2>1, <2>2, <2>3 DEF List
<1>2. ASSUME NEW p \in Process, Fetch(p)
      PROVE  LogInv'
  <2>1. ASSUME NEW m \in files, ReadDone(p, m, listed[p])
        PROVE  LogInv'
    BY <1>0, <1>2, <2>1, ReadStep DEF Fetch, ReadDone
  <2>2. CASE known' = [known EXCEPT ![p] = << >>] /\ UNCHANGED << cache, present, base >>
    BY <1>0, <1>2, <2>2, ReadStep DEF Fetch
  <2>. QED BY <1>2, <2>1, <2>2 DEF Fetch
<1>3. ASSUME NEW p \in Process, Refresh(p)
      PROVE  LogInv'
  <2>1. PICK m \in files : cache' = [cache EXCEPT ![p] = m] BY <1>3 DEF Refresh
  <2>. QED BY <1>0, <1>3, <2>1, ReadStep DEF Refresh
<1>4. ASSUME NEW p \in Process, Start(p)
      PROVE  LogInv'
  BY <1>0, <1>4, ReadStep DEF Start, StartRead
<1>5. ASSUME NEW p \in Process, TryUpdate(p)
      PROVE  LogInv'
  <2>1. made + 1 \in Version BY <1>5, ConstantsAssumption DEF TryUpdate, TypeOK, Version
  <2>2. /\ NewManifest(p) # << >> /\ NextOrLate(NewManifest(p), log)
        /\ Len(NewManifest(p)) = Len(base[p]) + 1
    BY <1>0, <2>1, AppendVersion, AppendGood DEF NewManifest
  <2>3. Writable' BY <1>5, <2>2 DEF TryUpdate, LogInv, Writable
  <2>4. Len(base[p]) \in Nat /\ Len(base[p]) <= Len(log) BY <1>0 DEF Good, Manifest
  <2>5. ASSUME NEW v \in ToDelete(p, Len(NewManifest(p)))
        PROVE  v < Len(log)
    <3>1. v \in Nat /\ Len(base[p]) + 1 - v > Keep BY <2>2 DEF ToDelete, TypeOK
    <3>. QED BY <1>0, <2>4, <3>1, ConstantsAssumption
  <2>6. Deletable' BY <1>5, <2>5 DEF TryUpdate, LogInv, Deletable
  <2>7. NewestIsLog' /\ Readable' /\ WrittenIsOld'
    BY <1>5 DEF TryUpdate, LogInv, NewestIsLog, Readable, WrittenIsOld, TypeOK
  <2>. QED BY <2>3, <2>6, <2>7 DEF LogInv
<1>6. ASSUME NEW p \in Process, TryUpdateOutOfDate(p)
      PROVE  LogInv'
  BY <1>0, <1>6, ReadStep DEF TryUpdateOutOfDate
<1>7. ASSUME NEW m \in writes, KvsWrite(m)
      PROVE  LogInv'
  <2>1. CASE Absent(m) /\ Create(m)
    <3>1. /\ log' = log \/ \E v \in Version : log' = Append(log, v)
          /\ NewestIsLog' /\ Good(m, log')
      BY <2>1, CreateStep
    <3>2. ASSUME NEW f \in Manifest
          PROVE  /\ Good(f, log) => Good(f, log')
                 /\ NextOrLate(f, log) => NextOrLate(f, log')
      BY <1>0, <3>1, GrowKeeps
    <3>3. Readable' BY <1>0, <1>7, <3>2 DEF KvsWrite, Readable
    <3>4. WrittenIsOld'
      BY <1>0, <1>7, <3>1, <3>2 DEF KvsWrite, AnswerWrite, LogInv, WrittenIsOld
    <3>5. Writable' BY <1>7, <3>2 DEF KvsWrite, LogInv, Writable, TypeOK
    <3>6. Len(log') >= Len(log) /\ Len(log') \in Nat BY <1>0, <3>1, AppendVersion
    <3>7. Deletable' BY <1>0, <1>7, <3>6 DEF KvsWrite, LogInv, Deletable, TypeOK
    <3>. QED BY <3>1, <3>3, <3>4, <3>5, <3>7 DEF LogInv
  <2>2. CASE UNCHANGED << files, log >> /\ (AnswerWrite(m, "mismatch") \/ AnswerWrite(m, "error"))
    BY <1>7, <2>2 DEF KvsWrite, AnswerWrite, LogInv, NewestIsLog, Readable, WrittenIsOld,
                      Writable, Deletable
  <2>. QED BY <1>7, <2>1, <2>2 DEF KvsWrite
<1>8. ASSUME NEW d \in deletes, KvsDelete(d)
      PROVE  LogInv'
  <2>1. d[2] \in Nat /\ d[2] < Len(log) BY DEF LogInv, Deletable, TypeOK
  <2>2. NewestIsLog' BY <1>0, <1>8, <2>1 DEF KvsDelete, LogInv, NewestIsLog
  <2>3. Readable' /\ WrittenIsOld' /\ Writable' /\ Deletable'
    BY <1>8 DEF KvsDelete, LogInv, Readable, WrittenIsOld, Writable, Deletable
  <2>. QED BY <2>2, <2>3 DEF LogInv
<1>9. ASSUME NEW p \in Process, WriteNewNumberedManifestDone(p)
      PROVE  LogInv'
  <2>1. mine[p] \in Manifest /\ Good(mine[p], log)
    BY <1>0, <1>9 DEF WriteNewNumberedManifestDone, LogInv, WrittenIsOld
  <2>. QED BY <1>9, <2>1, ReadStep DEF WriteNewNumberedManifestDone, StartRead
<1>10. ASSUME NEW p \in Process, Mismatched(p)
       PROVE  LogInv'
  BY <1>0, <1>10, ReadStep DEF Mismatched, StartRead
<1>11. ASSUME NEW p \in Process, EndCommit(p),
              \/ UNCHANGED << cache, known >>
              \/ UNCHANGED cache /\ known' = [known EXCEPT ![p] = << >>]
              \/ /\ cache' = [cache EXCEPT ![p] = << >>]
                 /\ known' = [known EXCEPT ![p] = << >>],
              UNCHANGED << files, writes, deletes, log >>
       PROVE  LogInv'
  <2>1. \A q \in Process \ {p} : mine'[q] = mine[q] BY <1>11 DEF EndCommit, TypeOK
  <2>. QED BY <1>0, <1>11, <2>1, ReadStep DEF EndCommit
<1>12. ASSUME NEW p \in Process, WriteFailed(p) \/ ReadFailed(p)
       PROVE  LogInv'
  BY <1>11, <1>12 DEF WriteFailed, ReadFailed
<1>13. ASSUME NEW p \in Process, ValidateNewNumberedManifest(p)
       PROVE  LogInv'
  <2>1. CASE EndCommit(p) BY <1>11, <1>13, <2>1 DEF ValidateNewNumberedManifest
  <2>2. CASE base' = [base EXCEPT ![p] = cache[p]] /\ UNCHANGED << goal, mine, wrote, acked >>
    BY <1>0, <1>13, <2>2, ReadStep DEF ValidateNewNumberedManifest
  <2>. QED BY <1>13, <2>1, <2>2 DEF ValidateNewNumberedManifest
<1>14. ASSUME NEW p \in Process, Crash(p)
       PROVE  LogInv'
  BY <1>11, <1>14 DEF Crash
<1>15. CASE UNCHANGED vars
  BY <1>15 DEF vars, LogInv, NewestIsLog, Readable, WrittenIsOld, Writable, Deletable
<1>. QED
  BY <1>1, <1>2, <1>3, <1>4, <1>5, <1>6, <1>7, <1>8, <1>9, <1>10, <1>12, <1>13, <1>14, <1>15
     DEF Next, CommitStep, KvsStep

\* NewestIsLog: neither a deletion of old manifests nor a write that was delayed
\* past any number of commits touches the newest manifest, however many processes
\* there are and however many manifests are kept, as long as it is more than one.
THEOREM NewestIsAlwaysLog == Spec => []NewestIsLog
<1>1. Init => LogInv
  BY DEF Init, LogInv, NewestIsLog, Readable, WrittenIsOld, Writable, Deletable, Good
<1>2. TypeOK /\ MineMade /\ LogInv /\ [Next]_vars => (TypeOK /\ MineMade /\ LogInv)'
  BY TypeStep, MineStep, LogStep
<1>3. LogInv => NewestIsLog BY DEF LogInv
<1>. QED BY <1>1, <1>2, <1>3, TypeInit, PTL DEF Spec

-----------------------------------------------------------------------------
(* Validation.  The write was answered before the files are listed, so the  *)
(* list shows a generation at least as high as the one written.             *)

\* The newest generation a list of the files shows.
LEMMA NewestGeneration ==
  ASSUME TypeOK, NewestIsLog
  PROVE  /\ Generations(files) = {} <=> log = << >>
         /\ Generations(files) # {} => Max(Generations(files)) = Len(log)
<1>1. /\ \A m \in files : Len(m) \in Nat
      /\ Len(log) \in Nat
  BY DEF TypeOK, Manifest
<1>2. Generations(files) = {} <=> log = << >> BY DEF Generations, NewestIsLog
<1>3. ASSUME Generations(files) # {}
      PROVE  Max(Generations(files)) = Len(log)
  <2>1. Len(log) \in Generations(files) BY <1>3 DEF Generations, NewestIsLog
  <2>2. \A g \in Generations(files) : g \in Nat /\ g <= Len(log)
    BY <1>1 DEF Generations, NewestIsLog
  <2>. QED BY <1>1, <2>1, <2>2 DEF Max
<1>. QED BY <1>2, <1>3

\* A commit validates a manifest only after its file was written.
Validating ==
  \A p \in Process :
     /\ phase[p] = "validate" => goal[p] = "validate"
     /\ goal[p] = "validate" /\ phase[p] \in {"list", "fetch", "validate"} => wrote[p] = "ok"

\* The manifest about to be read for it is not older than the one written.
Finds ==
  \A p \in Process :
     phase[p] = "fetch" /\ goal[p] = "validate" => Len(mine[p]) <= Max(listed[p])

ValidateInv == Validating /\ Finds /\ VersionIsFound

\* A step that leaves every commit that is validated as it is.
LEMMA ValidateKept ==
  ASSUME TypeOK, ValidateInv, NEW p \in Process,
         UNCHANGED << listed, cache, mine, wrote >> \/ phase'[p] \notin {"fetch", "validate"},
         phase'[p] = "list" /\ goal'[p] = "validate" => wrote'[p] = "ok",
         phase'[p] \in {"fetch", "validate"} => phase'[p] = phase[p] /\ goal'[p] = goal[p],
         \A q \in Process \ {p} :
            /\ phase'[q] = phase[q] /\ goal'[q] = goal[q] /\ listed'[q] = listed[q]
            /\ cache'[q] = cache[q] /\ mine'[q] = mine[q] /\ wrote'[q] = wrote[q]
  PROVE  ValidateInv'
<1>1. Validating' BY DEF ValidateInv, Validating
<1>2. Finds' BY DEF ValidateInv, Finds
<1>3. VersionIsFound' BY DEF ValidateInv, VersionIsFound, HasVersion
<1>. QED BY <1>1, <1>2, <1>3 DEF ValidateInv

\* ValidateInv is preserved by every step.
LEMMA ValidateStep ==
  TypeOK /\ MineMade /\ LogInv /\ ValidateInv /\ [Next]_vars => ValidateInv'
<1> SUFFICES ASSUME TypeOK, MineMade, LogInv, ValidateInv, [Next]_vars PROVE ValidateInv'
  OBVIOUS
<1>0. ASSUME NEW p \in Process, goal[p] = "validate", phase[p] \in {"list", "fetch", "validate"}
      PROVE  /\ wrote[p] = "ok" /\ mine[p] # << >>
             /\ Len(mine[p]) \in Nat /\ Len(mine[p]) # 0
             /\ Len(log) \in Nat /\ Len(mine[p]) <= Len(log)
  <2>1. wrote[p] = "ok" /\ mine[p] # << >> /\ mine[p] \in Manifest /\ log \in Manifest
    BY <1>0 DEF ValidateInv, Validating, MineMade, TypeOK
  <2>2. Good(mine[p], log) BY <2>1 DEF LogInv, WrittenIsOld
  <2>. QED BY <2>1, <2>2, EmptySeq DEF Good, Manifest
<1>1. ASSUME NEW p \in Process, NEW m \in Manifest, NEW g, ReadDone(p, m, g),
             phase[p] \in {"list", "fetch"}, UNCHANGED << goal, mine, wrote >>,
             goal[p] = "validate" => Len(mine[p]) <= Len(m)
      PROVE  ValidateInv'
  <2>1. Validating' BY <1>1 DEF ReadDone, TypeOK, ValidateInv, Validating
  <2>2. Finds' BY <1>1 DEF ReadDone, TypeOK, ValidateInv, Finds
  <2>3. VersionIsFound' BY <1>1 DEF ReadDone, TypeOK, ValidateInv, VersionIsFound, HasVersion
  <2>. QED BY <2>1, <2>2, <2>3 DEF ValidateInv
<1>2. ASSUME NEW p \in Process, List(p)
      PROVE  ValidateInv'
  <2>0. /\ Generations(files) = {} <=> log = << >>
        /\ Generations(files) # {} => Max(Generations(files)) = Len(log)
    BY NewestGeneration DEF LogInv
  <2>1. CASE Generations(files) = {} /\ ReadDone(p, << >>, {})
    <3>1. goal[p] # "validate" BY <1>0, <1>2, <2>0, <2>1, EmptySeq DEF List
    <3>. QED BY <1>1, <1>2, <2>1, <3>1, EmptySeq DEF List, Manifest
  <2>2. CASE /\ Generations(files) # {} /\ Len(known[p]) = Max(Generations(files))
             /\ ReadDone(p, known[p], Generations(files))
    <3>1. known[p] \in Manifest BY DEF TypeOK
    <3>2. goal[p] = "validate" => Len(mine[p]) <= Len(known[p])
      BY <1>0, <1>2, <2>0, <2>2 DEF List
    <3>3. phase[p] = "list" /\ UNCHANGED << goal, mine, wrote >> BY <1>2 DEF List
    <3>. QED BY <1>1, <2>2, <3>1, <3>2, <3>3
  <2>3. CASE /\ Generations(files) # {}
             /\ listed' = [listed EXCEPT ![p] = Generations(files)]
             /\ phase' = [phase EXCEPT ![p] = "fetch"]
             /\ UNCHANGED << cache, present, base, known >>
    <3>1. goal[p] = "validate" => Len(mine[p]) <= Max(listed'[p]) /\ wrote[p] = "ok"
      BY <1>0, <1>2, <2>0, <2>3 DEF List, TypeOK
    <3>2. Validating' BY <1>2, <2>3, <3>1 DEF List, TypeOK, ValidateInv, Validating
    <3>3. Finds' BY <1>2, <2>3, <3>1 DEF List, TypeOK, ValidateInv, Finds
    <3>4. VersionIsFound'
      BY <1>2, <2>3 DEF List, TypeOK, ValidateInv, VersionIsFound, HasVersion
    <3>. QED BY <3>2, <3>3, <3>4 DEF ValidateInv
  <2>. QED BY <1>2, <2>1, <2>2, <2>3 DEF List
<1>3. ASSUME NEW p \in Process, Fetch(p)
      PROVE  ValidateInv'
  <2>1. ASSUME NEW m \in files, Len(m) = Max(listed[p]), ReadDone(p, m, listed[p])
        PROVE  ValidateInv'
    <3>1. m \in Manifest BY DEF TypeOK
    <3>2. goal[p] = "validate" => Len(mine[p]) <= Len(m)
      BY <1>3, <2>1 DEF Fetch, ValidateInv, Finds
    <3>3. phase[p] = "fetch" /\ UNCHANGED << goal, mine, wrote >> BY <1>3 DEF Fetch
    <3>. QED BY <1>1, <2>1, <3>1, <3>2, <3>3
  <2>2. CASE /\ listed' = [listed EXCEPT ![p] = {}]
             /\ phase' = [phase EXCEPT ![p] = "list"]
             /\ UNCHANGED << cache, present, base >>
    BY <1>0, <1>3, <2>2, ValidateKept DEF Fetch, TypeOK
  <2>. QED BY <1>3, <2>1, <2>2 DEF Fetch
<1>4. ASSUME NEW p \in Process, Refresh(p)
      PROVE  ValidateInv'
  <2>1. PICK m \in files : cache' = [cache EXCEPT ![p] = m] BY <1>4 DEF Refresh
  <2>. QED BY <1>4, <2>1, ValidateKept DEF Refresh, TypeOK
<1>5. ASSUME NEW p \in Process, Start(p) \/ TryUpdate(p) \/ TryUpdateOutOfDate(p)
      PROVE  ValidateInv'
  <2>1. CASE Start(p) BY <2>1, ValidateKept DEF Start, StartRead, TypeOK
  <2>2. CASE TryUpdate(p) BY <2>2, ValidateKept DEF TryUpdate, TypeOK
  <2>3. CASE TryUpdateOutOfDate(p) BY <2>3, ValidateKept DEF TryUpdateOutOfDate, TypeOK
  <2>. QED BY <1>5, <2>1, <2>2, <2>3
<1>6. ASSUME NEW m \in writes, KvsWrite(m)
      PROVE  ValidateInv'
  <2>1. \A p \in Process : phase[p] # "write" => wrote'[p] = wrote[p]
    BY <1>6 DEF KvsWrite, AnswerWrite
  <2>2. Validating' BY <1>6, <2>1 DEF KvsWrite, ValidateInv, Validating
  <2>3. Finds' /\ VersionIsFound'
    BY <1>6 DEF KvsWrite, ValidateInv, Finds, VersionIsFound, HasVersion
  <2>. QED BY <2>2, <2>3 DEF ValidateInv
<1>7. ASSUME NEW p \in Process, WriteNewNumberedManifestDone(p) \/ Mismatched(p)
      PROVE  ValidateInv'
  BY <1>7, ValidateKept DEF WriteNewNumberedManifestDone, Mismatched, StartRead, AllAnswered, TypeOK
<1>8. ASSUME NEW p \in Process, WriteFailed(p) \/ ReadFailed(p) \/ ValidateNewNumberedManifest(p) \/ Crash(p)
      PROVE  ValidateInv'
  <2>1. CASE WriteFailed(p) \/ ReadFailed(p) BY <2>1, ValidateKept DEF WriteFailed, ReadFailed, EndCommit, TypeOK
  <2>2. CASE ValidateNewNumberedManifest(p)
    BY <2>2, ValidateKept DEF ValidateNewNumberedManifest, EndCommit, TypeOK
  <2>3. CASE Crash(p) BY <2>3, ValidateKept DEF Crash, EndCommit, TypeOK
  <2>. QED BY <1>8, <2>1, <2>2, <2>3
<1>9. CASE (\E d \in deletes : KvsDelete(d)) \/ UNCHANGED vars
  BY <1>9 DEF KvsDelete, vars, ValidateInv, Validating, Finds, VersionIsFound, HasVersion
<1>. QED BY <1>2, <1>3, <1>4, <1>5, <1>6, <1>7, <1>8, <1>9 DEF Next, CommitStep, KvsStep

\* The invariants that all later results rest on.
BaseInv == TypeOK /\ MineMade /\ LogInv /\ ValidateInv

LEMMA BaseInit == Init => BaseInv
<1>1. Init => LogInv
  BY DEF Init, LogInv, NewestIsLog, Readable, WrittenIsOld, Writable, Deletable, Good
<1>2. Init => ValidateInv BY DEF Init, ValidateInv, Validating, Finds, VersionIsFound
<1>. QED BY <1>1, <1>2, TypeInit DEF BaseInv

LEMMA BaseStep == BaseInv /\ [Next]_vars => BaseInv'
BY TypeStep, MineStep, LogStep, ValidateStep DEF BaseInv

\* VersionIsFound: however long the list and the read take, and whatever is written
\* and deleted in between, ValidateNewNumberedManifest reads a manifest that has a
\* version of the generation that was written.
THEOREM VersionIsAlwaysFound == Spec => []VersionIsFound
<1>1. BaseInv => VersionIsFound BY DEF BaseInv, ValidateInv
<1>. QED BY <1>1, BaseInit, BaseStep, PTL DEF Spec

-----------------------------------------------------------------------------
(***************************************************************************)
(* The numbered manifests implement ManifestLog when there are no more     *)
(* processes than manifests are kept.  The hypothesis is needed: a reader  *)
(* lists the files first and reads the newest one later; a file that was   *)
(* deleted in between may have been created again by a delayed write, and  *)
(* with Keep + 1 readers that are all between their list and their read    *)
(* such files can form a branch as long as the manifests that are kept.    *)
(***************************************************************************)

\* The versions in the version tree of a manifest.
Versions(m) == {m[i] : i \in DOMAIN m}

\* The versions of a manifest and of its successor.
LEMMA VersionsOfManifest ==
  ASSUME NEW m \in Manifest
  PROVE  /\ Versions(m) \subseteq Version
         /\ Versions(<< >>) = {}
         /\ m # << >> => LatestVersion(m) \in Versions(m) /\ Len(m) \in Nat \ {0}
         /\ \A v \in Version : /\ Versions(Append(m, v)) = Versions(m) \cup {v}
                               /\ LatestVersion(Append(m, v)) = v
<1>1. Versions(m) \subseteq Version /\ Versions(<< >>) = {} BY DEF Versions, Manifest
<1>2. m # << >> => LatestVersion(m) \in Versions(m) /\ Len(m) \in Nat \ {0}
  BY EmptySeq DEF Versions, Manifest, LatestVersion
<1>3. ASSUME NEW v \in Version
      PROVE  /\ Versions(Append(m, v)) = Versions(m) \cup {v}
             /\ LatestVersion(Append(m, v)) = v
  <2>1. /\ Append(m, v) \in Manifest /\ Len(Append(m, v)) = Len(m) + 1 /\ Len(m) \in Nat
        /\ Append(m, v)[Len(m) + 1] = v /\ \A i \in 1 .. Len(m) : Append(m, v)[i] = m[i]
    BY AppendVersion DEF Manifest
  <2>2. DOMAIN m = 1 .. Len(m) /\ DOMAIN Append(m, v) = 1 .. (Len(m) + 1) BY <2>1 DEF Manifest
  <2>3. ASSUME NEW x \in Versions(Append(m, v))
        PROVE  x \in Versions(m) \cup {v}
    <3>1. PICK i \in 1 .. (Len(m) + 1) : x = Append(m, v)[i] BY <2>2 DEF Versions
    <3>2. i \in 1 .. Len(m) \/ i = Len(m) + 1 BY <2>1
    <3>. QED BY <2>1, <2>2, <3>1, <3>2 DEF Versions
  <2>4. ASSUME NEW x \in Versions(m) \cup {v}
        PROVE  x \in Versions(Append(m, v))
    <3>1. CASE x = v BY <2>1, <2>2, <3>1 DEF Versions
    <3>2. CASE x \in Versions(m)
      <4>1. PICK i \in 1 .. Len(m) : x = m[i] BY <2>2, <3>2 DEF Versions
      <4>2. i \in 1 .. (Len(m) + 1) /\ x = Append(m, v)[i] BY <2>1, <4>1
      <4>. QED BY <2>2, <4>2 DEF Versions
    <3>. QED BY <3>1, <3>2
  <2>. QED BY <2>1, <2>3, <2>4 DEF LatestVersion
<1>. QED BY <1>1, <1>2, <1>3

-----------------------------------------------------------------------------
(* What a step may do to the manifests.                                     *)

\* Where the manifests that process q has after a step come from.
Moves(q) ==
  /\ \/ cache'[q] \in {cache[q], << >>}
     \/ cache'[q] = known[q] /\ Len(known[q]) = Len(log)
     \/ \E m \in files : /\ cache'[q] = m
                         /\ \/ Len(m) = Len(log)
                            \/ phase[q] = "fetch" /\ Len(m) = Max(listed[q])
  /\ base'[q] \in {base[q], << >>, cache[q], cache'[q]}
  /\ \/ known'[q] \in {known[q], << >>, cache[q]}
     \/ known'[q] = mine[q] /\ wrote[q] = "ok"
  /\ \/ mine'[q] = mine[q] /\ (wrote'[q] = wrote[q] \/ mine[q] \in writes \ writes')
     \/ mine'[q] = << >> /\ wrote'[q] = "waiting"
     \/ /\ mine'[q] = Append(base[q], made + 1) /\ wrote'[q] = "waiting"
        /\ made + 1 \in Version /\ made' = made + 1
        /\ writes' = writes \cup {Append(base[q], made + 1)}
  /\ phase'[q] = "fetch" =>
        \/ phase[q] = "fetch" /\ listed'[q] = listed[q] /\ goal'[q] = goal[q]
        \/ Max(listed'[q]) = Len(log)
  /\ phase'[q] = "validate" =>
        \/ phase[q] = "validate" /\ cache'[q] = cache[q]
        \/ Len(cache'[q]) = Len(log)
        \/ phase[q] = "fetch" /\ goal[q] = "validate" /\ Len(cache'[q]) = Max(listed[q])

\* A step leaves the manifests of a process alone.
LEMMA MovesNothing ==
  ASSUME NEW q \in Process,
         cache'[q] = cache[q], base'[q] = base[q], known'[q] = known[q], mine'[q] = mine[q],
         phase'[q] = phase[q], listed'[q] = listed[q], goal'[q] = goal[q],
         wrote'[q] = wrote[q] \/ mine[q] \in writes \ writes'
  PROVE  Moves(q)
BY DEF Moves

\* Every step moves the manifests of every process in this way.
LEMMA MovesStep == BaseInv /\ [Next]_vars => \A q \in Process : Moves(q)
<1> SUFFICES ASSUME BaseInv, [Next]_vars, NEW q \in Process PROVE Moves(q)
  OBVIOUS
<1>0. TypeOK /\ LogInv /\ NewestIsLog BY DEF BaseInv, LogInv
<1>1. /\ Generations(files) = {} <=> log = << >>
      /\ Generations(files) # {} => Max(Generations(files)) = Len(log)
  BY <1>0, NewestGeneration
<1>2. ASSUME NEW p \in Process, List(p)
      PROVE  Moves(q)
  <2>1. CASE q # p BY <1>0, <1>2, <2>1, MovesNothing DEF List, ReadDone, TypeOK
  <2>2. CASE q = p /\ Generations(files) = {} /\ ReadDone(p, << >>, {})
    <3>1. Len(log) = 0 /\ Len(<< >>) = 0 BY <1>1, <2>2
    <3>. QED BY <1>0, <1>2, <2>2, <3>1 DEF List, ReadDone, TypeOK, Moves
  <2>3. CASE q = p /\ Len(known[p]) = Len(log) /\ ReadDone(p, known[p], Generations(files))
    BY <1>0, <1>2, <2>3 DEF List, ReadDone, TypeOK, Moves
  <2>4. CASE /\ q = p /\ Generations(files) # {}
             /\ listed' = [listed EXCEPT ![p] = Generations(files)]
             /\ phase' = [phase EXCEPT ![p] = "fetch"]
             /\ UNCHANGED << cache, present, base, known >>
    BY <1>0, <1>1, <1>2, <2>4 DEF List, TypeOK, Moves
  <2>. QED BY <1>1, <1>2, <2>1, <2>2, <2>3, <2>4 DEF List
<1>3. ASSUME NEW p \in Process, Fetch(p)
      PROVE  Moves(q)
  <2>1. ASSUME NEW m \in files, Len(m) = Max(listed[p]), ReadDone(p, m, listed[p])
        PROVE  Moves(q)
    <3>1. CASE q # p BY <1>0, <1>3, <2>1, <3>1, MovesNothing DEF Fetch, ReadDone, TypeOK
    <3>2. CASE q = p BY <1>0, <1>3, <2>1, <3>2 DEF Fetch, ReadDone, TypeOK, Moves
    <3>. QED BY <3>1, <3>2
  <2>2. CASE /\ known' = [known EXCEPT ![p] = << >>]
             /\ listed' = [listed EXCEPT ![p] = {}]
             /\ phase' = [phase EXCEPT ![p] = "list"]
             /\ UNCHANGED << cache, present, base >>
    BY <1>0, <1>3, <2>2 DEF Fetch, TypeOK, Moves
  <2>. QED BY <1>3, <2>1, <2>2 DEF Fetch
<1>4. ASSUME NEW p \in Process, Refresh(p)
      PROVE  Moves(q)
  <2>1. PICK m \in files : Len(m) = Max(Generations(files)) /\ cache' = [cache EXCEPT ![p] = m]
    BY <1>4 DEF Refresh
  <2>2. Len(m) = Len(log) BY <1>1, <2>1 DEF Generations
  <2>3. CASE q # p BY <1>0, <1>4, <2>1, <2>3, MovesNothing DEF Refresh, TypeOK
  <2>4. CASE q = p
    <3>1. cache'[q] = m BY <1>0, <2>1, <2>4 DEF TypeOK
    <3>2. \E f \in files : cache'[q] = f /\ Len(f) = Len(log) BY <2>2, <3>1
    <3>3. /\ phase'[q] \notin {"fetch", "validate"} /\ wrote'[q] = wrote[q]
          /\ base'[q] = base[q] /\ known'[q] = known[q] /\ mine'[q] = mine[q]
      BY <1>4, <2>4 DEF Refresh
    <3>. QED BY <1>4, <2>4, <3>2, <3>3 DEF Moves
  <2>. QED BY <2>3, <2>4
<1>5. ASSUME NEW p \in Process, Start(p)
      PROVE  Moves(q)
  BY <1>0, <1>5 DEF Start, StartRead, TypeOK, Moves
<1>6. ASSUME NEW p \in Process, TryUpdate(p)
      PROVE  Moves(q)
  <2>1. made + 1 \in Version BY <1>0, <1>6, ConstantsAssumption DEF TryUpdate, TypeOK, Version
  <2>. QED BY <1>0, <1>6, <2>1 DEF TryUpdate, NewManifest, TypeOK, Moves
<1>7. ASSUME NEW p \in Process, TryUpdateOutOfDate(p)
      PROVE  Moves(q)
  BY <1>0, <1>7 DEF TryUpdateOutOfDate, TypeOK, Moves
<1>8. ASSUME NEW p \in Process, WriteNewNumberedManifestDone(p) \/ Mismatched(p)
      PROVE  Moves(q)
  BY <1>0, <1>8 DEF WriteNewNumberedManifestDone, Mismatched, StartRead, TypeOK, Moves
<1>9. ASSUME NEW p \in Process, WriteFailed(p) \/ ReadFailed(p) \/ Crash(p)
      PROVE  Moves(q)
  BY <1>0, <1>9 DEF WriteFailed, ReadFailed, Crash, EndCommit, TypeOK, Moves
<1>10. ASSUME NEW p \in Process, ValidateNewNumberedManifest(p)
       PROVE  Moves(q)
  BY <1>0, <1>10 DEF ValidateNewNumberedManifest, EndCommit, TypeOK, Moves
<1>11. CASE KvsStep \/ UNCHANGED vars
  <2>1. wrote'[q] = wrote[q] \/ mine[q] \in writes \ writes'
    BY <1>11 DEF KvsStep, KvsWrite, AnswerWrite, KvsDelete, vars
  <2>. QED BY <1>11, <2>1, MovesNothing DEF KvsStep, KvsWrite, KvsDelete, vars
<1>. QED BY <1>2, <1>3, <1>4, <1>5, <1>6, <1>7, <1>8, <1>9, <1>10, <1>11 DEF Next, CommitStep

\* What every step does to the files, the writes and the log.
FileMoves ==
  /\ made' \in Nat /\ made <= made'
  /\ files' \subseteq files \cup (writes \ writes')
  /\ \/ writes' \subseteq writes
     \/ \E q \in Process : /\ writes' = writes \cup {Append(base[q], made + 1)}
                           /\ made + 1 \in Version /\ made' = made + 1
                           /\ mine'[q] = Append(base[q], made + 1) /\ wrote'[q] = "waiting"
                           /\ \A r \in Process \ {q} : mine'[r] = mine[r] /\ wrote'[r] = wrote[r]
                           /\ UNCHANGED << files, log, cache, base, known >>
  /\ \/ log' = log
     \/ \E v \in Version : Append(log, v) \in writes \ writes' /\ log' = Append(log, v)

LEMMA FileMovesStep == BaseInv /\ [Next]_vars => FileMoves
<1> SUFFICES ASSUME BaseInv, [Next]_vars PROVE FileMoves
  OBVIOUS
<1>0. TypeOK /\ LogInv /\ made \in Nat BY DEF BaseInv, TypeOK
<1>1. CASE UNCHANGED << files, writes, log, made >> BY <1>0, <1>1 DEF FileMoves
<1>2. ASSUME NEW p \in Process, TryUpdate(p)
      PROVE  FileMoves
  <2>1. made + 1 \in Version BY <1>0, <1>2, ConstantsAssumption DEF TryUpdate, TypeOK, Version
  <2>. QED BY SMTT(30), <1>0, <1>2, <2>1 DEF TryUpdate, NewManifest, TypeOK, FileMoves
<1>3. ASSUME NEW m \in writes, KvsWrite(m)
      PROVE  FileMoves
  <2>1. CASE Absent(m) /\ Create(m)
    <3>1. log' = log \/ \E v \in Version : m = Append(log, v) /\ log' = m
      BY <1>0, <2>1, CreateStep
    <3>2. log' = log \/ \E v \in Version : Append(log, v) \in writes \ writes' /\ log' = Append(log, v)
      BY <1>3, <3>1 DEF KvsWrite
    <3>3. /\ writes' \subseteq writes /\ files' \subseteq files \cup (writes \ writes')
          /\ made' = made
      BY <1>3, <2>1 DEF KvsWrite, Create
    <3>. QED BY <1>0, <3>2, <3>3 DEF FileMoves
  <2>2. CASE UNCHANGED << files, log >> BY <1>0, <1>3, <2>2 DEF KvsWrite, FileMoves
  <2>. QED BY <1>3, <2>1, <2>2 DEF KvsWrite
<1>4. ASSUME NEW d \in deletes, KvsDelete(d)
      PROVE  FileMoves
  BY <1>0, <1>4 DEF KvsDelete, FileMoves
<1>5. ASSUME NEW p \in Process, CommitStep(p) \/ Start(p) \/ Refresh(p) \/ Crash(p), ~ TryUpdate(p)
      PROVE  UNCHANGED << files, writes, log, made >>
  BY <1>5 DEF CommitStep, Start, Refresh, Crash, List, Fetch, TryUpdateOutOfDate,
     WriteNewNumberedManifestDone, Mismatched, WriteFailed, ReadFailed, ValidateNewNumberedManifest
<1>. QED BY <1>1, <1>2, <1>3, <1>4, <1>5 DEF Next, KvsStep, vars

-----------------------------------------------------------------------------
(* Versions: each belongs to one attempt, and nobody reads the version of a *)
(* write that has not taken effect.                                         *)

Past(m, n) == \A x \in Versions(m) : x <= n

\* The versions in any manifest are those of attempts already made.
Bounded ==
  /\ Past(log, made) /\ \A m \in files \cup writes : Past(m, made)
  /\ \A p \in Process : Past(cache[p], made) /\ Past(base[p], made) /\ Past(known[p], made) /\ Past(mine[p], made)

\* The version of a write in flight is in no other manifest, and the commit that
\* made it still waits for the answer.
Unread(w, x) ==
  /\ x \notin Versions(log) /\ \A m \in files : x \notin Versions(m)
  /\ \A m \in writes : m # w => x \notin Versions(m)
  /\ \A p \in Process :
        /\ x \notin Versions(cache[p]) /\ x \notin Versions(base[p]) /\ x \notin Versions(known[p])
        /\ mine[p] = w => wrote[p] = "waiting"
        /\ mine[p] # w => x \notin Versions(mine[p])

Unpublished == \A w \in writes, x \in Version : x = LatestVersion(w) => Unread(w, x)

LEMMA BoundedStep == BaseInv /\ Bounded /\ [Next]_vars => Bounded'
<1> SUFFICES ASSUME BaseInv, Bounded, [Next]_vars PROVE Bounded'
  OBVIOUS
<1>0. TypeOK /\ FileMoves BY FileMovesStep DEF BaseInv
<1>1. made \in Nat /\ made' \in Nat /\ made <= made' BY <1>0 DEF TypeOK, FileMoves
<1>2. ASSUME NEW m \in Manifest, Past(m, made)
      PROVE  /\ Past(m, made')
             /\ made + 1 \in Version /\ made' = made + 1 => Past(Append(m, made + 1), made')
  <2>1. Versions(m) \subseteq Nat BY VersionsOfManifest DEF Version
  <2>2. Past(m, made') BY <1>1, <1>2, <2>1 DEF Past
  <2>3. made + 1 \in Version => Versions(Append(m, made + 1)) = Versions(m) \cup {made + 1}
    BY VersionsOfManifest
  <2>. QED BY <1>1, <2>2, <2>3 DEF Past
<1>3. Past(<< >>, made') BY VersionsOfManifest, EmptySeq DEF Past, Versions
<1>4. \A m \in files \cup writes : Past(m, made') BY <1>0, <1>2 DEF TypeOK, Bounded
<1>5. \A q \in Process : /\ base[q] \in Manifest /\ Past(base[q], made)
                         /\ \A m \in {cache[q], base[q], known[q], mine[q]} : Past(m, made')
  BY <1>0, <1>2 DEF TypeOK, Bounded
<1>6. \A m \in files' \cup writes' : Past(m, made')
  <2>1. CASE writes' \subseteq writes BY <1>0, <1>4, <2>1 DEF FileMoves
  <2>2. ASSUME NEW q \in Process, writes' = writes \cup {Append(base[q], made + 1)},
               made + 1 \in Version, made' = made + 1
        PROVE  \A m \in files' \cup writes' : Past(m, made')
    <3>1. Past(Append(base[q], made + 1), made') BY <1>2, <1>5, <2>2
    <3>. QED BY <1>0, <1>4, <2>2, <3>1 DEF FileMoves
  <2>. QED BY <1>0, <2>1, <2>2 DEF FileMoves
<1>7. Past(log', made')
  <2>1. CASE log' = log BY <1>0, <1>2, <2>1 DEF TypeOK, Bounded
  <2>2. CASE \E v \in Version : Append(log, v) \in writes \ writes' /\ log' = Append(log, v)
    BY <1>4, <2>2
  <2>. QED BY <1>0, <2>1, <2>2 DEF FileMoves
<1>8. ASSUME NEW p \in Process
      PROVE  /\ Past(cache'[p], made') /\ Past(base'[p], made')
             /\ Past(known'[p], made') /\ Past(mine'[p], made')
  <2>0. Moves(p) BY MovesStep
  <2>1. \A m \in {cache[p], base[p], known[p], mine[p], << >>} \cup files : Past(m, made')
    BY <1>3, <1>4, <1>5
  <2>2. Past(cache'[p], made') /\ Past(known'[p], made') BY <2>0, <2>1 DEF Moves
  <2>3. Past(base'[p], made') BY <2>0, <2>1, <2>2 DEF Moves
  <2>4. Past(mine'[p], made')
    <3>1. CASE mine'[p] \in {mine[p], << >>} BY <2>1, <3>1
    <3>2. CASE mine'[p] = Append(base[p], made + 1) /\ made + 1 \in Version /\ made' = made + 1
      BY <1>2, <1>5, <3>2
    <3>. QED BY <2>0, <3>1, <3>2 DEF Moves
  <2>. QED BY <2>2, <2>3, <2>4
<1>. QED BY <1>6, <1>7, <1>8 DEF Bounded

LEMMA UnpublishedStep == BaseInv /\ Bounded /\ Unpublished /\ [Next]_vars => Unpublished'
<1> SUFFICES ASSUME BaseInv, Bounded, Unpublished, [Next]_vars,
                    NEW w \in writes', NEW x \in Version, x = LatestVersion(w)
             PROVE  Unread(w, x)'
  BY DEF Unpublished
<1>0. TypeOK /\ LogInv /\ FileMoves /\ \A q \in Process : Moves(q)
  BY FileMovesStep, MovesStep DEF BaseInv
<1>1. /\ made \in Nat /\ x \in Nat
      /\ Versions(<< >>) = {}
      /\ \A q \in Process : base[q] \in Manifest
  BY <1>0, VersionsOfManifest, EmptySeq DEF TypeOK, Version, Versions
<1>2. \A q \in Process : made + 1 \in Version =>
         /\ Versions(Append(base[q], made + 1)) = Versions(base[q]) \cup {made + 1}
         /\ LatestVersion(Append(base[q], made + 1)) = made + 1
  BY <1>1, VersionsOfManifest
<1>3. CASE w \in writes
  <2>0. Unread(w, x) BY <1>3 DEF Unpublished
  <2>1. w \in Manifest /\ w # << >> /\ x \in Versions(w) /\ x <= made
    <3>1. w \in Manifest /\ w # << >> BY <1>0, <1>3 DEF TypeOK, LogInv, Writable
    <3>2. x \in Versions(w) BY <3>1, VersionsOfManifest
    <3>3. Past(w, made) BY <1>3 DEF Bounded
    <3>. QED BY <3>1, <3>2, <3>3 DEF Past
  <2>2. x \notin Versions(log') /\ \A m \in files' : x \notin Versions(m)
    BY <1>0, <2>0 DEF FileMoves, Unread
  <2>3. \A q \in Process : made + 1 \in Version => x \notin Versions(Append(base[q], made + 1))
    <3>1. x # made + 1 BY <1>1, <2>1
    <3>2. \A q \in Process : x \notin Versions(base[q]) BY <2>0 DEF Unread
    <3>. QED BY <1>2, <3>1, <3>2
  <2>4. \A m \in writes' : m # w => x \notin Versions(m)
    BY <1>0, <2>0, <2>3 DEF FileMoves, Unread
  <2>5. ASSUME NEW p \in Process
        PROVE  /\ x \notin Versions(cache'[p]) /\ x \notin Versions(base'[p])
               /\ x \notin Versions(known'[p])
               /\ mine'[p] = w => wrote'[p] = "waiting"
               /\ mine'[p] # w => x \notin Versions(mine'[p])
    <3>0. /\ Moves(p)
          /\ x \notin Versions(cache[p]) /\ x \notin Versions(base[p]) /\ x \notin Versions(known[p])
          /\ mine[p] = w => wrote[p] = "waiting"
          /\ mine[p] # w => x \notin Versions(mine[p])
          /\ \A m \in files : x \notin Versions(m)
      BY <1>0, <2>0 DEF Unread
    <3>1. x \notin Versions(cache'[p]) BY <1>1, <3>0 DEF Moves
    <3>2. x \notin Versions(base'[p]) BY <1>1, <3>0, <3>1 DEF Moves
    <3>3. x \notin Versions(known'[p]) BY <1>1, <3>0 DEF Moves
    <3>4. mine'[p] = w => wrote'[p] = "waiting" BY <1>3, <3>0 DEF Moves
    <3>5. mine'[p] # w => x \notin Versions(mine'[p]) BY <1>1, <2>3, <3>0 DEF Moves
    <3>. QED BY <3>1, <3>2, <3>3, <3>4, <3>5
  <2>. QED BY <2>2, <2>4, <2>5 DEF Unread
<1>4. CASE w \notin writes
  <2>1. PICK q \in Process :
              /\ writes' = writes \cup {Append(base[q], made + 1)}
              /\ made + 1 \in Version /\ made' = made + 1
              /\ mine'[q] = Append(base[q], made + 1) /\ wrote'[q] = "waiting"
              /\ \A r \in Process \ {q} : mine'[r] = mine[r] /\ wrote'[r] = wrote[r]
              /\ UNCHANGED << files, log, cache, base, known >>
    BY <1>0, <1>4 DEF FileMoves
  <2>2. w = Append(base[q], made + 1) /\ x = made + 1 /\ x \in Versions(w) BY <1>2, <1>4, <2>1
  <2>3. ASSUME NEW m, Past(m, made)
        PROVE  x \notin Versions(m)
    BY <1>1, <2>2, <2>3 DEF Past
  <2>4. x \notin Versions(log) /\ \A m \in files \cup writes : x \notin Versions(m)
    BY <2>3 DEF Bounded
  <2>5. \A p \in Process : /\ x \notin Versions(cache[p]) /\ x \notin Versions(base[p])
                           /\ x \notin Versions(known[p]) /\ x \notin Versions(mine[p])
    BY <2>3 DEF Bounded
  <2>. QED BY <2>1, <2>2, <2>4, <2>5 DEF Unread
<1>. QED BY <1>3, <1>4

-----------------------------------------------------------------------------
(* The manifests that are kept.                                             *)

\* A generation that was written is deleted only when Keep newer ones exist.
Kept == \A g \in 1 .. Len(log) : g + Keep > Len(log) => g \in Generations(files)

\* So a deletion in flight is of one that far behind.
DeletesOld == \A d \in deletes : d[2] + Keep <= Len(log)

LEMMA KeptStep ==
  BaseInv /\ Kept /\ DeletesOld /\ [Next]_vars => Kept' /\ DeletesOld'
<1> SUFFICES ASSUME BaseInv, Kept, DeletesOld, [Next]_vars PROVE Kept' /\ DeletesOld'
  OBVIOUS
<1>0. TypeOK /\ LogInv /\ Len(log) \in Nat /\ Keep \in Nat
  BY ConstantsAssumption DEF BaseInv, TypeOK, Manifest
<1>1. CASE UNCHANGED << files, deletes, log >>
  <2>1. Kept' BY <1>1 DEF Kept, Generations
  <2>2. DeletesOld' BY <1>1 DEF DeletesOld
  <2>. QED BY <2>1, <2>2
<1>2. ASSUME NEW p \in Process, TryUpdate(p)
      PROVE  Kept' /\ DeletesOld'
  <2>1. base[p] \in Manifest /\ Len(base[p]) \in Nat /\ Len(base[p]) <= Len(log)
    <3>1. base[p] \in Manifest /\ log \in Manifest BY <1>0 DEF TypeOK
    <3>2. Good(base[p], log) BY <1>0 DEF LogInv, Readable
    <3>. QED BY <3>1, <3>2 DEF Good, Manifest
  <2>2. made + 1 \in Version BY <1>0, <1>2, ConstantsAssumption DEF TryUpdate, TypeOK, Version
  <2>3. Len(NewManifest(p)) = Len(base[p]) + 1 BY <2>1, <2>2, AppendVersion DEF NewManifest
  <2>4. \A v \in ToDelete(p, Len(NewManifest(p))) : v + Keep <= Len(log)
    BY <1>0, <2>1, <2>3 DEF ToDelete, TypeOK
  <2>. QED BY <1>2, <2>4 DEF TryUpdate, Kept, DeletesOld, Generations
<1>3. ASSUME NEW m \in writes, KvsWrite(m)
      PROVE  Kept' /\ DeletesOld'
  <2>1. CASE Absent(m) /\ Create(m)
    <3>1. log' = log \/ \E v \in Version : m = Append(log, v) /\ log' = m
      BY <1>0, <2>1, CreateStep
    <3>2. Len(log') = Len(log) \/ (log' = m /\ Len(log') = Len(log) + 1)
      BY <1>0, <3>1, AppendVersion DEF TypeOK
    <3>3. Generations(files') = Generations(files) \cup {Len(m)} BY <2>1 DEF Create, Generations
    <3>4. Kept' BY <1>0, <3>2, <3>3 DEF Kept
    <3>5. \A d \in deletes : d[2] \in Nat /\ d[2] + Keep <= Len(log)
      BY <1>0 DEF DeletesOld, TypeOK
    <3>6. DeletesOld' BY <1>0, <1>3, <3>2, <3>5 DEF KvsWrite, DeletesOld
    <3>. QED BY <3>4, <3>6
  <2>2. CASE UNCHANGED << files, log >> BY <1>1, <1>3, <2>2 DEF KvsWrite
  <2>. QED BY <1>3, <2>1, <2>2 DEF KvsWrite
<1>4. ASSUME NEW d \in deletes, KvsDelete(d)
      PROVE  Kept' /\ DeletesOld'
  <2>1. d[2] \in Nat /\ d[2] + Keep <= Len(log) BY <1>0 DEF DeletesOld, TypeOK
  <2>2. \A g \in Generations(files) : g # d[2] => g \in Generations(files')
    BY <1>4 DEF KvsDelete, Generations
  <2>3. Kept' BY <1>0, <1>4, <2>1, <2>2 DEF KvsDelete, Kept
  <2>. QED BY <1>4, <2>3 DEF KvsDelete, DeletesOld
<1>5. ASSUME NEW p \in Process, CommitStep(p) \/ Start(p) \/ Refresh(p) \/ Crash(p), ~ TryUpdate(p)
      PROVE  UNCHANGED << files, deletes, log >>
  BY <1>5 DEF CommitStep, Start, Refresh, Crash, List, Fetch, TryUpdateOutOfDate,
     WriteNewNumberedManifestDone, Mismatched, WriteFailed, ReadFailed, ValidateNewNumberedManifest
<1>. QED BY <1>1, <1>2, <1>3, <1>4, <1>5 DEF Next, KvsStep, vars

-----------------------------------------------------------------------------
(* A write that was late creates a file that is not in the log.  What is    *)
(* made from that file never gets as far as the manifest its commit reads.  *)

\* Some generation g behind the log is read by nobody any more, so no manifest
\* with version x, which is not in the log, is longer than g.
FenceAt(x, g, q) ==
  /\ phase[q] = "fetch" => Max(listed[q]) # g
  /\ x \in Versions(cache[q]) => Len(cache[q]) < g
  /\ x \in Versions(base[q]) => Len(base[q]) < g
  /\ x \in Versions(known[q]) => Len(known[q]) <= g
  /\ x \in Versions(mine[q]) => Len(mine[q]) <= g

\* Process p, whose commit made version x, reads a longer one.
ReadsBeyond(p, g) ==
  /\ phase[p] = "fetch" /\ goal[p] = "validate" => Max(listed[p]) > g
  /\ phase[p] = "validate" => Len(cache[p]) > g

Fence(p, x, g) ==
  /\ x \in Versions(mine[p])
  /\ g < Len(log) /\ x \notin Versions(log)
  /\ \A m \in files \cup writes : x \in Versions(m) => Len(m) <= g
  /\ \A q \in Process : FenceAt(x, g, q)
  /\ ReadsBeyond(p, g)

\* A version whose file was written is in the log, or fenced.
Orphans ==
  \A p \in Process, x \in Version :
     wrote[p] = "ok" /\ x = LatestVersion(mine[p]) =>
        x \in Versions(log) \/ \E g \in Nat : Fence(p, x, g)

\* A fence stays.
LEMMA FenceKept ==
  ASSUME BaseInv, [Next]_vars, NEW p \in Process, NEW x \in Version, x <= made,
         NEW g \in Nat, Fence(p, x, g), mine'[p] = mine[p]
  PROVE  Fence(p, x, g)'
<1>0. TypeOK /\ FileMoves /\ \A q \in Process : Moves(q) BY FileMovesStep, MovesStep DEF BaseInv
<1>1. /\ log \in Manifest /\ Len(log) \in Nat /\ made \in Nat /\ x \in Nat
      /\ x # made + 1 /\ Versions(<< >>) = {}
      /\ \A m \in files \cup writes : Len(m) \in Nat /\ (x \in Versions(m) => Len(m) <= g)
      /\ g < Len(log) /\ x \notin Versions(log)
  BY <1>0 DEF TypeOK, Manifest, Version, Versions, Fence
<1>2. ASSUME NEW q \in Process
      PROVE  /\ base[q] \in Manifest /\ Len(base[q]) \in Nat
             /\ Len(cache[q]) \in Nat /\ Len(known[q]) \in Nat /\ Len(mine[q]) \in Nat
             /\ FenceAt(x, g, q) /\ Moves(q)
  BY <1>0 DEF TypeOK, Manifest, Fence
<1>3. ASSUME NEW q \in Process, made + 1 \in Version, x \in Versions(Append(base[q], made + 1))
      PROVE  Len(Append(base[q], made + 1)) <= g
  <2>1. base[q] \in Manifest /\ Len(base[q]) \in Nat BY <1>2
  <2>2. x \in Versions(base[q]) BY <1>1, <1>3, <2>1, VersionsOfManifest
  <2>3. Len(base[q]) < g BY <1>2, <2>2 DEF FenceAt
  <2>. QED BY <1>3, <2>1, <2>3, AppendVersion
<1>4. g < Len(log') /\ x \notin Versions(log')
  <2>1. CASE log' = log BY <1>1, <2>1
  <2>2. ASSUME NEW v \in Version, Append(log, v) \in writes, log' = Append(log, v)
        PROVE  g < Len(log') /\ x \notin Versions(log')
    <3>1. Len(Append(log, v)) = Len(log) + 1 BY <1>1, AppendVersion
    <3>2. x \in Versions(Append(log, v)) => Len(Append(log, v)) <= g BY <1>1, <2>2
    <3>3. g < Len(Append(log, v)) /\ ~ (Len(Append(log, v)) <= g) BY <1>1, <3>1
    <3>. QED BY <2>2, <3>2, <3>3
  <2>. QED BY <1>0, <2>1, <2>2 DEF FileMoves
<1>5. \A m \in files' \cup writes' : x \in Versions(m) => Len(m) <= g
  BY <1>0, <1>1, <1>3 DEF FileMoves
<1>6. ASSUME NEW q \in Process
      PROVE  FenceAt(x, g, q)'
  <2>1. phase'[q] = "fetch" => Max(listed'[q]) # g BY <1>1, <1>2 DEF FenceAt, Moves
  <2>2. x \in Versions(cache'[q]) => Len(cache'[q]) < g
    <3>1. CASE cache'[q] \in {cache[q], << >>} BY <1>1, <1>2, <3>1 DEF FenceAt
    <3>2. CASE cache'[q] = known[q] /\ Len(known[q]) = Len(log) BY <1>1, <1>2, <3>2 DEF FenceAt
    <3>3. ASSUME NEW m \in files, cache'[q] = m,
                 \/ Len(m) = Len(log)
                 \/ phase[q] = "fetch" /\ Len(m) = Max(listed[q])
          PROVE  x \in Versions(cache'[q]) => Len(cache'[q]) < g
      <4>1. phase[q] = "fetch" => Max(listed[q]) # g BY <1>2 DEF FenceAt
      <4>. QED BY <1>1, <3>3, <4>1
    <3>. QED BY <1>2, <3>1, <3>2, <3>3 DEF Moves
  <2>3. x \in Versions(base'[q]) => Len(base'[q]) < g BY <1>1, <1>2, <2>2 DEF FenceAt, Moves
  <2>4. x \in Versions(known'[q]) => Len(known'[q]) <= g
    <3>1. CASE known'[q] \in {known[q], << >>, mine[q]} BY <1>1, <1>2, <3>1 DEF FenceAt
    <3>2. CASE known'[q] = cache[q] BY <1>1, <1>2, <3>2 DEF FenceAt
    <3>. QED BY <1>2, <3>1, <3>2 DEF Moves
  <2>5. x \in Versions(mine'[q]) => Len(mine'[q]) <= g
    <3>1. CASE mine'[q] \in {mine[q], << >>} BY <1>1, <1>2, <3>1 DEF FenceAt
    <3>2. CASE mine'[q] = Append(base[q], made + 1) /\ made + 1 \in Version BY <1>3, <3>2
    <3>. QED BY <1>2, <3>1, <3>2 DEF Moves
  <2>. QED BY <2>1, <2>2, <2>3, <2>4, <2>5 DEF FenceAt
<1>7. ReadsBeyond(p, g)'
  <2>1. ReadsBeyond(p, g) /\ Moves(p) BY <1>0 DEF Fence
  <2>2. phase'[p] = "fetch" /\ goal'[p] = "validate" => Max(listed'[p]) > g
    BY <1>1, <2>1 DEF ReadsBeyond, Moves
  <2>3. phase'[p] = "validate" => Len(cache'[p]) > g BY <1>1, <2>1 DEF ReadsBeyond, Moves
  <2>. QED BY <2>2, <2>3 DEF ReadsBeyond
<1>8. x \in Versions(mine'[p]) BY DEF Fence
<1>. QED BY <1>4, <1>5, <1>6, <1>7, <1>8 DEF Fence

\* Among Keep generations there is one that no other process is about to read.
LEMMA Unlisted ==
  ASSUME IsFiniteSet(Process), Cardinality(Process) <= Keep,
         NEW p \in Process, NEW n \in Nat
  PROVE  \E g \in n .. (n + Keep - 1) : \A q \in Process \ {p} : Max(listed[q]) # g
<1>0. Keep \in Nat /\ Keep > 1 BY ConstantsAssumption
<1> DEFINE G == n .. (n + Keep - 1)
           Q == Process \ {p}
           f == [q \in Q |-> Max(listed[q])]
           T == {f[q] : q \in Q}
<1>1. SUFFICES ASSUME \A g \in G : \E q \in Q : Max(listed[q]) = g
               PROVE  FALSE
  BY DEF G, Q
<1>2. IsFiniteSet(Q) /\ Cardinality(Q) = Cardinality(Process) - 1 /\ Cardinality(Process) \in Nat
  BY FS_RemoveElement, FS_CardinalityType DEF Q
<1>3. f \in Surjection(Q, T) BY DEF Surjection
<1>4. IsFiniteSet(T) /\ Cardinality(T) <= Cardinality(Q) /\ Cardinality(T) \in Nat
  BY <1>2, <1>3, FS_Surjection, FS_CardinalityType
<1>5. G \in SUBSET T BY <1>1
<1>6. Cardinality(G) <= Cardinality(T) BY <1>4, <1>5, FS_Subset
<1>7. Cardinality(G) = Keep
  <2>1. n \in Int /\ n + Keep - 1 \in Int BY <1>0
  <2>. QED BY <1>0, <2>1, FS_Interval DEF G
<1>. QED BY <1>0, <1>2, <1>4, <1>6, <1>7

\* A commit learns that its file was written from the write itself.
LEMMA AnswerStep ==
  BaseInv /\ [Next]_vars =>
     \A p \in Process : wrote'[p] = "ok" =>
        \/ wrote[p] = "ok" /\ mine'[p] = mine[p]
        \/ \E m \in writes : /\ KvsWrite(m) /\ Absent(m) /\ Create(m)
                             /\ phase[p] = "write" /\ mine[p] = m
<1> SUFFICES ASSUME BaseInv, [Next]_vars, NEW p \in Process, wrote'[p] = "ok",
                    ~ (wrote[p] = "ok" /\ mine'[p] = mine[p])
             PROVE  \E m \in writes : /\ KvsWrite(m) /\ Absent(m) /\ Create(m)
                                      /\ phase[p] = "write" /\ mine[p] = m
  OBVIOUS
<1>0. TypeOK /\ Moves(p) BY MovesStep DEF BaseInv
<1>1. mine'[p] = mine[p] /\ wrote'[p] # wrote[p] BY <1>0 DEF Moves
<1>2. ASSUME NEW q \in Process, CommitStep(q) \/ Start(q) \/ Refresh(q) \/ Crash(q)
      PROVE  FALSE
  <2>1. \/ wrote' = wrote \/ wrote' = [wrote EXCEPT ![q] = "waiting"]
    BY <1>2 DEF CommitStep, Start, Refresh, Crash, List, Fetch, TryUpdate, TryUpdateOutOfDate,
       WriteNewNumberedManifestDone, Mismatched, WriteFailed, ReadFailed, ValidateNewNumberedManifest, EndCommit
  <2>. QED BY <1>0, <1>1, <2>1 DEF TypeOK
<1>3. \A d \in deletes : ~ KvsDelete(d) BY <1>1 DEF KvsDelete
<1>4. ~ UNCHANGED vars BY <1>1 DEF vars
<1>5. PICK m \in writes : KvsWrite(m) BY <1>2, <1>3, <1>4 DEF Next, KvsStep
<1>6. phase[p] = "write" /\ mine[p] = m /\ Absent(m) /\ Create(m)
  BY <1>1, <1>5 DEF KvsWrite, AnswerWrite
<1>. QED BY <1>5, <1>6

\* A file that is created late is fenced as soon as it exists.
LEMMA FenceNew ==
  ASSUME IsFiniteSet(Process), Cardinality(Process) <= Keep,
         BaseInv, Unpublished, Kept, NEW p \in Process, NEW x \in Version,
         NEW m \in writes, KvsWrite(m), Absent(m), Create(m),
         phase[p] = "write", mine[p] = m, x = LatestVersion(m)
  PROVE  x \in Versions(log') \/ \E g \in Nat : Fence(p, x, g)'
<1>0. TypeOK /\ LogInv BY DEF BaseInv
<1>1. /\ m \in Manifest /\ m # << >> /\ Len(m) \in Nat \ {0} /\ x \in Versions(m)
      /\ Len(log) \in Nat /\ Keep \in Nat /\ Keep > 1
  <2>1. m \in Manifest /\ m # << >> BY <1>0 DEF TypeOK, LogInv, Writable
  <2>2. Len(log) \in Nat BY <1>0 DEF TypeOK, Manifest
  <2>. QED BY <2>1, <2>2, VersionsOfManifest, ConstantsAssumption
<1>2. CASE Len(m) > Len(log) BY <1>1, <1>2 DEF Create
<1>3. CASE ~ (Len(m) > Len(log))
  <2>1. Len(m) + Keep <= Len(log) BY <1>1, <1>3 DEF Kept, Absent
  <2>2. Len(m) \in Nat BY <1>1
  <2>3. PICK g \in Len(m) .. (Len(m) + Keep - 1) : \A q \in Process \ {p} : Max(listed[q]) # g
    BY <2>2, Unlisted
  <2>4. g \in Nat /\ Len(m) <= g /\ g < Len(log) BY <1>1, <2>1
  <2>5. Unread(m, x) BY DEF Unpublished
  <2>6. /\ log' = log /\ files' = files \cup {m} /\ writes' = writes \ {m}
        /\ UNCHANGED << phase, goal, cache, listed, base, known, mine >>
    BY <1>3 DEF Create, KvsWrite
  <2>7. \A f \in files' \cup writes' : x \in Versions(f) => Len(f) <= g
    BY <2>4, <2>5, <2>6 DEF Unread
  <2>8. ASSUME NEW q \in Process
        PROVE  FenceAt(x, g, q)'
    <3>1. phase[q] = "fetch" => Max(listed[q]) # g BY <2>3
    <3>2. /\ x \notin Versions(cache[q]) /\ x \notin Versions(base[q]) /\ x \notin Versions(known[q])
          /\ x \in Versions(mine[q]) => mine[q] = m
      BY <2>5 DEF Unread
    <3>. QED BY <2>4, <2>6, <3>1, <3>2 DEF FenceAt
  <2>9. ReadsBeyond(p, g)' BY <2>6 DEF ReadsBeyond
  <2>10. x \notin Versions(log) BY <2>5 DEF Unread
  <2>11. Fence(p, x, g)' BY <1>1, <2>4, <2>6, <2>7, <2>8, <2>9, <2>10 DEF Fence
  <2>. QED BY <2>4, <2>11
<1>. QED BY <1>2, <1>3

LEMMA OrphanStep ==
  ASSUME IsFiniteSet(Process), Cardinality(Process) <= Keep
  PROVE  BaseInv /\ Bounded /\ Unpublished /\ Kept /\ Orphans /\ [Next]_vars => Orphans'
<1> SUFFICES ASSUME BaseInv, Bounded, Unpublished, Kept, Orphans, [Next]_vars,
                    NEW p \in Process, NEW x \in Version,
                    wrote'[p] = "ok", x = LatestVersion(mine'[p])
             PROVE  x \in Versions(log') \/ \E g \in Nat : Fence(p, x, g)'
  BY DEF Orphans, LatestVersion, Versions
<1>0. TypeOK /\ FileMoves /\ log \in Manifest BY FileMovesStep DEF BaseInv, TypeOK
<1>1. CASE wrote[p] = "ok" /\ mine'[p] = mine[p]
  <2>1. CASE x \in Versions(log)
    <3>1. \A v \in Version : x \in Versions(Append(log, v)) BY <1>0, <2>1, VersionsOfManifest
    <3>2. log' = log \/ \E v \in Version : log' = Append(log, v) BY <1>0 DEF FileMoves
    <3>. QED BY <2>1, <3>1, <3>2
  <2>2. ASSUME NEW g \in Nat, Fence(p, x, g)
        PROVE  Fence(p, x, g)'
    <3>1. x <= made BY <2>2 DEF Fence, Bounded, Past
    <3>. QED BY <1>1, <2>2, <3>1, FenceKept
  <2>. QED BY <1>1, <2>1, <2>2 DEF Orphans
<1>2. ASSUME NEW m \in writes, KvsWrite(m), Absent(m), Create(m), phase[p] = "write", mine[p] = m
      PROVE  x \in Versions(log') \/ \E g \in Nat : Fence(p, x, g)'
  <2>1. x = LatestVersion(m) BY <1>2 DEF KvsWrite
  <2>. QED BY <1>2, <2>1, FenceNew
<1>. QED BY <1>1, <1>2, AnswerStep

-----------------------------------------------------------------------------
(* The refinement.                                                          *)

RefinementInv == BaseInv /\ Bounded /\ Unpublished /\ Kept /\ DeletesOld /\ Orphans

LEMMA RefinementInit == Init => RefinementInv
<1> SUFFICES ASSUME Init PROVE RefinementInv
  OBVIOUS
<1>1. Versions(<< >>) = {} BY DEF Versions
<1>2. Bounded BY <1>1 DEF Init, Bounded, Past
<1>3. Unpublished /\ Kept /\ DeletesOld /\ Orphans
  BY DEF Init, Unpublished, Kept, DeletesOld, Orphans
<1>. QED BY <1>2, <1>3, BaseInit DEF RefinementInv

LEMMA RefinementStep ==
  ASSUME IsFiniteSet(Process), Cardinality(Process) <= Keep
  PROVE  RefinementInv /\ [Next]_vars => RefinementInv'
BY BaseStep, BoundedStep, UnpublishedStep, KeptStep, OrphanStep DEF RefinementInv

\* Every step of the manifests is a step of the log, or none.
LEMMA LogSimulation == RefinementInv /\ [Next]_vars => [Log!Next]_<< log, acked >>
<1> SUFFICES ASSUME RefinementInv, [Next]_vars PROVE [Log!Next]_<< log, acked >>
  OBVIOUS
<1>0. TypeOK /\ FileMoves /\ BaseInv BY FileMovesStep DEF RefinementInv, BaseInv
<1>1. \A m : Log!Range(m) = Versions(m) BY DEF Log!Range, Versions
<1>2. ASSUME NEW m \in writes, KvsWrite(m)
      PROVE  [Log!Next]_<< log, acked >>
  <2>1. acked' = acked BY <1>2 DEF KvsWrite
  <2>2. ASSUME NEW v \in Version, Append(log, v) \in writes, log' = Append(log, v)
        PROVE  v \notin Versions(log)
    <3>1. LatestVersion(Append(log, v)) = v BY <1>0, VersionsOfManifest DEF TypeOK
    <3>2. Unread(Append(log, v), v) BY <2>2, <3>1 DEF RefinementInv, Unpublished
    <3>. QED BY <3>2 DEF Unread
  <2>3. log' = log \/ \E v \in Version \ Log!Range(log) : log' = Append(log, v)
    BY <1>0, <1>1, <2>2 DEF FileMoves
  <2>. QED BY <2>1, <2>3 DEF Log!Next, Log!AppendVersion
<1>3. ASSUME NEW p \in Process, ValidateNewNumberedManifest(p)
      PROVE  [Log!Next]_<< log, acked >>
  <2>1. CASE acked' = acked BY <1>3, <2>1 DEF ValidateNewNumberedManifest
  <2>2. CASE /\ acked' = acked \cup {LatestVersion(mine[p])}
             /\ cache[p][Len(mine[p])] = LatestVersion(mine[p])
    <3>0. /\ mine[p] \in Manifest /\ cache[p] \in Manifest /\ mine[p] # << >>
          /\ Len(mine[p]) <= Len(cache[p]) /\ wrote[p] = "ok"
      BY <1>0, <1>3 DEF TypeOK, BaseInv, MineMade, ValidateNewNumberedManifest, HasVersion,
         ValidateInv, Validating
    <3>1. PICK x \in Version : x = LatestVersion(mine[p]) BY <3>0, VersionsOfManifest
    <3>2. x \in Versions(cache[p])
      <4>1. Len(mine[p]) \in 1 .. Len(cache[p]) /\ DOMAIN cache[p] = 1 .. Len(cache[p])
        BY <3>0, EmptySeq DEF Manifest
      <4>. QED BY <2>2, <3>1, <4>1 DEF Versions
    <3>3. ASSUME NEW g \in Nat, Fence(p, x, g)
          PROVE  FALSE
      <4>1. Len(cache[p]) < g BY <3>2, <3>3 DEF Fence, FenceAt
      <4>2. Len(cache[p]) > g BY <1>3, <3>3 DEF Fence, ReadsBeyond, ValidateNewNumberedManifest
      <4>3. Len(cache[p]) \in Nat BY <3>0 DEF Manifest
      <4>. QED BY <4>1, <4>2, <4>3
    <3>4. x \in Versions(log) BY <3>0, <3>1, <3>3 DEF RefinementInv, Orphans
    <3>5. log' = log BY <1>3 DEF ValidateNewNumberedManifest
    <3>6. CASE x \in acked BY <2>2, <3>1, <3>5, <3>6
    <3>7. CASE x \notin acked
      BY <1>1, <2>2, <3>1, <3>4, <3>5, <3>7 DEF Log!Next, Log!Acknowledge
    <3>. QED BY <3>6, <3>7
  <2>. QED BY <1>3, <2>1, <2>2 DEF ValidateNewNumberedManifest
<1>4. ASSUME NEW p \in Process, CommitStep(p) \/ Start(p) \/ Refresh(p) \/ Crash(p),
             ~ ValidateNewNumberedManifest(p)
      PROVE  UNCHANGED << log, acked >>
  BY <1>4 DEF CommitStep, Start, Refresh, Crash, List, Fetch, TryUpdate, TryUpdateOutOfDate,
     WriteNewNumberedManifestDone, Mismatched, WriteFailed, ReadFailed
<1>5. ASSUME NEW d \in deletes, KvsDelete(d)
      PROVE  UNCHANGED << log, acked >>
  BY <1>5 DEF KvsDelete
<1>. QED BY <1>2, <1>3, <1>4, <1>5 DEF Next, KvsStep, vars

\* ImplementsManifestLog: whatever is delayed, deleted, created again or lost in a
\* crash, the versions form one log that only grows at its end, and a commit for
\* which TryUpdateManifest reported success is in it, as long as no more processes
\* commit than manifests are kept.
THEOREM ManifestLogImplemented ==
  ASSUME IsFiniteSet(Process), Cardinality(Process) <= Keep
  PROVE  Spec => ImplementsManifestLog
<1>1. Init => Log!Init BY DEF Init, Log!Init
<1>2. RefinementInv /\ [Next]_vars => RefinementInv' BY RefinementStep
<1>. QED
  BY <1>1, <1>2, RefinementInit, LogSimulation, PTL DEF Spec, ImplementsManifestLog, Log!Spec
=============================================================================
