-------------------------- MODULE NumberedManifest --------------------------
(***************************************************************************)
(* The numbered manifest files of OCDBT (NumberedManifestCache in          *)
(* io/manifest_cache.cc, TryUpdateManifestOp in io/io_handle_impl.cc).     *)
(* For a kvstore that can write a key only on condition that it is absent, *)
(* commit N writes the file manifest.N, and deletes, at the same time, the *)
(* files that are more than Keep generations older.                        *)
(*                                                                         *)
(*  - A version is the number of the commit attempt that made it.  A       *)
(*    manifest is the sequence of the versions in its version tree: its    *)
(*    length is its generation, its last element its latest version.       *)
(*  - Requests to the kvstore are in flight until they take effect: other  *)
(*    processes run meanwhile, and the process that made them may crash.   *)
(*  - The file manifest.ocdbt with the configuration has been written.     *)
(***************************************************************************)
EXTENDS Integers, Sequences, FiniteSets

CONSTANTS
    Process,        \* processes that commit, and read, through one cache each
    Keep,           \* kNumNumberedManifestsToKeep
    MaxVersion,     \* bound: commit attempts
    MaxCrash        \* bound: processes that crash and restart

ASSUME ConstantsAssumption ==
    /\ Keep \in Nat /\ Keep > 1
    /\ MaxVersion \in Nat /\ MaxCrash \in Nat

Version == 1 .. MaxVersion

VARIABLES
    files,          \* manifest files present
    writes,         \* manifests whose write has not taken effect
    deletes,        \* << version of the attempt, generation >> being deleted
    phase,          \* [Process -> what its commit waits for]
    goal,           \* [Process -> what the manifest being read is for]
    cache,          \* [Process -> manifest in the NumberedManifestCache]
    present,        \* [Process -> versions_present in that cache]
    known,          \* [Process -> cached_manifest of the list in progress]
    listed,         \* [Process -> versions found by the list in progress]
    base,           \* [Process -> existing_manifest_ of its commit]
    mine,           \* [Process -> new_manifest of its commit]
    wrote,          \* [Process -> how its write was answered]
    made,           \* attempts made so far
    acked,          \* versions whose commit was reported successful
    crashes,        \* crashes so far
    log             \* history variable: the manifest of the highest generation

vars == << files, writes, deletes, phase, goal, cache, present, known, listed, base, mine,
           wrote, made, acked, crashes, log >>

Generations(manifests) == {Len(m) : m \in manifests}

LatestVersion(m) == m[Len(m)]

Max(S) == CHOOSE x \in S : \A y \in S : y <= x

-----------------------------------------------------------------------------
(* Reading the latest manifest.                                             *)

\* The manifest that was read is in the cache; the operation goes on.
ReadDone(p, manifest, versions) ==
    /\ cache' = [cache EXCEPT ![p] = manifest]
    /\ present' = [present EXCEPT ![p] = versions]
    /\ base' = [base EXCEPT ![p] = manifest]
    /\ phase' = [phase EXCEPT ![p] = goal[p]]
    /\ listed' = [listed EXCEPT ![p] = {}]
    /\ known' = [known EXCEPT ![p] = << >>]

\* ListNumberedManifests and ManifestListReceiver: no file, or the manifest that
\* is already known, or one that has to be read.
List(p) ==
    LET versions == Generations(files)
    IN  /\ phase[p] = "list"
        /\ \/ /\ versions = {}
              /\ ReadDone(p, << >>, {})
           \/ /\ versions # {} /\ Len(known[p]) = Max(versions)
              /\ ReadDone(p, known[p], versions)
           \/ /\ versions # {} /\ Len(known[p]) # Max(versions)
              /\ listed' = [listed EXCEPT ![p] = versions]
              /\ phase' = [phase EXCEPT ![p] = "fetch"]
              /\ UNCHANGED << cache, present, base, known >>
        /\ UNCHANGED << files, writes, deletes, goal, mine, wrote, made, acked, crashes, log >>

\* ReadNumberedManifest and ManifestReadReceiver: if the file has been deleted in
\* the meantime, the files are listed again.
Fetch(p) ==
    /\ phase[p] = "fetch"
    /\ \/ \E m \in files : Len(m) = Max(listed[p]) /\ ReadDone(p, m, listed[p])
       \/ /\ Max(listed[p]) \notin Generations(files)
          /\ known' = [known EXCEPT ![p] = << >>]
          /\ listed' = [listed EXCEPT ![p] = {}]
          /\ phase' = [phase EXCEPT ![p] = "list"]
          /\ UNCHANGED << cache, present, base >>
    /\ UNCHANGED << files, writes, deletes, goal, mine, wrote, made, acked, crashes, log >>

\* ListAndReadNumberedManifests: `manifest` is what is known already.
StartRead(p, purpose, manifest) ==
    /\ phase' = [phase EXCEPT ![p] = "list"]
    /\ goal' = [goal EXCEPT ![p] = purpose]
    /\ known' = [known EXCEPT ![p] = manifest]

\* Another reader of the process refreshes the cache.
Refresh(p) ==
    /\ phase[p] \in {"idle", "attempt"}
    /\ \E m \in files : /\ Len(m) = Max(Generations(files)) /\ m # cache[p]
                        /\ cache' = [cache EXCEPT ![p] = m]
    /\ present' = [present EXCEPT ![p] = Generations(files)]
    /\ UNCHANGED << files, writes, deletes, phase, goal, known, listed, base, mine, wrote,
                    made, acked, crashes, log >>

-----------------------------------------------------------------------------
(* A commit.                                                                *)

\* ReadManifest of a new commit operation: any cached manifest will do.
Start(p) ==
    /\ phase[p] = "idle"
    /\ IF cache[p] = << >>
       THEN StartRead(p, "attempt", << >>) /\ UNCHANGED base
       ELSE /\ phase' = [phase EXCEPT ![p] = "attempt"]
            /\ base' = [base EXCEPT ![p] = cache[p]]
            /\ UNCHANGED << goal, known >>
    /\ UNCHANGED << files, writes, deletes, cache, present, listed, mine, wrote, made, acked,
                    crashes, log >>

\* A slip: the manifest being replaced is deleted too.
ToDeleteEager(p, g) == {v \in present[p] : g - v > 0}

\* The versions to delete along with the write of generation g.
ToDelete(p, g) == {v \in present[p] : g - v > Keep}

\* CreateNewManifest: the existing manifest and one more version.
NewManifest(p) == Append(base[p], made + 1)

\* WriteNewManifest, then NumberedManifestCache::TransactionNode::Commit: the
\* write and the deletions are issued together.
TryUpdate(p) ==
    LET new == NewManifest(p)
    IN  /\ phase[p] = "attempt" /\ Len(base[p]) = Len(cache[p]) /\ made < MaxVersion
        /\ made' = made + 1
        /\ mine' = [mine EXCEPT ![p] = new]
        /\ writes' = writes \cup {new}
        /\ deletes' = deletes \cup ({made + 1} \X ToDelete(p, Len(new)))
        /\ wrote' = [wrote EXCEPT ![p] = "waiting"]
        /\ phase' = [phase EXCEPT ![p] = "write"]
        /\ UNCHANGED << files, goal, cache, present, known, listed, base, acked, crashes, log >>

\* The same when the new generation does not follow the cached one: fails at
\* once, and the commit is retried with the cached manifest.
TryUpdateOutOfDate(p) ==
    /\ phase[p] = "attempt" /\ Len(base[p]) # Len(cache[p])
    /\ base' = [base EXCEPT ![p] = cache[p]]
    /\ UNCHANGED << files, writes, deletes, phase, goal, cache, present, known, listed, mine,
                    wrote, made, acked, crashes, log >>

\* if_equal = NoValue: no file has the generation of m.
Absent(m) == Len(m) \notin Generations(files)

\* The answer to the write of m reaches the commit that made it, if it still runs.
AnswerWrite(m, answer) ==
    wrote' = [p \in Process |-> IF phase[p] = "write" /\ mine[p] = m THEN answer ELSE wrote[p]]

\* The kvstore carries out the write of m.
Create(m) ==
    /\ files' = files \cup {m}
    /\ log' = IF Len(m) > Len(log) THEN m ELSE log

\* A write takes effect, fails because the file exists, or is answered with an
\* error after having taken effect or not.
KvsWrite(m) ==
    /\ m \in writes
    /\ writes' = writes \ {m}
    /\ \/ Absent(m) /\ Create(m) /\ AnswerWrite(m, "ok")
       \/ ~ Absent(m) /\ AnswerWrite(m, "mismatch") /\ UNCHANGED << files, log >>
       \/ Absent(m) /\ Create(m) /\ AnswerWrite(m, "error")
       \/ AnswerWrite(m, "error") /\ UNCHANGED << files, log >>
    /\ UNCHANGED << deletes, phase, goal, cache, present, known, listed, base, mine, made,
                    acked, crashes >>

\* A deletion takes effect, or fails, which is ignored.
KvsDelete(d) ==
    /\ d \in deletes
    /\ deletes' = deletes \ {d}
    /\ \/ files' = {m \in files : Len(m) # d[2]}
       \/ UNCHANGED files
    /\ UNCHANGED << writes, phase, goal, cache, present, known, listed, base, mine, wrote, made,
                    acked, crashes, log >>

\* The write and all deletions have been answered.
AllAnswered(p) ==
    /\ phase[p] = "write" /\ wrote[p] # "waiting"
    /\ \A d \in deletes : d[1] # LatestVersion(mine[p])

\* The commit operation is over, its results with it.
EndCommit(p) ==
    /\ phase' = [phase EXCEPT ![p] = "idle"]
    /\ goal' = [goal EXCEPT ![p] = "attempt"]
    /\ base' = [base EXCEPT ![p] = << >>]
    /\ mine' = [mine EXCEPT ![p] = << >>]
    /\ wrote' = [wrote EXCEPT ![p] = "waiting"]

\* A slip: the write of the file is taken for the commit.
WrittenTrusted(p) ==
    /\ AllAnswered(p) /\ wrote[p] = "ok"
    /\ acked' = acked \cup {LatestVersion(mine[p])}
    /\ EndCommit(p)
    /\ UNCHANGED << files, writes, deletes, cache, present, known, listed, made, crashes, log >>

\* A slip: the version is looked up in the manifest that was cached before.
WrittenUnlisted(p) ==
    /\ AllAnswered(p) /\ wrote[p] = "ok"
    /\ phase' = [phase EXCEPT ![p] = "validate"]
    /\ UNCHANGED << files, writes, deletes, goal, cache, present, known, listed, base, mine,
                    wrote, made, acked, crashes, log >>

\* The file was written: whether it is a valid successor takes another list.
WriteNewNumberedManifestDone(p) ==
    /\ AllAnswered(p) /\ wrote[p] = "ok"
    /\ StartRead(p, "validate", mine[p])
    /\ UNCHANGED << files, writes, deletes, cache, present, listed, base, mine, wrote, made,
                    acked, crashes, log >>

\* The file existed: the commit is retried with a manifest as recent as that.
Mismatched(p) ==
    /\ AllAnswered(p) /\ wrote[p] = "mismatch"
    /\ StartRead(p, "attempt", cache[p])
    /\ UNCHANGED << files, writes, deletes, cache, present, listed, base, mine, wrote, made,
                    acked, crashes, log >>

\* The write was answered with an error, and so is the commit.
WriteFailed(p) ==
    /\ AllAnswered(p) /\ wrote[p] = "error"
    /\ EndCommit(p)
    /\ UNCHANGED << files, writes, deletes, cache, present, known, listed, made, acked, crashes,
                    log >>

\* Listing the files or reading one fails, and the commit with it, also one
\* whose file has been written and would have been found valid.
ReadFailed(p) ==
    /\ phase[p] \in {"list", "fetch"}
    /\ EndCommit(p)
    /\ known' = [known EXCEPT ![p] = << >>]
    /\ listed' = [listed EXCEPT ![p] = {}]
    /\ UNCHANGED << files, writes, deletes, cache, present, made, acked, crashes, log >>

\* ReadVersion(new_manifest->latest_generation()) in the manifest just read.
HasVersion(p) == Len(mine[p]) <= Len(cache[p])

\* ValidateNewNumberedManifest: the commit succeeded if its version is the one of
\* its generation in the latest manifest; otherwise it is retried.
ValidateNewNumberedManifest(p) ==
    /\ phase[p] = "validate" /\ HasVersion(p)
    /\ IF cache[p][Len(mine[p])] = LatestVersion(mine[p])
       THEN /\ acked' = acked \cup {LatestVersion(mine[p])}
            /\ EndCommit(p)
       ELSE /\ phase' = [phase EXCEPT ![p] = "attempt"]
            /\ base' = [base EXCEPT ![p] = cache[p]]
            /\ UNCHANGED << goal, mine, wrote, acked >>
    /\ UNCHANGED << files, writes, deletes, cache, present, known, listed, made, crashes, log >>

\* A process dies and starts again; what it asked of the kvstore may still happen.
Crash(p) ==
    /\ phase[p] # "idle" /\ crashes < MaxCrash
    /\ crashes' = crashes + 1
    /\ EndCommit(p)
    /\ cache' = [cache EXCEPT ![p] = << >>]
    /\ present' = [present EXCEPT ![p] = {}]
    /\ known' = [known EXCEPT ![p] = << >>]
    /\ listed' = [listed EXCEPT ![p] = {}]
    /\ UNCHANGED << files, writes, deletes, made, acked, log >>

-----------------------------------------------------------------------------
Init ==
    /\ files = {} /\ writes = {} /\ deletes = {}
    /\ phase = [p \in Process |-> "idle"]
    /\ goal = [p \in Process |-> "attempt"]
    /\ cache = [p \in Process |-> << >>]
    /\ present = [p \in Process |-> {}]
    /\ known = [p \in Process |-> << >>]
    /\ listed = [p \in Process |-> {}]
    /\ base = [p \in Process |-> << >>]
    /\ mine = [p \in Process |-> << >>]
    /\ wrote = [p \in Process |-> "waiting"]
    /\ made = 0 /\ acked = {} /\ crashes = 0
    /\ log = << >>

CommitStep(p) ==
    \/ List(p)
    \/ Fetch(p)
    \/ TryUpdate(p)
    \/ TryUpdateOutOfDate(p)
    \/ WriteNewNumberedManifestDone(p)
    \/ Mismatched(p)
    \/ WriteFailed(p)
    \/ ReadFailed(p)
    \/ ValidateNewNumberedManifest(p)

KvsStep == (\E m \in writes : KvsWrite(m)) \/ (\E d \in deletes : KvsDelete(d))

Next ==
    \/ \E p \in Process : Start(p) \/ CommitStep(p) \/ Refresh(p) \/ Crash(p)
    \/ KvsStep

Spec == Init /\ [][Next]_vars

-----------------------------------------------------------------------------
(* Properties.                                                              *)

Manifest == Seq(Version)

\* The values the variables range over.
TypeOK ==
    /\ files \subseteq Manifest /\ writes \subseteq Manifest
    /\ deletes \subseteq Version \X Nat
    /\ phase \in [Process -> {"idle", "list", "fetch", "attempt", "write", "validate"}]
    /\ goal \in [Process -> {"attempt", "validate"}]
    /\ cache \in [Process -> Manifest] /\ known \in [Process -> Manifest]
    /\ base \in [Process -> Manifest] /\ mine \in [Process -> Manifest]
    /\ present \in [Process -> SUBSET Nat] /\ listed \in [Process -> SUBSET Nat]
    /\ wrote \in [Process -> {"waiting", "ok", "mismatch", "error"}]
    /\ made \in 0 .. MaxVersion /\ acked \subseteq Version /\ crashes \in Nat
    /\ log \in Manifest

\* The deletions of old manifests, and the files that a delayed write creates
\* again, never touch the newest manifest: a reader that lists the files at any
\* time finds the end of the log.
NewestIsLog ==
    /\ log = << >> <=> files = {}
    /\ files # {} => log \in files
    /\ \A m \in files : m = log \/ Len(m) < Len(log)

\* ValidateNewNumberedManifest never ends with "No version matching newly-written
\* generation", nor with "Manifest was unexpectedly deleted".
VersionIsFound == \A p \in Process : phase[p] = "validate" => HasVersion(p)

\* TryUpdateManifest of every process together: the versions form one log that
\* grows at its end, and every acknowledged commit is in it, as long as there are
\* no more processes than manifests are kept (see NumberedManifestProofs).
Log == INSTANCE ManifestLog
ImplementsManifestLog == Log!Spec
=============================================================================
