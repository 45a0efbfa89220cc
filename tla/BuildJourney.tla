---------------------------- MODULE BuildJourney ----------------------------
(***************************************************************************)
(* The build outputs of a workflow across its runs: what each job restores *)
(* before the build, what the build then trusts, and what post saves for   *)
(* the runs that follow.  Jobs run one after another, each on a fresh      *)
(* machine; what ties them together is the Actions cache and the history   *)
(* of the repository.                                                      *)
(*                                                                         *)
(* Six layers travel: the target cache (target/ or the bundle soldr packs),*)
(* the build cache (the compile store, one archive that may be sealed with *)
(* a key and carries the sidecar of source mtimes), the cargo registry,    *)
(* the Dylint foundation and outputs, and the archives soldr prepares for  *)
(* a cross target.  The workspace is one source file: Content[c] is what   *)
(* it holds at commit c.  Run n checks out at time 2n, builds at 2n + 1.   *)
(***************************************************************************)
EXTENDS CachePlan, AncestorSelection

CONSTANTS Runs,         \* how many runs the workflow has
          Workflows,    \* the workflows: sets of jobs [in, host, save, for], one per
                        \* run, each for any of the checkouts [sha, ref, head, parent]
          Content,      \* Content[c]: the source at commit c
          Lock,         \* Lock[c]: the hash of Cargo.lock at commit c, or NoLock
          CommittedAt,  \* CommittedAt[c]: the time of the commit of Content[c]
          MaxFaults     \* failures of the network, of tar, git or soldr, in all

ASSUME JourneyAssumption ==
  /\ Runs \in Nat \ {0} /\ MaxFaults \in Nat
  /\ DOMAIN Content = Commits /\ DOMAIN Lock = Commits
  /\ CommittedAt \in [Commits -> Nat]
  /\ \A plan \in UNION Workflows :
       /\ DOMAIN plan.in = DOMAIN Unset
       /\ plan.for \subseteq [sha : Commits, ref : {"main", "pull"}, head : Commits,
                           parent : Commits \cup {NoSha}]

VARIABLES workflow,\* the jobs a run may be of
          n,       \* the run that is on, or the next one
          pc,      \* what its job does next
          job,     \* what main decided and post reads back
          disk,    \* what the layers restore to and save from
          store,   \* the entries of the Actions cache
          runs,    \* what GitHub keeps of the runs that ended
          faults   \* failures so far

vars == <<workflow, n, pc, job, disk, store, runs, faults>>

Policy == INSTANCE SavePolicy

Digest   == "toolchain"
Manifest == "manifests"
NoJob    == [in |-> Unset]

LockOf(j) == Lock[j.sha]

\* A failure takes one of the faults of the instance.
Fault(happens) ==
  /\ happens => faults < MaxFaults
  /\ faults' = IF happens THEN faults + 1 ELSE faults

-----------------------------------------------------------------------------
(* The Actions cache.  An entry is found by its paths and by a key or a    *)
(* prefix of it: the scopes of a run in order, in each the keys in order,  *)
(* an exact entry before the newest one that only starts with the key.     *)

ScopesOf(ref) == IF ref = "pull" THEN <<"pull", "main">> ELSE <<"main">>

Matches(scope, paths, key) ==
  LET held  == {e \in store : e.ref = scope /\ e.paths = paths /\ IsPrefix(key, e.key)}
      exact == {e \in held : e.key = key}
  IN  IF exact # {} THEN exact ELSE held

Before(a, b) == a[1] < b[1] \/ (a[1] = b[1] /\ a[2] <= b[2])

restoreCache(ref, paths, keys) ==
  LET asked == {a \in (DOMAIN ScopesOf(ref)) \X (DOMAIN keys) :
                  Matches(ScopesOf(ref)[a[1]], paths, keys[a[2]]) # {}}
      hits(a) == Matches(ScopesOf(ref)[a[1]], paths, keys[a[2]])
  IN  IF asked = {} THEN {}
      ELSE LET first == CHOOSE a \in asked : \A b \in asked : Before(a, b)
           IN  {CHOOSE e \in hits(first) : \A f \in hits(first) : f.id <= e.id}

KeyOf(found) == IF found = {} THEN <<>> ELSE (CHOOSE e \in found : TRUE).key

\* A key that the scope holds with these paths cannot be reserved again.
Reservable(ref, paths, key) == \A e \in store : <<e.ref, e.paths, e.key>> # <<ref, paths, key>>

NextId == Cardinality(store) + 1

Entry(ref, paths, key, body) ==
  [id |-> NextId, ref |-> ref, paths |-> paths, key |-> key, body |-> body]

\* What an archive holds: compiled units, the sidecar, the artifact under
\* target/, the locks whose crates are there, the Dylint tools and outputs,
\* what soldr prepared [target, release], and the seal.
NoBody == [units |-> {}, side |-> <<>>, tree |-> <<>>, bundle |-> FALSE, locks |-> {},
           tools |-> FALSE, lint |-> <<>>, prepared |-> {}, seal |-> <<>>]

Body(found) == (CHOOSE e \in found : TRUE).body

\* The seal binds the archive to the key of the entry it is saved under.
Seal(in, key) ==
  IF in.cacheEncryptKey = "" THEN <<>> ELSE <<in.cacheEncryptKey, key>>

\* A plaintext archive is accepted whether or not a key is configured, a
\* sealed one only with the key and the name it was sealed with.
Opens(in, entry) == entry.body.seal \in {<<>>, Seal(in, entry.key)}

\* Without compression the directory itself is saved, and nothing is sealed.
Archived(in, host) == in.targetCacheCompress # "none" /\ host.zstd

-----------------------------------------------------------------------------
(* Start: resolve, then normalize the mtimes if asked.                     *)

MainBuildCacheEnabled(in) == Fill(in.buildCache, "true") \notin Falsy

CheckoutMtime(in, sha) ==
  IF in.sourceMtimeNormalize \in Truthy THEN CommittedAt[sha] ELSE 2 * n

EmptyDisk == [units |-> {}, side |-> <<>>, tree |-> <<>>, bundle |-> FALSE, locks |-> {},
              tools |-> FALSE, lint |-> <<>>, prepared |-> {}]

\* The steps not every job takes.
Skipped(in, host, result) ==
  {step \in {"restoreTools"} :
     ~(result.tools.on \/ result.lint.on \/ result.prepare.on \/ result.registry.on)}
    \cup {step \in {"crossPrepare"} : in.crossTargets = ""}
    \cup {step \in {"cleanup"}      : ~host.cleanup}
    \cup {step \in {"savePrepared"} : ~result.prepare.on}
    \cup {step \in {"saveTools"}    : ~result.tools.on}
    \cup {step \in {"saveLint"}     : ~result.lint.on}

Steps == <<"restoreTarget", "restoreBuild", "restoreTools", "prepare", "extractRegistry",
           "crossPrepare", "work", "cleanup", "saveBuild", "saveTarget", "saveRegistry",
           "savePrepared", "saveTools", "saveLint", "end">>

NewJob(plan, checkout, result) ==
  [in |-> Effective(plan.in), host |-> plan.host, save |-> plan.save, result |-> result,
   sha |-> checkout.sha, ref |-> checkout.ref,
   mtime |-> CheckoutMtime(plan.in, checkout.sha),
   key |-> <<>>, writer |-> FALSE, donor |-> NoDonor("none"), matched |-> <<>>,
   hit |-> FALSE, replayed |-> 0,
   targetMatched |-> <<>>, targetHit |-> FALSE,
   registryMatched |-> <<>>, registryHit |-> FALSE,
   toolsHit |-> FALSE, lintHit |-> FALSE, prepareHit |-> FALSE, prepareMatched |-> FALSE,
   complete |-> FALSE, linted |-> FALSE,
   skipped |-> Skipped(plan.in, plan.host, result),
   failed |-> FALSE, oversize |-> FALSE, compiled |-> 0, misses |-> <<>>, uploaded |-> {}]

\* The step the job takes after the one it is at.
Later(j) == {i \in DOMAIN Steps : Steps[i] \notin j.skipped
                                    /\ \E k \in DOMAIN Steps : Steps[k] = pc /\ k < i}
After(j) == Steps[CHOOSE i \in Later(j) : \A k \in Later(j) : i <= k]

RunRecord(checkout, conclusion, proofs) ==
  [sha |-> checkout.head, ref |-> checkout.ref,
   conclusion |-> conclusion, proofs |-> proofs]

Start ==
  /\ pc = "idle" /\ n <= Runs
  /\ \E plan \in workflow : \E checkout \in plan.for :
       LET result == resolveSetup(plan.in, plan.host, Digest, Lock[checkout.sha], Manifest,
                                  checkout.sha, checkout.parent)
       IN  IF Rejected(plan.in, result)
       THEN /\ n' = n + 1
            /\ runs' = Append(runs, RunRecord(checkout, "failure", {}))
            /\ UNCHANGED <<pc, job, disk>>
       ELSE /\ job' = NewJob(plan, checkout, result)
            /\ disk' = EmptyDisk
            /\ pc' = "restoreTarget"
            /\ runs' = Append(runs, RunRecord(checkout, "", {}))
            /\ UNCHANGED n
  /\ UNCHANGED <<workflow, store, faults>>

-----------------------------------------------------------------------------
(* Restores.  Downloads that fail are misses.                              *)

RestoreTarget ==
  /\ pc = "restoreTarget"
  /\ \E down \in BOOLEAN :
       LET plan  == job.result.target
           found == IF ~plan.on \/ down THEN {}
                    ELSE restoreCache(job.ref, plan.paths, <<plan.key>> \o plan.prefixes)
       IN  /\ Fault(down)
           /\ down => plan.on
           /\ job' = [job EXCEPT !.targetMatched = KeyOf(found),
                                 !.targetHit     = plan.on /\ KeyOf(found) = plan.key]
           /\ disk' = [disk EXCEPT !.tree   = IF found = {} THEN @ ELSE Body(found).tree,
                                   !.bundle = found # {} /\ Body(found).bundle]
  /\ pc' = "restoreBuild"
  /\ UNCHANGED <<workflow, n, store, runs>>

\* An explicit key replaces the resolved one and its restore keys.
ExplicitKey(in) == in.key \notin {"", "auto"}
InvalidKey(in)  == in.key = "a,b"
autoKeyEnabled(in) == in.key = "auto" \/ (in.key = "" /\ in.autoKey = "true")

LegacyKey(j) ==
  IF ExplicitKey(j.in) THEN <<<<"explicit", j.in.key>>>>
  ELSE j.result.buildKey

BuildRestoreKeys(j) ==
  IF ExplicitKey(j.in) THEN <<>> ELSE <<j.result.buildPrefix>>

\* On a local runner a family without the lockfile comes first.
Identity(j) ==
  (IF j.host.local
   THEN <<<<"family", <<j.result.buildPrefix, j.result.mode, j.result.profile>>>>>>
   ELSE <<>>)
  \o <<<<"fine", <<LegacyKey(j), j.result.mode, j.result.profile, LockOf(j), Manifest>>>>>>

\* Mutant: the automatic key saves under the key every commit shares.
SharedWriteKey(j) == LegacyKey(j)

\* A local runner names no pull request in the key.
WriteKey(j) ==
  makeAncestorKey(Identity(j), j.sha, n, IF j.host.local THEN "main" ELSE j.ref)

\* Without reviewed writers nothing is looked up.
DonorOf(j, apiDown) ==
  IF j.host.local THEN NoDonor("local-runner")
  ELSE IF ~j.host.token THEN NoDonor("legacy-fallback")
  ELSE IF j.in.autoKeyTrustedWriters = {} THEN NoDonor("no-reviewed-writer")
  ELSE IF apiDown THEN NoDonor("legacy-fallback")
  ELSE selectAncestorCache(j.sha, Identity(j), ToSet(ScopesOf(j.ref)),
         store, j.in.autoKeyTrustedWriters, runs, j.host.shallow, j.host.fetches)

\* Without a token the plan throws and the legacy key stays; a donor of this
\* very commit is written to no second key.
planAncestorRestore(j, donor) ==
  [threw    |-> ~j.host.local /\ ~j.host.token,
   donor    |-> donor,
   writeKey |-> IF donor.found /\ donor.distance = 0 THEN donor.key ELSE WriteKey(j),
   prefixes |-> IF j.host.local
                THEN <<ancestorKeyPrefix(Identity(j)), ancestorFamilyPrefix(Identity(j))>>
                ELSE <<>>]

NoPlan == [threw |-> TRUE, donor |-> NoDonor("none"), writeKey |-> <<>>, prefixes |-> <<>>]

BuildPlan(j, apiDown) ==
  IF autoKeyEnabled(j.in) THEN planAncestorRestore(j, DonorOf(j, apiDown)) ELSE NoPlan

\* Mutant: the content of the source is not compared.
ReplayableAnySource(j, side) == j.in.preserveSourceMtimes \in Truthy /\ side # <<>>

\* The one sidecar file of the workspace is replayed after an exact hit only,
\* onto a source that still has the content it was taken of.
Replayable(j, side) ==
  /\ j.in.preserveSourceMtimes \in Truthy
  /\ side # <<>> /\ side[1].content = Content[j.sha]

\* What unpacking may come to: all of it, an archive that unpacks to nothing
\* or breaks off, having written some units.
Unpacked(found, j) ==
  {[whole |-> TRUE, units |-> Body(found).units, side |-> Body(found).side] :
     f \in {e \in found : Opens(j.in, e)}}
  \cup {[whole |-> FALSE, units |-> {}, side |-> <<>>] : f \in {e \in found : ~Opens(j.in, e)}}

Broken(found) ==
  {[whole |-> FALSE, units |-> u, side |-> <<>>] : u \in SUBSET Body(found).units}

\* The donor is asked for by name; if it is gone, or its download fails, the
\* legacy key is tried.
BuildArchive(j, plan, down) ==
  LET first == IF down THEN {}
               ELSE restoreCache(j.ref, {"archive"},
                 IF plan.donor.found THEN <<plan.donor.key>>
                 ELSE <<IF plan.prefixes # <<>> THEN plan.writeKey ELSE LegacyKey(j)>>
                        \o plan.prefixes \o BuildRestoreKeys(j))
  IN  IF plan.donor.found /\ KeyOf(first) # plan.donor.key
      THEN restoreCache(j.ref, {"archive"}, <<LegacyKey(j)>> \o BuildRestoreKeys(j))
      ELSE first

\* Mutant: an archive that broke still counts as restored.
MatchedBroken(found, result) == KeyOf(found)

MatchedKey(found, result) == IF found # {} /\ result.whole THEN KeyOf(found) ELSE <<>>

RestoreFrom(plan, found, result) ==
  LET key     == IF plan.threw THEN LegacyKey(job) ELSE plan.writeKey
      matched == MatchedKey(found, result)
      hit     == matched # <<>> /\ matched = key
      replay  == hit /\ Replayable(job, result.side)
  IN  /\ job' = [job EXCEPT !.key = key, !.writer = ~plan.threw, !.donor = plan.donor,
                            !.matched = matched, !.hit = hit,
                            !.replayed = IF replay THEN result.side[1].run ELSE 0,
                            !.mtime    = IF replay THEN result.side[1].mtime ELSE @]
      /\ disk' = [disk EXCEPT !.units = result.units, !.side = result.side]

Nothing == [whole |-> TRUE, units |-> {}, side |-> <<>>]

RestoreBuild ==
  /\ pc = "restoreBuild"
  /\ IF ~MainBuildCacheEnabled(job.in)
     THEN pc' = After(job) /\ UNCHANGED <<job, disk, faults>>
     ELSE IF InvalidKey(job.in)
     THEN pc' = "saveBuild" /\ job' = [job EXCEPT !.failed = TRUE] /\ UNCHANGED <<disk, faults>>
     ELSE /\ pc' = After(job)
          /\ \E trouble \in {"none", "api", "cache", "archive"} :
             \E plan \in {BuildPlan(job, trouble = "api")} :
             \E found \in {BuildArchive(job, plan, trouble = "cache")} :
               /\ Fault(trouble # "none")
               /\ trouble = "api" => autoKeyEnabled(job.in)
               /\ trouble = "archive" => found # {}
               /\ \E result \in IF found = {} THEN {Nothing}
                                ELSE IF trouble = "archive" THEN Broken(found) ELSE Unpacked(found, job) :
                    RestoreFrom(plan, found, result)
  /\ UNCHANGED <<workflow, n, store, runs>>

\* The registry, the Dylint layers and the prepared archives are restored side
\* by side; a prepared entry that does not bring every archive of the target is
\* a miss, and the registry's archive is only downloaded.
ArchivesReady(plan, prepared) ==
  \A t \in ToSet(plan.targets) : \E p \in prepared : p[1] = t

RestoreLayer(layer, on, down, keys) ==
  IF on /\ down # layer THEN restoreCache(job.ref, {layer}, keys) ELSE {}

\* soldr packs the registry itself in the new format and the optional
\* siblings go in a second archive.
RegistryPaths(j) == IF j.result.registry.format = "soldr-v2" THEN {"registry.soldr", "extras"}
                                                             ELSE {"registry.tar"}

RegistryDownload(j) ==
  IF ~j.result.registry.on THEN {}
  ELSE restoreCache(j.ref, RegistryPaths(j), <<j.result.registry.key, j.result.registry.prefix>>)

RestoreTools ==
  /\ pc = "restoreTools"
  /\ \E down \in {"none", "registry", "prepare", "tools", "lint"} :
       LET plan    == job.result.prepare
           registry == IF down = "registry" THEN {} ELSE RegistryDownload(job)
           prepare == RestoreLayer("prepare", plan.on, down, <<plan.key>> \o plan.prefixes)
           tools   == RestoreLayer("tools", job.result.tools.on, down, <<job.result.tools.key>>)
           lint    == RestoreLayer("lint", job.result.lint.on, down,
                                   <<job.result.lint.key, job.result.lint.prefix>>)
           usable  == prepare # {} /\ ArchivesReady(plan, Body(prepare).prepared)
       IN  /\ Fault(down # "none")
           /\ job' = [job EXCEPT !.registryMatched = KeyOf(registry),
                                 !.registryHit = registry # {} /\ KeyOf(registry) = job.result.registry.key,
                                 !.prepareMatched = usable,
                                 !.prepareHit = usable /\ KeyOf(prepare) = plan.key,
                                 !.toolsHit = KeyOf(tools) = job.result.tools.key,
                                 !.lintHit  = KeyOf(lint) = job.result.lint.key]
           /\ disk' = [disk EXCEPT
                !.prepared = IF prepare = {} THEN {} ELSE Body(prepare).prepared,
                !.tools    = tools # {},
                !.lint     = IF lint = {} THEN <<>> ELSE Body(lint).lint]
  /\ pc' = After(job)
  /\ UNCHANGED <<workflow, n, store, runs>>

\* Main installs the toolchain and soldr and verifies it, pins zccache, then has
\* soldr bring the Dylint foundation.  A seed that fails stops main if the
\* workflow is strict about it.
SeedStops(j, fails) == fails /\ j.host.zccache = "absent" /\ j.in.zccacheSeedStrict \in Truthy

Prepare ==
  /\ pc = "prepare"
  /\ \E failure \in {"none", "setup", "seed", "dylint"} :
       LET stops == failure \in {"setup", "dylint"} \/ SeedStops(job, failure = "seed")
       IN  /\ Fault(failure # "none")
           /\ failure = "seed" => job.host.zccache = "absent"
           /\ failure = "dylint" => DylintMode(job.in)
           /\ job' = [job EXCEPT !.failed = stops]
           /\ disk' = [disk EXCEPT !.tools = @ \/ (DylintMode(job.in) /\ ~stops)]
           /\ pc' = IF stops THEN "saveBuild" ELSE After(job)
  /\ UNCHANGED <<workflow, n, store, runs>>

\* soldr packs what targets need from this release on.
MinimumVersion == 1

\* Target by target, until one fails: a fallback is replayed and saved again.
CrossPrepare ==
  /\ pc = "crossPrepare"
  /\ LET plan    == job.result.prepare
         targets == plan.targets
         use     == decideBlessedPrepareCacheUse(plan.on, job.prepareHit,
                      job.prepareMatched, ArchivesReady(plan, disk.prepared))
         tooOld  == job.host.version < MinimumVersion
     IN  \E done \in 0 .. Len(targets) :
           LET packed == {targets[i] : i \in 1 .. done}
               stops  == tooOld \/ done < Len(targets)
           IN  /\ tooOld => done = 0
               /\ Fault(~tooOld /\ done < Len(targets))
               /\ job' = [job EXCEPT !.complete = ~stops, !.failed = stops]
               /\ disk' = IF ~use.save THEN disk
                          ELSE [disk EXCEPT !.prepared =
                            {p \in @ : p[1] \notin packed} \cup (packed \X {job.host.version})]
               /\ pc' = IF stops THEN "saveBuild" ELSE After(job)
  /\ UNCHANGED <<workflow, n, store, runs>>

\* Only the old format is ever sealed.
restoreCargoRegistryArchive(j, found, breaks) ==
  IF j.result.registry.format = "soldr-v2" /\ ~j.host.packs THEN "unavailable"
  ELSE IF breaks THEN "corrupt"
  ELSE IF \A e \in found : Opens(j.in, e) THEN "used" ELSE "sealed"

\* Only the skip mode makes an archive that cannot be opened a miss: otherwise
\* main stops, and what it noted at the download stands.
ExtractionStops(j, result) == result = "sealed" /\ j.in.cacheEncryptOnFailure # "skip"

ExtractRegistry ==
  /\ pc = "extractRegistry"
  /\ \E breaks \in BOOLEAN :
       LET found  == IF job.registryMatched = <<>> THEN {} ELSE RegistryDownload(job)
           result == restoreCargoRegistryArchive(job, found, breaks)
           good   == found # {} /\ result = "used"
           stops  == ExtractionStops(job, result)
       IN  /\ Fault(breaks)
           /\ breaks => found # {} /\ result = "corrupt"
           /\ job' = [job EXCEPT !.registryMatched = IF good \/ stops THEN @ ELSE <<>>,
                                 !.registryHit = @ /\ (good \/ stops),
                                 !.failed = stops]
           /\ disk' = [disk EXCEPT !.locks = IF good THEN Body(found).locks ELSE {}]
           /\ pc' = IF stops THEN "saveBuild" ELSE After(job)
  /\ UNCHANGED <<workflow, n, store, runs>>

-----------------------------------------------------------------------------
(* The build, which is cargo with soldr as its compiler wrapper.  Cargo    *)
(* trusts an artifact that is not older than its source; the compile store *)
(* is keyed by content.                                                    *)

Fresh(j) == disk.tree # <<>> /\ j.mtime <= disk.tree[1].built

\* Dylint checks again what cargo would build again, and everything after a
\* change of the lockfile; what it denied it left no output of.
FreshLint(j) ==
  disk.lint # <<>> /\ disk.lint[1].lock = LockOf(j) /\ j.mtime <= disk.lint[1].built

Work ==
  /\ pc = "work"
  /\ \E passes, lints \in BOOLEAN :
       LET source == Content[job.sha]
           output == [content |-> source, built |-> 2 * n + 1, run |-> n]
       IN  /\ lints => DylintMode(job.in)
           /\ DylintMode(job.in) /\ (FreshLint(job) \/ passes) => lints
           /\ disk' = [disk EXCEPT
                !.units  = IF Fresh(job) THEN @ ELSE @ \cup {source},
                !.tree   = IF Fresh(job) THEN @ ELSE <<output>>,
                !.bundle = @ \/ (job.host.bundles /\ job.result.runtime # "off"),
                !.locks  = @ \cup {LockOf(job)},
                !.tools  = @ \/ job.result.tools.on,
                !.lint   = IF lints /\ ~FreshLint(job)
                           THEN <<[o \in DOMAIN output \cup {"lock"} |->
                                    IF o = "lock" THEN LockOf(job) ELSE output[o]]>>
                           ELSE @]
           /\ job' = [job EXCEPT !.failed = ~passes, !.linted = lints,
                !.compiled = IF Fresh(job) \/ source \in disk.units THEN 0 ELSE 1]
  /\ pc' = After(job)
  /\ UNCHANGED <<workflow, n, store, runs, faults>>

-----------------------------------------------------------------------------
(* Stopping the daemons, by the cleanup action in the middle of a job and  *)
(* by post before it packs.  A call ran, met a soldr that does not know it,*)
(* failed, or could not be made.                                           *)

Calls == {"ran", "unknown", "failed", "skipped"}

\* zccache is asked only when soldr cannot be run or does not know the command.
shutdownCacheDaemons(soldr, zccache) ==
  soldr = "ran" \/ (soldr \in {"unknown", "skipped"} /\ zccache = "ran")

\* The cleanup action files no session away, and by default fails the job when
\* a daemon goes on.
Cleanup ==
  /\ pc = "cleanup"
  /\ \E soldr \in Calls, zccache \in {"ran", "failed"} :
       LET quiet == shutdownCacheDaemons(soldr, zccache)
       IN  /\ Fault(~quiet)
           /\ job' = [job EXCEPT !.failed = @ \/ ~quiet]
  /\ pc' = "saveBuild"
  /\ UNCHANGED <<workflow, n, disk, store, runs>>

-----------------------------------------------------------------------------
(* Saves.                                                                  *)

AllowSave(j) ==
  Policy!AllowCacheSave(
    [event |-> IF j.ref = "pull" THEN "pull_request" ELSE "push",
     ref   |-> IF j.ref = "pull" THEN "other" ELSE "default",
     local |-> j.host.local, save |-> j.save, remote |-> ""])

\* The workflow hands the status of the job over, and asks for no save on
\* failure.
BuildOutputGate(j) == ~j.failed

\* soldr files the session of a build away in its history, and when post stops it
\* with an archive to file it in; what was restored with the store is not counted.
SessionsFiled(j, soldr) == j.host.history \/ (soldr = "ran" /\ ~j.host.cleanup)

\* The file the last session left, if it left one.
LastSession(j) == {<<>>, <<j.compiled>>}

\* What the job compiled, if that is known.  The target cache takes the number
\* of the build cache.
computeJobNewCompiles(j, soldr) ==
  IF ~MainBuildCacheEnabled(j.in) THEN {<<>>}
  ELSE IF SessionsFiled(j, soldr) THEN {<<j.compiled>>} ELSE LastSession(j)

\* Something was restored and it is known that nothing new was compiled.
TinyDelta(restored, misses) == restored # <<>> /\ misses = <<0>>

\* Mutant: the sidecar is appended to instead of written anew.
SnapshotAppended(j, gitAnswers) ==
  IF j.in.preserveSourceMtimes \in Truthy /\ MainBuildCacheEnabled(j.in) /\ gitAnswers
  THEN Append(disk.side, [content |-> Content[j.sha], mtime |-> j.mtime, run |-> n])
  ELSE disk.side

\* git answers, or the sidecar that was restored stays.
Snapshot(j, gitAnswers) ==
  IF j.in.preserveSourceMtimes \in Truthy /\ MainBuildCacheEnabled(j.in) /\ gitAnswers
  THEN <<[content |-> Content[j.sha], mtime |-> j.mtime, run |-> n]>>
  ELSE disk.side

\* The archive of a directory, or the directory itself.
SavedPaths(j, directory) == IF Archived(j.in, j.host) THEN {"archive"} ELSE {directory}
SavedSeal(j, key) == IF Archived(j.in, j.host) THEN Seal(j.in, key) ELSE <<>>

SavesBuild(j, misses) ==
  /\ MainBuildCacheEnabled(j.in) /\ BuildOutputGate(j) /\ ~TinyDelta(j.matched, misses)
  /\ AllowSave(j) /\ j.matched # j.key

\* A save proves itself only when main planned it and the key is its own.
Proofs(j, entry) ==
  {[id |-> entry.id, key |-> entry.key, ref |-> j.ref, sha |-> j.sha] :
     k \in {m \in parseAncestorKey(Identity(j), entry.key) :
              j.writer /\ m.sha = j.sha /\ m.run = n}}

\* Only what is packed is weighed.
Weighed(j) ==
  resolveCachePayloadPolicy(j.in, j.host).capped /\ Archived(j.in, j.host)

\* A payload over the cap is skipped, or fails post when the workflow asks for it.
applyCachePayloadOversizeAction(j, large) ==
  large /\ resolveCachePayloadPolicy(j.in, j.host).fails

\* The snapshot is taken whether or not the archive is saved.
FinishBuild(trouble, packed, misses) ==
  LET side  == Snapshot(job, trouble # "git")
      paths == SavedPaths(job, "dir")
      entry == Entry(job.ref, paths, job.key,
                 [NoBody EXCEPT !.units = packed, !.side = side, !.seal = SavedSeal(job, job.key)])
      saves == SavesBuild(job, misses)
      saved == saves /\ trouble \notin {"upload", "large"} /\ Reservable(job.ref, paths, job.key)
  IN  /\ trouble = "git" => side # Snapshot(job, TRUE)
      /\ trouble = "upload" => saves
      /\ trouble = "large" => saves /\ Weighed(job)
      /\ disk' = [disk EXCEPT !.side = side]
      /\ store' = IF saved THEN store \cup {entry} ELSE store
      /\ runs' = IF saved THEN [runs EXCEPT ![n].proofs = Proofs(job, entry)] ELSE runs
      /\ job' = [job EXCEPT
           !.uploaded = IF saved THEN @ \cup {"zccache-unit"} ELSE @,
           !.misses   = misses,
           !.oversize = applyCachePayloadOversizeAction(job, trouble = "large")]

\* The store of a daemon that still runs is packed as it comes.
SaveBuild ==
  /\ pc = "saveBuild"
  /\ \E trouble \in {"none", "git", "upload", "large", "daemon"}, zccache \in {"ran", "failed"},
        soldr \in Calls, packed \in SUBSET disk.units :
       /\ Fault(trouble # "none")
       /\ (trouble = "daemon") = ~shutdownCacheDaemons(soldr, zccache)
       /\ trouble # "daemon" => packed = disk.units
       /\ \E misses \in computeJobNewCompiles(job, soldr) : FinishBuild(trouble, packed, misses)
  /\ pc' = "saveTarget"
  /\ UNCHANGED <<workflow, n>>

\* Of the configured paths those that exist are saved.
ExistingPaths(j) ==
  {p \in j.result.target.paths :
     IF p = "target" THEN disk.tree # <<>> ELSE disk.bundle}

SavesTarget(j) ==
  /\ j.result.target.on /\ BuildOutputGate(j) /\ AllowSave(j)
  /\ ~j.targetHit /\ ExistingPaths(j) # {} /\ ~TinyDelta(j.targetMatched, j.misses)

SaveTarget ==
  /\ pc = "saveTarget"
  /\ LET key   == job.result.target.key
         paths == ExistingPaths(job)
         entry == Entry(job.ref, paths, key,
                    [NoBody EXCEPT !.tree   = IF "target" \in paths THEN disk.tree ELSE <<>>,
                                   !.bundle = "bundle" \in paths])
         saved == SavesTarget(job) /\ Reservable(job.ref, paths, key)
     IN  /\ store' = IF saved THEN store \cup {entry} ELSE store
         /\ job' = IF ~saved THEN job
                   ELSE [job EXCEPT !.uploaded = @ \cup
                          {IF "target" \in paths THEN "target-tree" ELSE "target-bundle"}]
  /\ pc' = "saveRegistry"
  /\ UNCHANGED <<workflow, n, disk, runs, faults>>

\* soldr writes the archive of the new format, if the soldr that runs can.
saveCargoRegistryArchive(j, works) ==
  j.result.registry.format = "soldr-v2" => j.host.packs /\ works

\* Both formats skip an exact hit.
SavesRegistry(j) ==
  /\ j.result.registry.on /\ AllowSave(j)
  /\ j.registryMatched # j.result.registry.key /\ disk.locks # {}

SaveRegistry ==
  /\ pc = "saveRegistry"
  /\ \E trouble \in {"none", "large", "archive"} :
       LET key   == job.result.registry.key
           v2    == job.result.registry.format = "soldr-v2"
           paths == IF v2 THEN RegistryPaths(job)
                    ELSE IF Archived(job.in, job.host) THEN {"registry.tar"} ELSE {"registry"}
           entry == Entry(job.ref, paths, key,
                          [NoBody EXCEPT !.locks = disk.locks,
                             !.seal = IF v2 THEN <<>> ELSE SavedSeal(job, key)])
           saved == /\ SavesRegistry(job) /\ trouble # "large"
                    /\ saveCargoRegistryArchive(job, trouble # "archive")
                    /\ Reservable(job.ref, paths, key)
       IN  /\ Fault(trouble # "none")
           /\ trouble = "archive" => SavesRegistry(job) /\ v2
           /\ trouble = "large" =>
                /\ SavesRegistry(job)
                /\ IF v2 THEN resolveCachePayloadPolicy(job.in, job.host).capped ELSE Weighed(job)
           /\ store' = IF saved THEN store \cup {entry} ELSE store
           /\ job' = [job EXCEPT
                !.uploaded = IF saved THEN @ \cup {"cargo-registry"} ELSE @,
                !.oversize = @ \/ applyCachePayloadOversizeAction(job, trouble = "large")]
  /\ pc' = After(job)
  /\ UNCHANGED <<workflow, n, disk, runs>>

\* A tool layer is saved under its key if nothing of that key is there; an
\* upload that fails is a line in the log.
SaveLayer(step, saves, layer, label, key, body) ==
  /\ pc = step
  /\ \E uploads \in BOOLEAN :
       LET entry == Entry(job.ref, {layer}, key, body)
           saved == saves /\ uploads /\ Reservable(job.ref, {layer}, key)
       IN  /\ ~uploads => saves
           /\ Fault(~uploads)
           /\ store' = IF saved THEN store \cup {entry} ELSE store
           /\ job' = IF saved THEN [job EXCEPT !.uploaded = @ \cup {label}] ELSE job
  /\ pc' = After(job)
  /\ UNCHANGED <<workflow, n, disk, runs>>

\* Not an exact hit, every target prepared, every archive there.
SavePrepared ==
  SaveLayer("savePrepared",
    AllowSave(job) /\ ~job.prepareHit /\ job.complete /\ ArchivesReady(job.result.prepare, disk.prepared),
    "prepare", "toolchain", job.result.prepare.key,
    [NoBody EXCEPT !.prepared = disk.prepared])

\* soldr writes the marker of a Dylint run that passed, with the toolchain
\* named for its host; the plan knows the host only with the foundation on.
dylintMarkerIdentityMatches(j) == j.linted /\ j.result.tools.on

SaveTools ==
  SaveLayer("saveTools",
    /\ AllowSave(job) /\ ~job.toolsHit /\ disk.tools
    /\ DylintMode(job.in) => dylintMarkerIdentityMatches(job),
    "tools", "dylint-foundation", job.result.tools.key,
    [NoBody EXCEPT !.tools = TRUE])

SaveLint ==
  SaveLayer("saveLint",
    AllowSave(job) /\ ~job.lintHit /\ dylintMarkerIdentityMatches(job) /\ disk.lint # <<>>,
    "lint", "dylint-output", job.result.lint.key,
    [NoBody EXCEPT !.lint = disk.lint])

End ==
  /\ pc = "end"
  /\ runs' = [runs EXCEPT ![n].conclusion = IF job.failed \/ job.oversize THEN "failure" ELSE "success"]
  /\ n' = n + 1 /\ pc' = "idle" /\ job' = NoJob /\ disk' = EmptyDisk
  /\ UNCHANGED <<workflow, store, faults>>

Init ==
  /\ workflow \in Workflows /\ n = 1 /\ pc = "idle" /\ job = NoJob /\ disk = EmptyDisk
  /\ store = {} /\ runs = <<>> /\ faults = 0

Finished == n > Runs /\ UNCHANGED vars

Next ==
  \/ Start \/ RestoreTarget \/ RestoreBuild \/ RestoreTools \/ Prepare \/ ExtractRegistry
  \/ CrossPrepare \/ Work \/ Cleanup \/ SaveBuild \/ SaveTarget \/ SaveRegistry
  \/ SavePrepared \/ SaveTools \/ SaveLint \/ End \/ Finished

Spec == Init /\ [][Next]_vars

-----------------------------------------------------------------------------
(* Properties.                                                             *)

Stages == Range(Steps)
Saving == Stages \ {"restoreTarget", "restoreBuild", "restoreTools", "prepare",
                     "extractRegistry", "crossPrepare", "work", "cleanup"}

\* The types of the variables.
TypeOK ==
  /\ n \in 1 .. Runs + 1 /\ faults \in 0 .. MaxFaults
  /\ pc \in {"idle"} \cup Stages
  /\ (pc = "idle") = (job = NoJob)
  /\ Len(runs) = IF pc = "idle" THEN n - 1 ELSE n
  /\ \A e \in store : e.id \in 1 .. Cardinality(store) /\ e.ref \in {"main", "pull"}
  /\ disk.units \subseteq Range(Content) /\ disk.locks \subseteq Range(Lock)
  /\ disk.bundle \in BOOLEAN /\ Len(disk.tree) <= 1 /\ Len(disk.side) <= 1
  /\ disk.tools \in BOOLEAN /\ Len(disk.lint) <= 1

\* The entries a run may take as donors: visible to it and saved for its own
\* identity by a reviewed run that succeeded at an ancestor of this commit, and
\* said so.
Proven(j) ==
  {e \in store : e.ref \in ToSet(ScopesOf(j.ref)) /\
     \E r \in j.in.autoKeyTrustedWriters \cap 1 .. n :
       /\ runs[r].conclusion = "success"
       /\ e.key = makeAncestorKey(Identity(j), runs[r].sha, r, e.ref)
       /\ runs[r].sha \in Ancestry[j.sha]
       /\ \E p \in runs[r].proofs : p.id = e.id}

\* The donor of an automatic key is a proven entry, and no other proven entry
\* was saved by a commit fewer parent edges away, whatever the history looks
\* like and however far the checkout reaches (ancestor-cache.ts promises the
\* nearest; the distance comes from a bounded local history or a comparison).
DonorIsNearestProven ==
  pc \in Stages /\ job.donor.found =>
    \E d \in Proven(job) :
      /\ d.key = job.donor.key /\ d.id = job.donor.id
      /\ \A e \in Proven(job) :
           Edges[job.sha][runs[e.key[Len(Identity(job)) + 3][2]].sha]
             >= Edges[job.sha][runs[d.key[Len(Identity(job)) + 3][2]].sha]

\* A job that built from an artifact of another source than its own, and one
\* that passed Dylint on the outputs of another source.
Underbuilt ==
  /\ pc \in Saving
  /\ disk.tree # <<>> /\ ~(job.failed /\ job.compiled = 0)
  /\ disk.tree[1].content # Content[job.sha]

Unlinted == pc \in Saving /\ job.linted /\ disk.lint[1].content # Content[job.sha]

\* A job serves a stale artifact, or passes Dylint on stale outputs, only if
\* mtimes are normalized, or if it replayed a sidecar of another run than the
\* one whose outputs it restored: a sidecar and outputs of one run never make
\* cargo trust a changed source (the content check of replaySourceMtimes();
\* the Dylint outputs have no commit in their key, resolve-setup.ts:1240).
OwnSnapshotSound ==
  /\ Underbuilt => \/ job.in.sourceMtimeNormalize \in Truthy
                   \/ job.replayed \notin {0, disk.tree[1].run}
  /\ Unlinted => \/ job.in.sourceMtimeNormalize \in Truthy
                 \/ job.replayed \notin {0, disk.lint[1].run}

\* The steps main takes only once the registry's archive was extracted.
Extracted == {"crossPrepare", "work"}

\* A layer noted as an exact hit makes post skip its save, so its entry is there
\* under the very key and is what the key names, and the job that builds has it
\* on the disk in full: an archive that did not unpack and an older generation
\* under the key of this one leave no hit.  The registry's hit is noted at the
\* download (main.ts:922), long before the extraction: where main throws in
\* between it stands with nothing extracted, and then nothing is built.
HitMeansHeld ==
  pc \in Stages =>
    /\ job.hit => \E e \in store : e.key = job.key /\ e.body.units \subseteq disk.units
    /\ job.registryHit =>
         \E e \in store : /\ e.ref \in ToSet(ScopesOf(job.ref)) /\ e.key = job.result.registry.key
                         /\ pc \in Extracted => e.body.locks \subseteq disk.locks
    /\ job.prepareHit =>
         ToSet(job.result.prepare.targets) \X {job.host.version} \subseteq disk.prepared
    /\ job.toolsHit => disk.tools
    /\ job.lintHit => disk.lint # <<>> /\ disk.lint[1].lock = LockOf(job)

\* A job that may save and meets no failure leaves its work to the runs after
\* it.  With an automatic key, what it compiled: the legacy key, which every
\* commit shares, no longer stands in the way.  (Where a run of this very
\* commit saved before, that entry stands, whatever it holds: the donor's key
\* becomes the write key, ancestor-cache-github.ts:174.)  What soldr prepared for its
\* release and what Dylint checked for its lockfile: a fallback that was
\* restored stands in for neither (main.ts:987).  Dylint outputs are left out
\* when the foundation layer is off: then no marker ever matches.
WorkIsKept ==
  pc \in Saving /\ AllowSave(job) /\ faults = 0 =>
    /\ pc = "saveTarget" /\ job.writer /\ job.compiled = 1 /\ ~job.failed
         /\ (job.donor.found => job.donor.distance # 0)
         => \E e \in store : /\ e.ref \in ToSet(ScopesOf(job.ref))
                             /\ Content[job.sha] \in e.body.units
    /\ pc = "end" /\ job.complete /\ job.result.prepare.on
         => \E e \in store : e.key = job.result.prepare.key
    /\ pc = "end" /\ job.linted /\ job.result.tools.on /\ job.result.lint.on
         => \E e \in store : e.key = job.result.lint.key

\* Under the umbrella switch a job uploads no layer it did not publish in its
\* policy, and a lane of test binaries never uploads a bulk target tree.
PolicyHonest ==
  pc \in Stages /\ Umbrella(job.in) =>
    /\ job.uploaded \subseteq job.result.layers
    /\ CiTests(job.in) => "target-tree" \notin job.uploaded

\* What action.yml says of preserve-source-mtimes: it cannot underbuild.
ReplayNeverUnderbuilds ==
  Underbuilt => job.in.sourceMtimeNormalize \in Truthy
=============================================================================
