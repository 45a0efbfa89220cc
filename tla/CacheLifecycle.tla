--------------------------- MODULE CacheLifecycle ---------------------------
(***************************************************************************)
(* The life of a setup-soldr job against the shared GitHub Actions cache.  *)
(* main.ts restores the dependency-bearing layers (build cache, target     *)
(* cache, cargo registry), launches the yank audit and returns; the        *)
(* consumer builds; post.ts, which runs even when main failed              *)
(* (post-if: always()), joins the audit and either repairs the cache or    *)
(* saves the layers.  Several jobs do this at once over one store of       *)
(* immutable entries, while crates.io may yank a crate at any moment.      *)
(*                                                                         *)
(* A payload is abstracted to the set of crates it holds usable outputs    *)
(* of: a store is partial for a lockfile when a crate of it is missing,    *)
(* and poisoned when a yanked crate is in it.                              *)
(***************************************************************************)
EXTENDS Naturals, FiniteSets

CONSTANTS
  Jobs,            \* workflow jobs that run the action
  Locks,           \* revisions of Cargo.lock; the exact key of a layer names one
  Crates,          \* crate versions of crates.io
  LockDeps,        \* the registry dependencies each lockfile pins
  Layers,          \* the enabled dependency-bearing layers
  Wired,           \* jobs whose workflow passes job-status (and not save-on-failure)
  Uploaders,       \* jobs whose event and ref the save policy lets upload
  RegistryFormat,  \* "soldr-v2" or "legacy-v1"
  Evictable,       \* bound: keys whose entries GitHub may evict
  Mortal,          \* bound: jobs whose runner may be lost
  NoKey, NoEntry,
  Earlier          \* the owner of entries left by runs before this behaviour

ASSUME LockDepsType   == LockDeps \in [Locks -> SUBSET Crates]
ASSUME LayersType     == Layers \subseteq {"build", "target", "registry"}
ASSUME JobGroups      == Wired \subseteq Jobs /\ Uploaders \subseteq Jobs
ASSUME FormatType     == RegistryFormat \in {"soldr-v2", "legacy-v1"}
ASSUME Distinct       == Earlier \notin Jobs

Keys    == Layers \X Locks
Owners  == Jobs \cup {Earlier}
Entries == [crates : SUBSET Crates, by : Owners]

ASSUME Bounds       == Evictable \subseteq Keys /\ Mortal \subseteq Jobs
ASSUME NoEntryFresh == NoEntry \notin Entries
ASSUME NoKeyFresh   == NoKey \notin Keys \cup (Keys \X Entries)

VARIABLES
  store,       \* the Actions cache: key -> finalized entry or NoEntry
  uploading,   \* the key a job has reserved and not finalized, or NoKey
  yanked,      \* crates yanked on crates.io so far
  pc,          \* where the job is
  lock,        \* the lockfile of the job's commit
  layersLeft,  \* main: restores in flight; post: layers not saved yet
  matched,     \* <layer>CacheMatchedKey of the saved state
  origin,      \* the very entry a restore downloaded: <<key, entry>>
  depKeys,     \* dependencyCacheMatchedKeys
  disk,        \* what the layer's directory holds on the runner
  main,        \* how main's run() ended
  started,     \* yankAuditStarted
  auditFile,   \* the audit's result file
  seen,        \* crates already yanked when the audit was launched
  verdict,     \* what post made of the audit
  status,      \* job.status
  compiles,    \* FALSE iff post counts no new compile; unreadable is TRUE
  saveResult,  \* the SaveStatus of each layer
  uploaded,    \* layers whose save returned a positive cache id
  toList,      \* repair: keys still to list
  listed,      \* repair: entries (key, id) found and still to delete
  repair       \* repair: what post will report

storeVars   == <<store, uploading>>
restoreVars == <<layersLeft, matched, origin, depKeys>>
auditVars   == <<started, auditFile, seen, verdict>>
buildVars   == <<disk, status, compiles>>
saveVars    == <<saveResult, uploaded>>
repairVars  == <<toList, listed, repair>>
vars == <<storeVars, yanked, pc, lock, restoreVars, auditVars, main,
          buildVars, saveVars, repairVars>>

PCs == {"queued", "restore", "prepare", "build", "post", "join",
        "abort", "save", "upload", "probe", "done"}
\* "pending" also stands for an inconclusive result without evidence of a
\* yank, "yanked" for an inconclusive one with it: post treats them alike.
AuditFiles == {"absent", "pending", "clean", "yanked", "launch-failed"}
SaveStatuses == {"none", "failed-job-skip", "tiny-delta-skip", "policy-skip",
                 "missing-dir-skip", "exact-hit-skip", "oversize-skip",
                 "race-skip", "failed", "saved"}

TypeOK ==
  /\ store \in [Keys -> Entries \cup {NoEntry}]
  /\ uploading \in [Jobs -> Keys \cup {NoKey}]
  /\ yanked \in SUBSET Crates
  /\ pc \in [Jobs -> PCs]
  /\ lock \in [Jobs -> Locks]
  /\ layersLeft \in [Jobs -> SUBSET Layers]
  /\ matched \in [Jobs -> [Layers -> Keys \cup {NoKey}]]
  /\ origin \in [Jobs -> [Layers -> (Keys \X Entries) \cup {NoKey}]]
  /\ depKeys \in [Jobs -> SUBSET Keys]
  /\ disk \in [Jobs -> [Layers -> SUBSET Crates]]
  /\ main \in [Jobs -> {"running", "returned", "threw"}]
  /\ started \in [Jobs -> BOOLEAN]
  /\ auditFile \in [Jobs -> AuditFiles]
  /\ seen \in [Jobs -> SUBSET Crates]
  /\ verdict \in [Jobs -> {"none", "clean", "yanked", "not-checked"}]
  /\ status \in [Jobs -> {"running", "success", "failure", "cancelled"}]
  /\ compiles \in [Jobs -> BOOLEAN]
  /\ saveResult \in [Jobs -> [Layers -> SaveStatuses]]
  /\ uploaded \in [Jobs -> SUBSET Layers]
  /\ toList \in [Jobs -> SUBSET Keys]
  /\ listed \in [Jobs -> SUBSET (Keys \X Owners)]
  /\ repair \in [Jobs -> {"none", "complete", "incomplete"}]

(***************************************************************************)
(* Earlier runs may have left any layer of any lockfile behind, complete.  *)
(***************************************************************************)
Leftovers(k) == {NoEntry, [crates |-> LockDeps[k[2]], by |-> Earlier]}

Init ==
  /\ store \in [Keys -> Entries \cup {NoEntry}]
  /\ \A k \in Keys : store[k] \in Leftovers(k)
  /\ uploading = [j \in Jobs |-> NoKey]
  /\ yanked = {}
  /\ pc = [j \in Jobs |-> "queued"]
  /\ lock \in [Jobs -> Locks]
  /\ layersLeft = [j \in Jobs |-> {}]
  /\ matched = [j \in Jobs |-> [y \in Layers |-> NoKey]]
  /\ origin = [j \in Jobs |-> [y \in Layers |-> NoKey]]
  /\ depKeys = [j \in Jobs |-> {}]
  /\ disk = [j \in Jobs |-> [y \in Layers |-> {}]]
  /\ main = [j \in Jobs |-> "running"]
  /\ started = [j \in Jobs |-> FALSE]
  /\ auditFile = [j \in Jobs |-> "absent"]
  /\ seen = [j \in Jobs |-> {}]
  /\ verdict = [j \in Jobs |-> "none"]
  /\ status = [j \in Jobs |-> "running"]
  /\ compiles = [j \in Jobs |-> TRUE]
  /\ saveResult = [j \in Jobs |-> [y \in Layers |-> "none"]]
  /\ uploaded = [j \in Jobs |-> {}]
  /\ toList = [j \in Jobs |-> {}]
  /\ listed = [j \in Jobs |-> {}]
  /\ repair = [j \in Jobs |-> "none"]

-----------------------------------------------------------------------------
(***************************************************************************)
(* main.ts                                                                 *)
(***************************************************************************)
Goto(j, p)     == pc' = [pc EXCEPT ![j] = p]

\* The job is over: its runner, and what it had on disk, are gone.
Leave(j) ==
  /\ Goto(j, "done")
  /\ disk' = [disk EXCEPT ![j] = [y \in Layers |-> {}]]
  /\ auditFile' = [auditFile EXCEPT ![j] = "absent"]
  /\ compiles' = [compiles EXCEPT ![j] = TRUE]
  /\ layersLeft' = [layersLeft EXCEPT ![j] = {}]
Deps(j)        == LockDeps[lock[j]]
ExactKey(j, y) == <<y, lock[j]>>

\* The post step returns at once when resolve state was never saved.
ResolveThrows(j) ==
  /\ pc[j] = "queued"
  /\ Goto(j, "done")
  /\ main' = [main EXCEPT ![j] = "threw"]
  /\ status' = [status EXCEPT ![j] = "failure"]
  /\ UNCHANGED <<storeVars, yanked, lock, restoreVars, auditVars, disk,
                 compiles, saveVars, repairVars>>

Resolve(j) ==
  /\ pc[j] = "queued"
  /\ Goto(j, "restore")
  /\ layersLeft' = [layersLeft EXCEPT ![j] = Layers]
  /\ UNCHANGED <<storeVars, yanked, lock, matched, origin, depKeys, auditVars,
                 main, buildVars, saveVars, repairVars>>

\* @actions/cache: the exact key wins; else an entry the restore keys reach.
Candidates(j, y) ==
  IF store[ExactKey(j, y)] # NoEntry
  THEN {ExactKey(j, y)}
  ELSE {k \in Keys : k[1] = y /\ store[k] # NoEntry}

RestoreSettles(j, y) ==
  /\ pc[j] = "restore"
  /\ y \in layersLeft[j]
  /\ layersLeft' = [layersLeft EXCEPT ![j] = @ \ {y}]
  /\ UNCHANGED <<storeVars, yanked, pc, lock, auditVars, main, status,
                 compiles, saveVars, repairVars>>

Downloads(j, y, k) ==
  /\ k \in Candidates(j, y)
  /\ origin' = [origin EXCEPT ![j][y] = <<k, store[k]>>]

\* Nothing matches, or the service fails and restoreCacheSafe says miss.
RestoreMiss(j, y) ==
  /\ RestoreSettles(j, y)
  /\ UNCHANGED <<matched, origin, depKeys, disk>>

\* Build and target payloads land in place and join the audit's suspects.
RestoreTree(j, y, k) ==
  /\ y # "registry"
  /\ RestoreSettles(j, y)
  /\ Downloads(j, y, k)
  /\ matched' = [matched EXCEPT ![j][y] = k]
  /\ depKeys' = [depKeys EXCEPT ![j] = @ \cup {k}]
  /\ disk' = [disk EXCEPT ![j][y] = store[k].crates]

\* An empty, undecodable or failing build archive is treated as a miss; what
\* was extracted before the failure stays on disk.
BuildPayloadUnusable(j, k) ==
  /\ RestoreSettles(j, "build")
  /\ Downloads(j, "build", k)
  /\ \E extracted \in SUBSET store[k].crates :
       disk' = [disk EXCEPT ![j]["build"] = extracted]
  /\ UNCHANGED <<matched, depKeys>>

\* The registry is only downloaded here: Soldr must extract it.
DownloadRegistry(j, k) ==
  /\ RestoreSettles(j, "registry")
  /\ Downloads(j, "registry", k)
  /\ matched' = [matched EXCEPT ![j]["registry"] = k]
  /\ UNCHANGED <<depKeys, disk>>

RegistryWaits(j) == "registry" \in Layers /\ matched[j]["registry"] # NoKey

\* await Promise.all over the restores; Soldr is installed and verified;
\* the registry archive is extracted, or markRegistryMiss.
ExtractRegistry(j) ==
  /\ pc[j] = "restore" /\ layersLeft[j] = {}
  /\ Goto(j, "prepare")
  /\ IF RegistryWaits(j)
     THEN \/ /\ depKeys' = [depKeys EXCEPT ![j] = @ \cup {matched[j]["registry"]}]
             /\ disk' = [disk EXCEPT ![j]["registry"] = origin[j]["registry"][2].crates]
             /\ UNCHANGED matched
          \/ /\ matched' = [matched EXCEPT ![j]["registry"] = NoKey]
             /\ UNCHANGED <<depKeys, disk>>
     ELSE UNCHANGED <<matched, depKeys, disk>>
  /\ UNCHANGED <<storeVars, yanked, lock, layersLeft, origin, auditVars, main,
                 status, compiles, saveVars, repairVars>>

\* run() rejects: a key override, Soldr verification, an encrypted registry
\* archive or cross-prepare fails.  The job's steps are skipped, the post
\* step is not.
MainThrows(j) ==
  /\ pc[j] \in {"restore", "prepare"}
  /\ Goto(j, "post")
  /\ main' = [main EXCEPT ![j] = "threw"]
  /\ status' = [status EXCEPT ![j] = "failure"]
  /\ UNCHANGED <<storeVars, yanked, lock, restoreVars, auditVars, disk,
                 compiles, saveVars, repairVars>>

\* The last act of main: nothing to audit, no registry dependency to look up,
\* a detached worker, or a launch that failed before its config was written.
LaunchAudit(j) ==
  /\ pc[j] = "prepare"
  /\ Goto(j, "build")
  /\ main' = [main EXCEPT ![j] = "returned"]
  /\ started' = [started EXCEPT ![j] = depKeys[j] # {}]
  /\ seen' = [seen EXCEPT ![j] = yanked]
  /\ \/ depKeys[j] = {} /\ UNCHANGED auditFile
     \/ /\ depKeys[j] # {}
        /\ \E file \in {"launch-failed", IF Deps(j) = {} THEN "clean" ELSE "pending"} :
             auditFile' = [auditFile EXCEPT ![j] = file]
  /\ UNCHANGED <<storeVars, yanked, lock, restoreVars, verdict, buildVars,
                 saveVars, repairVars>>

-----------------------------------------------------------------------------
(***************************************************************************)
(* The detached audit worker, and the consumer's build                     *)
(***************************************************************************)
\* Each crate is looked up once, some time after the launch: a crate yanked
\* before the launch cannot look clean, one yanked since may.
\* Mutant: a version the index does not list is taken for a clean one.
UnlistedLooksClean(j) == lock[j] \in Locks

MayLookClean(j) == Deps(j) \cap seen[j] = {}
MayLookYanked(j) == Deps(j) \cap yanked # {}

\* Mutant: the worker's inconclusive status is passed on unread.
RawConclusions(j) == {"not-checked"} \cup (IF MayLookYanked(j) THEN {"yanked"} ELSE {})

Conclusions(j) ==
  (IF MayLookClean(j) THEN {"clean"} ELSE {})
    \cup (IF MayLookYanked(j) THEN {"yanked"} ELSE {})

AuditWorker(j) ==
  /\ auditFile[j] = "pending" /\ pc[j] # "done"
  /\ \E v \in Conclusions(j) : auditFile' = [auditFile EXCEPT ![j] = v]
  /\ UNCHANGED <<storeVars, yanked, pc, lock, restoreVars, started, seen,
                 verdict, main, buildVars, saveVars, repairVars>>

\* A warm target directory spares crates the build cache then never sees.
BuildOutputs(j, S) ==
  disk' = [disk EXCEPT ![j] =
             [y \in Layers |->
                @[y] \cup (IF y = "build" /\ "target" \in Layers
                           THEN S \ @["target"] ELSE S)]]

MayCompileNothing(j) ==
  "build" \in Layers /\ disk'[j]["build"] = disk[j]["build"]

BuildEnds(j, st, S) ==
  /\ pc[j] = "build"
  /\ Goto(j, "post")
  /\ status' = [status EXCEPT ![j] = st]
  /\ BuildOutputs(j, S)
  /\ \/ compiles' = [compiles EXCEPT ![j] = FALSE] /\ MayCompileNothing(j)
     \/ UNCHANGED compiles
  /\ UNCHANGED <<storeVars, yanked, lock, restoreVars, auditVars, main,
                 saveVars, repairVars>>

BuildSucceeds(j) == BuildEnds(j, "success", Deps(j))

\* A compile error, a full disk, a failing test or a cancel: any part is done.
BuildFails(j) ==
  \E st \in {"failure", "cancelled"}, S \in SUBSET Deps(j) : BuildEnds(j, st, S)

-----------------------------------------------------------------------------
(***************************************************************************)
(* post.ts: the audit join and the repair of a poisoned cache              *)
(***************************************************************************)
\* Mutant: post joins only an audit that has already written its result.
FirstDutyIfReady(j) == IF started[j] /\ auditFile[j] # "pending" THEN "join" ELSE "save"

FirstDuty(j) == IF started[j] THEN "join" ELSE "save"

\* Daemons are shut down, then any audit main launched is joined.
PostStart(j) ==
  /\ pc[j] = "post"
  /\ Goto(j, FirstDuty(j))
  /\ layersLeft' = [layersLeft EXCEPT ![j] = Layers]
  /\ UNCHANGED <<storeVars, yanked, lock, matched, origin, depKeys, auditVars,
                 main, buildVars, saveVars, repairVars>>

\* resolveYankAuditResult: evidence of a yank wins whatever the status; a
\* clean file is believed; a missing or inconclusive one, once its deadline
\* has passed, is replaced by a bounded foreground recheck.
\* Mutant: post waits for the worker without a deadline.
VerdictsWithoutDeadline(j) == {auditFile[j]} \cap {"clean", "yanked"}

JoinVerdicts(j) ==
  IF auditFile[j] \in {"clean", "yanked"}
  THEN {auditFile[j]}
  ELSE {"not-checked"} \cup (IF auditFile[j] = "pending" THEN Conclusions(j) ELSE {})

JoinAudit(j) ==
  /\ pc[j] = "join"
  /\ \E v \in JoinVerdicts(j) :
       /\ verdict' = [verdict EXCEPT ![j] = v]
       /\ Goto(j, IF v = "clean" THEN "save" ELSE "abort")
       /\ toList' = [toList EXCEPT ![j] = IF v = "yanked" THEN depKeys[j] ELSE {}]
       /\ repair' = [repair EXCEPT ![j] = IF v = "yanked" THEN "complete" ELSE @]
  /\ UNCHANGED <<storeVars, yanked, lock, restoreVars, started, auditFile, seen,
                 main, buildVars, saveVars, listed>>

\* Mutant: a failed call of the repair is logged and not counted.
IgnoreFailure(j) == repair' = [repair EXCEPT ![j] = "complete"]

CountFailure(j) == repair' = [repair EXCEPT ![j] = "incomplete"]

\* deleteCacheEntriesByKeys lists every key first...
ListPoisoned(j, k) ==
  /\ pc[j] = "abort"
  /\ k \in toList[j]
  /\ toList' = [toList EXCEPT ![j] = @ \ {k}]
  /\ \/ /\ listed' = [listed EXCEPT ![j] = @ \cup
                        (IF store[k] = NoEntry THEN {} ELSE {<<k, store[k].by>>})]
        /\ UNCHANGED repair
     \/ /\ CountFailure(j)
        /\ UNCHANGED listed
  /\ UNCHANGED <<storeVars, yanked, pc, lock, restoreVars, auditVars, main,
                 buildVars, saveVars>>

Holds(e) == store[e[1]] # NoEntry /\ store[e[1]].by = e[2]

\* ... then deletes by id: an id that is gone (404) counts as deleted.
DeleteListed(j, e) ==
  /\ pc[j] = "abort" /\ toList[j] = {}
  /\ e \in listed[j]
  /\ listed' = [listed EXCEPT ![j] = @ \ {e}]
  /\ \/ /\ store' = IF Holds(e) THEN [store EXCEPT ![e[1]] = NoEntry] ELSE store
        /\ UNCHANGED repair
     \/ /\ CountFailure(j)
        /\ UNCHANGED store
  /\ UNCHANGED <<uploading, yanked, pc, lock, restoreVars, auditVars, main,
                 buildVars, saveVars, toList>>

\* setFailed and return: nothing is saved.
AbortReported(j) ==
  /\ pc[j] = "abort" /\ toList[j] = {} /\ listed[j] = {}
  /\ Leave(j)
  /\ UNCHANGED <<storeVars, yanked, lock, matched, origin, depKeys, started,
                 seen, verdict, main, status, saveVars, repairVars>>

-----------------------------------------------------------------------------
(***************************************************************************)
(* post.ts: the saves, in order: build cache, target cache, registry       *)
(***************************************************************************)
Current(j) ==
  CHOOSE y \in layersLeft[j] :
    \/ y = "build"
    \/ y = "target" /\ "build" \notin layersLeft[j]
    \/ layersLeft[j] = {"registry"}

ExactHit(j, y)  == matched[j][y] = ExactKey(j, y)
TinyDelta(j, y) == matched[j][y] # NoKey /\ ~compiles[j]

\* Mutant: only a failed job is held back, a cancelled one saves.
FailedNotCancelled(j) == j \in Wired /\ status[j] = "failure"

\* decideBuildOutputSave: an unwired job-status is empty and never skips.
FailedJob(j) == j \in Wired /\ status[j] \in {"failure", "cancelled"}

BuildSkip(j) ==
  IF FailedJob(j) THEN "failed-job-skip"
  ELSE IF TinyDelta(j, "build") THEN "tiny-delta-skip"
  ELSE IF j \notin Uploaders THEN "policy-skip"
  ELSE IF disk[j]["build"] = {} THEN "missing-dir-skip"
  ELSE IF ExactHit(j, "build") THEN "exact-hit-skip"
  ELSE "none"

TargetSkip(j) ==
  IF FailedJob(j) THEN "failed-job-skip"
  ELSE IF j \notin Uploaders THEN "policy-skip"
  ELSE IF ExactHit(j, "target") THEN "exact-hit-skip"
  ELSE IF disk[j]["target"] = {} THEN "missing-dir-skip"
  ELSE IF TinyDelta(j, "target") THEN "tiny-delta-skip"
  ELSE "none"

RegistrySkip(j) ==
  IF j \notin Uploaders THEN "policy-skip"
  ELSE IF ExactHit(j, "registry") THEN "exact-hit-skip"
  ELSE IF disk[j]["registry"] = {} /\ RegistryFormat = "legacy-v1" THEN "missing-dir-skip"
  ELSE "none"

SkipReason(j, y) ==
  IF y = "build" THEN BuildSkip(j)
  ELSE IF y = "target" THEN TargetSkip(j)
  ELSE RegistrySkip(j)

\* A layer's save is over: post moves to the next one.
Settle(j, y, st) ==
  /\ saveResult' = [saveResult EXCEPT ![j][y] = st]
  /\ layersLeft' = [layersLeft EXCEPT ![j] = @ \ {y}]
  /\ Goto(j, "save")

SaveStep(j, at) ==
  /\ pc[j] = at /\ layersLeft[j] # {}
  /\ UNCHANGED <<yanked, lock, matched, origin, depKeys, auditVars, main,
                 buildVars, repairVars>>

SkipSave(j) ==
  LET y == Current(j) IN
  /\ SaveStep(j, "save")
  /\ SkipReason(j, y) # "none"
  /\ Settle(j, y, SkipReason(j, y))
  /\ UNCHANGED <<storeVars, uploaded>>

\* compressCache throws or finds the payload over cache-payload-max-bytes;
\* a v2 registry archive cannot be produced.
ArchiveFails(j) ==
  LET y == Current(j) IN
  /\ SaveStep(j, "save")
  /\ y # "target" /\ SkipReason(j, y) = "none"
  /\ \E st \in {"failed", "oversize-skip"} : Settle(j, y, st)
  /\ UNCHANGED <<storeVars, uploaded>>

KeyTaken(k) == store[k] # NoEntry \/ \E i \in Jobs : uploading[i] = k

Reserve(j) ==
  LET y == Current(j)  k == ExactKey(j, Current(j)) IN
  /\ SaveStep(j, "save")
  /\ SkipReason(j, y) = "none" /\ disk[j][y] # {}
  /\ ~KeyTaken(k)
  /\ uploading' = [uploading EXCEPT ![j] = k]
  /\ Goto(j, "upload")
  /\ UNCHANGED <<store, layersLeft, saveVars>>

\* Mutant: every layer trusts saveCache to have saved.
NegativeIdIgnored(j, y) == Settle(j, y, "saved")

\* saveCache returns -1.  saveOne does not look at the id, target-cache calls
\* it a failure, the v2 registry probes the exact key first.
NegativeId(j, y) ==
  IF y = "registry" /\ RegistryFormat = "soldr-v2"
  THEN Goto(j, "probe") /\ UNCHANGED <<layersLeft, saveResult>>
  ELSE Settle(j, y, IF y = "target" THEN "failed" ELSE "saved")

ReserveRefused(j) ==
  LET y == Current(j) IN
  /\ SaveStep(j, "save")
  /\ SkipReason(j, y) = "none" /\ disk[j][y] # {}
  /\ KeyTaken(ExactKey(j, y))
  /\ NegativeId(j, y)
  /\ UNCHANGED <<storeVars, uploaded>>

FinishUpload(j) ==
  LET y == Current(j) IN
  /\ SaveStep(j, "upload")
  /\ store' = [store EXCEPT ![uploading[j]] = [crates |-> disk[j][y], by |-> j]]
  /\ uploading' = [uploading EXCEPT ![j] = NoKey]
  /\ uploaded' = [uploaded EXCEPT ![j] = @ \cup {y}]
  /\ Settle(j, y, "saved")

UploadFails(j) ==
  /\ SaveStep(j, "upload")
  /\ uploading' = [uploading EXCEPT ![j] = NoKey]
  /\ NegativeId(j, Current(j))
  /\ UNCHANGED <<store, uploaded>>

\* classifyCacheSaveReservation: a lookup-only restore of the exact key.
ProbeExactKey(j) ==
  LET y == Current(j) IN
  /\ SaveStep(j, "probe")
  /\ \/ store[ExactKey(j, y)] # NoEntry /\ Settle(j, y, "race-skip")
     \/ Settle(j, y, "failed")
  /\ UNCHANGED <<storeVars, uploaded>>

PostEnds(j) ==
  /\ pc[j] = "save" /\ layersLeft[j] = {}
  /\ Leave(j)
  /\ UNCHANGED <<storeVars, yanked, lock, matched, origin, depKeys, started,
                 seen, verdict, main, status, saveVars, repairVars>>

-----------------------------------------------------------------------------
(***************************************************************************)
(* The world: crates.io, GitHub's own eviction, a lost runner              *)
(***************************************************************************)
YankCrate(c) ==
  /\ c \notin yanked
  /\ yanked' = yanked \cup {c}
  /\ UNCHANGED <<storeVars, pc, lock, restoreVars, auditVars, main, buildVars,
                 saveVars, repairVars>>

EvictEntry(k) ==
  /\ store[k] # NoEntry
  /\ store' = [store EXCEPT ![k] = NoEntry]
  /\ UNCHANGED <<uploading, yanked, pc, lock, restoreVars, auditVars, main,
                 buildVars, saveVars, repairVars>>

RunnerLost(j) ==
  /\ pc[j] \notin {"queued", "done"}
  /\ Leave(j)
  /\ uploading' = [uploading EXCEPT ![j] = NoKey]
  /\ UNCHANGED <<store, yanked, lock, matched, origin, depKeys, started, seen,
                 verdict, main, status, saveVars, repairVars>>

MainStep(j) ==
  \/ ResolveThrows(j) \/ Resolve(j)
  \/ \E y \in Layers : RestoreMiss(j, y)
  \/ \E y \in Layers, k \in Keys : RestoreTree(j, y, k)
  \/ \E k \in Keys : BuildPayloadUnusable(j, k) \/ DownloadRegistry(j, k)
  \/ ExtractRegistry(j) \/ MainThrows(j) \/ LaunchAudit(j)

PostStep(j) ==
  \/ PostStart(j) \/ JoinAudit(j)
  \/ \E k \in Keys : ListPoisoned(j, k)
  \/ \E e \in listed[j] : DeleteListed(j, e)
  \/ AbortReported(j)
  \/ SkipSave(j) \/ ArchiveFails(j) \/ Reserve(j) \/ ReserveRefused(j)
  \/ FinishUpload(j) \/ UploadFails(j) \/ ProbeExactKey(j) \/ PostEnds(j)

JobStep(j) == MainStep(j) \/ BuildSucceeds(j) \/ BuildFails(j) \/ PostStep(j)

World ==
  \/ \E c \in Crates : YankCrate(c)
  \/ \E k \in Evictable : EvictEntry(k)
  \/ \E j \in Jobs : AuditWorker(j)
  \/ \E j \in Mortal : RunnerLost(j)

Done == (\A j \in Jobs : pc[j] = "done") /\ UNCHANGED vars

Next == (\E j \in Jobs : JobStep(j)) \/ World \/ Done

Spec == Init /\ [][Next]_vars

\* Every step of a job is bounded by its own timeout; the audit worker, the
\* registry and GitHub owe the job nothing.
FairSpec == Spec /\ \A j \in Jobs : WF_vars(JobStep(j))

-----------------------------------------------------------------------------
(***************************************************************************)
(* Properties                                                              *)
(***************************************************************************)
\* Among the entries a job restored, those the audit covers.
Suspects(j) == {y \in Layers : origin[j][y] # NoKey /\ matched[j][y] \in depKeys[j]}

\* A job whose main step returned after restoring dependency entries uploads
\* nothing before post has joined a completed, clean audit (post.ts, the join
\* before any save).
AuditBeforeUpload ==
  \A j \in Jobs :
    main[j] = "returned" /\ depKeys[j] # {} /\ uploaded[j] # {} => verdict[j] = "clean"

\* Whatever the interleaving of the worker, its deadline and the foreground
\* recheck, such a job uploads only if no dependency of its lockfile had
\* been yanked when main launched the audit.
YankedLockNeverUploads ==
  \A j \in Jobs :
    main[j] = "returned" /\ depKeys[j] # {} /\ uploaded[j] # {} => Deps(j) \cap seen[j] = {}

\* Where the workflow wires job-status, a build-cache or target-cache entry
\* comes from a job that succeeded, and a target entry is whole for its
\* lockfile: an exact hit on it, which is never re-saved, is not poisoned
\* (failed-job-save.ts, setup-soldr#559).
WiredEntriesWhole ==
  \A k \in Keys :
    store[k] # NoEntry /\ k[1] # "registry" /\ store[k].by \in Wired =>
      /\ status[store[k].by] = "success"
      /\ k[1] = "target" => LockDeps[k[2]] \subseteq store[k].crates

\* When post reports the repair complete, none of the entries the job restored
\* is in the store, even if other jobs evict, delete and save the same keys
\* meanwhile (deleteCacheEntriesByKeys).
RepairRemovesRestored ==
  \A j \in Jobs : repair[j] = "complete" /\ toList[j] = {} /\ listed[j] = {} =>
    \A y \in Suspects(j) :
      LET k == matched[j][y] IN
      store[k] = NoEntry \/ store[k].by # origin[j][y][2].by

\* A save that target-cache or the v2 registry reports as done put this job's
\* own payload in the cache; losing the reservation to a parallel job, before
\* or while it uploads, is never reported as a save.
CheckedSavesUploaded ==
  \A j \in Jobs, y \in Layers \ {"build"} :
    RegistryFormat = "soldr-v2" /\ saveResult[j][y] = "saved" => y \in uploaded[j]

\* Every job that starts ends, though the audit worker may never answer, a
\* reservation be refused and any upload fail.
JobEnds == \A j \in Jobs : pc[j] # "queued" ~> pc[j] = "done"
=============================================================================
