# setup-soldr: TLA+ models, model checks and proofs

setup-soldr is a GitHub Action in TypeScript. Its main step (`src/main.ts`) restores caches and
installs soldr and a Rust toolchain; the workflow builds; its post step (`src/post.ts`, run with
`post-if: always()`) saves the caches. Three things outlive a job: the GitHub Actions cache of the
repository, a store of immutable entries under keys, where a key is reserved before it is uploaded and
finalized afterwards; the directories of a self-hosted runner; and the commit history. Nearly everything
that can go wrong in this program and that its tests do not reach goes wrong there: another job between
two calls, a call that fails, a step that throws with the post step still to come, a worker that never
answers, a state left by a run that was configured differently.

Paths below are relative to the repository root, `src/` for its sources, `src/lib/` for the library.

## 1. Inventory

### Components

The status is that of `PROJECT.json`: modelled, partly, or not modelled.

| Component | Sources | State | Operations | Module (status) |
|---|---|---|---|---|
| Job lifecycle | `main.ts`, `post.ts` | the saved state between main and post (`*MatchedKey`, `dependencyCacheMatchedKeys`, `yankAuditStarted`), layer directories, save statuses | resolve, restore in parallel, extract the registry, launch the audit; join, repair, save in order, probe | `CacheLifecycle` (partly) |
| Save gates | `failed-job-save.ts`, `compile-cache-stats.ts` | job status, count of new compiles | `decideBuildOutputSave`, `decideCacheSaveGate` | `CacheLifecycle`, `BuildJourney` (partly) |
| Yank audit | `yank-audit.ts` | worker process, result file, look-ups in flight | launch, request, answer, cut, publish, poll, recheck | `YankAudit`, promise in `AuditVerdict` (modelled) |
| Cache eviction | `cache-eviction.ts` | usage report, list, plan, deletions in flight | read usage, list, plan, delete | `CacheEviction`, the deletion by key `CacheLifecycle` (modelled) |
| Run-scoped cleanup | `scripts/delete-run-scoped-caches.mjs` | pages read, matches, answers | parse the generation, list by pages, delete, verify | `RunScopedCleanup` (modelled) |
| Solo toolchain cache | `solo-toolchain-cache.ts`, `main.ts`, `post.ts` | validation outcome, save-diff manifest, deletion outcome | restore, validate, reinstall, delete, stage, probe, save, look up | `SoloToolchainCache` (partly) |
| Verdict ledger | `verdict-cache.ts`, `verdict-setup.ts` | manifests and verdicts in the cache, soldr's log and spool | preflight, lazy setup, publish, janitor | `VerdictLedger` (partly) |
| Save policy | `save-policy.ts` | environment | `decideCacheSave` | `SavePolicy` (modelled) |
| Cook cache, two-phase save | `cook-cache.ts`, `two-phase-actions-cache.ts`, `deferred-cook.ts`, `cook*.ts` | base, delta and legacy archives, a reservation held while the archive is produced | plan, restore, load, cook, reserve, produce, upload | `LayeredCook` (modelled) |
| Installation of soldr, mini cache | `ensure-soldr.ts`, `install-passthrough.ts`, `verify-soldr.ts`, `fetch-release.ts`, `soldr-mini-cache.ts` | the install directory with its two metadata files, mini-cache entries | reuse, fetch, build, stub, verify; restore and save of the directory | `Installation` (modelled) |
| Tool-cache store | `tool-cache-store.ts`, `bundle-`, `rustup-`, `syslib-tool-cache.ts` | a directory of a self-hosted runner shared by jobs | decide, adopt by link, publish, prune | `HostTools` (partly) |
| Installation of the toolchain | `ensure-rust-toolchain.ts`, `soldr-toolchain-client.ts` | toolchains directories | delegate to soldr, or drive rustup | `HostTools` (modelled) |
| Inputs and keys | `resolve-setup.ts`, `cache-keys.ts`, `raw-inputs.ts` | none | presets, modes, keys, restore prefixes, policy | `CachePlan` (partly) |
| Source-ancestor selection | `ancestor-cache*.ts` | none: list, commit graph, proofs of clean saves | `parseAncestorKey`, `selectAncestorCache`, `dagDistances` | `AncestorSelection`, `BuildJourney` (modelled) |
| Blessed cross preparation | `blessed-cross-prepare.ts` | prepared archives | plan, restore, prepare each target, save | `BuildJourney` (modelled) |
| Source-mtime replay and normalisation | `source-mtime-snapshot.ts`, `normalize-source-mtime.ts` | a sidecar beside the build cache, mtimes | snapshot, replay, normalise | `BuildJourney` (modelled) |
| Daemon shutdown, cleanup | `shutdown-cache.ts`, `cleanup.ts` | a running zccache daemon | stop by soldr, stop by zccache | `BuildJourney` (modelled) |
| Registry archive | `cargo-registry-archive.ts` | archive files, two formats | restore, extract, save | `BuildJourney` (partly) |
| Dylint layers | `prepare-dylint.ts`, `dylint-nightly.ts` | foundation, outputs with a marker | restore, prepare, save | `BuildJourney` (partly) |
| Archives | `cache-compress.ts`, `cache-encrypt.ts` | files | pack, seal, open | `BuildJourney` (partly) |
| zccache seeding | `zccache-seed.ts` | none | seed, stop main if strict | `BuildJourney` (partly) |
| Shims; observation; parsing and warnings; snapshots; benchmarks | see `PROJECT.json` | files, logs | write, count, format | none (not modelled, section 6) |

### How they interact

- **Saved state.** Main hands post its findings through `core.saveState`. Post sees whatever was
  saved before main ended, also when main threw.
- **The store.** Restores, saves, the two repairs (yanked closure, poisoned toolchain), the janitor, the
  eviction pass and the cleanup script act on the same entries. A save is a reservation, an upload and a
  finalization; a lost reservation comes back as the id -1, not as an exception. An entry is found by
  the paths it was saved with, its key or a prefix, and the refs the job may read.
- **The plan.** `resolveSetup` settles before any layer runs which layers are on and under which keys;
  main, post and the published policy all read that one result.
- **The result file.** Main spawns the audit worker and returns; worker and post share only the
  JSON file.
- **The host.** Uses of the action on one machine share the install directory, `RUSTUP_HOME` and the tool
  cache; links lead from the homes into the shared entries.
- **The outside.** crates.io yanks crates; GitHub evicts entries and lets a job restore from its
  own ref or the default branch only; rolling channels get new releases; a runner may vanish.

### Hard behaviours and what should hold

| Behaviour | What should hold | Where |
|---|---|---|
| main throws between a restore and the audit launch; post runs all the same | a job whose main returned uploads no unaudited closure | `AuditBeforeUpload`; one whose main threw does, section 5 |
| a crate is yanked before, while or after it is looked up | a lockfile yanked before the launch never uploads | `YankedLockNeverUploads` |
| the audit worker dies, hangs or answers late; two audits run at once | one verdict, justified by look-ups, in bounded time | `KeepsContract`, `JoinEnds`, `JobEnds` |
| the repair lists, another job deletes and saves, the repair deletes | what was restored is gone when the repair says complete | `RepairRemovesRestored`, `PoisonGoneOrReported` |
| two jobs save one key | the loser's checked layers report no save | `CheckedSavesUploaded` |
| a failed or cancelled job has half a target directory | it is never published | `WiredEntriesWhole` |
| two eviction passes see one stale usage report and list by pages that shift | protected entries survive; the target is reached, but for what shifting pages hid | `SparesProtected`, `ReachesTarget` |
| pages shift under the cleanup, answers lie | green means nothing of the run is left, and nothing else was deleted | `GreenMeansSwept` |
| a poisoned entry blocks its own replacement; files vanish between main and post | the job fails; only whole trees replace | `SurvivingPoisonFails`, `ReplacementsWhole` |
| a run is cut, its siblings publish and clean up while it restores what it will rely on | a lazy run rests on checks that passed with its inputs; a complete run earns laziness; only superseded manifests are deleted | `LazyIsProved`, `EarnedIsLazy`, `JanitorSparesNewest` |
| an archive fails after its key was reserved; a reservation takes effect though its answer is lost | reservations are accounted for; a failure fails the job as asked | `ReservationsAccounted`, `FailsAsAsked` |
| base and delta are restored apart, and the delta may be of another commit | cook is left out only when a base of the very key and a delta on it are loaded | `SkippedCookIsCovered` |
| main decides the save without the ref, post with it | branch saves are asked for | `ScopedSavesAreAsked` |
| an install directory holds what an earlier, differently configured or failed job left, or a mini-cache entry of half an install | a job runs what it asked for and a release is complete and unmixed, but for named cases | `RunsWhatWasAsked`, `ReleaseIsWhole` |
| jobs of one host install through links, old ones too, into shared entries, which are pruned | the asked toolchain is there and stays while a job builds, bundles are usable | `ToolchainIsAsked`, `ToolchainStays`, `BundlesUsable` |
| a bounded scan of a shallow history with merges | the donor is the nearest proven one | `DonorIsNearestProven` |
| sidecar, build cache, target cache and lint outputs of different runs meet | those of one run never make cargo trust a changed source | `OwnSnapshotSound` |
| an archive breaks off, a fallback is restored, main throws with a hit already noted | a hit stands for an entry, and a job that builds has it in full; work reaches the next runs | `HitMeansHeld`, `WorkIsKept` |
| later modes change which layers run | nothing unpublished is uploaded | `PolicyHonest` |

Every hazard found, at its line, with the property that covers it or the reason why none does, is
in `PROJECT.json`.

## 2. Modules

`MC*` modules hold the instances TLC checks and `*_proofs` modules hold the theorems. `SavePolicy`,
`CachePlan` and `AncestorSelection` are operators without state, which other modules compose:

    AuditVerdict <- YankAudit (refines it)        CacheEviction <- RunScopedCleanup (runs beside it)
    SavePolicy <- LayeredCook                     SavePolicy, CachePlan, AncestorSelection <- BuildJourney

**CacheLifecycle.** Jobs, each going through `queued, restore, prepare, build, post, join, abort,
save, upload, probe, done`. `store` maps a key (layer, lockfile revision) to an entry, `uploading`
is what a job has reserved. `matched`, `depKeys` and `started` are the saved state under its names
in the code; `origin` is a history variable, the very entry that was restored. Main's actions follow
`run()` of `main.ts` (`Resolve`, `RestoreTree`, `BuildPayloadUnusable`, `DownloadRegistry`,
`ExtractRegistry`, `LaunchAudit`, `MainThrows`); post's follow `run()` of `post.ts` (`JoinAudit`,
`ListPoisoned`, `DeleteListed`, the layer loop `SkipSave` to `ProbeExactKey` in the code's order:
build, target, registry). The skip reasons keep the code's order of tests, which differs by layer.
A payload is the set of crates it holds usable outputs of; that is enough to say "partial" and
"poisoned". The audit worker is abstracted to the verdicts it may reach.

**AuditVerdict** states what the audit promises: launched once, one verdict, `clean` only when every
pinned version was looked up and none was yanked at launch, `yanked` only with evidence. **YankAudit**
is the implementation: the detached worker with its request pool, per-request and overall deadlines
and its result file, post's poll, and the bounded foreground recheck, which runs beside a worker that
may still be alive. Worker and recheck run the same function of the code and so the same actions here,
indexed by process. `YankAudit` instantiates `AuditVerdict` with a refinement mapping, `KeepsContract`;
its definitions carry `Audit` in their names, since one proof module extends it beside `CacheLifecycle`.

**CacheEviction.** Concurrent passes of `evictIfOverBudget`: usage, list, age floor, plan and a pool of
deletions over the store, with a usage report that is refreshed when GitHub pleases. The list is read page
by page (`ReadEntries`, `ListEntries`), so that a deletion between two pages moves the entries after it and
hides one; `gone` is a history variable, how many went away under a pass's list, and `ReachesTarget` allows
a pass to have missed that many. The plan is the function `Plans`, with the code's order (size, then age) in
`Precedes`. **RunScopedCleanup** adds the script that ends a validation run: it refuses a generation that
does not name its run, reads the list page by page while others delete, deletes one entry at a time with
every kind of answer (`lingers` is a success that leaves the entry behind) and lists again to verify. An
entry is on the page its place in the list puts it on (`Place`, counted over what the store holds at that
moment, in the order `ListedAt`). `torn` is a history variable: an entry went away between two pages of the
last list the script read. Both shapes of a generation are there, `<<workflow, run, attempt>>` and
`<<"consumer", cache key, run, attempt>>`. `LastJobAssumption` says that what a cleanup is to delete is
there when it starts: it is the last job of its run (`needs:` with `if: always()` in
`cook-soldr-selftest.yml`, `cook-rematerialization.yml`, `cross-prepare.yml`,
`_cook-consumer-rematerialization.yml`), so no job of the run saves beside it.

**SoloToolchainCache.** Entries by key and git ref. Main restores, validates and reinstalls; post lists,
deletes, stages, probes twice and saves, and after a lost reservation asks whether a replacement exists
on its own ref. `whole` says whether validation finds every requested part in an entry.

**VerdictLedger.** Runs of several jobs over a cache of verdicts and manifests. Main follows the newest
manifest of its job, has its checks keyed against the checkout, restores their verdicts by exact key and
decides whether to be lazy; the workflow's commands are soldr's and external: a gated check passes and is
spooled, fails, or is replayed from a restored verdict; post publishes verdicts, then the manifest, then
lists and deletes superseded manifests. Entries belong to a ref: a run finds those of its own ref and then
of the default branch, and a run the save policy leaves out publishes nothing. `used` is when an entry was
last accessed, by its save or by a restore; the janitor orders the manifests of its job by it, over all
refs. `proved`, `earned` and `calm` are history variables for the properties. Which check passes on which
checkout is a constant.

**SavePolicy** is `decideCacheSave` over the inputs, event, ref and runner, with what the main action and
the cook action pass to it. **LayeredCook** has jobs that go through `plan, restore, load, cook, build,
post, reserve, produce, upload`. A slot of the store is a scope and a key (base, delta or legacy, suffix,
commit) and may be held by a reservation; a job has a plan, one of the ways the two actions configure cook,
and asks `SavePolicy` in main (the cook action, without the ref) and in post. `ReserveUnanswered` is a
reservation that took effect though its answer was lost, reported as a failure or, after the client's own
retry, as a race. The checks of the cook action's post step come in its own order, and an error of the file
system outside the `try` of the save fails the job whatever `fail-on-error` says.

**Installation.** Machines, some of which keep their directory (`binary`, `sidecars`, and the two
metadata files `source` and `install`), mini-cache entries by release, and sources that move: refs, and
the local checkout of `source-path`, identified by the commit it is at. A job goes through `queued, mini,
ensure, replace, payload, record, verify, post`; it reuses, downloads an archive, takes a wheel, builds, or
writes the stub, any step may throw, and post saves to the mini-cache all the same. Two history variables:
`since` is what was done to a directory since an install was last recorded there (a stub put in, an entry
extracted, an install left half done), and `handedOn` the releases whose mini-cache entry was ever packed
in a directory that is kept. `Mistaken` names in these terms when a job runs something else than it asked
for.

**HostTools.** The tool cache has one entry per request and one per bundle; a home has a tree, a link
into an entry or both, and an entry may itself be a link (a publication by `cp -a` of a linked tree).
Each use makes its own request, in a home it may share with earlier uses and whose link it then finds, and
has `RUSTUP_HOME` set for it or finds it exported; uses adopt, restore or repair the solo cache, install
through the link, complete and publish, while `Prune` and `NewRelease` happen beside them. The two links of
an adoption are made one after the other, so that it may stop between them. The rustup that soldr or the
legacy driver calls is modelled from its use: it refreshes rolling channels and adds what is asked for.

**CachePlan** is `resolveSetup` as one operator from inputs and facts of the job to its layers, keys,
restore prefixes, refusals and policy. A key is a sequence of tagged parts, so that "is a prefix of"
is the relation restore keys use. **AncestorSelection** is the choice of a donor: distances in the local
history or by comparison, candidates, ranking, trust, the proof in the log of the run that saved the
entry, and the bounds on each. **BuildJourney** composes them with the save policy: the runs of a
workflow one after another, each a checkout of a commit and a job of the workflow, walk the list of
steps `restoreTarget` to `saveLint` that their plan leaves on. `disk` is what the job has (compiled
units, sidecar, `target/`, locks, tools, lint outputs, prepared archives), `store` what the entries hold,
`runs` what GitHub says of earlier runs; a fault is a failed call, of at most `MaxFaults`. Run `n`
checks out at time `2n` and builds at `2n + 1`, which is enough for every comparison of mtimes. A job
knows which steps it leaves out (`skipped`), and `After` is the next one it takes. The registry's hit is noted
at its download, several steps before `ExtractRegistry`. `SaveBuild` chooses what
goes wrong and what is packed, `FinishBuild` is what the code then does. `JourneyAssumption` says that a
workflow sets the inputs of `action.yml` and no other.

### Abstractions to know of

- A crate once yanked stays yanked; crates.io allows an un-yank, and no code looks at one.
- In `CacheLifecycle` a job uses the action once. Two uses in a job share the result file's fixed path (a
  listed hazard). `Installation` and `HostTools` have several uses on one machine.
- The list of the repairs, which asks for one key, is read in one step.
- No entry ages while an eviction pass runs; passes take seconds and the age floor is hours.
- The foreground recheck reports partial evidence as `not-checked`, as the code does; only the worker's
  partial evidence leads to a repair.
- Fallback keys two and three of the solo cache match no key the code ever writes and are left out.
- In the verdict ledger a runner's own record store starts empty; the restores of one run's verdicts,
  which run in parallel, are one step in which any of them may fail.
- In `Installation` a checkout is taken to hold what its HEAD names: `README.md:558` says that edits that
  are not committed do not change its identity. The identity is read when the job installs; the code reads
  it a little earlier, in `resolveSetup`.
- In `HostTools` what `update-hashes` says is abstracted, and setup-cache restores no tree into a home whose
  `toolchains` is a link.
- In `BuildJourney` jobs do not overlap: their races on keys are the subject of the modules before it. A
  workspace is one source file, and a run has one job. Time budgets of the selection are faults.
- `WorkIsKept` leaves one case of the build cache out: a donor of this very commit (distance 0). Its key
  becomes the write key (`ancestor-cache-github.ts:174`), so its entry stands in for what this run compiled.
  The case is real: a run with an automatic key that found a fresh `target/` compiles nothing, and where the
  count of compiles is unknown saves an entry without the units of its source; a later run of the commit
  without that `target/` compiles them and may not save. It takes four runs without a failure (a legacy key
  hit on another source, `target/` of this one under it, the two named), one more than the instance has.
- Sizes are in GB and ages in units of ten minutes, with thresholds as constants.

## 3. Runs

| Run | Question | Bounds | Distinct states |
|---|---|---|---|
| `lifecycle_audit` | unaudited or yanked closures, and two jobs repairing and saving | 2 jobs, build layer, 2 lockfiles, one without dependencies, 1 crate | 1.3M |
| `lifecycle_failed_job` | partial target stores, with eviction and lost runners | 2 jobs with job-status, target layer, 2 crates | 0.4M |
| `lifecycle_registry_race` | loser's probe; every job ends | 2 jobs, registry layer, fair | 0.16M |
| `audit_contract` | implementation keeps the contract; deadlines suffice | 2 crate names, 3 pinned versions, with or without a foreign registry, pool 2, fair | 0.19M |
| `eviction_race` | passes over one store; a cleanup beside a pass | 5 entries; 2 passes, or 1 pass and 1 cleanup of 2 of them; pool 2, page of 2 | 1.2M |
| `solo_repair` | two jobs repair one key | 2 jobs, 2 refs, 2 keys, 3 stocked slots | 3.1M |
| `verdict_ledger` | lazy runs, publication, janitors over all refs | 3 runs of a job, 2 on the default branch and 1 on another that publishes, 2 checkouts, 2 programs, 2 checks, 2 manifests kept | 1.8M |
| `cook_layers` | reservations, bases and deltas, strictness, policy | 2 jobs of 8 plans, 2 commits, stocked, broken and evicted entries, lost runners | 1.0M |
| `install_jobs` | what a directory and a mini-cache were left with | 3 jobs in a kept directory, 1 on a fresh runner, all with the mini-cache, 2 releases, a ref and a local checkout at 2 commits, failures anywhere | 2.3M |
| `host_tools` | links into shared entries | 3 uses, 2 of one home, 3 requests, 2 channels, 2 releases, 1 bundle, solo cache on or off, store on or off | 1.8M |
| `build_journey` | what a job restores, trusts and leaves | 3 runs of 13 workflows, 5 commits with a merge, push and pull request, 1 fault | 0.53M |
| `claim_replay_never_underbuilds` | a statement of `action.yml` the code does not keep | the journey of the one workflow that shows it | |

**Why these bounds are enough.** Two jobs give every race the code can have on one key: one holds or loses
the reservation, one lists before or after the other's delete. A third job adds no new relation, since no
code looks at two other jobs. Two lockfiles give fallback restores; a lockfile without dependencies takes
the audit's shortcut; two crates allow a partial store that is not empty. The audit pins two versions of one
crate, because a look-up is per crate and a missing version fails the whole look-up, and one of another, so
that a cut can leave a part undone. A pool of two lets requests overlap (ten in the code). Eviction has a
protected entry, two sizes and a save during the pass, 13 GB against a trigger of 7 and a target of 5, so
that the plan stops in the middle; a page of two makes the five entries three pages, so that a deletion
shifts them. The ledger keeps two manifests per job, as the code does, and the third run supersedes: two of
them on one ref, so that the order of last access decides, one on the other, which reads what the default
branch published; one run may be cut, on a checkout the next run has or has not. That a janitor leaves other
jobs alone takes a second job, which the instance has no room for; the proof has any. Cook has a base,
deltas of both commits and a broken one, and plans that differ in the policy, strictness, layering and
action. Installation has a release with an archive and one with a wheel only, so that every route is taken,
and three jobs in the kept directory: one to leave something, one to change half of it, one to run it. The
cases of `Mistaken` for a source build and of `ReleaseIsWhole` occur in this instance; that of `Mistaken`
for a release takes four jobs in the kept directory, and its place in the property was found with a larger
instance and is needed in the proof. The host has a pinned and a rolling channel that moves on. The
journey's merge gives two ways back of different length; commit 4 reverts to the source of commit 1, so that
an old build can pass for the new; commit 2 changes the lockfile. Its scan bounds (3 commits, 2 candidates,
2 proofs) are small enough to be hit by three runs: 200, 200 and 20 in the code.

`Evictable`, `Mortal`, `Stocked`, `SoloJobs`, `Backups` and `MaxFaults` bound which entries may vanish, which
runners may be lost, what is there at the start, which uses may have the solo cache and how many calls may
fail; they are constants of the modules. Symmetry is over the jobs or passes and used in safety runs only.

**Fairness.** `FairSpec` of the lifecycle makes each job's own steps weakly fair: every call of post has
a timeout, and the runner goes on with a job that has a step. The worker, crates.io and GitHub get no
fairness. `FairSpec` of the audit makes fair the timers and post's own steps, not the answers of the
index and not the worker. `JobEnds` and `JoinEnds` thus hold because of deadlines, not of luck. The other
modules run bounded sequences of calls; only their safety is checked. `cook_layers` alone does not check
deadlock: its jobs end and nothing follows.

## 4. Proofs

`tlapm` checks the theorems for all values of the constants. Each proof module has one inductive
invariant, stated in named parts, one lemma per group of actions, and theorems that follow from it.

**CacheLifecycle_proofs.** `TypeCorrect`, `AuditedUploads` and `YankedLocksBlocked` from `IInv`, which adds
to `TypeOK` two parts. `MatchedHasOrigin`: a matched key came from an entry that was downloaded, so that
extracting the registry is well typed. `AuditPhase(j)`: where the job is and what it knows fit together
(in `save`, `upload` and `probe` either no audit was started or its verdict is clean; a clean verdict or
file excludes a pinned crate in `seen`; a job with `depKeys` whose main returned has started an audit).
`AuditBeforeUpload` alone is not inductive: it says nothing of a job in `save` with nothing uploaded yet.
`FailedJobsLeaveNothing`, `RepairsComplete` and `ReportedSavesUploaded` rest on `StoreInv`: an entry's layer
is among the uploads of its owner, each layer is uploaded once and under the guards of its gate, and what a
repair has not removed of what the job restored is still on one of its lists. The proof treats what a job's
step does to the job's own variables (`Local`) and shows that it leaves those of the others alone, so each
action is considered once.

The module holds the audit's theorems as well: `AuditTypeCorrect`, and `AuditImplementsContract`, the
refinement of `AuditVerdict`, by an inductive invariant (`AuditInv`) that ties what a process has looked
up to the crates yanked at the launch.

**VerdictLedger_proofs.** `TypeCorrect`, `LazyProved` and `NewestSpared`, for any runs, jobs, checks and
programs. The inductive invariant adds that verdicts in the cache, in a spool or restored are of checks that
passed (`OnlyPasses`), that the manifests of a job on one ref were last accessed in the order of their
saves, since a restore touches only the newest (`InOrder`), that a saved manifest never changes
(`SavedOnce`: its run is past its save) and that what a run follows was saved (`Follows`); without them the
manifest a lazy run rests on could still grow under it. `NewestSpared` counts with `InOrder`: a manifest
among those not kept, with none later on its own ref, has at least `Kept` of other refs before it.
`LazinessEarned` needs the converse: what a complete run promised stays backed by verdicts in the cache
while nothing is evicted (`Backed`), and who follows it trusts all of it (`Trusts`).

**LayeredCook_proofs.** `TypeCorrect`, `AccountsForReservations`, `CoversSkippedCook`, `FailsWhenAsked` and
the action property `AsksForScopedSaves`. The invariant says who holds a reservation and what a job at
`produce` and `upload` owns (`Held`, `Owned`; a reservation may be that of a job that took it for lost),
that only whole archives get to the upload (`Packed`), that a job past its gate was allowed to save
(`Allowed`), and that a failed save is reported (`Reported`).

**SoloToolchainCache_proofs.** `TypeCorrect`, `PoisonIsGoneOrReported`, `SurvivorsFailTheirJob`,
`RepairsPublishWhole`. The parts: the author of an entry is done (`Author`), an entry that was restored is
the one still there or was deleted (`Restored`, `Removed`), the order of post's steps (`Course`), and a
repair reserves only what it has staged whole (`Staged`).

**CacheEviction_proofs.** For any entries, sizes, passes and page sizes, over both specifications, the
passes alone (`Spec`) and with cleanup jobs beside them (`CleanupSpec`). `PassesSpareProtected` and
`CleanupSparesProtected` need nothing of the usage figures: no reading of them, however stale, makes the age
floor less than half an hour, and a call is only started for what was planned. `PassTypeCorrect`,
`CleanupTypeCorrect`, `PassesReachTarget` and `PassesReachTargetBesideCleanup` do, and sizes are summed over
sets: `Total` is a recursive function of the model, so the module first proves that a function with its
equation exists (`AddsExists`, by a smallest set without one, since the library's induction takes an
operator) and then what sums obey (`TotalRemove`, `TotalDisjoint`). `Account` is the balance of a pass: what
it lists is what it still may delete, has planned, is deleting and has deleted, and the sizes add up. While
a pass lists, what it has passed by without reading is no more than what went away under it (`PagingMoves`,
by the places of entries). `GreenCleanupSwept` rests on `Paged`: while nothing was deleted under a list,
what the script has read is exactly the first pages of the store, since a deletion moves only later places
(`PagesHold`, `UpToGrows`); a verification that finds nothing, on a list that was not torn, has thus seen
everything.

**BuildJourney_proofs.** For any history, any workflows, any number of runs and failures. One lemma per
action says what it does to the job, the disk and the store (`RestoreBuildIs`, `SaveBuildIs`, ...); the
invariants are proved from those, in layers:

- `TypeInv` gives `TypeCorrect`. It says also that the job is one the workflow may start, resolved by
  `resolveSetup` (`Planned`); what a restore brings is then an entry of the store with the asked paths
  (`Restored`, from a least pair of scope and key and a newest entry of a finite set).
- `Control`: a job is at no step it skips, and past the build without a failure it has an artifact. With it
  and what `resolveSetup` computes (`LayersAre`), `PoliciesHonest`.
- `Provenance(f)`: there is a function from runs to contents, `f`, that every output, sidecar and stored body
  agrees with: what a run built or recorded is of the content that run checked out. `Snapshots` follows the
  mtime of the source through the job. Together they give `OwnSnapshotsSound`: a source with the mtime of
  its checkout is younger than any artifact restored, and one with a replayed mtime has the content of the
  run it was taken in.
- `Held`: an entry of the prepared archives or the Dylint outputs is what its key names (`StoreHeld`), and
  what a restore reported stays on the disk through the steps after it; the registry's hit stands for an
  entry from its download on, and for what is on the disk once the archive was extracted. It gives `HitsHeld`.
- `Keys` and `Kept` give `WorksKept`. The key an automatic job writes under names its run, and no entry
  names a run that has not saved yet (`SavedBy`): keys of other layers and explicit keys name none
  (`PlainKeys`), a donor's key is one of the store. So without a failure the reservation cannot be lost, nor
  what was restored be taken for what is saved.
- `DonorsNearest` rests on two results about the selection, which are of any commit graph, entries, logs,
  checkout and bounds. `Walk` is the least relation of two commits and a number of edges that the rules of
  `Parents` allow. The recursive functions of the model, `Ancestry`, `Edges` and the rounds of
  `dagDistances`, are what TLA+ chooses for their equations; the proof exhibits a function with the equation
  (`AncestryIs`, `EdgesStep`, `RoundsExist`) and argues from a smallest commit or round without what it claims.
  `EdgesAre`: `Edges` is the shortest walk. `SearchFindsShortest`: so is the breadth-first search, if it may
  visit every commit between the two. What the local history holds (`RevListIs`) and what a comparison returns
  are such sets, so a distance that is found is exact, however shallow the checkout and whatever bound cuts the
  history. With the ranks of what is tried for a proof, `SelectsNearestProven`.
  The invariant `Donors` then carries this through the rest of the job: ids name one entry (`Unique`), a logged
  proof is of an entry of its key, which names its run (`Signatures`), the run of a job has no conclusion
  (`Running`), a key that is not the job's own is its donor's (`Borrowed`). So a save of the job, of its own
  key or refused under the donor's, makes no entry proven before the run ends (`ProvenKept`). The property
  asks only that some run logged the id of an entry; that the log then shows the key, ref and commit that
  `hasCleanSaveProof` compares is `ProvenSaved`.

**HostTools_proofs.** `TypeCorrect`, `AdoptsUsableBundles`, and the action properties `EnsuresWhatIsAsked`
and `BuildersKeepTheirToolchain`. The invariant is small: `Alone` (one use at a time works in a home),
`Stamped` and `Bundled` (no torn bundle in the store, no dangling link that a use adopted), `Known`. The
work is in what writes do: a write of one channel moves no link (`RootStays`), an installation only adds to
what a directory holds (`InstallSpares`), and a publication creates an entry where there is none
(`PublishSpares`), so that homes whose links lead to one directory do not disturb each other, whatever
they ask for; only the restore and the uninstall of the solo cache take away.

**Installation_proofs.** `TypeCorrect`, `InstallsWhatWasAsked` and `InstallsWholeReleases`, without a premise
on the jobs. A job runs what others left, so `Core` says what they leave. `DirOk`: a directory in which no
entry was extracted since the last recorded install holds no sidecar of another release, one to which
nothing was done has source metadata that describes its binary, and a build has no sidecars until a kept
directory has packed an entry. `EntryOk`: an entry no kept directory packed holds nothing of another
release, though it may be half an install. `StepOk`: what the job has done so far; and a job is alone in
its directory (`OneAtATime`).

Assumptions are the `ASSUME`s of the modules: types of constants, disjointness of markers, `HomeOf`
and `ChannelOf`. TLC evaluates them in every run.

`BoundsAssumption` says that the scan bounds are numbers; no proof needs them to be large.

**Only model-checked.** Liveness under fairness (`JobEnds`, `JoinEnds`), which the prover cannot reach. Every
other property of a passing run is stated by a theorem.

## 5. Findings

`claim_replay_never_underbuilds`. With `preserve-source-mtimes`, the sidecar of the build cache is
replayed onto a source that has the same content as when it was taken. The build key names no commit, so
an exact hit brings the mtimes of the first run that saved it, while the target cache brings the outputs of
the latest run, perhaps of another source. A change that is reverted is then older than the outputs of the
change, and cargo does not rebuild it, though `action.yml:719-731` says "we cannot underbuild".
`OwnSnapshotSound` states what does hold: sidecar and outputs of one run never do this.

Met while modelling, and modelled as the code does it:

- **Audit.** A main step that throws after the restores never launches the audit, and post saves the
  restored closure unaudited (`docs/ancestor-cache-phase1.md:61` says such a closure exits before upload).
  A rerun that restored nothing is not audited, by design (`main.ts:1899`).
- **Saves.** `saveOne` logs a lost reservation as saved; the layers that must know probe the key.
  `cache: false` still restores and saves the build cache (`main.ts:479`, against `action.yml:46-53`). The
  target save keeps only paths that exist (`post.ts:1722`), so that its entry may be of another version
  than the one restores look for.
- **Toolchain repair.** A poisoned entry of the default branch is neither deleted by a branch nor
  reported (`action.yml:750`), and a repair deletes what its key holds by then, also another job's verified
  replacement (`action.yml:751`).
- **Dylint.** `dylint-foundation-cache: false` empties the host triple (`resolve-setup.ts:1642`), post's
  marker never matches (`post.ts:258`) and Dylint outputs are never saved, against `README.md:486`. The
  outputs key has no commit.
- **Keys.** Restore prefixes without a suffix match the stores of jobs with one (`resolve-setup.ts:1591-1594`).
  The lockfile-only restore key is a prefix of no saved key (`resolve-setup.ts:969,978`). The parent's commit
  is derived and never read. Entries saved by pull requests are never proven donors.
- **Archives.** `cache-encrypt-on-failure: error` never stops on the build cache; a missing key stops main
  on the registry, where `action.yml:437` says cold miss. With `target-cache-compress: none` the build
  cache is saved unsealed and not found again. A broken donor archive is not retried with the legacy key.
  When soldr refuses to stop its daemon no fallback is tried, and a live store is packed.
- **mtimes.** Normalisation to the commit's date underbuilds when the cached build is younger.
- **Kept directories.** A stub, a mini-cache hit or a half done install leaves
  `.setup-soldr-source.json` behind, and a later request for the source it names takes what lies there for
  its build. A mini-cache entry extracted over a build in a kept directory leaves its binary beside sidecars
  of a release, and is packed so; a later job may take the build for the release whose number it reports.
  The mini-cache is saved although `ensureSoldr` threw (`soldr-mini-cache.ts:17-18` says only if fetched),
  so that an entry may be half an install. `Mistaken` and `ReleaseIsWhole` name these cases; in no other does
  a job run something else, or less.
- **Shared toolchains.** `rustup-tool-cache.ts:15` says that no job writes an entry. A kept home, or a later use
  in a job, still links to the entry of an earlier request, and what it installs goes into that entry. It
  does no harm to the jobs that build with it (`ToolchainStays`), but for the solo cache, whose restore and
  repair through the link take the toolchain away. A publication of a linked tree by `cp -a` copies the link,
  so that an entry may be a link to another. A home whose link dangles after a prune fails every install
  until the link is removed by hand.
- **Registry.** `cargoRegistryCacheExactHit` is saved at the download (`main.ts:922`). Where main throws
  before the extraction, or the archive cannot be decrypted, the hit stands with nothing extracted and post
  skips the save. A job whose main step failed runs no further steps by default.
- **Cook.** With `fail-on-error: false`, an error of the file system outside the `try` of the save fails
  the action in post (`cook-post.ts:89-91`, against `cook/action.yml:99-102`). The cook action looks for its
  legacy archive under `RUNNER_TEMP` (`cook.ts:202`) while it is saved beside the target directory
  (`cook-cache.ts:794`), so that it is never found; the model lets it be found. A reservation whose answer
  is lost is reported as a race and holds the key until GitHub drops it.
- **Ledger.** `verdict-cache.ts:219-223` says that a superseded manifest has no reader. The janitor orders
  the manifests of all refs by last access: where other refs publish too (`save-cache-remote`), it deletes
  a ref's newest once two of theirs are more recent.
- **Eviction.** The list is read page by page while other passes delete, so that a pass may miss entries and
  stop short of the target by them; a later pass may find them.
- **Cleanup script.** Pages that shift can hide a run's entries from it, and a list without a match ends
  green without verification.
- `saveCookCacheLegacy` and `saveLayeredCookCacheLegacy` are dead code.

## 6. Not modelled, and what is left

Not modelled: shims and wrapper scripts (file output no other part reads), statistics, journals and
diagnostics (the one number that decides something, the count of new compiles, is in `BuildJourney`), parsing
of input strings, musl and shared-target warnings, the walk of the toolchain snapshot and the hard-link copy
of an isolated cache (one outcome each), benchmarks and release workflows. Formats, paths, archives
as bytes, HTTP retries and timings are abstracted everywhere to what they decide.

Partly modelled, and why:

- lifecycle: the two repairs and the dependency layers; the other layers of `main.ts` and `post.ts` are in
  `BuildJourney`, where jobs do not overlap;
- solo toolchain: staging is one outcome, and a repair in the system's
  own `~/.rustup`, which uninstalls a toolchain other jobs share, is left out;
- ledger: a runner's own record store;
- tool-cache store: the syslib store, which soldr locks itself;
- keys, registry, Dylint, archives, seeding: directories, census, byte formats and the map of nightlies.

Next, in order:

1. A second use of the action in a job of the lifecycle: the shared result file of the audit.
2. Overlapping jobs in `BuildJourney`, for donors that are saved while another job looks for one;
   `ProvenKept` is the lemma to prove again.
3. A job of several zccache sessions in `BuildJourney`, some of them missing from the archive post counts.
