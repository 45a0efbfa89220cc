----------------------------- MODULE LayeredCook -----------------------------
(***************************************************************************)
(* The cook cache of setup-soldr: dependencies built ahead of the user's   *)
(* build by `soldr cook`, kept as one archive (legacy) or as a base and a  *)
(* delta layer (src/lib/cook-cache.ts), run by the main action             *)
(* (src/main.ts, src/post.ts) or by the cook action (src/cook.ts,          *)
(* src/cook-post.ts) of parallel jobs. A save reserves its immutable key   *)
(* before it produces the archive (src/lib/two-phase-actions-cache.ts).    *)
(***************************************************************************)
EXTENDS FiniteSets, SavePolicy

CONSTANTS
  Jobs,        \* the parallel jobs
  NoJob,       \* no holder of a reservation
  Shas,        \* the commits the jobs build
  NoSha,       \* the commit of a key that names none
  ParentSha,   \* the parent of each commit, or NoSha
  Suffixes,    \* the values of cache-key-suffix in use
  Plans,       \* the ways a job of an instance may be set up
  Stocked,     \* the archives earlier runs left: [slot -> archive]
  Evictable,   \* the slots GitHub may evict while the jobs run
  Mortal       \* the jobs whose runner may be lost

ASSUME JobsAssumption == IsFiniteSet(Jobs) /\ NoJob \notin Jobs
ASSUME ShasAssumption ==
  /\ NoSha \notin Shas
  /\ ParentSha \in [Shas -> Shas \cup {NoSha}]

\* A key is the layer, the suffix and, for a delta, the commit it was cut at.
\* The other parts (platform, rustc, flags, lockfile, soldr) are the same for
\* all jobs of an instance.
NoSuffix == Blank
Keys ==
  ({"base", "legacy"} \X (Suffixes \cup {NoSuffix}) \X {NoSha})
    \cup ({"delta"} \X (Suffixes \cup {NoSuffix}) \X Shas)

BuildCookBaseCacheKey(x)     == <<"base", x, NoSha>>
BuildCookCacheKey(x)         == <<"legacy", x, NoSha>>
BuildCookDeltaCacheKey(x, c) == <<"delta", x, c>>
DeltasWithPrefix(x)          == {BuildCookDeltaCacheKey(x, c) : c \in Shas}

\* The cache service keeps entries apart by the ref that saved them.
Scopes == {"default", "other"}
Slots  == Scopes \X Keys

Archives == {"whole",    \* loads
             "broken",   \* has bytes, does not load
             "empty"}    \* has no bytes

ASSUME PlansAssumption ==
  Plans \subseteq
    [env : Environments, deferred : BOOLEAN, layered : BOOLEAN,
     delta : BOOLEAN, strict : BOOLEAN, gate : BOOLEAN, lockMatch : BOOLEAN,
     sha : Shas, suffix : Suffixes \cup {NoSuffix}]

ASSUME StoreAssumption ==
  /\ Stocked \in [Slots -> Archives \cup {"free"}]
  /\ Evictable \subseteq Slots
  /\ Mortal \subseteq Jobs

VARIABLES
  store,    \* per slot: "free", "reserved" or the archive that is published
  holder,   \* who made the reservation of a slot, or NoJob
  plan,     \* the setup of each job
  pc,       \* where each job is
  base,     \* what the restore of the base (or legacy) key brought
  delta,    \* what the restore of the delta key brought
  target,   \* what the job's target directory holds
  archive,  \* the archive the job produced to save, or "none"
  cooked,   \* how `soldr cook` ended: "none", "ran" or "failed"
  layer,    \* the layer main chose for post to save
  status,   \* the status of the job's save
  failed    \* whether the action set the job as failed

vars == <<store, holder, plan, pc, base, delta, target, archive,
          cooked, layer, status, failed>>
setup == <<plan, base, delta, target, cooked, layer>>

Steps == {"plan", "restore", "load", "cook", "build", "post",
          "reserve", "produce", "upload", "done", "lost"}

Statuses == {"none", "policy-skip", "skipped-missing-target", "skipped-missing-root",
             "skipped-empty", "skipped-missing-manifest", "skipped-race-precheck",
             "threw", "failed", "saved"}

TypeOK ==
  /\ store \in [Slots -> Archives \cup {"free", "reserved"}]
  /\ holder \in [Slots -> Jobs \cup {NoJob}]
  /\ plan \in [Jobs -> Plans]
  /\ pc \in [Jobs -> Steps]
  /\ base \in [Jobs -> {"waiting", "miss", "other", "whole", "broken"}]
  /\ delta \in [Jobs -> {"waiting", "miss", "whole", "broken"}]
  /\ target \in [Jobs -> SUBSET {"base", "delta", "legacy", "cooked", "gone"}]
  /\ archive \in [Jobs -> {"none", "whole", "empty"}]
  /\ cooked \in [Jobs -> {"none", "ran", "failed"}]
  /\ layer \in [Jobs -> {"none", "base", "delta", "legacy"}]
  /\ status \in [Jobs -> Statuses]
  /\ failed \in [Jobs -> BOOLEAN]

Init ==
  /\ store = Stocked
  /\ holder = [s \in Slots |-> NoJob]
  /\ plan \in [Jobs -> Plans]
  /\ pc = [j \in Jobs |-> "plan"]
  /\ base = [j \in Jobs |-> "waiting"]
  /\ delta = [j \in Jobs |-> "waiting"]
  /\ target = [j \in Jobs |-> {}]
  /\ archive = [j \in Jobs |-> "none"]
  /\ cooked = [j \in Jobs |-> "none"]
  /\ layer = [j \in Jobs |-> "none"]
  /\ status = [j \in Jobs |-> "none"]
  /\ failed = [j \in Jobs |-> FALSE]

Goto(j, step) == pc' = [pc EXCEPT ![j] = step]

-----------------------------------------------------------------------------
(*************************** main: plan and restore ************************)

\* The cook gate (mode, cache umbrella, lockfile) and, in the main action, a
\* target cache that matched at lockfile level. The cook action also parses
\* the save inputs here, and an unknown value ends it before it enables post.
Enabled(j) ==
  /\ plan[j].gate
  /\ plan[j].deferred => CookInputsValid(plan[j].env)
  /\ ~plan[j].deferred => ~plan[j].lockMatch

Plan(j) ==
  /\ pc[j] = "plan"
  /\ Goto(j, IF Enabled(j) THEN "restore" ELSE "done")
  /\ failed' = [failed EXCEPT
       ![j] = plan[j].deferred /\ ~CookInputsValid(plan[j].env) /\ plan[j].strict]
  /\ UNCHANGED <<store, holder, setup, archive, status>>

Scope(j) == IF plan[j].env.ref = "default" THEN "default" ELSE "other"

\* A job sees the entries of its own ref and those of the default branch.
Visible(j, k) == {s \in {Scope(j), "default"} \X {k} : store[s] \in Archives}

\* The service looks a key up by prefix: a key without suffix is a prefix of
\* the same key with one.
Extensions(k) ==
  {e \in Keys : k[1] # "delta" /\ e[1] = k[1] /\ k[2] = NoSuffix /\ e[2] # NoSuffix}

PrefixVisible(j, k) == UNION {Visible(j, e) : e \in Extensions(k)}

MainKey(j) ==
  IF plan[j].layered THEN BuildCookBaseCacheKey(plan[j].suffix)
  ELSE BuildCookCacheKey(plan[j].suffix)

\* Mutant of Usable: the size of the archive is not looked at.
UsableUnseen(j, s) ==
  IF store[s] # "whole" THEN store[s]
  ELSE IF s[2] = MainKey(j) THEN "whole" ELSE "other"

\* restoreOneLayer of the base, or the download of the legacy archive. An
\* archive without bytes is a miss; so is a legacy one of unknown codec.
Usable(j, s) ==
  IF store[s] = "empty" THEN "miss"
  ELSE IF store[s] = "broken" THEN "broken"
  ELSE IF s[2] = MainKey(j) THEN "whole" ELSE "other"

\* The cook action looks for its legacy archive under another path than the one
\* it is saved from, and the service tells entries apart by their paths.
OtherPath(j) == plan[j].deferred /\ ~plan[j].layered

RestoreMainKey(j) ==
  /\ pc[j] = "restore" /\ base[j] = "waiting"
  /\ LET exact == Visible(j, MainKey(j))
         found == IF exact # {} THEN exact ELSE PrefixVisible(j, MainKey(j))
     IN  \/ base' = [base EXCEPT ![j] = "miss"]   \* the service failed or has none
         \/ ~OtherPath(j) /\ \E s \in found : base' = [base EXCEPT ![j] = Usable(j, s)]
  /\ UNCHANGED <<store, holder, plan, pc, delta, target, archive, cooked, layer, status, failed>>

\* restoreOneLayer of the delta: its exact key, the parent commit's, and last
\* any delta of the same base and shape.
DeltaFound(j) ==
  LET own    == Visible(j, BuildCookDeltaCacheKey(plan[j].suffix, plan[j].sha))
      parent == IF ParentSha[plan[j].sha] = NoSha THEN {}
                ELSE Visible(j, BuildCookDeltaCacheKey(plan[j].suffix, ParentSha[plan[j].sha]))
  IN  IF own # {} THEN own
      ELSE IF parent # {} THEN parent
      ELSE UNION {Visible(j, k) : k \in DeltasWithPrefix(plan[j].suffix)}

RestoreDelta(j) ==
  /\ pc[j] = "restore" /\ delta[j] = "waiting"
  /\ plan[j].layered /\ plan[j].delta
  /\ \/ delta' = [delta EXCEPT ![j] = "miss"]
     \/ \E s \in DeltaFound(j) :
          delta' = [delta EXCEPT ![j] = IF store[s] = "empty" THEN "miss" ELSE store[s]]
  /\ UNCHANGED <<store, holder, plan, pc, base, target, archive, cooked, layer, status, failed>>

\* The two restores are awaited together; a delta without a base is discarded.
RestoresDone(j) ==
  /\ pc[j] = "restore" /\ base[j] # "waiting"
  /\ delta[j] # "waiting" \/ ~plan[j].layered \/ ~plan[j].delta
  /\ delta' = [delta EXCEPT
       ![j] = IF base[j] = "miss" \/ @ = "waiting" THEN "miss" ELSE @]
  /\ Goto(j, "load")
  /\ UNCHANGED <<store, holder, plan, base, target, archive, cooked, layer, status, failed>>

-----------------------------------------------------------------------------
(**************************** main: load and cook **************************)

\* soldr load, or the decompression of the legacy archive, may fail, and fails
\* on a broken archive. A load that restored no file counts as failed.
LoadOneLayer(found) ==
  IF found \in {"whole", "other"} THEN BOOLEAN ELSE {FALSE}

BaseReady(j, baseLoaded) == base[j] = "whole" /\ baseLoaded

\* Mutant of DeltaReady: the delta need not have loaded.
DeltaReadyUnloaded(j, baseLoaded, deltaLoaded) ==
  BaseReady(j, baseLoaded) /\ delta[j] # "miss"

DeltaReady(j, baseLoaded, deltaLoaded) ==
  BaseReady(j, baseLoaded) /\ delta[j] # "miss" /\ deltaLoaded

LegacyHit(j, loaded) == base[j] # "miss" /\ loaded

\* Whether cook may be left out, given what loaded.
Warm(j, baseLoaded, deltaLoaded) ==
  IF plan[j].layered THEN DeltaReady(j, baseLoaded, deltaLoaded)
  ELSE LegacyHit(j, baseLoaded)

\* The layer the run of cook will make due, before cook is known to succeed.
DueLayer(j, baseLoaded) ==
  IF ~plan[j].layered THEN "legacy"
  ELSE IF ~BaseReady(j, baseLoaded) THEN "base"
  ELSE IF plan[j].delta THEN "delta"
  ELSE "none"

Load(j) ==
  /\ pc[j] = "load"
  /\ \E baseLoaded \in LoadOneLayer(base[j]) :
     \E deltaLoaded \in (IF baseLoaded THEN LoadOneLayer(delta[j]) ELSE {FALSE}) :
        /\ target' = [target EXCEPT
             ![j] = (IF baseLoaded THEN {MainKey(j)[1]} ELSE {})
                      \cup (IF deltaLoaded THEN {"delta"} ELSE {})]
        /\ layer' = [layer EXCEPT
             ![j] = IF Warm(j, baseLoaded, deltaLoaded) THEN "none" ELSE DueLayer(j, baseLoaded)]
        /\ Goto(j, IF Warm(j, baseLoaded, deltaLoaded) THEN "build" ELSE "cook")
  /\ UNCHANGED <<store, holder, plan, base, delta, archive, cooked, status, failed>>

\* runCook never throws. The cook action may be told to fail with it, and then
\* ends before it saves the state that enables its post step.
CookRuns(j) ==
  /\ pc[j] = "cook"
  /\ cooked' = [cooked EXCEPT ![j] = "ran"]
  /\ target' = [target EXCEPT ![j] = @ \cup {"cooked"}]
  /\ Goto(j, "build")
  /\ UNCHANGED <<store, holder, plan, base, delta, archive, layer, status, failed>>

CookFails(j) ==
  /\ pc[j] = "cook"
  /\ cooked' = [cooked EXCEPT ![j] = "failed"]
  /\ layer' = [layer EXCEPT ![j] = "none"]
  /\ LET throws == plan[j].deferred /\ plan[j].strict
     IN  /\ failed' = [failed EXCEPT ![j] = throws]
         /\ Goto(j, IF throws THEN "done" ELSE "build")
  /\ UNCHANGED <<store, holder, plan, base, delta, target, archive, status>>

\* The user's own steps run between main and post, and may empty or remove the
\* target.
UserBuilds(j) ==
  /\ pc[j] = "build"
  /\ \E left \in {target[j], {}, {"gone"}} : target' = [target EXCEPT ![j] = left]
  /\ Goto(j, "post")
  /\ UNCHANGED <<store, holder, plan, base, delta, archive, cooked, layer, status, failed>>

-----------------------------------------------------------------------------
(****************************** post: the save *****************************)

\* The cook action decided once in main, without the ref, and skips on that
\* before it looks at anything else; every save asks the policy again.
SaveDisabled(j) == plan[j].deferred /\ ~CookSaveDecision(plan[j].env)

\* The manifest of the base is written when the base is loaded.
ManifestMissing(j) == layer[j] = "delta" /\ "base" \notin target[j]

\* saveLayeredCookCache and saveCookCache, up to the reservation. Making room
\* for a layer's archive is outside of any try.
SaveStarts(j) ==
  IF ~AllowCacheSave(plan[j].env) THEN {"policy-skip"}
  ELSE IF target[j] = {} THEN {"skipped-empty"}
  ELSE IF ManifestMissing(j) THEN {"skipped-missing-manifest"}
  ELSE IF plan[j].layered THEN {"reserve", "threw"}
  ELSE {"reserve"}

\* The main action looks at the layer before it looks at the target directory,
\* the cook action after.
PostEnds(j) ==
  LET gone == "gone" \in target[j]
  IN  IF SaveDisabled(j) \/ cooked[j] # "ran" THEN {"none"}
      ELSE IF gone /\ plan[j].deferred THEN {"skipped-missing-target"}
      ELSE IF layer[j] = "none" THEN {"none"}
      ELSE IF gone THEN {"skipped-missing-target"}
      ELSE SaveStarts(j) \cup (IF plan[j].layered THEN {"skipped-missing-root"} ELSE {})

\* What fails a job in post: the main action catches everything; the cook action
\* throws for what fail-on-error is about, and lets other errors through.
Fatal(j, end) ==
  /\ plan[j].deferred
  /\ \/ end = "threw"
     \/ plan[j].strict /\ end \in {"skipped-missing-target", "skipped-missing-root", "failed"}

Post(j) ==
  /\ pc[j] = "post"
  /\ \E end \in PostEnds(j) :
       /\ status' = [status EXCEPT ![j] = IF end = "reserve" THEN "none" ELSE end]
       /\ failed' = [failed EXCEPT ![j] = @ \/ Fatal(j, end)]
       /\ Goto(j, IF end = "reserve" THEN "reserve" ELSE "done")
  /\ UNCHANGED <<store, holder, setup, archive>>

SaveSlot(j) ==
  <<Scope(j),
    IF layer[j] = "delta" THEN BuildCookDeltaCacheKey(plan[j].suffix, plan[j].sha)
    ELSE MainKey(j)>>

\* Mutant of Reserve: a conflict is taken for a grant.
ReserveAnyway(j) ==
  /\ pc[j] = "reserve"
  /\ store[SaveSlot(j)] \in {"free", "reserved"}
  /\ store' = [store EXCEPT ![SaveSlot(j)] = "reserved"]
  /\ holder' = [holder EXCEPT ![SaveSlot(j)] = j]
  /\ Goto(j, "produce")
  /\ UNCHANGED <<setup, archive, status, failed>>

\* Without an error the service grants the key when nobody has it.
Reserve(j) ==
  /\ pc[j] = "reserve"
  /\ store[SaveSlot(j)] = "free"
  /\ store' = [store EXCEPT ![SaveSlot(j)] = "reserved"]
  /\ holder' = [holder EXCEPT ![SaveSlot(j)] = j]
  /\ Goto(j, "produce")
  /\ UNCHANGED <<setup, archive, status, failed>>

\* The grant's answer is lost, or the client repeats the call and conflicts with
\* itself: the job takes its own reservation for another job's.
ReserveUnanswered(j) ==
  /\ pc[j] = "reserve"
  /\ store[SaveSlot(j)] = "free"
  /\ store' = [store EXCEPT ![SaveSlot(j)] = "reserved"]
  /\ holder' = [holder EXCEPT ![SaveSlot(j)] = j]
  /\ status' = [status EXCEPT ![j] = "skipped-race-precheck"]
  /\ Goto(j, "done")
  /\ UNCHANGED <<setup, archive, failed>>

\* The key is taken, or the call failed: no archive is produced.
ReserveRefused(j) ==
  /\ pc[j] = "reserve"
  /\ status' = [status EXCEPT ![j] = "skipped-race-precheck"]
  /\ Goto(j, "done")
  /\ UNCHANGED <<store, holder, setup, archive, failed>>

\* soldr save leaves a whole archive, exits with an error, or reports success
\* with an archive that is missing or has no bytes; compression succeeds or
\* throws.
Made(j) ==
  IF plan[j].layered THEN {"whole", "error", "missing", "empty"}
  ELSE {"whole", "error"}

Accepted(made) == made \notin {"error", "missing", "empty"}

\* Mutant of SaveFails: the failure is logged only.
SaveFailsQuietly(j) ==
  /\ status' = [status EXCEPT ![j] = "failed"]
  /\ failed' = failed
  /\ Goto(j, "done")

SaveFails(j) ==
  /\ status' = [status EXCEPT ![j] = "failed"]
  /\ failed' = [failed EXCEPT ![j] = @ \/ Fatal(j, "failed")]
  /\ Goto(j, "done")

Produce(j) ==
  /\ pc[j] = "produce"
  /\ \E made \in Made(j) :
       IF Accepted(made)
       THEN /\ archive' = [archive EXCEPT ![j] = made]
            /\ Goto(j, "upload")
            /\ UNCHANGED <<status, failed>>
       ELSE SaveFails(j) /\ UNCHANGED archive
  /\ UNCHANGED <<store, holder, setup>>

Finalized(s, made) ==
  /\ store' = [store EXCEPT ![s] = made]
  /\ holder' = [holder EXCEPT ![s] = NoJob]

\* The archive is wrapped, uploaded and finalized. A failure before the
\* finalization leaves the reservation; one of its answer does not.
Upload(j) ==
  /\ pc[j] = "upload"
  /\ \/ /\ Finalized(SaveSlot(j), archive[j])
        /\ status' = [status EXCEPT ![j] = "saved"]
        /\ Goto(j, "done")
        /\ UNCHANGED failed
     \/ Finalized(SaveSlot(j), archive[j]) /\ SaveFails(j)
     \/ SaveFails(j) /\ UNCHANGED <<store, holder>>
  /\ UNCHANGED <<setup, archive>>

-----------------------------------------------------------------------------
(******************************* environment *******************************)

Active(j) == pc[j] \notin {"done", "lost"}

\* A runner lost earlier leaves no trace the other jobs could see.
RunnerLost(j) ==
  /\ j \in Mortal /\ pc[j] \in {"produce", "upload"}
  /\ Goto(j, "lost")
  /\ UNCHANGED <<store, holder, setup, archive, status, failed>>

Evict(s) ==
  /\ s \in Evictable /\ store[s] \in Archives
  /\ store' = [store EXCEPT ![s] = "free"]
  /\ UNCHANGED <<holder, pc, setup, archive, status, failed>>

\* The service frees a reservation nobody finalizes, in its own time.
Orphaned(s) == store[s] = "reserved" /\ ~Active(holder[s])

ReservationExpires(s) ==
  /\ Orphaned(s)
  /\ store' = [store EXCEPT ![s] = "free"]
  /\ holder' = [holder EXCEPT ![s] = NoJob]
  /\ UNCHANGED <<pc, setup, archive, status, failed>>

JobStep(j) ==
  \/ Plan(j) \/ RestoreMainKey(j) \/ RestoreDelta(j) \/ RestoresDone(j)
  \/ Load(j) \/ CookRuns(j) \/ CookFails(j) \/ UserBuilds(j)
  \/ Post(j) \/ Reserve(j) \/ ReserveUnanswered(j) \/ ReserveRefused(j)
  \/ Produce(j) \/ Upload(j)

Next ==
  \/ \E j \in Jobs : JobStep(j) \/ RunnerLost(j)
  \/ \E s \in Slots : Evict(s) \/ ReservationExpires(s)

Spec == Init /\ [][Next]_vars

-----------------------------------------------------------------------------
(******************************** properties *******************************)

\* A job produces and uploads an archive only under its own reservation of the
\* key, and a reservation whose job is over is one the job gave up: its runner
\* was lost, its save failed, or it took its own reservation for a conflict. A
\* save reported as done, or left out, leaves no key reserved
\* (saveReservedCache: the reservation comes before the producer, and nothing
\* releases it).
ReservationsAccounted ==
  /\ \A j \in Jobs : pc[j] \in {"produce", "upload"} =>
       store[SaveSlot(j)] = "reserved" /\ holder[SaveSlot(j)] = j
  /\ \A s \in Slots : Orphaned(s) =>
       pc[holder[s]] = "lost" \/ status[holder[s]] \in {"failed", "skipped-race-precheck"}

\* When main leaves cook out, the target directory holds what cook would have
\* built: a base of the very key with a delta on it, or a legacy archive
\* (main.ts and cook.ts, the cook phase).
SkippedCookIsCovered ==
  \A j \in Jobs : pc[j] = "build" /\ cooked[j] = "none" =>
    IF plan[j].layered THEN base[j] = "whole" /\ {"base", "delta"} \subseteq target[j]
    ELSE "legacy" \in target[j]

\* With fail-on-error every failure of cook and of its save reaches the job,
\* from main or from post, except a reservation it did not get; without it, only
\* an error of the file system in post does, which nothing catches (cook.ts,
\* cook-post.ts: "Fail the action when cook or cook-cache save fails").
FailsAsAsked ==
  \A j \in Jobs :
    /\ failed[j] => plan[j].deferred /\ (plan[j].strict \/ status[j] = "threw")
    /\ /\ plan[j].deferred /\ plan[j].strict /\ pc[j] = "done"
       /\ cooked[j] = "failed" \/ status[j] \in {"failed", "threw", "skipped-missing-target",
                                               "skipped-missing-root"}
       => failed[j]

\* Entries of another ref than the default branch, which only that ref can
\* restore, are published by local runners or where an input asks for them,
\* whatever main decided before (currentSaveDecision).
AsksToSave(env) == env.local \/ env.save \in Truthy \/ env.remote \in Truthy

ScopedSavesAreAsked ==
  [][\A s \in Slots : s[1] = "other" /\ store[s] = "reserved" /\ store'[s] \in Archives =>
       AsksToSave(plan[holder[s]].env) \/ plan[holder[s]].env.ref = "unknown"]_vars
=============================================================================
