---------------------------- MODULE VerdictLedger ----------------------------
(***************************************************************************)
(* The remote tier of soldr's verdict ledger (lib/verdict-cache.ts,        *)
(* lib/verdict-setup.ts).  A run restores the newest manifest of its job,  *)
(* has its checks keyed against this checkout and restores their verdicts; *)
(* when all are there it is lazy and skips the toolchain and the build     *)
(* caches.  Its post step publishes the verdicts soldr spooled, then a     *)
(* manifest of what ran, and deletes superseded manifests.                 *)
(*                                                                         *)
(* A run may be cut, throw or be lost anywhere, and its siblings publish   *)
(* and clean up meanwhile.                                                 *)
(***************************************************************************)
EXTENDS Naturals, Sequences, FiniteSets

CONSTANTS
  Runs,       \* workflow runs of the action
  NoRun,      \* no run
  Scope,      \* manifestScope: the job a run is of, whatever its ref
  Refs,       \* refs a cache entry may belong to
  Default,    \* the default branch, whose entries every ref can read
  Ref,        \* the ref a run is on
  Publishers, \* runs the save policy lets publish (allowVerdictSave): those on
              \* the default branch, and on any ref with save-cache-remote
  Mode,       \* verdicts: "auto", "restore" (or auto without shims), "off"
  Checks,     \* commands soldr gates
  Build,      \* a command it does not gate
  Inputs,     \* states of the checkout
  Programs,   \* what a workflow may run after main, in order
  Checkouts,  \* per run: the inputs and programs it may have
  Passing,    \* <<check, input>> that pass
  Unkeyable,  \* <<check, input>> soldr cannot key
  Stale,      \* per run: what an earlier job may have left in its runner's log
  Mortal,     \* runs that may be interrupted: main throws, steps are cut, the runner is lost
  Kept        \* MAX_MANIFESTS_PER_SCOPE

Steps == Checks \cup {Build}
Keys  == (Checks \X Inputs) \ Unkeyable

ASSUME NoRunIsNone    == NoRun \notin Runs
ASSUME BuildIsNoCheck == Build \notin Checks
ASSUME RefType        == Ref \in [Runs -> Refs] /\ Default \in Refs
ASSUME ModeType       == Mode \in [Runs -> {"auto", "restore", "off"}]
ASSUME ProgramsType   == Programs \subseteq Seq(Steps)
ASSUME CheckoutsType  == Checkouts \in [Runs -> SUBSET (Inputs \X Programs)]
ASSUME StaleType      == Stale \in [Runs -> SUBSET SUBSET Steps]
ASSUME PassingType    == Passing \subseteq Checks \X Inputs
ASSUME KeptType       == Kept \in Nat \ {0}

VARIABLES
  verdicts,  \* <<key, ref>> of the verdicts with a cache entry
  manifests, \* runs whose manifest has a cache entry
  born,      \* when a run's manifest was saved; 0 if it never was
  used,      \* when a run's manifest was last accessed, its save included
  clock,     \* accesses to manifests so far
  rows,      \* what a saved manifest lists
  pc, input, program,
  followed,  \* the manifest main restored, if any
  have,      \* restored: verdicts in this run's record store
  lazy,      \* verdictLazy
  ledger,    \* verdictPaths is in the saved state
  at,        \* commands of the program that have ended
  seen,      \* seen.jsonl
  spool,     \* keys soldr spooled
  doomed,    \* manifests the janitor still has to delete
  proved,    \* keys of checks that ran and passed
  earned,    \* the run follows a manifest that promises it can be lazy
  calm       \* no entry was evicted and no cache call failed so far

storeVars == <<verdicts, manifests, born, used, clock, rows>>
mainVars  == <<input, program, followed, earned>>
logVars   == <<seen, spool, proved>>
vars == <<storeVars, mainVars, logVars, pc, have, lazy, ledger, at, doomed, calm>>

Phases == {"start", "install", "restore", "setup", "lazy", "full", "build", "post",
           "publish", "janitor", "clean", "done"}

TypeOK ==
  /\ verdicts \in SUBSET (Keys \X Refs)
  /\ manifests \in SUBSET Runs
  /\ born \in [Runs -> Nat]
  /\ used \in [Runs -> Nat]
  /\ clock \in Nat
  /\ rows \in [Runs -> SUBSET Steps]
  /\ pc \in [Runs -> Phases]
  /\ input \in [Runs -> Inputs]
  /\ program \in [Runs -> Programs]
  /\ followed \in [Runs -> Runs \cup {NoRun}]
  /\ have \in [Runs -> SUBSET Keys]
  /\ lazy \in [Runs -> BOOLEAN]
  /\ ledger \in [Runs -> BOOLEAN]
  /\ at \in [Runs -> Nat]
  /\ seen \in [Runs -> SUBSET Steps]
  /\ spool \in [Runs -> SUBSET Keys]
  /\ doomed \in [Runs -> SUBSET Runs]
  /\ proved \in SUBSET (Checks \X Inputs)
  /\ earned \in [Runs -> BOOLEAN]
  /\ calm \in BOOLEAN

Init ==
  /\ verdicts = {}
  /\ manifests = {}
  /\ born = [r \in Runs |-> 0]
  /\ used = [r \in Runs |-> 0]
  /\ clock = 0
  /\ rows = [r \in Runs |-> {}]
  /\ pc = [r \in Runs |-> "start"]
  /\ input \in [Runs -> Inputs]
  /\ program \in [Runs -> Programs]
  /\ \A r \in Runs : <<input[r], program[r]>> \in Checkouts[r]
  /\ followed = [r \in Runs |-> NoRun]
  /\ have = [r \in Runs |-> {}]
  /\ lazy = [r \in Runs |-> FALSE]
  /\ ledger = [r \in Runs |-> FALSE]
  /\ at = [r \in Runs |-> 0]
  /\ seen \in [Runs -> SUBSET Steps] /\ \A r \in Runs : seen[r] \in Stale[r]
  /\ spool = [r \in Runs |-> {}]
  /\ doomed = [r \in Runs |-> {}]
  /\ proved = {}
  /\ earned = [r \in Runs |-> FALSE]
  /\ calm = TRUE

Goes(r, from, to) == pc[r] = from /\ pc' = [pc EXCEPT ![r] = to]

-----------------------------------------------------------------------------
(***************************************************************************)
(* main: verdictPreflight, the setup, verdictAfterInstall                  *)
(***************************************************************************)
\* Manifests of a run's job on a ref, and what a restore by prefix finds: the
\* newest on the run's own ref or, failing any, on the default branch.
Siblings(r, b) == {m \in manifests : Scope[m] = Scope[r] /\ Ref[m] = b}
Newest(r, m) ==
  /\ m \in Siblings(r, Ref[m])
  /\ Ref[m] = Ref[r] \/ (Ref[m] = Default /\ Siblings(r, Ref[r]) = {})
  /\ \A n \in Siblings(r, Ref[m]) : born[n] <= born[m]

\* The keys whose verdict a run can restore.
Cached(r) == {k \in Keys : \E b \in {Ref[r], Default} : <<k, b>> \in verdicts}

\* A manifest's checks that can be keyed against a checkout, by their keys.
Predicted(m, i) == {k \in Keys : k[1] \in rows[m] /\ k[2] = i}
Unkeyed(m, i)   == {c \in rows[m] \cap Checks : <<c, i>> \notin Keys}

Commands(r) == {program[r][n] : n \in 1..Len(program[r])}

\* The manifest is of a run that did all of the same program on the same
\* checkout, every command of which passed and has a verdict.
Promises(m, r) ==
  /\ at[m] = Len(program[m])
  /\ program[m] = program[r] /\ input[m] = input[r]
  /\ rows[m] = Commands(r) /\ rows[m] # {}
  /\ \A s \in Commands(r) : <<s, input[r]>> \in Keys \cap Passing

\* verdicts is off, or there is no manifest or its restore fails.
PreflightMisses(r) ==
  /\ Goes(r, "start", IF Mode[r] = "off" THEN "full" ELSE "setup")
  /\ UNCHANGED <<storeVars, mainVars, logVars, have, lazy, ledger, at, doomed, calm>>

\* The restore is an access to the manifest.
PreflightHits(r) ==
  /\ Mode[r] # "off"
  /\ Goes(r, "start", "install")
  /\ \E m \in manifests :
       /\ Newest(r, m)
       /\ followed' = [followed EXCEPT ![r] = m]
       /\ earned' = [earned EXCEPT ![r] = calm /\ Promises(m, r)]
       /\ clock' = clock + 1
       /\ used' = [used EXCEPT ![m] = clock']
  /\ UNCHANGED <<verdicts, manifests, born, rows, input, program, logVars, have, lazy, ledger, at, doomed, calm>>

\* resetSeen is best effort: a log that cannot be removed stays.
ResetSeen(r) ==
  /\ seen' \in {seen, [seen EXCEPT ![r] = {}]}
  /\ spool' = [spool EXCEPT ![r] = {}]
  /\ UNCHANGED proved

\* The soldr that was installed has no ledger.
NoLedger(r) ==
  /\ \/ Goes(r, "install", "full")
     \/ Goes(r, "setup", "build")
  /\ calm' = FALSE
  /\ UNCHANGED <<storeVars, mainVars, logVars, have, lazy, ledger, at, doomed>>

Predicts(r) ==
  /\ Goes(r, "install", "restore")
  /\ ResetSeen(r)
  /\ ledger' = [ledger EXCEPT ![r] = TRUE]
  /\ UNCHANGED <<storeVars, mainVars, have, lazy, at, doomed, calm>>

\* soldr verdict rekey fails: nothing is predicted.
PredictFails(r) ==
  /\ Goes(r, "install", "full")
  /\ ResetSeen(r)
  /\ ledger' = [ledger EXCEPT ![r] = TRUE]
  /\ calm' = FALSE
  /\ UNCHANGED <<storeVars, mainVars, have, lazy, at, doomed>>

\* Mutant: a verdict restored by prefix counts, whatever its inputs.
FoundByPrefix(r) ==
  {k \in Predicted(followed[r], input[r]) : \E v \in verdicts : v[1][1] = k[1]}

\* Each key is restored exactly.
Found(r) == Predicted(followed[r], input[r]) \cap Cached(r)

IsLazy(r, restored) ==
  /\ Build \notin rows[followed[r]]
  /\ Unkeyed(followed[r], input[r]) = {}
  /\ Predicted(followed[r], input[r]) # {}
  /\ Predicted(followed[r], input[r]) \subseteq restored

RestoreVerdicts(r) ==
  /\ pc[r] = "restore"
  /\ \E restored \in SUBSET Found(r) :
       /\ have' = [have EXCEPT ![r] = restored]
       /\ calm' = (calm /\ restored = Found(r))
       /\ lazy' = [lazy EXCEPT ![r] = Mode[r] = "auto" /\ IsLazy(r, restored)]
       /\ pc' = [pc EXCEPT ![r] = IF lazy'[r] THEN "lazy" ELSE "full"]
  /\ UNCHANGED <<storeVars, mainVars, logVars, ledger, at, doomed>>

\* finishLazySetup, or the restores and the toolchain after a preflight.
SetupEnds(r) ==
  /\ Goes(r, "lazy", "build") \/ Goes(r, "full", "build")
  /\ UNCHANGED <<storeVars, mainVars, logVars, have, lazy, ledger, at, doomed, calm>>

\* Without a preflight the log is located once soldr is installed.
AfterInstall(r) ==
  /\ Goes(r, "setup", "build")
  /\ ResetSeen(r)
  /\ ledger' = [ledger EXCEPT ![r] = TRUE]
  /\ UNCHANGED <<storeVars, mainVars, have, lazy, at, doomed, calm>>

\* An installation or a verification throws; the workflow's commands are
\* skipped and post runs.
MainThrows(r) ==
  /\ r \in Mortal
  /\ \E from \in {"install", "setup", "lazy", "full"} : Goes(r, from, "post")
  /\ UNCHANGED <<storeVars, mainVars, logVars, have, lazy, ledger, at, doomed, calm>>

-----------------------------------------------------------------------------
(***************************************************************************)
(* The workflow's commands, run by soldr                                   *)
(***************************************************************************)
Current(r) == program[r][at[r] + 1]
Key(r)     == <<Current(r), input[r]>>

Command(r) ==
  /\ pc[r] = "build" /\ at[r] < Len(program[r])
  /\ seen' = [seen EXCEPT ![r] = @ \cup {Current(r)}]
  /\ UNCHANGED <<storeVars, mainVars, have, lazy, ledger, doomed, calm>>

\* A build, or a check whose verdict was restored and is replayed.
RunsOrReplays(r) ==
  /\ Command(r)
  /\ Current(r) = Build \/ Key(r) \in have[r]
  /\ at' = [at EXCEPT ![r] = @ + 1]
  /\ UNCHANGED <<pc, spool, proved>>

\* Mutant: a check that cannot be keyed is recorded under a wider key.
RecordsAll(r) == {Key(r)}

\* A check without a key passes unrecorded.
Recorded(r) == {Key(r)} \cap Keys

CheckPasses(r) ==
  /\ Command(r)
  /\ Key(r) \in Passing \ have[r]
  /\ at' = [at EXCEPT ![r] = @ + 1]
  /\ spool' = [spool EXCEPT ![r] = @ \cup Recorded(r)]
  /\ proved' = proved \cup {Key(r)}
  /\ UNCHANGED pc

CheckFails(r) ==
  /\ Command(r)
  /\ Current(r) # Build /\ Key(r) \notin Passing \cup have[r]
  /\ Goes(r, "build", "post")
  /\ UNCHANGED <<at, spool, proved>>

\* The job's steps end, or are cut by a cancellation or another step's failure.
StepsEnd(r) ==
  /\ r \in Mortal \/ at[r] = Len(program[r])
  /\ Goes(r, "build", "post")
  /\ UNCHANGED <<storeVars, mainVars, logVars, have, lazy, ledger, at, doomed, calm>>

-----------------------------------------------------------------------------
(***************************************************************************)
(* post: verdictPost, of a lazy and of a full run                          *)
(***************************************************************************)
PostStarts(r) ==
  /\ Goes(r, "post", IF ledger[r] /\ r \in Publishers THEN "publish" ELSE "done")
  /\ UNCHANGED <<storeVars, mainVars, logVars, have, lazy, ledger, at, doomed, calm>>

Publishing(r) ==
  /\ pc[r] = "publish"
  /\ UNCHANGED <<mainVars, seen, proved, have, lazy, ledger, at>>

\* An entry that exists already on this ref is as good as a save.
SaveVerdict(r, k) ==
  /\ Publishing(r)
  /\ k \in spool[r]
  /\ verdicts' = verdicts \cup {<<k, Ref[r]>>}
  /\ spool' = [spool EXCEPT ![r] = @ \ {k}]
  /\ UNCHANGED <<manifests, born, used, clock, rows, pc, doomed, calm>>

\* The save throws or the record is gone; the next key is tried.
SaveVerdictFails(r, k) ==
  /\ Publishing(r)
  /\ k \in spool[r]
  /\ spool' = [spool EXCEPT ![r] = @ \ {k}]
  /\ calm' = FALSE
  /\ UNCHANGED <<storeVars, pc, doomed>>

\* Mutant: the manifest is published beside the verdicts.
AnyTime(r) == seen[r] # {}

\* An empty log makes no manifest.
Listable(r) == spool[r] = {} /\ seen[r] # {}

SaveManifest(r) ==
  /\ Publishing(r)
  /\ Listable(r)
  /\ manifests' = manifests \cup {r}
  /\ clock' = clock + 1
  /\ born' = [born EXCEPT ![r] = clock']
  /\ used' = [used EXCEPT ![r] = clock']
  /\ rows' = [rows EXCEPT ![r] = seen[r]]
  /\ pc' = [pc EXCEPT ![r] = "janitor"]
  /\ UNCHANGED <<verdicts, spool, doomed, calm>>

NoManifest(r) ==
  /\ Publishing(r)
  /\ spool[r] = {}
  /\ pc' = [pc EXCEPT ![r] = "janitor"]
  /\ UNCHANGED <<storeVars, spool, doomed, calm>>

\* Mutant: sorted the wrong way round.
UsedBefore(m) == {n \in manifests : Scope[n] = Scope[m] /\ used[n] < used[m]}

\* The list is of the repository: manifests of a job on all its refs, sorted by
\* their last access.
UsedAfter(m) == {n \in manifests : Scope[n] = Scope[m] /\ used[n] > used[m]}

JanitorLists(r) ==
  /\ Goes(r, "janitor", "clean")
  /\ doomed' = [doomed EXCEPT ![r] = {m \in manifests : Cardinality(UsedAfter(m)) >= Kept}]
  /\ UNCHANGED <<storeVars, mainVars, logVars, have, lazy, ledger, at, calm>>

JanitorDeletes(r, m) ==
  /\ pc[r] = "clean" /\ m \in doomed[r]
  /\ manifests' \in {manifests, manifests \ {m}}
  /\ doomed' = [doomed EXCEPT ![r] = @ \ {m}]
  /\ UNCHANGED <<verdicts, born, used, clock, rows, mainVars, logVars, pc, have, lazy, ledger, at, calm>>

\* Nothing is left to delete, there is no token, or the list cannot be read.
JanitorEnds(r) ==
  /\ \/ Goes(r, "janitor", "done")
     \/ doomed[r] = {} /\ Goes(r, "clean", "done")
  /\ UNCHANGED <<storeVars, mainVars, logVars, have, lazy, ledger, at, doomed, calm>>

-----------------------------------------------------------------------------
(***************************************************************************)
(* Outside                                                                 *)
(***************************************************************************)
\* GitHub evicts a verdict, or a janitor does: beyond MAX_VERDICT_ENTRIES the
\* least recently used go.
EvictVerdict ==
  /\ \E k \in verdicts : verdicts' = verdicts \ {k}
  /\ calm' = FALSE
  /\ UNCHANGED <<manifests, born, used, clock, rows, mainVars, logVars, pc, have, lazy, ledger, at, doomed>>

EvictManifest ==
  /\ \E m \in manifests : manifests' = manifests \ {m}
  /\ UNCHANGED <<verdicts, born, used, clock, rows, mainVars, logVars, pc, have, lazy, ledger, at, doomed, calm>>

RunnerLost(r) ==
  /\ r \in Mortal
  /\ \E from \in Phases \ {"start", "done"} : Goes(r, from, "done")
  /\ UNCHANGED <<storeVars, mainVars, logVars, have, lazy, ledger, at, doomed, calm>>

MainNext(r) ==
  \/ PreflightMisses(r) \/ PreflightHits(r)
  \/ NoLedger(r) \/ Predicts(r) \/ PredictFails(r) \/ RestoreVerdicts(r)
  \/ SetupEnds(r) \/ AfterInstall(r) \/ MainThrows(r)

BuildNext(r) == RunsOrReplays(r) \/ CheckPasses(r) \/ CheckFails(r) \/ StepsEnd(r)

PostNext(r) ==
  \/ PostStarts(r) \/ SaveManifest(r) \/ NoManifest(r) \/ JanitorLists(r) \/ JanitorEnds(r)
  \/ \E k \in Keys : SaveVerdict(r, k) \/ SaveVerdictFails(r, k)
  \/ \E m \in Runs : JanitorDeletes(r, m)

Done == (\A r \in Runs : pc[r] = "done") /\ UNCHANGED vars

Next ==
  \/ \E r \in Runs : MainNext(r) \/ BuildNext(r) \/ PostNext(r) \/ RunnerLost(r)
  \/ EvictVerdict \/ EvictManifest
  \/ Done

Spec == Init /\ [][Next]_vars

-----------------------------------------------------------------------------
\* A lazy run skips nothing on hope: its manifest lists no build, and each
\* check it lists was run by some run with the inputs of this very checkout,
\* and passed (isLazy, restoreVerdicts).
LazyIsProved ==
  \A r \in Runs : lazy[r] =>
    /\ rows[followed[r]] # {}
    /\ \A s \in rows[followed[r]] : s \in Checks /\ <<s, input[r]>> \in proved

\* Laziness is earned: a run of the same program on the same checkout, after
\* one that passed all of it, is lazy unless a cache call or an entry failed
\* it, whatever its siblings publish and delete meanwhile (verdictPost's order:
\* the verdicts, then the manifest that predicts them).
EarnedIsLazy ==
  \A r \in Runs :
    earned[r] /\ calm /\ Mode[r] = "auto" /\ pc[r] \in {"full", "build"} => lazy[r]

SavedElsewhere(m) == {n \in Runs : Scope[n] = Scope[m] /\ Ref[n] # Ref[m] /\ born[n] # 0}

Superseded(m) ==
  \/ \E n \in Runs : Scope[n] = Scope[m] /\ Ref[n] = Ref[m] /\ born[n] > born[m]
  \/ \E S \in SUBSET SavedElsewhere(m) : Cardinality(S) >= Kept

\* The janitor sorts by last access and over all refs, yet what it deletes was
\* superseded: a manifest of its job was saved later on its own ref, whoever
\* touched which meanwhile and however the runs' lists, saves and deletions
\* interleave.  Only when other refs publish the job too can a ref's newest
\* manifest be deleted, and not before Kept of theirs were saved (janitorPlan:
\* "a superseded manifest has no reader").
JanitorSparesNewest == \A r \in Runs : \A m \in doomed[r] : Superseded(m)
=============================================================================
