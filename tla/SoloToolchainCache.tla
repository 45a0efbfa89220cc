------------------------- MODULE SoloToolchainCache -------------------------
(***************************************************************************)
(* The repair of poisoned toolchain entries (setup-soldr#473).  Jobs of    *)
(* one configuration restore the installed toolchain from the cache and    *)
(* validate it.  After a failed validation main reinstalls the toolchain,  *)
(* and post deletes the entry and saves a replacement, which other jobs    *)
(* may be doing at the same time.                                          *)
(*                                                                         *)
(* A cache entry belongs to a key and a git ref.  A job restores from its  *)
(* own ref or else from the default branch, and saves to its own ref.      *)
(***************************************************************************)
EXTENDS FiniteSets

CONSTANTS
  Jobs,
  Refs, DefaultBranch,
  Keys,    \* solo cache keys of one toolchain, one per soldr version
  Exact,   \* that of the jobs' soldr version; the others are its fallbacks
  Stocked, \* slots that may hold an entry before the jobs start
  Evictable, \* slots whose entry GitHub may evict
  Mortal,  \* jobs whose runner may be lost
  Earlier, \* who saved the entries there were before
  Nothing  \* no entry, no slot

ASSUME RefsAssumption    == DefaultBranch \in Refs
ASSUME KeysAssumption    == Exact \in Keys
ASSUME SlotsAssumption   == Stocked \cup Evictable \subseteq Keys \X Refs
ASSUME MortalAssumption  == Mortal \subseteq Jobs
ASSUME EarlierAssumption == Earlier \notin Jobs
ASSUME NothingAssumption == Nothing \notin (Keys \X Refs) \cup [by : Jobs \cup {Earlier}, whole : BOOLEAN]

Slots   == Keys \X Refs
\* whole: verifyRestoredToolchain finds every requested part in it
Entries == [by : Jobs \cup {Earlier}, whole : BOOLEAN]

VARIABLES
  store,     \* the entry of every slot
  uploading, \* the slot a job has reserved and uploads to
  ref,       \* GITHUB_REF of the job
  pc,
  matched,   \* soloMatchedKey, with the ref it was found on
  origin,    \* the entry that was restored
  invalid,   \* soloRestoreInvalid
  unchanged, \* soloIncrementalEmpty: the install added nothing
  diff,      \* the save-diff manifest: none, empty or full
  listed,    \* the entry listed for deletion
  repair,    \* repairDeletionComplete, once the deletion ran
  staged,    \* every file of the manifest was staged
  result,    \* status of the save
  failed     \* the job was failed by main or by post

jobVars == <<ref, matched, origin, invalid, unchanged, diff, listed, repair, staged, result, failed>>
vars == <<store, uploading, pc, jobVars>>

Phases  == {"restore", "install", "post", "list", "delete", "precheck", "stage",
            "probe", "reserve", "upload", "lookup", "done", "lost"}
Results == {"none", "not-needed", "race-skip", "policy-skip", "saved", "failed"}

TypeOK ==
  /\ store \in [Slots -> Entries \cup {Nothing}]
  /\ uploading \in [Jobs -> Slots \cup {Nothing}]
  /\ ref \in [Jobs -> Refs]
  /\ pc \in [Jobs -> Phases]
  /\ matched \in [Jobs -> Slots \cup {Nothing}]
  /\ origin \in [Jobs -> Entries \cup {Nothing}]
  /\ invalid \in [Jobs -> BOOLEAN]
  /\ unchanged \in [Jobs -> BOOLEAN]
  /\ diff \in [Jobs -> {"none", "empty", "full"}]
  /\ listed \in [Jobs -> Entries \cup {Nothing}]
  /\ repair \in [Jobs -> {"none", "complete", "incomplete"}]
  /\ staged \in [Jobs -> BOOLEAN]
  /\ result \in [Jobs -> Results]
  /\ failed \in [Jobs -> BOOLEAN]

Init ==
  /\ store \in [Slots -> [by : {Earlier}, whole : BOOLEAN] \cup {Nothing}]
  /\ \A s \in Slots \ Stocked : store[s] = Nothing
  /\ ref \in [Jobs -> Refs]
  /\ uploading = [j \in Jobs |-> Nothing]
  /\ pc = [j \in Jobs |-> "restore"]
  /\ matched = [j \in Jobs |-> Nothing]
  /\ origin = [j \in Jobs |-> Nothing]
  /\ invalid = [j \in Jobs |-> FALSE]
  /\ unchanged = [j \in Jobs |-> FALSE]
  /\ diff = [j \in Jobs |-> "none"]
  /\ listed = [j \in Jobs |-> Nothing]
  /\ repair = [j \in Jobs |-> "none"]
  /\ staged = [j \in Jobs |-> FALSE]
  /\ result = [j \in Jobs |-> "none"]
  /\ failed = [j \in Jobs |-> FALSE]

-----------------------------------------------------------------------------
At(j, p)   == pc[j] = p
Goto(j, p) == pc' = [pc EXCEPT ![j] = p]

Here(j)      == <<Exact, ref[j]>>
Found(k, r)  == store[<<k, r>>] # Nothing
ExactHit(j)  == matched[j] # Nothing /\ matched[j][1] = Exact /\ ~invalid[j]

\* A lookup-only restore of the exact key.
Visible(j) == Found(Exact, ref[j]) \/ Found(Exact, DefaultBranch)

OnRef(r) ==
  IF Found(Exact, r) THEN {<<Exact, r>>} ELSE {s \in Slots : s[2] = r /\ store[s] # Nothing}

\* The exact key, then its prefixes, on the job's ref; then on the default
\* branch.
Candidates(j) == IF OnRef(ref[j]) # {} THEN OnRef(ref[j]) ELSE OnRef(DefaultBranch)

-----------------------------------------------------------------------------
(***************************************************************************)
(* Main: restore, validate, install                                        *)
(***************************************************************************)
RestoreMiss(j) ==
  /\ At(j, "restore")
  /\ Goto(j, "install")
  /\ UNCHANGED <<store, uploading, jobVars>>

\* A broken entry never passes; a whole one may fail when the archive does
\* not decompress or a probe of rustup fails.
RestoreHit(j, s) ==
  /\ At(j, "restore") /\ s \in Candidates(j)
  /\ matched' = [matched EXCEPT ![j] = s]
  /\ origin' = [origin EXCEPT ![j] = store[s]]
  /\ \E bad \in BOOLEAN :
       /\ ~store[s].whole => bad
       /\ invalid' = [invalid EXCEPT ![j] = bad]
  /\ Goto(j, "install")
  /\ UNCHANGED <<store, uploading, ref, unchanged, diff, listed, repair, staged, result, failed>>

\* The manifest compares the tree with what the runner image had; writing it
\* may fail, and then nothing is known of the increment either.
RecordDiff(j, d, nothingNew) ==
  /\ d = "none" => ~nothingNew
  /\ diff' = [diff EXCEPT ![j] = d]
  /\ unchanged' = [unchanged EXCEPT ![j] = nothingNew]
  /\ Goto(j, "post")
  /\ UNCHANGED <<store, uploading, ref, matched, origin, invalid, listed, repair, staged,
                 result, failed>>

\* A validated exact hit skips the install.
SkipInstall(j) ==
  /\ At(j, "install") /\ ExactHit(j)
  /\ \E d \in {"none", "empty", "full"} : RecordDiff(j, d, d # "none")

Install(j) ==
  /\ At(j, "install") /\ ~ExactHit(j)
  /\ \E d \in {"none", "empty", "full"}, b \in BOOLEAN : RecordDiff(j, d, b)

\* The install, or the second validation of a repaired toolchain, throws.
InstallThrows(j) ==
  /\ At(j, "install") /\ ~ExactHit(j)
  /\ failed' = [failed EXCEPT ![j] = TRUE]
  /\ Goto(j, "post")
  /\ UNCHANGED <<store, uploading, ref, matched, origin, invalid, unchanged, diff, listed,
                 repair, staged, result>>

-----------------------------------------------------------------------------
(***************************************************************************)
(* Post: delete the poisoned entry                                         *)
(***************************************************************************)
PostStart(j) ==
  /\ At(j, "post")
  /\ Goto(j, IF invalid[j] THEN "list" ELSE "precheck")
  /\ UNCHANGED <<store, uploading, jobVars>>

\* The matched key on the job's own ref, wherever the entry came from.
Suspect(j) == <<matched[j][1], ref[j]>>

AfterRepair(j, outcome) ==
  /\ repair' = [repair EXCEPT ![j] = outcome]
  /\ Goto(j, "stage")

\* Mutant: a list call that failed found nothing to delete.
FailedListIsEmpty(j) == AfterRepair(j, "complete") /\ UNCHANGED listed

\* Without a token or after a list call that failed, the repair is incomplete.
ListFails(j) == AfterRepair(j, "incomplete") /\ UNCHANGED listed

ListFound(j) ==
  /\ listed' = [listed EXCEPT ![j] = store[Suspect(j)]]
  /\ IF Found(Suspect(j)[1], ref[j]) THEN Goto(j, "delete") /\ UNCHANGED repair
                                     ELSE AfterRepair(j, "complete")

ListCorrupt(j) ==
  /\ At(j, "list")
  /\ ListFails(j) \/ ListFound(j)
  /\ UNCHANGED <<store, uploading, ref, matched, origin, invalid, unchanged, diff, staged,
                 result, failed>>

DeleteListed(j) ==
  /\ At(j, "delete") /\ store[Suspect(j)] = listed[j]
  /\ store' = [store EXCEPT ![Suspect(j)] = Nothing]
  /\ AfterRepair(j, "complete")
  /\ UNCHANGED <<uploading, ref, matched, origin, invalid, unchanged, diff, listed, staged,
                 result, failed>>

\* The permission is missing, or the entry is gone: both count as failures.
DeleteFails(j) ==
  /\ At(j, "delete")
  /\ AfterRepair(j, "incomplete")
  /\ UNCHANGED <<store, uploading, ref, matched, origin, invalid, unchanged, diff, listed,
                 staged, result, failed>>

-----------------------------------------------------------------------------
(***************************************************************************)
(* Post: save the toolchain                                                *)
(***************************************************************************)
\* A repaired toolchain that is not published fails the job, except under a
\* save policy that forbids the upload.
Settle(j, status, repairFails) ==
  /\ result' = [result EXCEPT ![j] = status]
  /\ failed' = [failed EXCEPT ![j] = @ \/ (invalid[j] /\ repairFails)]
  /\ Goto(j, "done")

Precheck(j) ==
  /\ At(j, "precheck")
  /\ \/ /\ Visible(j) /\ diff[j] # "none" /\ ~(ExactHit(j) /\ unchanged[j])
        /\ Settle(j, "race-skip", FALSE)
     \/ Goto(j, "stage") /\ UNCHANGED <<result, failed>>  \* nobody has saved, or the probe fails
  /\ UNCHANGED <<store, uploading, ref, matched, origin, invalid, unchanged, diff, listed,
                 repair, staged>>

NothingToSave(j) ==
  /\ At(j, "stage")
  /\ \/ ExactHit(j) /\ unchanged[j]
     \/ diff[j] # "full"
  /\ Settle(j, "not-needed", TRUE)
  /\ UNCHANGED <<store, uploading, ref, matched, origin, invalid, unchanged, diff, listed,
                 repair, staged>>

\* Mutant: a repair publishes what could be staged.
MissingTolerated(j) == FALSE

MissingRefused(j) == invalid[j] /\ ~staged'[j]

\* The workflow may have removed files of the manifest since main.
Stage(j) ==
  /\ At(j, "stage")
  /\ diff[j] = "full" /\ ~(ExactHit(j) /\ unchanged[j])
  /\ \E complete \in BOOLEAN : staged' = [staged EXCEPT ![j] = complete]
  /\ \/ Settle(j, "failed", TRUE)  \* staging or compression throws
     \/ ~MissingRefused(j) /\ Settle(j, "policy-skip", FALSE)
     \/ /\ ~MissingRefused(j)
        /\ Goto(j, IF invalid[j] THEN "reserve" ELSE "probe")
        /\ UNCHANGED <<result, failed>>
  /\ UNCHANGED <<store, uploading, ref, matched, origin, invalid, unchanged, diff, listed,
                 repair>>

Probe(j) ==
  /\ At(j, "probe")
  /\ \/ Visible(j) /\ Settle(j, "race-skip", FALSE)
     \/ Goto(j, "reserve") /\ UNCHANGED <<result, failed>>
  /\ UNCHANGED <<store, uploading, ref, matched, origin, invalid, unchanged, diff, listed,
                 repair, staged>>

Taken(s) == store[s] # Nothing \/ \E i \in Jobs : uploading[i] = s

\* Mutant: a lost reservation is no failure.
LostIsFine(j) == Settle(j, "race-skip", FALSE)

\* Mutant: the id is passed on as the status.
IdAsStatus(j) == Settle(j, "-1", TRUE)

\* saveCache returns -1.  Only a repair whose deletion was complete asks
\* whether a replacement exists.
NotSaved(j) ==
  IF invalid[j] /\ repair[j] = "complete"
  THEN Goto(j, "lookup") /\ UNCHANGED <<result, failed>>
  ELSE Settle(j, "failed", TRUE)

Reserve(j) ==
  /\ At(j, "reserve") /\ ~Taken(Here(j))
  /\ uploading' = [uploading EXCEPT ![j] = Here(j)]
  /\ Goto(j, "upload")
  /\ UNCHANGED <<store, jobVars>>

ReserveRefused(j) ==
  /\ At(j, "reserve") /\ Taken(Here(j))
  /\ NotSaved(j)
  /\ UNCHANGED <<store, uploading, ref, matched, origin, invalid, unchanged, diff, listed,
                 repair, staged>>

FinishUpload(j) ==
  /\ At(j, "upload")
  /\ store' = [store EXCEPT ![Here(j)] = [by |-> j, whole |-> staged[j]]]
  /\ uploading' = [uploading EXCEPT ![j] = Nothing]
  /\ Settle(j, "saved", FALSE)
  /\ UNCHANGED <<ref, matched, origin, invalid, unchanged, diff, listed, repair, staged>>

UploadFails(j) ==
  /\ At(j, "upload")
  /\ uploading' = [uploading EXCEPT ![j] = Nothing]
  /\ NotSaved(j)
  /\ UNCHANGED <<store, ref, matched, origin, invalid, unchanged, diff, listed, repair,
                 staged>>

\* A replacement counts only on the job's own ref.
Lookup(j) ==
  /\ At(j, "lookup")
  /\ \/ Found(Exact, ref[j]) /\ Settle(j, "race-skip", FALSE)
     \/ Settle(j, "failed", TRUE)
  /\ UNCHANGED <<store, uploading, ref, matched, origin, invalid, unchanged, diff, listed,
                 repair, staged>>

-----------------------------------------------------------------------------
\* GitHub evicts an entry; a runner is lost with whatever it had reserved.
EvictEntry(s) ==
  /\ store[s] # Nothing
  /\ store' = [store EXCEPT ![s] = Nothing]
  /\ UNCHANGED <<uploading, pc, jobVars>>

RunnerLost(j) ==
  /\ pc[j] \notin {"done", "lost"}
  /\ Goto(j, "lost")
  /\ uploading' = [uploading EXCEPT ![j] = Nothing]
  /\ UNCHANGED <<store, jobVars>>

JobStep(j) ==
  \/ RestoreMiss(j) \/ \E s \in Slots : RestoreHit(j, s)
  \/ SkipInstall(j) \/ Install(j) \/ InstallThrows(j)
  \/ PostStart(j) \/ ListCorrupt(j) \/ DeleteListed(j) \/ DeleteFails(j)
  \/ Precheck(j) \/ NothingToSave(j) \/ Stage(j) \/ Probe(j)
  \/ Reserve(j) \/ ReserveRefused(j) \/ FinishUpload(j) \/ UploadFails(j) \/ Lookup(j)

Done == (\A j \in Jobs : pc[j] \in {"done", "lost"}) /\ UNCHANGED vars

Next ==
  \/ \E j \in Jobs : JobStep(j)
  \/ \E j \in Mortal : RunnerLost(j)
  \/ \E s \in Evictable : EvictEntry(s)
  \/ Done

Spec == Init /\ [][Next]_vars

-----------------------------------------------------------------------------
\* The entry a job could not validate is in the cache no more.
PoisonGone(j) == store[matched[j]] # origin[j]

\* A deletion that was not complete is reported (post.ts:2047).
Reported(j) == failed[j] \/ repair[j] = "incomplete"

\* A job whose post step ended has removed the entry of its own ref that it
\* could not validate, or said that it could not, however many jobs repair the
\* key at once and whatever replacement a lost reservation is blamed on (#473).
PoisonGoneOrReported ==
  \A j \in Jobs :
    pc[j] = "done" /\ invalid[j] /\ matched[j][2] = ref[j] => PoisonGone(j) \/ Reported(j)

\* A poisoned entry under the exact key that survives its repair blocks every
\* replacement: the job must fail, not only warn, unless the save policy let
\* it upload nothing anyway.
SurvivingPoisonFails ==
  \A j \in Jobs :
    pc[j] = "done" /\ invalid[j] /\ matched[j] = Here(j) /\ result[j] # "policy-skip" =>
      PoisonGone(j) \/ failed[j]

\* What a repair publishes is whole, though the workflow removed files of the
\* toolchain between main and post.
ReplacementsWhole ==
  \A s \in Slots :
    store[s] # Nothing /\ store[s].by \in Jobs /\ invalid[store[s].by] => store[s].whole
=============================================================================
