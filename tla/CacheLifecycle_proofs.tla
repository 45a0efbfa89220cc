----------------------- MODULE CacheLifecycle_proofs -----------------------
(***************************************************************************)
(* Proofs about CacheLifecycle for any number of jobs, lockfiles, crates   *)
(* and cache entries: type correctness; that a job whose main step         *)
(* returned uploads nothing that a clean audit has not cleared; and that   *)
(* the shared store holds what the jobs say they saved, and nothing a      *)
(* complete repair was to remove.                                          *)
(*                                                                         *)
(* The lifecycle knows of its audit only that a clean conclusion rests on  *)
(* a look-up after the launch.  The second part shows that the audit does  *)
(* give that: for every lockfile and every number of concurrent requests,  *)
(* YankAudit keeps its types and implements AuditVerdict.                  *)
(***************************************************************************)
EXTENDS CacheLifecycle, YankAudit, TLAPS

\* Nothing is matched before its restore settles, and a recorded match comes
\* with the entry that was downloaded for it.
MatchHasOrigin(j, y) ==
  /\ matched[j][y] # NoKey => origin[j][y] # NoKey /\ origin[j][y][1] = matched[j][y]
  /\ pc[j] = "queued" \/ (pc[j] = "restore" /\ y \in layersLeft[j]) =>
       matched[j][y] = NoKey

MatchedHasOrigin == \A j \in Jobs, y \in Layers : MatchHasOrigin(j, y)

\* Where a job stands with its audit: nothing is launched, concluded or
\* uploaded before main returns; if main returned after restoring dependency
\* entries the audit was started, and post is past the join only with a clean
\* verdict; and neither the worker nor post can find clean a lockfile with a
\* crate that was yanked before the launch.
AuditPhase(j) ==
  /\ pc[j] \in {"queued", "restore", "prepare"} =>
       main[j] = "running" /\ auditFile[j] = "absent" /\ verdict[j] = "none"
  /\ pc[j] \in {"queued", "restore", "prepare", "build", "post", "join"} =>
       uploaded[j] = {}
  /\ pc[j] = "build" => main[j] = "returned"
  /\ main[j] = "returned" /\ depKeys[j] # {} => started[j]
  /\ main[j] = "returned" /\ depKeys[j] # {}
       /\ (pc[j] \in {"save", "upload", "probe"} \/ uploaded[j] # {}) =>
         verdict[j] = "clean"
  /\ auditFile[j] = "clean" \/ verdict[j] = "clean" => Deps(j) \cap seen[j] = {}

\* The inductive invariant.
IInv ==
  /\ TypeOK
  /\ MatchedHasOrigin
  /\ \A j \in Jobs : AuditPhase(j)

\* post saves some layer as long as one is left.
LEMMA CurrentLeft ==
  ASSUME NEW j \in Jobs, layersLeft[j] \subseteq {"build", "target", "registry"},
         layersLeft[j] # {}
  PROVE  Current(j) \in layersLeft[j]
<1> DEFINE P(y) == \/ y = "build"
                   \/ y = "target" /\ "build" \notin layersLeft[j]
                   \/ layersLeft[j] = {"registry"}
<1>1. \E y \in layersLeft[j] : P(y)
  <2>1. CASE "build" \in layersLeft[j]
    BY <2>1
  <2>2. CASE "build" \notin layersLeft[j] /\ "target" \in layersLeft[j]
    BY <2>2
  <2>3. CASE "build" \notin layersLeft[j] /\ "target" \notin layersLeft[j]
    <3>1. layersLeft[j] = {"registry"}
      BY <2>3
    <3> QED BY <3>1
  <2> QED BY <2>1, <2>2, <2>3
<1>2. (CHOOSE y \in layersLeft[j] : P(y)) \in layersLeft[j]
  BY <1>1
<1> QED BY <1>2 DEF Current

\* While post saves, the current layer is an enabled one.
LEMMA CurrentLayer ==
  ASSUME TypeOK, NEW j \in Jobs, layersLeft[j] # {}
  PROVE  Current(j) \in Layers
<1>1. layersLeft[j] \subseteq Layers
  BY DEF TypeOK
<1>2. layersLeft[j] \subseteq {"build", "target", "registry"}
  BY <1>1, LayersType
<1> QED BY <1>1, <1>2, CurrentLeft

LEMMA InitType == Init => TypeOK
<1> SUFFICES ASSUME Init PROVE TypeOK
  OBVIOUS
<1>1. Layers \in SUBSET Layers
  OBVIOUS
<1> QED BY <1>1 DEF Init, TypeOK, PCs, AuditFiles, SaveStatuses
-----------------------------------------------------------------------------
\* Preservation of TypeOK, by the part of the system that moves.
LEMMA WorldType == TypeOK /\ World => TypeOK'
<1> USE DEF vars, storeVars, restoreVars, auditVars, buildVars, saveVars, repairVars
<1> SUFFICES ASSUME TypeOK, World PROVE TypeOK'
  OBVIOUS
<1>1. ASSUME NEW c \in Crates, YankCrate(c) PROVE TypeOK'
  BY <1>1 DEF YankCrate, TypeOK
<1>2. ASSUME NEW k \in Evictable, EvictEntry(k) PROVE TypeOK'
  BY <1>2 DEF EvictEntry, TypeOK
<1>3. ASSUME NEW j \in Jobs, AuditWorker(j) PROVE TypeOK'
  BY <1>3 DEF AuditWorker, Conclusions, AuditFiles, TypeOK
<1>4. ASSUME NEW j \in Mortal, RunnerLost(j) PROVE TypeOK'
  <2>1. j \in Jobs
    BY Bounds
  <2>2. [y \in Layers |-> {}] \in [Layers -> SUBSET Crates]
    OBVIOUS
  <2> QED BY <1>4, <2>1, <2>2 DEF RunnerLost, Leave, Goto, PCs, AuditFiles, TypeOK
<1> QED BY <1>1, <1>2, <1>3, <1>4 DEF World

LEMMA MainStepType ==
  ASSUME TypeOK, MatchedHasOrigin, NEW j \in Jobs, MainStep(j)
  PROVE  TypeOK'
<1> USE DEF vars, storeVars, restoreVars, auditVars, buildVars, saveVars, repairVars
<1>1. CASE ResolveThrows(j)
  BY <1>1 DEF ResolveThrows, Goto, PCs, TypeOK
<1>2. CASE Resolve(j)
  BY <1>2 DEF Resolve, Goto, PCs, TypeOK
<1>3. ASSUME NEW y \in Layers, RestoreMiss(j, y) PROVE TypeOK'
  BY <1>3 DEF RestoreMiss, RestoreSettles, TypeOK
<1>4. ASSUME NEW y \in Layers, NEW k \in Keys, k \in Candidates(j, y)
      PROVE  store[k] \in Entries /\ store[k].crates \in SUBSET Crates
  <2>1. store[k] # NoEntry
    BY <1>4 DEF Candidates
  <2> QED BY <2>1 DEF TypeOK, Entries
<1>5. ASSUME NEW y \in Layers, NEW k \in Keys, RestoreTree(j, y, k) PROVE TypeOK'
  BY <1>4, <1>5 DEF RestoreTree, RestoreSettles, Downloads, TypeOK
<1>6. ASSUME NEW k \in Keys, BuildPayloadUnusable(j, k) PROVE TypeOK'
  BY <1>4, <1>6 DEF BuildPayloadUnusable, RestoreSettles, Downloads, TypeOK
<1>7. ASSUME NEW k \in Keys, DownloadRegistry(j, k) PROVE TypeOK'
  BY <1>4, <1>7 DEF DownloadRegistry, RestoreSettles, Downloads, TypeOK
<1>8. CASE ExtractRegistry(j)
  <2>1. CASE RegistryWaits(j)
    <3>1. /\ matched[j]["registry"] \in Keys
          /\ origin[j]["registry"] \in Keys \X Entries
      BY <2>1 DEF RegistryWaits, MatchedHasOrigin, MatchHasOrigin, TypeOK
    <3>2. origin[j]["registry"][2].crates \in SUBSET Crates
      BY <3>1 DEF Entries
    <3>3. /\ pc' \in [Jobs -> PCs]
          /\ UNCHANGED <<storeVars, yanked, lock, layersLeft, origin, auditVars,
                         main, status, compiles, saveVars, repairVars>>
      BY <1>8 DEF ExtractRegistry, Goto, PCs, TypeOK
    <3>4. depKeys' \in [Jobs -> SUBSET Keys]
      BY <1>8, <3>1 DEF ExtractRegistry, TypeOK
    <3>5. disk' \in [Jobs -> [Layers -> SUBSET Crates]]
      <4>1. "registry" \in Layers
        BY <2>1 DEF RegistryWaits
      <4>2. \/ UNCHANGED disk
            \/ disk' = [disk EXCEPT ![j]["registry"] = origin[j]["registry"][2].crates]
        BY <1>8 DEF ExtractRegistry
      <4>3. disk \in [Jobs -> [Layers -> SUBSET Crates]]
        BY DEF TypeOK
      <4>4. ASSUME NEW y \in Layers, NEW C \in SUBSET Crates
            PROVE  [disk EXCEPT ![j][y] = C] \in [Jobs -> [Layers -> SUBSET Crates]]
        BY <4>3
      <4>5. [disk EXCEPT ![j]["registry"] = origin[j]["registry"][2].crates]
              \in [Jobs -> [Layers -> SUBSET Crates]]
        BY <3>2, <4>1, <4>4
      <4>6. CASE UNCHANGED disk
        BY <4>3, <4>6
      <4>7. CASE disk' = [disk EXCEPT ![j]["registry"] = origin[j]["registry"][2].crates]
        BY <4>5, <4>7, Zenon
      <4> QED BY <4>2, <4>6, <4>7
    <3>6. matched' \in [Jobs -> [Layers -> Keys \cup {NoKey}]]
      <4>1. "registry" \in Layers
        BY <2>1 DEF RegistryWaits
      <4>2. \/ UNCHANGED matched
            \/ matched' = [matched EXCEPT ![j]["registry"] = NoKey]
        BY <1>8 DEF ExtractRegistry
      <4>3. matched \in [Jobs -> [Layers -> Keys \cup {NoKey}]]
        BY DEF TypeOK
      <4>4. ASSUME NEW y \in Layers
            PROVE  [matched EXCEPT ![j][y] = NoKey] \in [Jobs -> [Layers -> Keys \cup {NoKey}]]
        BY <4>3
      <4> QED BY <4>1, <4>2, <4>3, <4>4, Zenon
    <3> QED BY <3>3, <3>4, <3>5, <3>6 DEF TypeOK
  <2>2. CASE ~RegistryWaits(j)
    BY <1>8, <2>2 DEF ExtractRegistry, Goto, PCs, TypeOK
  <2> QED BY <2>1, <2>2
<1>9. CASE MainThrows(j)
  BY <1>9 DEF MainThrows, Goto, PCs, TypeOK
<1>10. CASE LaunchAudit(j)
  <2>1. auditFile' \in [Jobs -> AuditFiles]
    BY <1>10 DEF LaunchAudit, AuditFiles, TypeOK
  <2>2. started' \in [Jobs -> BOOLEAN]
    <3>1. started' = [started EXCEPT ![j] = depKeys[j] # {}]
      BY <1>10 DEF LaunchAudit
    <3>2. started \in [Jobs -> BOOLEAN]
      BY DEF TypeOK
    <3>3. CASE depKeys[j] = {}
      <4>1. started' = [started EXCEPT ![j] = FALSE]
        BY <3>1, <3>3, Zenon
      <4> QED BY <3>2, <4>1
    <3>4. CASE depKeys[j] # {}
      <4>1. started' = [started EXCEPT ![j] = TRUE]
        BY <3>1, <3>4, Zenon
      <4> QED BY <3>2, <4>1
    <3> QED BY <3>3, <3>4
  <2> QED BY <1>10, <2>1, <2>2 DEF LaunchAudit, Goto, PCs, TypeOK
<1> QED BY <1>1, <1>2, <1>3, <1>5, <1>6, <1>7, <1>8, <1>9, <1>10 DEF MainStep

LEMMA BuildType ==
  ASSUME TypeOK, NEW j \in Jobs, NEW st \in {"success", "failure", "cancelled"},
         NEW S \in SUBSET Crates, BuildEnds(j, st, S)
  PROVE  TypeOK'
<1> USE DEF vars, storeVars, restoreVars, auditVars, buildVars, saveVars, repairVars
<1>1. disk' \in [Jobs -> [Layers -> SUBSET Crates]]
  <2> DEFINE D == [y \in Layers |->
                     disk[j][y] \cup (IF y = "build" /\ "target" \in Layers
                                      THEN S \ disk[j]["target"] ELSE S)]
  <2>1. D \in [Layers -> SUBSET Crates]
    BY DEF TypeOK
  <2>2. disk' = [disk EXCEPT ![j] = D]
    BY DEF BuildEnds, BuildOutputs, TypeOK
  <2> HIDE DEF D
  <2> QED BY <2>1, <2>2 DEF TypeOK
<1>2. compiles' \in [Jobs -> BOOLEAN]
  BY DEF BuildEnds, TypeOK
<1>3. status' \in [Jobs -> {"running", "success", "failure", "cancelled"}]
  BY DEF BuildEnds, TypeOK
<1> QED BY <1>1, <1>2, <1>3 DEF BuildEnds, Goto, PCs, TypeOK

LEMMA DepsType == ASSUME TypeOK, NEW j \in Jobs PROVE Deps(j) \in SUBSET Crates
BY LockDepsType DEF TypeOK, Deps

\* The steps of post that settle a layer record one of the save statuses.
LEMMA SettleType ==
  ASSUME TypeOK, NEW j \in Jobs, NEW y \in Layers, NEW st \in SaveStatuses,
         Settle(j, y, st)
  PROVE  /\ saveResult' \in [Jobs -> [Layers -> SaveStatuses]]
         /\ layersLeft' \in [Jobs -> SUBSET Layers]
         /\ pc' \in [Jobs -> PCs]
BY DEF Settle, Goto, PCs, TypeOK

LEMMA NegativeIdType ==
  ASSUME TypeOK, NEW j \in Jobs, NEW y \in Layers, NegativeId(j, y)
  PROVE  /\ saveResult' \in [Jobs -> [Layers -> SaveStatuses]]
         /\ layersLeft' \in [Jobs -> SUBSET Layers]
         /\ pc' \in [Jobs -> PCs]
<1>1. CASE y = "registry" /\ RegistryFormat = "soldr-v2"
  BY <1>1 DEF NegativeId, Goto, PCs, TypeOK
<1>2. CASE ~(y = "registry" /\ RegistryFormat = "soldr-v2")
  <2>1. \E st \in SaveStatuses : Settle(j, y, st)
    BY <1>2 DEF NegativeId, SaveStatuses
  <2> QED BY <2>1, SettleType
<1> QED BY <1>1, <1>2

LEMMA LeaveType ==
  ASSUME TypeOK, NEW j \in Jobs, Leave(j)
  PROVE  /\ pc' \in [Jobs -> PCs]
         /\ disk' \in [Jobs -> [Layers -> SUBSET Crates]]
         /\ auditFile' \in [Jobs -> AuditFiles]
         /\ compiles' \in [Jobs -> BOOLEAN]
         /\ layersLeft' \in [Jobs -> SUBSET Layers]
<1>1. [y \in Layers |-> {}] \in [Layers -> SUBSET Crates]
  OBVIOUS
<1> QED BY <1>1 DEF Leave, Goto, PCs, AuditFiles, TypeOK

\* What post may conclude of an audit.
LEMMA VerdictType ==
  ASSUME NEW j \in Jobs
  PROVE  JoinVerdicts(j) \subseteq {"clean", "yanked", "not-checked"}
BY DEF JoinVerdicts, Conclusions

LEMMA RepairStepType ==
  ASSUME TypeOK, NEW j \in Jobs,
         \/ PostStart(j) \/ JoinAudit(j) \/ \E k \in Keys : ListPoisoned(j, k)
         \/ \E e \in listed[j] : DeleteListed(j, e)
         \/ AbortReported(j)
  PROVE  TypeOK'
<1> USE DEF vars, storeVars, restoreVars, auditVars, buildVars, saveVars, repairVars
<1>1. CASE PostStart(j)
  BY <1>1 DEF PostStart, FirstDuty, Goto, PCs, TypeOK
<1>2. CASE JoinAudit(j)
  <2>1. PICK v \in JoinVerdicts(j) :
          /\ verdict' = [verdict EXCEPT ![j] = v]
          /\ Goto(j, IF v = "clean" THEN "save" ELSE "abort")
          /\ toList' = [toList EXCEPT ![j] = IF v = "yanked" THEN depKeys[j] ELSE {}]
          /\ repair' = [repair EXCEPT ![j] = IF v = "yanked" THEN "complete" ELSE @]
    BY <1>2 DEF JoinAudit
  <2>2. v \in {"clean", "yanked", "not-checked"}
    BY VerdictType
  <2>3. /\ verdict' \in [Jobs -> {"none", "clean", "yanked", "not-checked"}]
        /\ pc' \in [Jobs -> PCs]
    BY <2>1, <2>2 DEF Goto, PCs, TypeOK
  <2>4. toList' \in [Jobs -> SUBSET Keys]
    BY <2>1 DEF TypeOK
  <2>5. repair' \in [Jobs -> {"none", "complete", "incomplete"}]
    BY <2>1 DEF TypeOK
  <2> QED BY <1>2, <2>3, <2>4, <2>5 DEF JoinAudit, TypeOK
<1>3. ASSUME NEW k \in Keys, ListPoisoned(j, k) PROVE TypeOK'
  <2> DEFINE kept == IF store[k] = NoEntry THEN {} ELSE {<<k, store[k].by>>}
  <2>1. kept \in SUBSET (Keys \X Owners)
    <3>1. CASE store[k] = NoEntry
      BY <3>1
    <3>2. CASE store[k] # NoEntry
      <4>1. store[k] \in Entries
        BY <3>2 DEF TypeOK
      <4>2. store[k].by \in Owners
        BY <4>1 DEF Entries
      <4> QED BY <3>2, <4>2
    <3> QED BY <3>1, <3>2
  <2>2. UNCHANGED listed \/ listed' = [listed EXCEPT ![j] = @ \cup kept]
    BY <1>3 DEF ListPoisoned
  <2> HIDE DEF kept
  <2>3. listed' \in [Jobs -> SUBSET (Keys \X Owners)]
    <3> DEFINE Ids == Keys \X Owners
    <3>1. listed \in [Jobs -> SUBSET Ids] /\ kept \in SUBSET Ids
      BY <2>1 DEF TypeOK
    <3> HIDE DEF Ids
    <3>2. listed' \in [Jobs -> SUBSET Ids]
      BY <2>2, <3>1
    <3> QED BY <3>2 DEF Ids
  <2>4. repair' \in [Jobs -> {"none", "complete", "incomplete"}]
    BY <1>3 DEF ListPoisoned, CountFailure, TypeOK
  <2> QED BY <1>3, <2>3, <2>4 DEF ListPoisoned, TypeOK
<1>4. ASSUME NEW e \in listed[j], DeleteListed(j, e) PROVE TypeOK'
  <2>1. store' \in [Keys -> Entries \cup {NoEntry}]
    BY <1>4 DEF DeleteListed, TypeOK
  <2>2. repair' \in [Jobs -> {"none", "complete", "incomplete"}]
    BY <1>4 DEF DeleteListed, CountFailure, TypeOK
  <2>3. listed' \in [Jobs -> SUBSET (Keys \X Owners)]
    BY <1>4 DEF DeleteListed, TypeOK
  <2> QED BY <1>4, <2>1, <2>2, <2>3 DEF DeleteListed, TypeOK
<1>5. CASE AbortReported(j)
  BY <1>5, LeaveType DEF AbortReported, TypeOK
<1> QED BY <1>1, <1>2, <1>3, <1>4, <1>5

LEMMA SkipReasonType ==
  ASSUME NEW j \in Jobs, NEW y \in Layers
  PROVE  SkipReason(j, y) \in SaveStatuses
BY DEF SkipReason, BuildSkip, TargetSkip, RegistrySkip, SaveStatuses

LEMMA SaveStepType ==
  ASSUME TypeOK, NEW j \in Jobs,
         \/ SkipSave(j) \/ ArchiveFails(j) \/ Reserve(j) \/ ReserveRefused(j)
         \/ FinishUpload(j) \/ UploadFails(j) \/ ProbeExactKey(j) \/ PostEnds(j)
  PROVE  TypeOK'
<1> USE DEF vars, storeVars, restoreVars, auditVars, buildVars, saveVars, repairVars
<1> DEFINE y == Current(j)
<1>1. layersLeft[j] # {} => y \in Layers
  BY CurrentLayer
<1>2. layersLeft[j] # {} => ExactKey(j, y) \in Keys
  BY <1>1 DEF ExactKey, Keys, TypeOK
<1> HIDE DEF y
<1>3. CASE SkipSave(j)
  <2>1. layersLeft[j] # {} /\ Settle(j, y, SkipReason(j, y))
    BY <1>3 DEF SkipSave, SaveStep, y
  <2>2. SkipReason(j, y) \in SaveStatuses
    BY <1>1, <2>1, SkipReasonType
  <2> QED BY <1>1, <1>3, <2>1, <2>2, SettleType DEF SkipSave, SaveStep, TypeOK
<1>4. CASE ArchiveFails(j)
  <2>1. layersLeft[j] # {} /\ \E st \in SaveStatuses : Settle(j, y, st)
    BY <1>4 DEF ArchiveFails, SaveStep, SaveStatuses, y
  <2> QED BY <1>1, <1>4, <2>1, SettleType DEF ArchiveFails, SaveStep, TypeOK
<1>5. CASE Reserve(j)
  <2>1. /\ layersLeft[j] # {}
        /\ uploading' = [uploading EXCEPT ![j] = ExactKey(j, y)]
    BY <1>5 DEF Reserve, SaveStep, y
  <2> QED BY <1>2, <1>5, <2>1 DEF Reserve, SaveStep, Goto, PCs, TypeOK
<1>6. CASE ReserveRefused(j)
  <2>1. layersLeft[j] # {} /\ NegativeId(j, y)
    BY <1>6 DEF ReserveRefused, SaveStep, y
  <2> QED BY <1>1, <1>6, <2>1, NegativeIdType DEF ReserveRefused, SaveStep, TypeOK
<1>7. CASE FinishUpload(j)
  <2>1. /\ layersLeft[j] # {}
        /\ store' = [store EXCEPT ![uploading[j]] = [crates |-> disk[j][y], by |-> j]]
        /\ uploaded' = [uploaded EXCEPT ![j] = @ \cup {y}]
        /\ Settle(j, y, "saved")
    BY <1>7 DEF FinishUpload, SaveStep, y
  <2>2. [crates |-> disk[j][y], by |-> j] \in Entries
    BY <1>1, <2>1 DEF Entries, Owners, TypeOK
  <2>3. store' \in [Keys -> Entries \cup {NoEntry}]
    BY <2>1, <2>2 DEF TypeOK
  <2>4. uploaded' \in [Jobs -> SUBSET Layers]
    BY <1>1, <2>1 DEF TypeOK
  <2>5. uploading' \in [Jobs -> Keys \cup {NoKey}]
    BY <1>7 DEF FinishUpload, TypeOK
  <2>6. "saved" \in SaveStatuses
    BY DEF SaveStatuses
  <2> QED BY <1>1, <1>7, <2>1, <2>3, <2>4, <2>5, <2>6, SettleType
          DEF FinishUpload, SaveStep, TypeOK
<1>8. CASE UploadFails(j)
  <2>1. layersLeft[j] # {} /\ NegativeId(j, y)
    BY <1>8 DEF UploadFails, SaveStep, y
  <2>2. uploading' \in [Jobs -> Keys \cup {NoKey}]
    BY <1>8 DEF UploadFails, TypeOK
  <2> QED BY <1>1, <1>8, <2>1, <2>2, NegativeIdType DEF UploadFails, SaveStep, TypeOK
<1>9. CASE ProbeExactKey(j)
  <2>1. layersLeft[j] # {} /\ \E st \in SaveStatuses : Settle(j, y, st)
    BY <1>9 DEF ProbeExactKey, SaveStep, SaveStatuses, y
  <2> QED BY <1>1, <1>9, <2>1, SettleType DEF ProbeExactKey, SaveStep, TypeOK
<1>10. CASE PostEnds(j)
  BY <1>10, LeaveType DEF PostEnds, TypeOK
<1> QED BY <1>3, <1>4, <1>5, <1>6, <1>7, <1>8, <1>9, <1>10
-----------------------------------------------------------------------------
\* What MatchHasOrigin and AuditPhase say of a job, they say of this.
Local(j) == <<pc[j], lock[j], layersLeft[j], matched[j], origin[j], depKeys[j],
              main[j], started[j], auditFile[j], seen[j], verdict[j], uploaded[j]>>

\* A step of a job, of its worker or of its runner leaves other jobs alone.
LEMMA OthersUntouched ==
  ASSUME TypeOK, NEW i \in Jobs, NEW j \in Jobs, i # j,
         JobStep(j) \/ AuditWorker(j) \/ RunnerLost(j)
  PROVE  UNCHANGED Local(i)
<1> USE DEF vars, storeVars, restoreVars, auditVars, buildVars, saveVars, repairVars, Local
<1>1. CASE MainStep(j)
  <2>1. CASE ResolveThrows(j) \/ Resolve(j) \/ MainThrows(j) \/ LaunchAudit(j)
    BY <2>1 DEF ResolveThrows, Resolve, MainThrows, LaunchAudit, Goto, TypeOK
  <2>2. CASE \E y \in Layers : RestoreMiss(j, y)
    BY <2>2 DEF RestoreMiss, RestoreSettles, TypeOK
  <2>3. CASE \E y \in Layers, k \in Keys : RestoreTree(j, y, k)
    BY <2>3 DEF RestoreTree, RestoreSettles, Downloads, TypeOK
  <2>4. CASE \E k \in Keys : BuildPayloadUnusable(j, k) \/ DownloadRegistry(j, k)
    BY <2>4 DEF BuildPayloadUnusable, DownloadRegistry, RestoreSettles, Downloads, TypeOK
  <2>5. CASE ExtractRegistry(j)
    BY <2>5 DEF ExtractRegistry, Goto, TypeOK
  <2> QED BY <1>1, <2>1, <2>2, <2>3, <2>4, <2>5 DEF MainStep
<1>2. CASE BuildSucceeds(j) \/ BuildFails(j)
  BY <1>2 DEF BuildSucceeds, BuildFails, BuildEnds, Goto, TypeOK
<1>3. CASE PostStep(j)
  <2>1. CASE PostStart(j) \/ JoinAudit(j)
    BY <2>1 DEF PostStart, JoinAudit, Goto, TypeOK
  <2>2. CASE \/ \E k \in Keys : ListPoisoned(j, k)
             \/ \E e \in listed[j] : DeleteListed(j, e)
    BY <2>2 DEF ListPoisoned, DeleteListed
  <2>3. CASE AbortReported(j) \/ PostEnds(j)
    BY <2>3 DEF AbortReported, PostEnds, Leave, Goto, TypeOK
  <2>4. CASE \/ SkipSave(j) \/ ArchiveFails(j) \/ Reserve(j) \/ ReserveRefused(j)
             \/ FinishUpload(j) \/ UploadFails(j) \/ ProbeExactKey(j)
    BY <2>4 DEF SkipSave, ArchiveFails, Reserve, ReserveRefused, FinishUpload,
         UploadFails, ProbeExactKey, SaveStep, Settle, NegativeId, Goto, TypeOK
  <2> QED BY <1>3, <2>1, <2>2, <2>3, <2>4 DEF PostStep
<1>4. CASE AuditWorker(j)
  BY <1>4 DEF AuditWorker, TypeOK
<1>5. CASE RunnerLost(j)
  BY <1>5 DEF RunnerLost, Leave, Goto, TypeOK
<1> QED BY <1>1, <1>2, <1>3, <1>4, <1>5 DEF JobStep

LEMMA LocalKeeps ==
  ASSUME NEW i \in Jobs, AuditPhase(i), \A y \in Layers : MatchHasOrigin(i, y),
         UNCHANGED Local(i)
  PROVE  AuditPhase(i)' /\ \A y \in Layers : MatchHasOrigin(i, y)'
BY DEF Local, AuditPhase, MatchHasOrigin, Deps

\* Beyond the restores a step that leaves the matches alone keeps them.
LEMMA MatchKeeps ==
  ASSUME NEW i \in Jobs, \A y \in Layers : MatchHasOrigin(i, y),
         UNCHANGED <<matched, origin>>,
         pc'[i] \in {"queued", "restore"} => pc'[i] = pc[i] /\ layersLeft'[i] \subseteq layersLeft[i]
  PROVE  \A y \in Layers : MatchHasOrigin(i, y)'
BY DEF MatchHasOrigin

LEMMA MatchStep ==
  ASSUME TypeOK, NEW j \in Jobs, \A y \in Layers : MatchHasOrigin(j, y),
         JobStep(j) \/ AuditWorker(j) \/ RunnerLost(j)
  PROVE  \A y \in Layers : MatchHasOrigin(j, y)'
<1> USE DEF vars, storeVars, restoreVars, auditVars, buildVars, saveVars, repairVars
<1>1. CASE ResolveThrows(j) \/ Resolve(j) \/ MainThrows(j) \/ LaunchAudit(j)
  BY <1>1 DEF ResolveThrows, Resolve, MainThrows, LaunchAudit, Goto, MatchHasOrigin, TypeOK
<1>2. ASSUME NEW y \in Layers, RestoreMiss(j, y)
      PROVE  \A z \in Layers : MatchHasOrigin(j, z)'
  BY <1>2 DEF RestoreMiss, RestoreSettles, MatchHasOrigin, TypeOK
<1>3. ASSUME NEW y \in Layers, NEW k \in Keys,
             \/ RestoreTree(j, y, k)
             \/ y = "registry" /\ DownloadRegistry(j, k)
      PROVE  \A z \in Layers : MatchHasOrigin(j, z)'
  <2>1. /\ matched' = [matched EXCEPT ![j][y] = k]
        /\ origin' = [origin EXCEPT ![j][y] = <<k, store[k]>>]
        /\ layersLeft' = [layersLeft EXCEPT ![j] = @ \ {y}]
        /\ UNCHANGED pc
    BY <1>3 DEF RestoreTree, DownloadRegistry, RestoreSettles, Downloads
  <2>2. <<k, store[k]>> # NoKey
    <3>1. store[k] # NoEntry
      BY <1>3 DEF RestoreTree, DownloadRegistry, Downloads, Candidates
    <3>2. <<k, store[k]>> \in Keys \X Entries
      BY <3>1 DEF TypeOK
    <3> QED BY <3>2, NoKeyFresh
  <2>3. pc[j] = "restore"
    BY <1>3 DEF RestoreTree, DownloadRegistry, RestoreSettles
  <2> QED BY <2>1, <2>2, <2>3 DEF MatchHasOrigin, TypeOK
<1>4. ASSUME NEW k \in Keys, BuildPayloadUnusable(j, k)
      PROVE  \A z \in Layers : MatchHasOrigin(j, z)'
  <2>1. /\ UNCHANGED <<matched, pc>>
        /\ origin' = [origin EXCEPT ![j]["build"] = <<k, store[k]>>]
        /\ layersLeft' = [layersLeft EXCEPT ![j] = @ \ {"build"}]
    BY <1>4 DEF BuildPayloadUnusable, RestoreSettles, Downloads
  <2>2. pc[j] = "restore" /\ "build" \in layersLeft[j]
    BY <1>4 DEF BuildPayloadUnusable, RestoreSettles
  <2> QED BY <2>1, <2>2 DEF MatchHasOrigin, TypeOK
<1>5. CASE ExtractRegistry(j)
  <2>1. UNCHANGED origin /\ pc'[j] = "prepare"
    BY <1>5 DEF ExtractRegistry, Goto, TypeOK
  <2>2. \A z \in Layers : matched'[j][z] = matched[j][z] \/ matched'[j][z] = NoKey
    <3>1. UNCHANGED matched \/ matched' = [matched EXCEPT ![j]["registry"] = NoKey]
      BY <1>5 DEF ExtractRegistry
    <3> QED BY <3>1 DEF TypeOK
  <2> QED BY <2>1, <2>2 DEF MatchHasOrigin
<1>6. CASE BuildSucceeds(j) \/ BuildFails(j)
  BY <1>6, MatchKeeps DEF BuildSucceeds, BuildFails, BuildEnds, Goto, TypeOK
<1>7. CASE PostStep(j)
  <2>1. UNCHANGED <<matched, origin>>
    BY <1>7 DEF PostStep, PostStart, JoinAudit, ListPoisoned, DeleteListed,
         AbortReported, SkipSave, ArchiveFails, Reserve, ReserveRefused,
         FinishUpload, UploadFails, ProbeExactKey, PostEnds, SaveStep
  <2>2. pc'[j] \notin {"queued", "restore"}
    <3>1. CASE PostStart(j) \/ JoinAudit(j)
      BY <3>1 DEF PostStart, FirstDuty, JoinAudit, Goto, TypeOK
    <3>2. CASE \/ \E k \in Keys : ListPoisoned(j, k)
               \/ \E e \in listed[j] : DeleteListed(j, e)
      BY <3>2 DEF ListPoisoned, DeleteListed
    <3>3. CASE AbortReported(j) \/ PostEnds(j)
      BY <3>3 DEF AbortReported, PostEnds, Leave, Goto, TypeOK
    <3>4. CASE \/ SkipSave(j) \/ ArchiveFails(j) \/ Reserve(j) \/ ReserveRefused(j)
               \/ FinishUpload(j) \/ UploadFails(j) \/ ProbeExactKey(j)
      BY <3>4 DEF SkipSave, ArchiveFails, Reserve, ReserveRefused, FinishUpload,
           UploadFails, ProbeExactKey, Settle, NegativeId, Goto, TypeOK
    <3> QED BY <1>7, <3>1, <3>2, <3>3, <3>4 DEF PostStep
  <2> QED BY <2>1, <2>2, MatchKeeps
<1>8. CASE AuditWorker(j) \/ RunnerLost(j)
  BY <1>8, MatchKeeps DEF AuditWorker, RunnerLost, Leave, Goto, TypeOK
<1>9. CASE MainStep(j)
  <2>1. ASSUME NEW k \in Keys, DownloadRegistry(j, k)
        PROVE  \A z \in Layers : MatchHasOrigin(j, z)'
    <3>1. "registry" \in Layers
      BY <2>1 DEF DownloadRegistry, RestoreSettles, TypeOK
    <3> QED BY <1>3, <2>1, <3>1
  <2> QED BY <1>1, <1>2, <1>3, <1>4, <1>5, <1>9, <2>1 DEF MainStep
<1> QED BY <1>6, <1>7, <1>8, <1>9 DEF JobStep

\* Nothing yanked before the launch is in a lockfile found clean.
LEMMA CleanMeansUnyanked ==
  ASSUME NEW j \in Jobs
  PROVE  "clean" \in Conclusions(j) => Deps(j) \cap seen[j] = {}
BY DEF Conclusions, MayLookClean

LEMMA PhaseStep ==
  ASSUME TypeOK, NEW j \in Jobs, AuditPhase(j),
         JobStep(j) \/ AuditWorker(j) \/ RunnerLost(j)
  PROVE  AuditPhase(j)'
<1> USE DEF vars, storeVars, restoreVars, auditVars, buildVars, saveVars, repairVars
<1>1. CASE ResolveThrows(j) \/ Resolve(j) \/ MainThrows(j)
  BY <1>1 DEF ResolveThrows, Resolve, MainThrows, Goto, AuditPhase, Deps, TypeOK
<1>2. CASE \E y \in Layers : RestoreMiss(j, y)
  BY <1>2 DEF RestoreMiss, RestoreSettles, AuditPhase, Deps, TypeOK
<1>3. CASE \E y \in Layers, k \in Keys : RestoreTree(j, y, k)
  BY <1>3 DEF RestoreTree, RestoreSettles, AuditPhase, Deps, TypeOK
<1>4. CASE \E k \in Keys : BuildPayloadUnusable(j, k) \/ DownloadRegistry(j, k)
  BY <1>4 DEF BuildPayloadUnusable, DownloadRegistry, RestoreSettles, AuditPhase, Deps, TypeOK
<1>5. CASE ExtractRegistry(j)
  <2>1. /\ pc[j] = "restore" /\ pc'[j] = "prepare"
        /\ UNCHANGED <<lock, main, started, auditFile, seen, verdict, uploaded>>
    BY <1>5 DEF ExtractRegistry, Goto, TypeOK
  <2> QED BY <2>1 DEF AuditPhase, Deps
<1>6. CASE LaunchAudit(j)
  <2>1. /\ pc[j] = "prepare" /\ pc'[j] = "build" /\ main'[j] = "returned"
        /\ started'[j] = (depKeys[j] # {})
        /\ UNCHANGED <<lock, depKeys, verdict, uploaded>>
    BY <1>6 DEF LaunchAudit, Goto, TypeOK
  <2>2. auditFile'[j] = "clean" => Deps(j) = {}
    BY <1>6 DEF LaunchAudit, AuditPhase, TypeOK
  <2>3. verdict[j] = "none" /\ uploaded[j] = {}
    BY <2>1 DEF AuditPhase
  <2> QED BY <2>1, <2>2, <2>3 DEF AuditPhase, Deps
<1>7. CASE BuildSucceeds(j) \/ BuildFails(j)
  BY <1>7 DEF BuildSucceeds, BuildFails, BuildEnds, Goto, AuditPhase, Deps, TypeOK
<1>8. CASE PostStart(j)
  <2>1. /\ pc[j] = "post" /\ pc'[j] = FirstDuty(j)
        /\ UNCHANGED <<lock, depKeys, main, started, auditFile, seen, verdict, uploaded>>
    BY <1>8 DEF PostStart, Goto, TypeOK
  <2> QED BY <2>1 DEF FirstDuty, AuditPhase, Deps
<1>9. CASE JoinAudit(j)
  <2>1. PICK v \in JoinVerdicts(j) :
          /\ verdict' = [verdict EXCEPT ![j] = v]
          /\ Goto(j, IF v = "clean" THEN "save" ELSE "abort")
    BY <1>9 DEF JoinAudit
  <2>2. /\ pc[j] = "join" /\ pc'[j] = (IF v = "clean" THEN "save" ELSE "abort")
        /\ verdict'[j] = v
        /\ UNCHANGED <<lock, depKeys, main, started, auditFile, seen, uploaded>>
    BY <1>9, <2>1 DEF JoinAudit, Goto, TypeOK
  <2>3. v = "clean" => Deps(j) \cap seen[j] = {}
    BY <2>1, CleanMeansUnyanked DEF JoinVerdicts, AuditPhase
  <2> QED BY <2>2, <2>3 DEF AuditPhase, Deps
<1>10. CASE \/ \E k \in Keys : ListPoisoned(j, k)
            \/ \E e \in listed[j] : DeleteListed(j, e)
  BY <1>10 DEF ListPoisoned, DeleteListed, AuditPhase, Deps
<1>11. CASE AbortReported(j) \/ PostEnds(j) \/ RunnerLost(j)
  BY <1>11 DEF AbortReported, PostEnds, RunnerLost, Leave, Goto, AuditPhase, Deps, TypeOK
<1>12. CASE \/ SkipSave(j) \/ ArchiveFails(j) \/ Reserve(j) \/ ReserveRefused(j)
            \/ FinishUpload(j) \/ UploadFails(j) \/ ProbeExactKey(j)
  <2>1. /\ pc[j] \in {"save", "upload", "probe"}
        /\ UNCHANGED <<lock, depKeys, main, started, auditFile, seen, verdict>>
    BY <1>12 DEF SkipSave, ArchiveFails, Reserve, ReserveRefused, FinishUpload,
         UploadFails, ProbeExactKey, SaveStep
  <2>2. pc'[j] \in {"save", "upload", "probe"}
    BY <1>12 DEF SkipSave, ArchiveFails, Reserve, ReserveRefused, FinishUpload,
         UploadFails, ProbeExactKey, Settle, NegativeId, Goto, TypeOK
  <2> QED BY <2>1, <2>2 DEF AuditPhase, Deps
<1>13. CASE AuditWorker(j)
  <2>1. /\ auditFile[j] = "pending" /\ auditFile'[j] \in Conclusions(j)
        /\ UNCHANGED <<pc, lock, depKeys, main, started, seen, verdict, uploaded>>
    BY <1>13 DEF AuditWorker, TypeOK
  <2>2. auditFile'[j] = "clean" => Deps(j) \cap seen[j] = {}
    BY <2>1, CleanMeansUnyanked
  <2> QED BY <2>1, <2>2 DEF AuditPhase, Deps
<1> QED BY <1>1, <1>2, <1>3, <1>4, <1>5, <1>6, <1>7, <1>8, <1>9, <1>10, <1>11, <1>12, <1>13
        DEF JobStep, MainStep, PostStep
-----------------------------------------------------------------------------
LEMMA InitIInv == Init => IInv
<1> SUFFICES ASSUME Init PROVE IInv
  OBVIOUS
<1>1. TypeOK
  BY InitType
<1>2. MatchedHasOrigin
  BY DEF Init, MatchedHasOrigin, MatchHasOrigin
<1>3. \A j \in Jobs : AuditPhase(j)
  BY DEF Init, AuditPhase
<1> QED BY <1>1, <1>2, <1>3 DEF IInv

\* Type correctness of a step, from that of the parts.
LEMMA JobStepType ==
  ASSUME TypeOK, MatchedHasOrigin, NEW j \in Jobs, JobStep(j)
  PROVE  TypeOK'
<1>1. CASE MainStep(j)
  BY <1>1, MainStepType
<1>2. CASE BuildSucceeds(j) \/ BuildFails(j)
  BY <1>2, BuildType, DepsType DEF BuildSucceeds, BuildFails
<1>3. CASE PostStep(j)
  BY <1>3, RepairStepType, SaveStepType DEF PostStep
<1> QED BY <1>1, <1>2, <1>3 DEF JobStep

LEMMA NextIInv == IInv /\ [Next]_vars => IInv'
<1> SUFFICES ASSUME IInv, [Next]_vars PROVE IInv'
  OBVIOUS
<1> USE DEF IInv
<1>1. ASSUME NEW j \in Jobs, JobStep(j) \/ AuditWorker(j) \/ RunnerLost(j), TypeOK'
      PROVE  IInv'
  <2>1. ASSUME NEW i \in Jobs
        PROVE  AuditPhase(i)' /\ \A y \in Layers : MatchHasOrigin(i, y)'
    <3>1. AuditPhase(i) /\ \A y \in Layers : MatchHasOrigin(i, y)
      BY DEF MatchedHasOrigin
    <3>2. CASE i = j
      BY <1>1, <3>1, <3>2, MatchStep, PhaseStep
    <3>3. CASE i # j
      BY <1>1, <3>1, <3>3, OthersUntouched, LocalKeeps
    <3> QED BY <3>2, <3>3
  <2> QED BY <1>1, <2>1 DEF MatchedHasOrigin
<1>2. CASE \E j \in Jobs : JobStep(j)
  BY <1>1, <1>2, JobStepType
<1>3. CASE World
  <2>1. TypeOK'
    BY <1>3, WorldType
  <2>2. CASE \/ \E c \in Crates : YankCrate(c)
             \/ \E k \in Evictable : EvictEntry(k)
    <3>1. \A i \in Jobs : UNCHANGED Local(i)
      BY <2>2 DEF YankCrate, EvictEntry, Local, restoreVars, auditVars, saveVars
    <3>2. \A i \in Jobs : AuditPhase(i) /\ \A y \in Layers : MatchHasOrigin(i, y)
      BY DEF MatchedHasOrigin
    <3>3. \A i \in Jobs : AuditPhase(i)' /\ \A y \in Layers : MatchHasOrigin(i, y)'
      BY <3>1, <3>2, LocalKeeps
    <3> QED BY <2>1, <3>3 DEF MatchedHasOrigin
  <2>3. CASE \E j \in Jobs : AuditWorker(j) \/ RunnerLost(j)
    BY <1>1, <2>1, <2>3
  <2> QED BY <1>3, <2>2, <2>3, Bounds DEF World
<1>4. CASE UNCHANGED vars
  BY <1>4 DEF vars, storeVars, restoreVars, auditVars, buildVars, saveVars, repairVars,
       TypeOK, MatchedHasOrigin, MatchHasOrigin, AuditPhase, Deps
<1> QED BY <1>2, <1>3, <1>4 DEF Next, Done

LEMMA Inductive == Spec => []IInv
BY InitIInv, NextIInv, PTL DEF Spec

\* Every variable keeps the type TypeOK gives it, whatever the number of jobs,
\* lockfiles, crates and entries.
THEOREM TypeCorrect == Spec => []TypeOK
<1>1. IInv => TypeOK
  BY DEF IInv
<1> QED BY <1>1, Inductive, PTL

\* post.ts joins the audit before any save: a job whose main step returned
\* after restoring dependency entries uploads nothing without a clean verdict.
THEOREM AuditedUploads == Spec => []AuditBeforeUpload
<1>1. IInv => AuditBeforeUpload
  BY DEF IInv, AuditBeforeUpload, AuditPhase
<1> QED BY <1>1, Inductive, PTL

\* However the worker, its deadline and the foreground recheck interleave with
\* crates.io, a lockfile with a crate yanked before the launch uploads nothing.
THEOREM YankedLocksBlocked == Spec => []YankedLockNeverUploads
<1>1. IInv => YankedLockNeverUploads
  BY DEF IInv, YankedLockNeverUploads, AuditPhase
<1> QED BY <1>1, Inductive, PTL
-----------------------------------------------------------------------------
(***************************************************************************)
(* What the store holds.  An entry is its owner's work: the layer is among *)
(* those the owner uploaded, once and whole.  So no job puts back what a   *)
(* repair removes, and what a repair has not removed yet is still on one   *)
(* of its lists.                                                           *)
(***************************************************************************)
Posting == {"post", "join", "abort", "save", "upload", "probe"}
Saving  == {"save", "upload", "probe"}

SaveOk(j) ==
  /\ pc[j] \in Posting => status[j] # "running"
  /\ pc[j] \in Posting /\ status[j] = "success" /\ "target" \in Layers => Deps(j) \subseteq disk[j]["target"]
  /\ pc[j] \in Saving => layersLeft[j] \cap uploaded[j] = {}
  /\ pc[j] = "upload" =>
       /\ layersLeft[j] # {} /\ uploading[j] = ExactKey(j, Current(j))
       /\ SkipReason(j, Current(j)) = "none"
  /\ pc[j] \in {"queued", "restore", "prepare", "build", "post", "join"} => repair[j] = "none"
  /\ RegistryFormat = "soldr-v2" =>
       \A y \in Layers \ {"build"} : saveResult[j][y] = "saved" => y \in uploaded[j]

StoreMade ==
  \A k \in Keys : store[k] # NoEntry /\ store[k].by \in Jobs => k[1] \in uploaded[store[k].by]

RestoredMade(j) ==
  \A y \in Layers : origin[j][y] # NoKey /\ origin[j][y][2].by \in Jobs =>
    origin[j][y][1][1] \in uploaded[origin[j][y][2].by]

StillListed(j) ==
  repair[j] = "complete" =>
    \A y \in Suspects(j) :
      LET k == matched[j][y]  b == origin[j][y][2].by IN
      store[k] = NoEntry \/ store[k].by # b \/ k \in toList[j] \/ <<k, b>> \in listed[j]

StoreInv ==
  /\ StoreMade /\ WiredEntriesWhole
  /\ \A j \in Jobs : SaveOk(j) /\ RestoredMade(j) /\ StillListed(j)

\* What SaveOk says of a job, it says of this.
SaveView(j) == <<pc[j], status[j], disk[j], lock[j], layersLeft[j], uploaded[j],
                 uploading[j], matched[j], compiles[j], repair[j], saveResult[j]>>

LEMMA OthersSaves ==
  ASSUME TypeOK, NEW i \in Jobs, NEW j \in Jobs, i # j,
         JobStep(j) \/ AuditWorker(j) \/ RunnerLost(j)
  PROVE  UNCHANGED SaveView(i) /\ UNCHANGED <<toList[i], listed[i]>>
<1> USE DEF vars, storeVars, restoreVars, auditVars, buildVars, saveVars, repairVars, SaveView
<1>1. CASE MainStep(j)
  <2>1. CASE ResolveThrows(j) \/ Resolve(j) \/ MainThrows(j) \/ LaunchAudit(j)
    BY <2>1 DEF ResolveThrows, Resolve, MainThrows, LaunchAudit, Goto, TypeOK
  <2>2. CASE \E y \in Layers : RestoreMiss(j, y)
    BY <2>2 DEF RestoreMiss, RestoreSettles, TypeOK
  <2>3. CASE \E y \in Layers, k \in Keys : RestoreTree(j, y, k)
    BY <2>3 DEF RestoreTree, RestoreSettles, Downloads, TypeOK
  <2>4. CASE \E k \in Keys : BuildPayloadUnusable(j, k) \/ DownloadRegistry(j, k)
    BY <2>4 DEF BuildPayloadUnusable, DownloadRegistry, RestoreSettles, Downloads, TypeOK
  <2>5. CASE ExtractRegistry(j)
    BY <2>5 DEF ExtractRegistry, Goto, TypeOK
  <2> QED BY <1>1, <2>1, <2>2, <2>3, <2>4, <2>5 DEF MainStep
<1>2. CASE BuildSucceeds(j) \/ BuildFails(j)
  BY <1>2 DEF BuildSucceeds, BuildFails, BuildEnds, BuildOutputs, Goto, TypeOK
<1>3. CASE PostStep(j)
  <2>1. CASE PostStart(j) \/ JoinAudit(j)
    BY <2>1 DEF PostStart, JoinAudit, Goto, TypeOK
  <2>2. CASE \/ \E k \in Keys : ListPoisoned(j, k)
             \/ \E e \in listed[j] : DeleteListed(j, e)
    BY <2>2 DEF ListPoisoned, DeleteListed, CountFailure, TypeOK
  <2>3. CASE AbortReported(j) \/ PostEnds(j)
    BY <2>3 DEF AbortReported, PostEnds, Leave, Goto, TypeOK
  <2>4. CASE SkipSave(j) \/ ArchiveFails(j) \/ Reserve(j) \/ ReserveRefused(j)
    BY <2>4 DEF SkipSave, ArchiveFails, Reserve, ReserveRefused, SaveStep, Settle,
         NegativeId, Goto, TypeOK
  <2>5. CASE FinishUpload(j) \/ UploadFails(j) \/ ProbeExactKey(j)
    BY <2>5 DEF FinishUpload, UploadFails, ProbeExactKey, SaveStep, Settle, NegativeId,
         Goto, TypeOK
  <2> QED BY <1>3, <2>1, <2>2, <2>3, <2>4, <2>5 DEF PostStep
<1>4. CASE AuditWorker(j)
  BY <1>4 DEF AuditWorker, TypeOK
<1>5. CASE RunnerLost(j)
  BY <1>5 DEF RunnerLost, Leave, Goto, TypeOK
<1> QED BY <1>1, <1>2, <1>3, <1>4, <1>5 DEF JobStep

LEMMA SaveViewKeeps ==
  ASSUME NEW i \in Jobs, SaveOk(i), UNCHANGED SaveView(i)
  PROVE  SaveOk(i)'
<1>1. Current(i)' = Current(i) BY DEF Current, SaveView
<1>2. ASSUME NEW y PROVE SkipReason(i, y)' = SkipReason(i, y)
  BY DEF SkipReason, BuildSkip, TargetSkip, RegistrySkip, FailedJob, TinyDelta, ExactHit,
         ExactKey, SaveView
<1>3. QED BY <1>1, <1>2 DEF SaveOk, SaveView, Deps, ExactKey

\* The end of a layer's save: another status than "saved" unless the layer was
\* uploaded, or is the build cache's, whose save does not look.
LEMMA SettledSave ==
  ASSUME TypeOK, NEW j \in Jobs, NEW y \in Layers, SaveOk(j), pc[j] \in Saving, NEW st,
         Settle(j, y, st), y = "build" \/ st # "saved" \/ y \in uploaded'[j],
         UNCHANGED <<status, disk, lock, repair>>,
         uploaded'[j] \in {uploaded[j], uploaded[j] \cup {y}}
  PROVE  SaveOk(j)'
<1>1. /\ pc'[j] = "save" /\ layersLeft'[j] = layersLeft[j] \ {y}
      /\ \A z \in Layers : saveResult'[j][z] = IF z = y THEN st ELSE saveResult[j][z]
  BY DEF Settle, Goto, TypeOK
<1>2. QED BY <1>1 DEF SaveOk, Posting, Saving, Deps

LEMMA RefusedSave ==
  ASSUME TypeOK, NEW j \in Jobs, NEW y \in Layers, SaveOk(j), pc[j] \in Saving,
         NegativeId(j, y), UNCHANGED <<status, disk, lock, repair, uploaded>>
  PROVE  SaveOk(j)'
<1>1. CASE y = "registry" /\ RegistryFormat = "soldr-v2"
  <2>1. pc'[j] = "probe" /\ UNCHANGED <<layersLeft, saveResult>>
    BY <1>1 DEF NegativeId, Goto, TypeOK
  <2>2. QED BY <2>1 DEF SaveOk, Posting, Saving, Deps
<1>2. CASE ~(y = "registry" /\ RegistryFormat = "soldr-v2")
  <2>1. PICK st : Settle(j, y, st) /\ (y = "build" \/ st # "saved" \/ RegistryFormat # "soldr-v2")
    BY <1>2, LayersType DEF NegativeId
  <2>2. CASE RegistryFormat = "soldr-v2" BY <2>1, <2>2, SettledSave
  <2>3. CASE RegistryFormat # "soldr-v2"
    <3>1. pc'[j] = "save" /\ layersLeft'[j] = layersLeft[j] \ {y}
      BY <2>1 DEF Settle, Goto, TypeOK
    <3>2. QED BY <2>3, <3>1 DEF SaveOk, Posting, Saving, Deps
  <2>4. QED BY <2>2, <2>3
<1>3. QED BY <1>1, <1>2

LEMMA SaveOkStep ==
  ASSUME IInv, NEW j \in Jobs, SaveOk(j), JobStep(j) \/ AuditWorker(j) \/ RunnerLost(j)
  PROVE  SaveOk(j)'
<1> USE DEF vars, storeVars, restoreVars, auditVars, buildVars, saveVars, repairVars
<1>t. TypeOK /\ AuditPhase(j) BY DEF IInv
<1>1. CASE ResolveThrows(j) \/ Resolve(j) \/ MainThrows(j) \/ LaunchAudit(j)
  BY <1>1, <1>t DEF ResolveThrows, Resolve, MainThrows, LaunchAudit, Goto, SaveOk, Posting,
     Saving, Deps, TypeOK
<1>2. CASE \E y \in Layers : RestoreMiss(j, y)
  BY <1>2, <1>t DEF RestoreMiss, RestoreSettles, SaveOk, Posting, Saving, TypeOK
<1>3. CASE \E y \in Layers, k \in Keys : RestoreTree(j, y, k)
  BY <1>3, <1>t DEF RestoreTree, RestoreSettles, SaveOk, Posting, Saving, TypeOK
<1>4. CASE \E k \in Keys : BuildPayloadUnusable(j, k) \/ DownloadRegistry(j, k)
  BY <1>4, <1>t DEF BuildPayloadUnusable, DownloadRegistry, RestoreSettles, SaveOk, Posting,
     Saving, TypeOK
<1>5. CASE ExtractRegistry(j)
  BY <1>5, <1>t DEF ExtractRegistry, Goto, SaveOk, Posting, Saving, TypeOK
<1>6. CASE BuildSucceeds(j)
  <2>1. /\ pc[j] = "build" /\ pc'[j] = "post" /\ status'[j] = "success"
        /\ UNCHANGED <<repair, saveResult, uploaded, lock>>
    BY <1>6, <1>t DEF BuildSucceeds, BuildEnds, Goto, TypeOK
  <2>2. "target" \in Layers => Deps(j) \subseteq disk'[j]["target"]
    BY <1>6, <1>t DEF BuildSucceeds, BuildEnds, BuildOutputs, TypeOK
  <2>3. QED BY <2>1, <2>2 DEF SaveOk, Posting, Saving, Deps
<1>7. CASE BuildFails(j)
  <2>1. /\ pc[j] = "build" /\ pc'[j] = "post" /\ status'[j] \in {"failure", "cancelled"}
        /\ UNCHANGED <<repair, saveResult, uploaded, lock>>
    BY <1>7, <1>t DEF BuildFails, BuildEnds, Goto, TypeOK
  <2>2. QED BY <2>1 DEF SaveOk, Posting, Saving, Deps
<1>8. CASE PostStart(j)
  <2>1. /\ pc[j] = "post" /\ pc'[j] \in {"join", "save"} /\ layersLeft'[j] = Layers
        /\ UNCHANGED <<status, disk, lock, repair, saveResult, uploaded>>
    BY <1>8, <1>t DEF PostStart, FirstDuty, Goto, TypeOK
  <2>2. uploaded[j] = {} BY <1>t, <2>1 DEF AuditPhase
  <2>3. QED BY <2>1, <2>2 DEF SaveOk, Posting, Saving, Deps
<1>9. CASE JoinAudit(j)
  <2>1. /\ pc[j] = "join" /\ pc'[j] \in {"save", "abort"}
        /\ UNCHANGED <<status, disk, lock, layersLeft, saveResult, uploaded>>
    BY <1>9, <1>t DEF JoinAudit, Goto, TypeOK
  <2>2. uploaded[j] = {} BY <1>t, <2>1 DEF AuditPhase
  <2>3. QED BY <2>1, <2>2 DEF SaveOk, Posting, Saving, Deps
<1>10. CASE \/ \E k \in Keys : ListPoisoned(j, k)
            \/ \E e \in listed[j] : DeleteListed(j, e)
  <2>1. /\ pc[j] = "abort"
        /\ UNCHANGED <<pc, status, disk, lock, layersLeft, saveResult, uploaded>>
    BY <1>10 DEF ListPoisoned, DeleteListed
  <2>2. QED BY <2>1 DEF SaveOk, Posting, Saving, Deps
<1>11. CASE AbortReported(j) \/ PostEnds(j) \/ RunnerLost(j)
  <2>1. pc'[j] = "done" /\ UNCHANGED <<saveResult, uploaded>>
    BY <1>11, <1>t DEF AbortReported, PostEnds, RunnerLost, Leave, Goto, TypeOK
  <2>2. QED BY <2>1 DEF SaveOk, Posting, Saving
<1>12. CASE AuditWorker(j)
  BY <1>12, SaveViewKeeps DEF AuditWorker, SaveView
<1>13. CASE \/ SkipSave(j) \/ ArchiveFails(j) \/ Reserve(j) \/ ReserveRefused(j)
            \/ FinishUpload(j) \/ UploadFails(j) \/ ProbeExactKey(j)
  <2> DEFINE y == Current(j)
  <2>1. /\ pc[j] \in Saving /\ layersLeft[j] # {}
        /\ UNCHANGED <<status, disk, lock, repair, matched, compiles>>
    BY <1>13 DEF SkipSave, ArchiveFails, Reserve, ReserveRefused, FinishUpload,
         UploadFails, ProbeExactKey, SaveStep, Saving
  <2>2. y \in Layers BY <1>t, <2>1, CurrentLayer
  <2> HIDE DEF y
  <2>3. CASE SkipSave(j)
    <3>1. Settle(j, y, SkipReason(j, y)) /\ UNCHANGED uploaded BY <2>3 DEF SkipSave, y
    <3>2. SkipReason(j, y) # "saved"
      BY DEF SkipReason, BuildSkip, TargetSkip, RegistrySkip
    <3>3. QED BY <1>t, <2>1, <2>2, <3>1, <3>2, SettledSave
  <2>4. CASE ArchiveFails(j)
    <3>1. PICK st \in {"failed", "oversize-skip"} : Settle(j, y, st) BY <2>4 DEF ArchiveFails, y
    <3>2. UNCHANGED uploaded BY <2>4 DEF ArchiveFails
    <3>3. QED BY <1>t, <2>1, <2>2, <3>1, <3>2, SettledSave
  <2>5. CASE Reserve(j)
    <3>1. /\ pc'[j] = "upload" /\ uploading'[j] = ExactKey(j, y) /\ SkipReason(j, y) = "none"
          /\ UNCHANGED <<layersLeft, saveResult, uploaded>>
      BY <1>t, <2>5 DEF Reserve, Goto, TypeOK, y
    <3>2. Current(j)' = y BY <3>1 DEF Current, y
    <3>3. ASSUME NEW z PROVE SkipReason(j, z)' = SkipReason(j, z) /\ ExactKey(j, z)' = ExactKey(j, z)
      BY <2>1 DEF SkipReason, BuildSkip, TargetSkip, RegistrySkip, FailedJob, TinyDelta, ExactHit,
         ExactKey
    <3>4. SkipReason(j, Current(j))' = SkipReason(j, y) /\ ExactKey(j, Current(j))' = ExactKey(j, y)
      BY <3>2, <3>3
    <3>5. QED BY <2>1, <3>1, <3>4 DEF SaveOk, Posting, Saving, Deps
  <2>6. CASE ReserveRefused(j)
    BY <1>t, <2>1, <2>2, <2>6, RefusedSave DEF ReserveRefused, y
  <2>7. CASE FinishUpload(j)
    <3>1. uploaded'[j] = uploaded[j] \cup {y} /\ Settle(j, y, "saved")
      BY <1>t, <2>7 DEF FinishUpload, y, TypeOK
    <3>2. QED BY <1>t, <2>1, <2>2, <3>1, SettledSave
  <2>8. CASE UploadFails(j)
    BY <1>t, <2>1, <2>2, <2>8, RefusedSave DEF UploadFails, y
  <2>9. CASE ProbeExactKey(j)
    <3>1. PICK st \in {"failed", "race-skip"} : Settle(j, y, st) BY <2>9 DEF ProbeExactKey, y
    <3>2. UNCHANGED uploaded BY <2>9 DEF ProbeExactKey
    <3>3. QED BY <1>t, <2>1, <2>2, <3>1, <3>2, SettledSave
  <2>10. QED BY <1>13, <2>3, <2>4, <2>5, <2>6, <2>7, <2>8, <2>9
<1> QED BY <1>1, <1>2, <1>3, <1>4, <1>5, <1>6, <1>7, <1>8, <1>9, <1>10, <1>11, <1>12, <1>13
        DEF JobStep, MainStep, PostStep

-----------------------------------------------------------------------------
\* Entries appear by an upload only, and what was uploaded stays recorded.
LEMMA StoreMoves ==
  ASSUME TypeOK, NEW j \in Jobs, JobStep(j) \/ AuditWorker(j) \/ RunnerLost(j), ~FinishUpload(j)
  PROVE  /\ \A k \in Keys : store'[k] \in {store[k], NoEntry}
         /\ uploaded' = uploaded
<1> USE DEF vars, storeVars, restoreVars, auditVars, buildVars, saveVars, repairVars
<1>1. CASE MainStep(j)
  BY <1>1 DEF MainStep, ResolveThrows, Resolve, RestoreMiss, RestoreTree, BuildPayloadUnusable,
     DownloadRegistry, RestoreSettles, ExtractRegistry, MainThrows, LaunchAudit
<1>2. CASE BuildSucceeds(j) \/ BuildFails(j)
  BY <1>2 DEF BuildSucceeds, BuildFails, BuildEnds
<1>3. CASE AuditWorker(j) \/ RunnerLost(j)
  BY <1>3 DEF AuditWorker, RunnerLost
<1>4. CASE PostStep(j)
  <2>1. CASE \E e \in listed[j] : DeleteListed(j, e)
    BY <2>1 DEF DeleteListed, TypeOK
  <2>2. CASE ~ \E e \in listed[j] : DeleteListed(j, e)
    BY <1>4, <2>2 DEF PostStep, PostStart, JoinAudit, ListPoisoned, AbortReported, SkipSave,
       ArchiveFails, Reserve, ReserveRefused, UploadFails, ProbeExactKey, PostEnds, SaveStep
  <2> QED BY <2>1, <2>2
<1> QED BY <1>1, <1>2, <1>3, <1>4 DEF JobStep

\* What an upload changes: the job's own exact key of a layer not uploaded yet.
LEMMA UploadMoves ==
  ASSUME TypeOK, NEW j \in Jobs, SaveOk(j), FinishUpload(j)
  PROVE  \E y \in Layers :
           /\ y \notin uploaded[j] /\ SkipReason(j, y) = "none"
           /\ uploaded' = [uploaded EXCEPT ![j] = @ \cup {y}]
           /\ <<y, lock[j]>> \in Keys
           /\ store' = [store EXCEPT ![<<y, lock[j]>>] = [crates |-> disk[j][y], by |-> j]]
<1> DEFINE y == Current(j)
<1>1. layersLeft[j] # {} /\ pc[j] = "upload" BY DEF FinishUpload, SaveStep
<1>2. y \in layersLeft[j]
  <2>1. layersLeft[j] \subseteq {"build", "target", "registry"} BY LayersType DEF TypeOK
  <2>2. QED BY <1>1, <2>1, CurrentLeft
<1>3. y \in Layers BY <1>1, CurrentLayer
<1>4. <<y, lock[j]>> \in Keys BY <1>3 DEF Keys, TypeOK
<1>5. uploading[j] = <<y, lock[j]>> /\ SkipReason(j, y) = "none" /\ y \notin uploaded[j]
  BY <1>1, <1>2 DEF SaveOk, ExactKey, Saving
<1>6. /\ uploaded' = [uploaded EXCEPT ![j] = @ \cup {y}]
      /\ store' = [store EXCEPT ![uploading[j]] = [crates |-> disk[j][y], by |-> j]]
  BY DEF FinishUpload
<1> QED BY <1>3, <1>4, <1>5, <1>6

\* Once a job has uploaded a layer, or may, its status is settled.
LEMMA StatusSettled ==
  ASSUME TypeOK, NEW j \in Jobs, JobStep(j) \/ AuditWorker(j) \/ RunnerLost(j),
         NEW b \in Jobs, AuditPhase(b), uploaded[b] # {}
  PROVE  status'[b] = status[b]
<1> USE DEF vars, storeVars, restoreVars, auditVars, buildVars, saveVars, repairVars
<1>1. pc[b] \notin {"queued", "restore", "prepare", "build"} BY DEF AuditPhase
<1>2. CASE b # j BY <1>2, OthersSaves DEF SaveView
<1>3. CASE b = j
  <2>1. CASE MainStep(j)
    BY <1>1, <1>3, <2>1 DEF MainStep, ResolveThrows, Resolve, RestoreMiss, RestoreTree,
       BuildPayloadUnusable, DownloadRegistry, RestoreSettles, ExtractRegistry, MainThrows, LaunchAudit
  <2>2. CASE BuildSucceeds(j) \/ BuildFails(j)
    BY <1>1, <1>3, <2>2 DEF BuildSucceeds, BuildFails, BuildEnds
  <2>3. CASE PostStep(j)
    BY <2>3 DEF PostStep, PostStart, JoinAudit, ListPoisoned, DeleteListed, AbortReported,
       SkipSave, ArchiveFails, Reserve, ReserveRefused, FinishUpload, UploadFails, ProbeExactKey,
       PostEnds, SaveStep
  <2>4. CASE AuditWorker(j) \/ RunnerLost(j)
    BY <2>4 DEF AuditWorker, RunnerLost
  <2> QED BY <2>1, <2>2, <2>3, <2>4 DEF JobStep
<1> QED BY <1>2, <1>3

LEMMA StoreMadeStep ==
  ASSUME TypeOK, TypeOK', StoreMade, NEW j \in Jobs, SaveOk(j),
         JobStep(j) \/ AuditWorker(j) \/ RunnerLost(j)
  PROVE  StoreMade'
<1>1. CASE ~FinishUpload(j) BY <1>1, StoreMoves DEF StoreMade
<1>2. CASE FinishUpload(j)
  <2>1. PICK y \in Layers :
          /\ uploaded' = [uploaded EXCEPT ![j] = @ \cup {y}]
          /\ <<y, lock[j]>> \in Keys
          /\ store' = [store EXCEPT ![<<y, lock[j]>>] = [crates |-> disk[j][y], by |-> j]]
    BY <1>2, UploadMoves
  <2>2. \A b \in Jobs : uploaded[b] \subseteq uploaded'[b] BY <2>1 DEF TypeOK
  <2>3. y \in uploaded'[j] BY <2>1 DEF TypeOK
  <2>4. ASSUME NEW k \in Keys, store'[k] # NoEntry, store'[k].by \in Jobs
        PROVE  k[1] \in uploaded'[store'[k].by]
    <3>1. CASE k = <<y, lock[j]>>
      <4>1. store'[k].by = j BY <2>1, <3>1 DEF TypeOK
      <4>2. QED BY <2>3, <3>1, <4>1
    <3>2. CASE k # <<y, lock[j]>>
      <4>1. store'[k] = store[k] BY <2>1, <3>2 DEF TypeOK
      <4>2. QED BY <2>2, <2>4, <4>1 DEF StoreMade
    <3>3. QED BY <3>1, <3>2
  <2>5. QED BY <2>4 DEF StoreMade
<1>3. QED BY <1>1, <1>2

\* A restore downloads what is in the store.
LEMMA OriginMoves ==
  ASSUME TypeOK, NEW j \in Jobs, NEW i \in Jobs, JobStep(j) \/ AuditWorker(j) \/ RunnerLost(j),
         NEW y \in Layers
  PROVE  \/ origin'[i][y] = origin[i][y]
         \/ \E k \in Keys : store[k] # NoEntry /\ origin'[i][y] = <<k, store[k]>>
<1> USE DEF vars, storeVars, restoreVars, auditVars, buildVars, saveVars, repairVars
<1>1. CASE i # j BY <1>1, OthersUntouched DEF Local
<1>2. CASE i = j
  <2>1. ASSUME NEW z \in Layers, NEW k \in Keys, Downloads(j, z, k)
        PROVE  \/ origin'[i][y] = origin[i][y]
               \/ \E h \in Keys : store[h] # NoEntry /\ origin'[i][y] = <<h, store[h]>>
    <3>1. store[k] # NoEntry BY <2>1 DEF Downloads, Candidates
    <3>2. QED BY <1>2, <2>1, <3>1 DEF Downloads, TypeOK
  <2>2. CASE MainStep(j)
    <3>1. ASSUME NEW z, NEW k \in Keys, RestoreSettles(j, z), Downloads(j, z, k)
          PROVE  \E w \in Layers : Downloads(j, w, k)
      BY <3>1 DEF RestoreSettles, TypeOK
    <3>2. CASE \E z \in Layers, k \in Keys : RestoreTree(j, z, k)
      BY <2>1, <3>2 DEF RestoreTree
    <3>3. CASE \E k \in Keys : BuildPayloadUnusable(j, k) \/ DownloadRegistry(j, k)
      BY <2>1, <3>1, <3>3 DEF BuildPayloadUnusable, DownloadRegistry
    <3>4. CASE \/ ResolveThrows(j) \/ Resolve(j) \/ \E z \in Layers : RestoreMiss(j, z)
               \/ ExtractRegistry(j) \/ MainThrows(j) \/ LaunchAudit(j)
      BY <3>4 DEF ResolveThrows, Resolve, RestoreMiss, ExtractRegistry, MainThrows, LaunchAudit
    <3>5. QED BY <2>2, <3>2, <3>3, <3>4 DEF MainStep
  <2>3. CASE BuildSucceeds(j) \/ BuildFails(j)
    BY <2>3 DEF BuildSucceeds, BuildFails, BuildEnds
  <2>4. CASE PostStep(j)
    BY <2>4 DEF PostStep, PostStart, JoinAudit, ListPoisoned, DeleteListed, AbortReported,
       SkipSave, ArchiveFails, Reserve, ReserveRefused, FinishUpload, UploadFails, ProbeExactKey,
       PostEnds, SaveStep
  <2>5. CASE AuditWorker(j) \/ RunnerLost(j)
    BY <2>5 DEF AuditWorker, RunnerLost
  <2> QED BY <2>2, <2>3, <2>4, <2>5 DEF JobStep
<1> QED BY <1>1, <1>2

LEMMA RestoredMadeStep ==
  ASSUME TypeOK, StoreMade, NEW j \in Jobs, NEW i \in Jobs, SaveOk(j), RestoredMade(i),
         JobStep(j) \/ AuditWorker(j) \/ RunnerLost(j)
  PROVE  RestoredMade(i)'
<1>1. \A b \in Jobs : uploaded[b] \subseteq uploaded'[b]
  <2>1. CASE ~FinishUpload(j) BY <2>1, StoreMoves
  <2>2. CASE FinishUpload(j)
    <3>1. PICK y \in Layers : uploaded' = [uploaded EXCEPT ![j] = @ \cup {y}]
      BY <2>2, UploadMoves
    <3>2. QED BY <3>1 DEF TypeOK
  <2> QED BY <2>1, <2>2
<1>2. ASSUME NEW y \in Layers, origin'[i][y] # NoKey, origin'[i][y][2].by \in Jobs
      PROVE  origin'[i][y][1][1] \in uploaded'[origin'[i][y][2].by]
  <2>1. CASE origin'[i][y] = origin[i][y] BY <1>1, <1>2, <2>1 DEF RestoredMade
  <2>2. CASE \E k \in Keys : store[k] # NoEntry /\ origin'[i][y] = <<k, store[k]>>
    BY <1>1, <1>2, <2>2 DEF StoreMade
  <2> QED BY <2>1, <2>2, OriginMoves
<1>3. QED BY <1>2 DEF RestoredMade

\* An upload of a wired job is that of a success.
LEMMA WiredStep ==
  ASSUME TypeOK, TypeOK', WiredEntriesWhole, StoreMade, \A b \in Jobs : AuditPhase(b),
         NEW j \in Jobs, SaveOk(j), JobStep(j) \/ AuditWorker(j) \/ RunnerLost(j)
  PROVE  WiredEntriesWhole'
<1>1. ASSUME NEW k \in Keys, store[k] # NoEntry, store'[k] = store[k], k[1] # "registry",
             store[k].by \in Wired
      PROVE  /\ status'[store[k].by] = "success"
             /\ k[1] = "target" => LockDeps[k[2]] \subseteq store[k].crates
  <2>1. store[k].by \in Jobs BY <1>1, JobGroups
  <2>2. uploaded[store[k].by] # {} BY <1>1, <2>1 DEF StoreMade
  <2>3. status'[store[k].by] = status[store[k].by] BY <2>1, <2>2, StatusSettled
  <2>4. QED BY <1>1, <2>3 DEF WiredEntriesWhole
<1>2. CASE ~FinishUpload(j)
  <2>1. \A k \in Keys : store'[k] # NoEntry => store[k] # NoEntry /\ store'[k] = store[k]
    BY <1>2, StoreMoves
  <2>2. QED BY <1>1, <2>1 DEF WiredEntriesWhole
<1>3. CASE FinishUpload(j)
  <2>1. PICK y \in Layers :
          /\ SkipReason(j, y) = "none"
          /\ <<y, lock[j]>> \in Keys
          /\ store' = [store EXCEPT ![<<y, lock[j]>>] = [crates |-> disk[j][y], by |-> j]]
    BY <1>3, UploadMoves
  <2>2. UNCHANGED <<status, disk>> /\ pc[j] = "upload"
    BY <1>3 DEF FinishUpload, SaveStep, buildVars
  <2>3. y # "registry" /\ j \in Wired => status[j] = "success"
    <3>1. status[j] \in {"success", "failure", "cancelled"}
      BY <2>2 DEF SaveOk, Posting, TypeOK
    <3>2. y = "build" => ~FailedJob(j) BY <2>1 DEF SkipReason, BuildSkip
    <3>3. y = "target" => ~FailedJob(j) BY <2>1 DEF SkipReason, TargetSkip
    <3>4. y \in {"build", "target", "registry"} BY LayersType
    <3>5. QED BY <3>1, <3>2, <3>3, <3>4 DEF FailedJob
  <2>4. y = "target" /\ j \in Wired => LockDeps[lock[j]] \subseteq disk[j][y]
    BY <2>2, <2>3 DEF SaveOk, Posting, Deps
  <2>5. ASSUME NEW k \in Keys, store'[k] # NoEntry, k[1] # "registry", store'[k].by \in Wired
        PROVE  /\ status'[store'[k].by] = "success"
               /\ k[1] = "target" => LockDeps[k[2]] \subseteq store'[k].crates
    <3>1. CASE k = <<y, lock[j]>>
      <4>1. store'[k] = [crates |-> disk[j][y], by |-> j] BY <2>1, <3>1 DEF TypeOK
      <4>2. k[1] = y /\ k[2] = lock[j] /\ store'[k].by = j /\ store'[k].crates = disk[j][y]
        BY <3>1, <4>1
      <4>3. QED BY <2>2, <2>3, <2>4, <2>5, <4>2
    <3>2. CASE k # <<y, lock[j]>>
      <4>1. store'[k] = store[k] BY <2>1, <3>2 DEF TypeOK
      <4>2. QED BY <1>1, <2>5, <4>1
    <3>3. QED BY <3>1, <3>2
  <2>6. QED BY <2>5 DEF WiredEntriesWhole
<1>4. QED BY <1>2, <1>3

\* A step of a job keeps or removes an entry, or adds one its owner had not.
LEMMA StoreSteps ==
  ASSUME TypeOK, NEW j \in Jobs, SaveOk(j), JobStep(j) \/ AuditWorker(j) \/ RunnerLost(j)
  PROVE  \A k \in Keys :
           \/ store'[k] \in {store[k], NoEntry}
           \/ \E b \in Jobs : store'[k].by = b /\ k[1] \notin uploaded[b]
<1>1. CASE ~FinishUpload(j) BY <1>1, StoreMoves
<1>2. CASE FinishUpload(j)
  <2>1. PICK y \in Layers :
          /\ y \notin uploaded[j] /\ <<y, lock[j]>> \in Keys
          /\ store' = [store EXCEPT ![<<y, lock[j]>>] = [crates |-> disk[j][y], by |-> j]]
    BY <1>2, UploadMoves
  <2>2. ASSUME NEW k \in Keys, k # <<y, lock[j]>> PROVE store'[k] = store[k]
    BY <2>1, <2>2 DEF TypeOK
  <2>3. store'[<<y, lock[j]>>].by = j BY <2>1 DEF TypeOK
  <2>4. <<y, lock[j]>>[1] = y OBVIOUS
  <2>5. QED BY <2>1, <2>2, <2>3, <2>4
<1>3. QED BY <1>1, <1>2

\* What StillListed says of a job, but for the store, it says of this.
RepairView(i) == <<matched[i], origin[i], depKeys[i], toList[i], listed[i], repair[i]>>

\* While a repair stands still, the entries it has yet to remove may only be
\* removed or evicted by others: nobody uploads what somebody once restored.
LEMMA ListKeeps ==
  ASSUME TypeOK, NEW i \in Jobs, StillListed(i), RestoredMade(i),
         \A y \in Layers : MatchHasOrigin(i, y), UNCHANGED RepairView(i),
         \A k \in Keys :
           \/ store'[k] \in {store[k], NoEntry}
           \/ \E b \in Jobs : store'[k].by = b /\ k[1] \notin uploaded[b]
  PROVE  StillListed(i)'
<1>1. Suspects(i)' = Suspects(i) BY DEF Suspects, RepairView
<1>2. ASSUME repair[i] = "complete", NEW y \in Suspects(i), NEW k, k = matched[i][y],
             NEW b, b = origin[i][y][2].by
      PROVE  store'[k] = NoEntry \/ store'[k].by # b \/ k \in toList[i] \/ <<k, b>> \in listed[i]
  <2>1. y \in Layers /\ origin[i][y] # NoKey /\ k \in Keys
    BY <1>2 DEF Suspects, TypeOK
  <2>2. k # NoKey BY <2>1, NoKeyFresh
  <2>3. origin[i][y][1] = k BY <1>2, <2>1, <2>2 DEF MatchHasOrigin
  <2>4. store[k] = NoEntry \/ store[k].by # b \/ k \in toList[i] \/ <<k, b>> \in listed[i]
    BY <1>2 DEF StillListed
  <2>5. b \in Jobs => k[1] \in uploaded[b] BY <1>2, <2>1, <2>3 DEF RestoredMade
  <2>6. QED BY <2>1, <2>4, <2>5
<1>3. QED BY <1>1, <1>2 DEF StillListed, RepairView

\* A repair starts with every suspect to list, and takes an entry off its
\* lists only with the entry gone from the store or the repair incomplete.
LEMMA ListStep ==
  ASSUME IInv, NEW j \in Jobs, SaveOk(j), StillListed(j), RestoredMade(j),
         JobStep(j) \/ AuditWorker(j) \/ RunnerLost(j)
  PROVE  StillListed(j)'
<1> USE DEF vars, storeVars, restoreVars, auditVars, buildVars, saveVars, repairVars
<1>t. TypeOK /\ \A y \in Layers : MatchHasOrigin(j, y) BY DEF IInv, MatchedHasOrigin
<1>1. CASE MainStep(j) \/ BuildSucceeds(j) \/ BuildFails(j)
  <2>1. pc[j] \in {"queued", "restore", "prepare", "build"} /\ UNCHANGED repair
    BY <1>1 DEF MainStep, ResolveThrows, Resolve, RestoreMiss, RestoreTree, BuildPayloadUnusable,
       DownloadRegistry, RestoreSettles, ExtractRegistry, MainThrows, LaunchAudit, BuildSucceeds,
       BuildFails, BuildEnds
  <2>2. QED BY <2>1 DEF SaveOk, StillListed
<1>2. CASE JoinAudit(j)
  <2>1. /\ repair'[j] \in {"none", "complete"} /\ UNCHANGED restoreVars
        /\ repair'[j] = "complete" => toList'[j] = depKeys[j]
    BY <1>2, <1>t DEF JoinAudit, SaveOk, TypeOK
  <2>2. \A y \in Suspects(j)' : matched'[j][y] \in depKeys[j] BY <2>1 DEF Suspects
  <2>3. QED BY <2>1, <2>2 DEF StillListed
<1>3. ASSUME NEW h \in Keys, ListPoisoned(j, h) PROVE StillListed(j)'
  <2>1. UNCHANGED <<store, matched, origin, depKeys>> BY <1>3 DEF ListPoisoned
  <2>2. Suspects(j)' = Suspects(j) BY <2>1 DEF Suspects
  <2>3. CASE CountFailure(j) BY <2>3, <1>t DEF CountFailure, StillListed, TypeOK
  <2>4. CASE ~CountFailure(j)
    <3>1. /\ UNCHANGED repair /\ toList'[j] = toList[j] \ {h}
          /\ listed'[j] = listed[j] \cup (IF store[h] = NoEntry THEN {} ELSE {<<h, store[h].by>>})
      BY <1>3, <1>t, <2>4 DEF ListPoisoned, TypeOK
    <3>2. ASSUME repair[j] = "complete", NEW y \in Suspects(j), NEW k, k = matched[j][y],
                 NEW b, b = origin[j][y][2].by
          PROVE  store[k] = NoEntry \/ store[k].by # b \/ k \in toList'[j] \/ <<k, b>> \in listed'[j]
      <4>1. store[k] = NoEntry \/ store[k].by # b \/ k \in toList[j] \/ <<k, b>> \in listed[j]
        BY <3>2 DEF StillListed
      <4>2. QED BY <3>1, <4>1
    <3>3. QED BY <2>1, <2>2, <3>1, <3>2 DEF StillListed
  <2>5. QED BY <2>3, <2>4
<1>4. ASSUME NEW e \in listed[j], DeleteListed(j, e) PROVE StillListed(j)'
  <2>1. UNCHANGED <<matched, origin, depKeys, toList>> BY <1>4 DEF DeleteListed
  <2>2. Suspects(j)' = Suspects(j) BY <2>1 DEF Suspects
  <2>3. CASE CountFailure(j) BY <2>3, <1>t DEF CountFailure, StillListed, TypeOK
  <2>4. CASE ~CountFailure(j)
    <3>1. /\ UNCHANGED repair /\ listed'[j] = listed[j] \ {e}
          /\ store' = IF Holds(e) THEN [store EXCEPT ![e[1]] = NoEntry] ELSE store
      BY <1>4, <1>t, <2>4 DEF DeleteListed, TypeOK
    <3>2. ASSUME repair[j] = "complete", NEW y \in Suspects(j), NEW k, k = matched[j][y],
                 NEW b, b = origin[j][y][2].by
          PROVE  store'[k] = NoEntry \/ store'[k].by # b \/ k \in toList[j] \/ <<k, b>> \in listed'[j]
      <4>1. store[k] = NoEntry \/ store[k].by # b \/ k \in toList[j] \/ <<k, b>> \in listed[j]
        BY <3>2 DEF StillListed
      <4>2. k \in Keys BY <1>t, <3>2 DEF Suspects, TypeOK
      <4>3. store'[k] \in {store[k], NoEntry} BY <1>t, <3>1, <4>2 DEF TypeOK
      <4>4. CASE e = <<k, b>>
        <5>1. e[1] = k /\ e[2] = b BY <4>4
        <5>2. Holds(e) => store'[k] = NoEntry BY <1>t, <3>1, <4>2, <5>1 DEF TypeOK
        <5>3. QED BY <4>3, <5>1, <5>2 DEF Holds
      <4>5. QED BY <3>1, <4>1, <4>3, <4>4
    <3>3. QED BY <2>1, <2>2, <3>1, <3>2 DEF StillListed
  <2>5. QED BY <2>3, <2>4
<1>5. CASE \/ PostStart(j) \/ AbortReported(j) \/ SkipSave(j) \/ ArchiveFails(j) \/ Reserve(j)
           \/ ReserveRefused(j) \/ FinishUpload(j) \/ UploadFails(j) \/ ProbeExactKey(j)
           \/ PostEnds(j) \/ AuditWorker(j) \/ RunnerLost(j)
  <2>1. UNCHANGED RepairView(j)
    BY <1>5 DEF PostStart, AbortReported, SkipSave, ArchiveFails, Reserve, ReserveRefused,
       FinishUpload, UploadFails, ProbeExactKey, SaveStep, PostEnds, AuditWorker, RunnerLost, RepairView
  <2>2. \A k \in Keys :
          \/ store'[k] \in {store[k], NoEntry}
          \/ \E b \in Jobs : store'[k].by = b /\ k[1] \notin uploaded[b]
    BY <1>t, StoreSteps
  <2>3. QED BY <1>t, <2>1, <2>2, ListKeeps
<1>6. QED BY <1>1, <1>2, <1>3, <1>4, <1>5 DEF JobStep, PostStep
-----------------------------------------------------------------------------
LEMMA InitStoreInv == Init => StoreInv
<1> SUFFICES ASSUME Init PROVE StoreInv
  OBVIOUS
<1>1. \A k \in Keys : store[k] # NoEntry => store[k].by = Earlier
  BY DEF Init, Leftovers
<1>2. StoreMade /\ WiredEntriesWhole
  BY <1>1, Distinct, JobGroups DEF StoreMade, WiredEntriesWhole
<1>3. ASSUME NEW j \in Jobs PROVE SaveOk(j) /\ RestoredMade(j) /\ StillListed(j)
  <2>1. pc[j] = "queued" /\ repair[j] = "none" /\ \A y \in Layers : saveResult[j][y] = "none"
    BY DEF Init
  <2>2. \A y \in Layers : origin[j][y] = NoKey BY DEF Init
  <2>3. QED BY <2>1, <2>2 DEF SaveOk, Posting, Saving, RestoredMade, StillListed
<1> QED BY <1>2, <1>3 DEF StoreInv

\* crates.io and GitHub's eviction: entries only disappear.
LEMMA WorldStoreInv ==
  ASSUME IInv, StoreInv,
         \/ \E c \in Crates : YankCrate(c)
         \/ \E k \in Evictable : EvictEntry(k)
  PROVE  StoreInv'
<1>t. TypeOK BY DEF IInv
<1>1. \A k \in Keys : store'[k] \in {store[k], NoEntry}
  BY <1>t, Bounds DEF YankCrate, EvictEntry, storeVars, TypeOK
<1>2. UNCHANGED <<uploading, pc, lock, restoreVars, main, buildVars, saveVars, repairVars>>
  BY DEF YankCrate, EvictEntry, storeVars
<1>3. StoreMade' BY <1>1, <1>2 DEF StoreInv, StoreMade, saveVars
<1>4. WiredEntriesWhole' BY <1>1, <1>2 DEF StoreInv, WiredEntriesWhole, buildVars
<1>5. ASSUME NEW j \in Jobs PROVE SaveOk(j)' /\ RestoredMade(j)' /\ StillListed(j)'
  <2>1. SaveOk(j) /\ RestoredMade(j) /\ StillListed(j) /\ \A y \in Layers : MatchHasOrigin(j, y)
    BY DEF StoreInv, IInv, MatchedHasOrigin
  <2>2. UNCHANGED SaveView(j) /\ UNCHANGED RepairView(j)
    BY <1>2 DEF SaveView, RepairView, restoreVars, buildVars, saveVars, repairVars
  <2>3. SaveOk(j)' BY <2>1, <2>2, SaveViewKeeps
  <2>4. RestoredMade(j)' BY <1>2, <2>1 DEF RestoredMade, restoreVars, saveVars
  <2>5. StillListed(j)' BY <1>t, <1>1, <2>1, <2>2, ListKeeps
  <2>6. QED BY <2>3, <2>4, <2>5
<1> QED BY <1>3, <1>4, <1>5 DEF StoreInv

LEMMA NextStoreInv == IInv /\ IInv' /\ StoreInv /\ [Next]_vars => StoreInv'
<1> SUFFICES ASSUME IInv, IInv', StoreInv, [Next]_vars PROVE StoreInv'
  OBVIOUS
<1>t. TypeOK /\ TypeOK' /\ \A b \in Jobs : AuditPhase(b) BY DEF IInv
<1>1. ASSUME NEW j \in Jobs, JobStep(j) \/ AuditWorker(j) \/ RunnerLost(j)
      PROVE  StoreInv'
  <2>1. SaveOk(j) /\ StoreMade /\ WiredEntriesWhole BY DEF StoreInv
  <2>2. StoreMade' BY <1>t, <1>1, <2>1, StoreMadeStep
  <2>3. WiredEntriesWhole' BY <1>t, <1>1, <2>1, WiredStep
  <2>4. ASSUME NEW i \in Jobs PROVE SaveOk(i)' /\ RestoredMade(i)' /\ StillListed(i)'
    <3>1. /\ SaveOk(i) /\ RestoredMade(i) /\ StillListed(i)
          /\ \A y \in Layers : MatchHasOrigin(i, y)
      BY DEF StoreInv, IInv, MatchedHasOrigin
    <3>2. RestoredMade(i)' BY <1>t, <1>1, <2>1, <3>1, RestoredMadeStep
    <3>3. CASE i = j BY <1>1, <3>1, <3>2, <3>3, SaveOkStep, ListStep
    <3>4. CASE i # j
      <4>1. UNCHANGED SaveView(i) /\ UNCHANGED <<toList[i], listed[i]>> /\ UNCHANGED Local(i)
        BY <1>t, <1>1, <3>4, OthersSaves, OthersUntouched
      <4>2. SaveOk(i)' BY <3>1, <4>1, SaveViewKeeps
      <4>3. UNCHANGED RepairView(i) BY <4>1 DEF SaveView, Local, RepairView
      <4>4. \A k \in Keys :
              \/ store'[k] \in {store[k], NoEntry}
              \/ \E b \in Jobs : store'[k].by = b /\ k[1] \notin uploaded[b]
        BY <1>t, <1>1, <2>1, StoreSteps
      <4>5. StillListed(i)' BY <1>t, <3>1, <4>3, <4>4, ListKeeps
      <4>6. QED BY <3>2, <4>2, <4>5
    <3>5. QED BY <3>3, <3>4
  <2>5. QED BY <2>2, <2>3, <2>4 DEF StoreInv
<1>2. CASE \E j \in Jobs : JobStep(j) BY <1>1, <1>2
<1>3. CASE World BY <1>1, <1>3, WorldStoreInv, Bounds DEF World
<1>4. CASE UNCHANGED vars
  <2>1. UNCHANGED <<store, status, uploaded>> /\ \A j \in Jobs :
          UNCHANGED SaveView(j) /\ UNCHANGED RepairView(j)
    BY <1>4 DEF vars, storeVars, restoreVars, buildVars, saveVars, repairVars, SaveView, RepairView
  <2>2. ASSUME NEW j \in Jobs PROVE SaveOk(j)' /\ RestoredMade(j)' /\ StillListed(j)'
    <3>1. SaveOk(j) /\ RestoredMade(j) /\ StillListed(j) /\ \A y \in Layers : MatchHasOrigin(j, y)
      BY DEF StoreInv, IInv, MatchedHasOrigin
    <3>2. SaveOk(j)' BY <2>1, <3>1, SaveViewKeeps
    <3>3. RestoredMade(j)' BY <2>1, <3>1 DEF RestoredMade, RepairView
    <3>4. StillListed(j)' BY <1>t, <2>1, <3>1, ListKeeps
    <3>5. QED BY <3>2, <3>3, <3>4
  <2>3. QED BY <2>1, <2>2 DEF StoreInv, StoreMade, WiredEntriesWhole
<1> QED BY <1>2, <1>3, <1>4 DEF Next, Done

LEMMA StoreInductive == Spec => []StoreInv
BY Inductive, InitStoreInv, NextStoreInv, PTL DEF Spec

\* Where the workflow wires job-status, build and target entries come from
\* jobs that succeeded, and a target entry is whole: a job that failed or was
\* cancelled leaves no entry a later exact hit would never re-save.
THEOREM FailedJobsLeaveNothing == Spec => []WiredEntriesWhole
<1>1. StoreInv => WiredEntriesWhole
  BY DEF StoreInv
<1> QED BY <1>1, StoreInductive, PTL

\* deleteCacheEntriesByKeys: a repair reported complete left none of the
\* entries the job restored in the store, whatever other jobs save meanwhile.
THEOREM RepairsComplete == Spec => []RepairRemovesRestored
<1>1. StoreInv => RepairRemovesRestored
  BY DEF StoreInv, StillListed, RepairRemovesRestored
<1> QED BY <1>1, StoreInductive, PTL

\* target-cache and the v2 registry report a save as done only for an entry
\* this job created, whoever else reserved its key first.
THEOREM ReportedSavesUploaded == Spec => []CheckedSavesUploaded
<1>1. StoreInv => CheckedSavesUploaded
  BY DEF StoreInv, SaveOk, CheckedSavesUploaded
<1> QED BY <1>1, StoreInductive, PTL
-----------------------------------------------------------------------------
(***************************************************************************)
(* The yank audit                                                          *)
(***************************************************************************)
\* A crate that is yanked at the launch is still to be looked up, was found
\* yanked, or its look-up failed and the audit knows.
Accounted(a) ==
  /\ found[a] \subseteq yankedSoFar
  /\ Running(a) =>
       /\ foreign => errors[a]
       /\ \A n \in Names :
            \/ n \in left[a] \cup inflight[a]
            \/ errors[a]
            \/ Pins(n) \cap yankedAtLaunch \subseteq found[a]

\* What the result file says is true of crates.io.
FileHonest ==
  /\ file.yanked \subseteq yankedSoFar
  /\ file.status = "yanked" => file.yanked # {}
  /\ file.status = "clean" => ~foreign /\ yankedAtLaunch = {}

\* Nothing runs before the launch, and the verdict is given once.
Phases ==
  /\ post = "main" => worker = "none" /\ file.status = "pending" /\ outcome = "none"
  /\ post # "decided" => outcome = "none"

SeenYanked == yankedAtLaunch \subseteq yankedSoFar

AuditInv == AuditTypeOK /\ Phases /\ SeenYanked /\ FileHonest /\ \A a \in Audits : Accounted(a)

LEMMA PinsCover == \A d \in PinnedDeps : \E n \in Names : d \in Pins(n)
BY DEF PinnedDeps, Pins

LEMMA PinsAreDeps == ASSUME NEW n \in Names PROVE Pins(n) \subseteq PinnedDeps
BY PinnedType DEF PinnedDeps, Pins

\* A finished audit concludes what AuditVerdict allows.
LEMMA ConclusionHonest ==
  ASSUME AuditInv, NEW a \in Audits, Running(a), Complete(a)
  PROVE  /\ Conclusion(a) \in Results
         /\ Conclusion(a).status \in {"clean", "yanked", "not-checked"}
         /\ Conclusion(a).yanked \subseteq yankedSoFar
         /\ Conclusion(a).status = "yanked" => Conclusion(a).yanked # {} /\ yankedSoFar # {}
         /\ Conclusion(a).status = "clean" => ~foreign /\ yankedAtLaunch = {}
<1>1. CASE found[a] # {}
  BY <1>1 DEF Conclusion, AuditInv, AuditTypeOK, Accounted, Results, Statuses
<1>2. CASE found[a] = {} /\ errors[a]
  BY <1>2 DEF Conclusion, Plain, Results, Statuses
<1>3. CASE found[a] = {} /\ ~errors[a]
  <2>1. ~foreign
    BY <1>3 DEF AuditInv, Accounted
  <2>2. \A n \in Names : Pins(n) \cap yankedAtLaunch = {}
    BY <1>3 DEF AuditInv, Accounted, Complete
  <2>3. yankedAtLaunch = {}
    BY <2>2, PinsCover DEF AuditInv, AuditTypeOK
  <2> QED BY <1>3, <2>1, <2>3 DEF Conclusion, Plain, Results, Statuses
<1> QED BY <1>1, <1>2, <1>3

LEMMA CutHonest ==
  ASSUME AuditInv, NEW a \in Audits
  PROVE  /\ Cut(a) \in Results
         /\ Cut(a).status = "not-checked"
         /\ Cut(a).yanked \subseteq yankedSoFar
BY DEF Cut, Results, Statuses, AuditInv, AuditTypeOK, Accounted

LEMMA PlainResult == \A s \in Statuses : Plain(s) \in Results
BY DEF Plain, Results

LEMMA AuditInitInv == AuditInit => AuditInv
<1> SUFFICES ASSUME AuditInit PROVE AuditInv
  OBVIOUS
<1>1. AuditTypeOK
  BY PlainResult DEF AuditInit, AuditTypeOK, Statuses
<1>2. Phases /\ SeenYanked /\ FileHonest
  BY DEF AuditInit, Phases, SeenYanked, FileHonest, Plain
<1>3. ASSUME NEW a \in Audits PROVE Accounted(a)
  BY DEF AuditInit, Accounted, Running, Audits
<1> QED BY <1>1, <1>2, <1>3 DEF AuditInv
-----------------------------------------------------------------------------
LEMMA LaunchKeeps ==
  ASSUME AuditInv, MainNext
  PROVE  AuditInv'
<1> USE DEF AuditInv, MainNext, LaunchFails, SpawnFails, LaunchWorker, Launches, poolVars
<1>1. AuditTypeOK'
  BY PlainResult DEF AuditTypeOK, Statuses
<1>2. Phases' /\ SeenYanked' /\ FileHonest'
  <2>1. file' \in {Plain("not-checked"), Plain("clean"), Plain("pending")}
    OBVIOUS
  <2>2. file' = Plain("clean") => PinnedDeps = {} /\ ~foreign
    BY DEF NothingToLookUp, Plain
  <2> QED BY <2>1, <2>2 DEF Phases, SeenYanked, FileHonest, Plain, AuditTypeOK
<1>3. ASSUME NEW a \in Audits PROVE Accounted(a)'
  BY DEF Accounted, Running, Phases, Audits, AuditTypeOK
<1> QED BY <1>1, <1>2, <1>3

LEMMA BeginKeeps ==
  ASSUME AuditInv, NEW a \in Audits, BeginAudit(a),
         UNCHANGED <<yankedSoFar, yankedAtLaunch, foreign>>
  PROVE  /\ left' \in [Audits -> SUBSET Names]
         /\ inflight' \in [Audits -> SUBSET Names]
         /\ looked' \in [Audits -> SUBSET PinnedDeps]
         /\ found' \in [Audits -> SUBSET PinnedDeps]
         /\ errors' \in [Audits -> BOOLEAN]
         /\ found'[a] \subseteq yankedSoFar'
         /\ foreign => errors'[a]
         /\ \A n \in Names : n \in left'[a] \cup inflight'[a]
         /\ \A b \in Audits : b # a /\ Running(b)' = Running(b) => Accounted(b)'
<1> USE DEF AuditInv, BeginAudit
<1>1. errors' \in [Audits -> BOOLEAN] /\ errors'[a] = foreign
  BY DEF AuditTypeOK
<1> QED BY <1>1 DEF AuditTypeOK, Accounted

LEMMA WorkerKeeps ==
  ASSUME AuditInv, WorkerNext
  PROVE  AuditInv'
<1> USE DEF AuditInv
<1>1. CASE WorkerStarts
  <2>1. /\ worker = "starting" /\ worker' = "auditing" /\ file' = Plain("pending")
        /\ BeginAudit("background")
        /\ UNCHANGED <<yankedSoFar, yankedAtLaunch, foreign, config, post, outcome>>
    BY <1>1 DEF WorkerStarts
  <2>2. "background" \in Audits
    BY DEF Audits
  <2>3. ASSUME NEW a \in Audits PROVE Accounted(a)'
    <3>1. CASE a = "background"
      BY <2>1, <2>2, <3>1, BeginKeeps DEF Accounted
    <3>2. CASE a # "background"
      BY <2>1, <2>2, <3>2, BeginKeeps DEF Running
    <3> QED BY <3>1, <3>2
  <2>4. AuditTypeOK'
    BY <2>1, <2>2, BeginKeeps, PlainResult DEF AuditTypeOK, Statuses
  <2> QED BY <2>1, <2>3, <2>4 DEF Phases, SeenYanked, FileHonest, Plain
<1>2. CASE WorkerConcludes \/ WorkerCut \/ WorkerThrows
  <2>1. PICK result \in Results :
          /\ Publish(result)
          /\ result.yanked \subseteq yankedSoFar
          /\ result.status = "yanked" => result.yanked # {}
          /\ result.status = "clean" => ~foreign /\ yankedAtLaunch = {}
    <3>1. "background" \in Audits
      BY DEF Audits
    <3>2. CASE WorkerConcludes
      BY <3>1, <3>2, ConclusionHonest DEF WorkerConcludes
    <3>3. CASE WorkerCut
      BY <3>1, <3>3, CutHonest DEF WorkerCut
    <3>4. CASE WorkerThrows
      BY <3>4, PlainResult DEF WorkerThrows, Plain, Statuses
    <3> QED BY <1>2, <3>2, <3>3, <3>4
  <2>2. worker # "none" => post # "main"
    BY DEF Phases
  <2>3. worker # "none"
    BY <1>2 DEF WorkerConcludes, WorkerCut, WorkerThrows, Running, MayCut
  <2>4. AuditTypeOK' /\ Phases' /\ SeenYanked' /\ FileHonest'
    BY <2>1, <2>2, <2>3 DEF Publish, poolVars, AuditTypeOK, Phases, SeenYanked, FileHonest
  <2>5. ASSUME NEW a \in Audits PROVE Accounted(a)'
    BY <2>1 DEF Publish, poolVars, Accounted, Running
  <2> QED BY <2>4, <2>5
<1>3. CASE WorkerDies
  <2>1. AuditTypeOK' /\ Phases' /\ SeenYanked' /\ FileHonest'
    BY <1>3 DEF WorkerDies, poolVars, AuditTypeOK, Phases, SeenYanked, FileHonest
  <2>2. ASSUME NEW a \in Audits PROVE Accounted(a)'
    BY <1>3 DEF WorkerDies, poolVars, Accounted, Running
  <2> QED BY <2>1, <2>2
<1> QED BY <1>1, <1>2, <1>3 DEF WorkerNext

LEMMA PoolKeeps ==
  ASSUME AuditInv, NEW a \in Audits, PoolNext(a)
  PROVE  AuditInv'
<1> USE DEF AuditInv
<1>1. PICK n \in Names : Request(a, n) \/ Answer(a, n) \/ RequestFails(a, n)
  BY DEF PoolNext
<1>2. /\ Running(a)
      /\ UNCHANGED <<yankedSoFar, yankedAtLaunch, foreign, config, file, worker, post, outcome>>
  BY <1>1 DEF Request, Answer, RequestFails, PoolStep
<1>3. Pins(n) \subseteq PinnedDeps
  BY PinsAreDeps
<1>4. AuditTypeOK'
  <2>1. CASE Request(a, n)
    BY <1>2, <2>1 DEF Request, AuditTypeOK
  <2>2. CASE Answer(a, n)
    BY <1>2, <1>3, <2>2 DEF Answer, AuditTypeOK
  <2>3. CASE RequestFails(a, n)
    BY <1>2, <2>3 DEF RequestFails, RecordError, AuditTypeOK
  <2> QED BY <1>1, <2>1, <2>2, <2>3
<1>5. Phases' /\ FileHonest'
  BY <1>2 DEF Phases, FileHonest
<1>6. ASSUME NEW b \in Audits PROVE Accounted(b)'
  <2>1. CASE b # a
    BY <1>1, <1>2, <2>1
       DEF Request, Answer, RequestFails, RecordError, Accounted, Running, AuditTypeOK
  <2>2. CASE b = a
    <3>1. CASE Request(a, n)
      BY <1>2, <2>2, <3>1 DEF Request, Accounted, Running, AuditTypeOK
    <3>2. CASE Answer(a, n)
      <4>1. /\ left'[a] = left[a] /\ inflight'[a] = inflight[a] \ {n}
            /\ found'[a] = found[a] \cup (Pins(n) \cap yankedSoFar)
            /\ errors'[a] = errors[a]
        BY <3>2 DEF Answer, AuditTypeOK
      <4>2. yankedAtLaunch \subseteq yankedSoFar
        BY DEF SeenYanked
      <4> QED BY <1>2, <2>2, <4>1, <4>2 DEF Accounted, Running
    <3>3. CASE RequestFails(a, n)
      <4>1. errors'[a] /\ UNCHANGED <<left, looked, found>>
        BY <3>3 DEF RequestFails, RecordError, AuditTypeOK
      <4> QED BY <1>2, <2>2, <4>1 DEF Accounted
    <3> QED BY <1>1, <3>1, <3>2, <3>3
  <2> QED BY <2>1, <2>2
<1> QED BY <1>2, <1>4, <1>5, <1>6 DEF SeenYanked

LEMMA RecheckKeeps ==
  ASSUME AuditInv, PostMoves, Recheck, post # "main", post # "recheck", outcome = "none"
  PROVE  AuditInv'
<1> USE DEF AuditInv, PostMoves
<1>1. CASE config
  <2>1. post' = "recheck" /\ BeginAudit("foreground") /\ UNCHANGED outcome
    BY <1>1 DEF Recheck
  <2>2. "foreground" \in Audits
    BY DEF Audits
  <2>3. AuditTypeOK' /\ Phases' /\ FileHonest'
    BY <2>1, <2>2, BeginKeeps DEF AuditTypeOK, Phases, FileHonest
  <2>4. ASSUME NEW a \in Audits PROVE Accounted(a)'
    <3>1. CASE a = "foreground"
      BY <2>1, <2>2, <3>1, BeginKeeps DEF Accounted
    <3>2. CASE a # "foreground"
      BY <2>1, <2>2, <3>2, BeginKeeps DEF Running, Audits
    <3> QED BY <3>1, <3>2
  <2> QED BY <2>3, <2>4 DEF SeenYanked
<1>2. CASE ~config
  <2>1. Decide("not-checked")
    BY <1>2 DEF Recheck
  <2> QED BY <2>1 DEF Decide, poolVars, AuditTypeOK, Statuses, Phases, FileHonest, Accounted,
                      Running, Audits, SeenYanked
<1> QED BY <1>1, <1>2

LEMMA DecideKeeps ==
  ASSUME AuditInv, PostMoves, post # "main", NEW v \in {"clean", "yanked", "not-checked"}, Decide(v)
  PROVE  AuditInv'
BY DEF AuditInv, PostMoves, Decide, poolVars, AuditTypeOK, Statuses, Phases, FileHonest, Accounted,
       Running, Audits, SeenYanked

\* The file is only believed when it concludes.
LEMMA FileVerdictType ==
  ASSUME AuditInv, Conclusive
  PROVE  FileVerdict \in {"clean", "yanked"}
BY DEF FileVerdict, Conclusive, AuditInv, AuditTypeOK

LEMMA PostKeeps ==
  ASSUME AuditInv, PostNext
  PROVE  AuditInv'
<1> USE DEF AuditInv
<1>1. CASE PostJoins
  BY <1>1 DEF PostJoins, PostMoves, poolVars, AuditTypeOK, Phases, FileHonest, Accounted,
              Running, Audits, SeenYanked
<1>2. CASE ReadFile \/ Poll \/ PollExpires
  <2>1. post \in {"join", "poll"} /\ PostMoves /\ outcome = "none"
    BY <1>2 DEF ReadFile, Poll, PollExpires, Phases
  <2>2. CASE Conclusive /\ Decide(FileVerdict)
    BY <2>1, <2>2, FileVerdictType, DecideKeeps
  <2>3. CASE Recheck
    BY <2>1, <2>3, RecheckKeeps
  <2>4. CASE post' = "poll" /\ UNCHANGED <<poolVars, outcome>>
    BY <2>1, <2>4 DEF PostMoves, poolVars, AuditTypeOK, Phases, FileHonest, Accounted, Running,
                      Audits, SeenYanked
  <2> QED BY <1>2, <2>2, <2>3, <2>4 DEF ReadFile, Poll, PollExpires
<1>3. CASE RecheckConcludes
  <2>1. Conclusion("foreground").status \in {"clean", "yanked", "not-checked"}
    BY <1>3, ConclusionHonest DEF RecheckConcludes, Audits
  <2> QED BY <1>3, <2>1, DecideKeeps DEF RecheckConcludes, Running
<1>4. CASE RecheckCut
  <2>1. Cut("foreground").status = "not-checked"
    BY CutHonest DEF Audits
  <2> QED BY <1>4, <2>1, DecideKeeps DEF RecheckCut, MayCut, Running
<1> QED BY <1>1, <1>2, <1>3, <1>4 DEF PostNext

LEMMA YankKeeps ==
  ASSUME AuditInv, NEW d \in PinnedDeps, Yank(d)
  PROVE  AuditInv'
BY DEF Yank, poolVars, AuditInv, AuditTypeOK, Phases, FileHonest, Accounted, Running, SeenYanked

LEMMA AuditNextInv == AuditInv /\ [AuditNext]_yankAuditVars => AuditInv'
<1> SUFFICES ASSUME AuditInv, [AuditNext]_yankAuditVars PROVE AuditInv'
  OBVIOUS
<1>1. CASE UNCHANGED yankAuditVars
  BY <1>1 DEF yankAuditVars, poolVars, AuditInv, AuditTypeOK, Phases, FileHonest, Accounted,
              Running, SeenYanked
<1>2. CASE AuditNext
  BY <1>1, <1>2, LaunchKeeps, WorkerKeeps, PostKeeps, PoolKeeps, YankKeeps DEF AuditNext, AuditDone
<1> QED BY <1>1, <1>2

LEMMA AuditInductive == AuditSpec => []AuditInv
BY AuditInitInv, AuditNextInv, PTL DEF AuditSpec

\* Every variable keeps its type, for every lockfile and pool.
THEOREM AuditTypeCorrect == AuditSpec => []AuditTypeOK
<1>1. AuditInv => AuditTypeOK
  BY DEF AuditInv
<1> QED BY <1>1, AuditInductive, PTL
-----------------------------------------------------------------------------
(***************************************************************************)
(* The refinement                                                          *)
(***************************************************************************)
\* A step of the audit is a launch, a decision, a yank, or invisible.
LEMMA StepRefines ==
  ASSUME AuditInv, [AuditNext]_yankAuditVars
  PROVE  [Contract!Next]_(Contract!vars)
<1> USE DEF Contract!vars, Contract!Next, Launched
<1>1. CASE MainNext
  <2>1. Contract!Launch
    BY <1>1 DEF MainNext, LaunchFails, SpawnFails, LaunchWorker, Launches, Contract!Launch
  <2> QED BY <2>1
<1>2. CASE WorkerNext \/ \E a \in Audits : PoolNext(a)
  BY <1>2 DEF WorkerNext, WorkerStarts, WorkerConcludes, WorkerCut, WorkerThrows, WorkerDies,
              Publish, PoolNext, Request, Answer, RequestFails, PoolStep
<1>3. ASSUME NEW v \in {"clean", "yanked", "not-checked"}, Decide(v), PostMoves,
             post \notin {"main", "decided"}, Contract!Justified(v)
      PROVE  Contract!Decide
  BY <1>3 DEF Decide, PostMoves, Contract!Decide, AuditInv, Phases
<1>4. ASSUME Recheck, PostMoves, post \in {"join", "poll"}
      PROVE  Contract!Decide \/ UNCHANGED Contract!vars
  <2>1. CASE config
    BY <1>4, <2>1 DEF Recheck, PostMoves
  <2>2. CASE ~config
    <3>1. Decide("not-checked")
      BY <1>4, <2>2 DEF Recheck
    <3> QED BY <1>3, <1>4, <3>1 DEF Contract!Justified
  <2> QED BY <2>1, <2>2
<1>5. ASSUME Conclusive, Decide(FileVerdict), PostMoves, post \in {"join", "poll"}
      PROVE  Contract!Decide
  <2>1. Contract!Justified(FileVerdict)
    <3>1. CASE file.yanked # {}
      BY <3>1 DEF FileVerdict, AuditInv, FileHonest, Contract!Justified
    <3>2. CASE file.yanked = {}
      BY <1>5, <3>2 DEF FileVerdict, Conclusive, AuditInv, FileHonest, Contract!Justified
    <3> QED BY <3>1, <3>2
  <2> QED BY <1>3, <1>5, <2>1, FileVerdictType
<1>6. CASE PostNext
  <2>1. CASE PostJoins
    BY <2>1 DEF PostJoins, PostMoves
  <2>2. CASE ReadFile \/ Poll \/ PollExpires
    <3>1. post \in {"join", "poll"} /\ PostMoves
      BY <2>2 DEF ReadFile, Poll, PollExpires
    <3>2. CASE Conclusive /\ Decide(FileVerdict)
      BY <1>5, <3>1, <3>2
    <3>3. CASE Recheck
      BY <1>4, <3>1, <3>3
    <3>4. CASE post' = "poll" /\ UNCHANGED <<poolVars, outcome>>
      BY <3>1, <3>4 DEF PostMoves
    <3> QED BY <2>2, <3>2, <3>3, <3>4 DEF ReadFile, Poll, PollExpires
  <2>3. CASE RecheckConcludes
    <3>1. /\ Conclusion("foreground").status \in {"clean", "yanked", "not-checked"}
          /\ Contract!Justified(Conclusion("foreground").status)
      BY <2>3, ConclusionHonest DEF RecheckConcludes, Audits, Contract!Justified
    <3> QED BY <1>3, <2>3, <3>1 DEF RecheckConcludes, Running
  <2>4. CASE RecheckCut
    <3>1. Cut("foreground").status = "not-checked"
      BY CutHonest DEF Audits
    <3> QED BY <1>3, <2>4, <3>1 DEF RecheckCut, MayCut, Running, Contract!Justified
  <2> QED BY <1>6, <2>1, <2>2, <2>3, <2>4 DEF PostNext
<1>7. ASSUME NEW d \in PinnedDeps, Yank(d) PROVE Contract!Yank
  <2>1. yankedSoFar' = yankedSoFar \cup {d} /\ UNCHANGED <<yankedAtLaunch, foreign, post, outcome>>
    BY <1>7 DEF Yank
  <2> QED BY <2>1 DEF Contract!Yank, AuditInv, AuditTypeOK
<1>8. CASE AuditDone \/ UNCHANGED yankAuditVars
  BY <1>8 DEF AuditDone, yankAuditVars
<1> QED BY <1>1, <1>2, <1>6, <1>7, <1>8 DEF AuditNext

\* For every lockfile, the audit that main, its worker and post carry out
\* together implements AuditVerdict.
THEOREM AuditImplementsContract == AuditSpec => KeepsContract
<1>1. AuditInit => Contract!Init
  BY DEF AuditInit, Contract!Init, Launched
<1> QED BY <1>1, AuditInductive, StepRefines, PTL DEF AuditSpec, KeepsContract, Contract!Spec
=============================================================================
