--------------------- MODULE SoloToolchainCache_proofs ---------------------
(***************************************************************************)
(* For any jobs, refs and keys, the solo toolchain cache keeps its types,  *)
(* a poisoned entry is removed or reported, one that survives under the    *)
(* exact key fails its job, and what a repair publishes is whole.          *)
(***************************************************************************)
EXTENDS SoloToolchainCache, TLAPS

\* A job whose post step has begun to save.
Saving == {"stage", "probe", "reserve", "upload", "lookup", "done"}

\* An entry a job saved was saved at the end of that job.
Author(e) == e # Nothing /\ e.by \in Jobs => pc[e.by] = "done"

\* What a job restored was an entry.
Restored(j) ==
  /\ Author(origin[j])
  /\ pc[j] = "restore" => matched[j] = Nothing
  /\ matched[j] # Nothing => origin[j] # Nothing
  /\ invalid[j] => matched[j] # Nothing

\* What post has done about a toolchain that did not pass.
Course(j) ==
  /\ pc[j] \in {"restore", "install", "post"} => repair[j] = "none"
  /\ pc[j] \in {"precheck", "probe"} => ~invalid[j]
  /\ pc[j] \in {"list", "delete"} => invalid[j]
  /\ pc[j] # "done" => result[j] = "none"
  /\ pc[j] \in Saving /\ invalid[j] => repair[j] # "none"
  /\ pc[j] = "lookup" => repair[j] = "complete"
  /\ pc[j] = "done" /\ invalid[j] /\ ~failed[j] =>
       result[j] \in {"policy-skip", "saved"} \/ repair[j] = "complete"

\* What a job restored is gone from its own ref once its deletion is complete
\* or its own entry is there.
Removed(j) ==
  /\ invalid[j] /\ repair[j] = "complete" /\ matched[j][2] = ref[j] => PoisonGone(j)
  /\ invalid[j] /\ result[j] = "saved" /\ matched[j] = Here(j) => PoisonGone(j)

\* What a repair is about to publish is staged in full.
Staged(j) == invalid[j] /\ pc[j] \in {"reserve", "upload"} => staged[j]

OfJob(j) == Restored(j) /\ Course(j) /\ Removed(j) /\ Staged(j)

IInv ==
  /\ TypeOK
  /\ \A s \in Slots : Author(store[s])
  /\ \A j \in Jobs : OfJob(j)
  /\ ReplacementsWhole

-----------------------------------------------------------------------------
LEMMA Marks ==
  /\ Nothing \notin Slots /\ Nothing \notin Entries
  /\ \A j \in Jobs : j # Earlier
  /\ \A s \in Slots : s[1] \in Keys /\ s[2] \in Refs /\ s = <<s[1], s[2]>>
  /\ \A e \in Entries : e.by \in Jobs \cup {Earlier} /\ e.whole \in BOOLEAN
  BY NothingAssumption, EarlierAssumption DEF Slots, Entries

LEMMA HereTyped == ASSUME TypeOK, NEW j \in Jobs PROVE Here(j) \in Slots /\ Here(j)[1] = Exact /\ Here(j)[2] = ref[j]
  BY KeysAssumption DEF TypeOK, Here, Slots

LEMMA SuspectTyped ==
  ASSUME TypeOK, NEW j \in Jobs, matched[j] # Nothing
  PROVE  /\ matched[j] \in Slots /\ Suspect(j) \in Slots
         /\ matched[j][2] = ref[j] => Suspect(j) = matched[j]
  BY Marks DEF TypeOK, Suspect, Slots

LEMMA InitIInv == Init => IInv
<1> SUFFICES ASSUME Init PROVE IInv
  OBVIOUS
<1>1. TypeOK
  <2>1. store \in [Slots -> Entries \cup {Nothing}]
    BY DEF Init, Entries
  <2> QED BY <2>1 DEF Init, TypeOK, Phases, Results
<1>2. \A s \in Slots : store[s] # Nothing => store[s].by \notin Jobs
  BY Marks DEF Init, Entries
<1>3. \A j \in Jobs : OfJob(j)
  BY DEF Init, OfJob, Restored, Author, Course, Removed, Staged, Saving
<1> QED BY <1>1, <1>2, <1>3 DEF IInv, Author, ReplacementsWhole

-----------------------------------------------------------------------------
\* Each step of a job changes its own variables only.
OthersKept(j) ==
  \A i \in Jobs \ {j} :
    /\ pc'[i] = pc[i] /\ matched'[i] = matched[i] /\ origin'[i] = origin[i]
    /\ invalid'[i] = invalid[i] /\ repair'[i] = repair[i] /\ staged'[i] = staged[i]
    /\ result'[i] = result[i] /\ failed'[i] = failed[i]

\* A step that leaves the store alone, of a job that is not done, keeps the
\* invariant when it keeps it for the job.
LEMMA Frame ==
  ASSUME IInv, NEW j \in Jobs, OthersKept(j), UNCHANGED <<store, ref>>, pc[j] # "done",
         TypeOK', OfJob(j)'
  PROVE  IInv'
<1>1. ASSUME NEW e \in Entries \cup {Nothing}, Author(e) PROVE Author(e)'
  BY <1>1 DEF Author, OthersKept, IInv
<1>2. \A s \in Slots : Author(store[s])'
  BY <1>1 DEF IInv, TypeOK
<1>3. ASSUME NEW i \in Jobs, i # j PROVE OfJob(i)'
  <2>1. Restored(i)'
    BY <1>1, <1>3 DEF IInv, TypeOK, OfJob, Restored, OthersKept
  <2>2. Course(i)' /\ Staged(i)'
    BY <1>3 DEF IInv, OfJob, Course, Staged, OthersKept
  <2>3. Removed(i)'
    BY <1>3 DEF IInv, OfJob, Removed, PoisonGone, Here, OthersKept
  <2> QED BY <2>1, <2>2, <2>3 DEF OfJob
<1>4. ReplacementsWhole'
  <2> SUFFICES ASSUME NEW s \in Slots, store[s] # Nothing, store[s].by \in Jobs, invalid'[store[s].by]
               PROVE  store[s].whole
    BY DEF ReplacementsWhole
  <2>1. store[s].by # j
    BY DEF IInv, Author
  <2> QED BY <2>1 DEF IInv, ReplacementsWhole, OthersKept
<1> QED BY <1>2, <1>3, <1>4 DEF IInv

\* What a job's settlement of its save does.
LEMMA Settles ==
  ASSUME TypeOK, NEW j \in Jobs, NEW status \in Results, NEW fails \in BOOLEAN, Settle(j, status, fails)
  PROVE  /\ result' = [result EXCEPT ![j] = status]
         /\ failed' \in [Jobs -> BOOLEAN] /\ failed'[j] = (failed[j] \/ (invalid[j] /\ fails))
         /\ \A i \in Jobs \ {j} : failed'[i] = failed[i]
         /\ pc' = [pc EXCEPT ![j] = "done"]
<1> DEFINE f == failed[j] \/ (invalid[j] /\ fails)
<1>1. failed' = [failed EXCEPT ![j] = f] /\ f \in BOOLEAN
  BY DEF Settle
<1> HIDE DEF f
<1>2. failed' \in [Jobs -> BOOLEAN] /\ failed'[j] = f /\ \A i \in Jobs \ {j} : failed'[i] = failed[i]
  BY <1>1 DEF TypeOK
<1> QED BY <1>2 DEF Settle, Goto, f

\* The same for a job that ends its save here, and leaves the store alone.
LEMMA SettleKeeps ==
  ASSUME IInv, NEW j \in Jobs, NEW status \in Results \ {"saved"}, NEW fails \in BOOLEAN,
         Settle(j, status, fails), staged' \in [Jobs -> BOOLEAN],
         \A i \in Jobs \ {j} : staged'[i] = staged[i],
         uploading' \in [Jobs -> Slots \cup {Nothing}],
         UNCHANGED <<store, ref, matched, origin, invalid, unchanged, diff, listed, repair>>,
         pc[j] \in Saving \cup {"precheck"}, pc[j] # "done",
         invalid[j] => fails \/ status = "policy-skip" \/ repair[j] = "complete"
  PROVE  IInv'
<1> USE DEF IInv
<1>1. /\ result' = [result EXCEPT ![j] = status]
      /\ failed' \in [Jobs -> BOOLEAN] /\ failed'[j] = (failed[j] \/ (invalid[j] /\ fails))
      /\ \A i \in Jobs \ {j} : failed'[i] = failed[i]
      /\ pc' = [pc EXCEPT ![j] = "done"]
  BY Settles
<1>2. TypeOK' /\ OthersKept(j) /\ pc'[j] = "done" /\ result'[j] = status
  BY <1>1 DEF TypeOK, OthersKept, Phases
<1>3. Restored(j)'
  <2>1. Author(origin[j])'
    BY <1>2 DEF OfJob, Restored, Author, OthersKept
  <2> QED BY <1>2, <2>1 DEF OfJob, Restored
<1>4. Course(j)'
  BY <1>1, <1>2 DEF OfJob, Course, Saving
<1>5. Removed(j)' /\ Staged(j)'
  BY <1>2 DEF OfJob, Removed, Staged, PoisonGone, Here
<1> QED BY <1>2, <1>3, <1>4, <1>5, Frame DEF OfJob

\* And for one that moves on.
LEMMA MoveKeeps ==
  ASSUME IInv, NEW j \in Jobs, NEW to \in Phases \ {"done"}, Goto(j, to),
         UNCHANGED <<store, ref, matched, origin, invalid, result, failed>>,
         uploading' \in [Jobs -> Slots \cup {Nothing}],
         unchanged' \in [Jobs -> BOOLEAN], diff' \in [Jobs -> {"none", "empty", "full"}],
         listed' \in [Jobs -> Entries \cup {Nothing}],
         repair' \in [Jobs -> {"none", "complete", "incomplete"}],
         staged' \in [Jobs -> BOOLEAN],
         \A i \in Jobs \ {j} : staged'[i] = staged[i] /\ repair'[i] = repair[i],
         pc[j] # "done", to # "restore",
         to \in {"install", "post"} => repair'[j] = "none",
         to \in {"precheck", "probe"} => ~invalid[j],
         to \in {"list", "delete"} => invalid[j],
         to \in Saving /\ invalid[j] => repair'[j] # "none",
         to = "lookup" => repair'[j] = "complete",
         to \in {"reserve", "upload"} /\ invalid[j] => staged'[j],
         repair'[j] = repair[j] \/ repair'[j] = "incomplete" \/ (matched[j][2] = ref[j] => PoisonGone(j))
  PROVE  IInv'
<1> USE DEF IInv
<1>1. TypeOK' /\ OthersKept(j) /\ pc'[j] = to
  BY DEF Goto, TypeOK, OthersKept
<1>2. Restored(j)'
  <2>1. Author(origin[j])'
    BY <1>1 DEF OfJob, Restored, Author, OthersKept
  <2> QED BY <1>1, <2>1 DEF OfJob, Restored
<1>3. Course(j)'
  BY <1>1 DEF OfJob, Course
<1>4. Staged(j)'
  BY <1>1 DEF Staged
<1>5. Removed(j)'
  BY <1>1 DEF OfJob, Removed, PoisonGone, Here
<1> QED BY <1>1, <1>2, <1>3, <1>4, <1>5, Frame DEF OfJob

-----------------------------------------------------------------------------
\* Main, and the step into post.
LEMMA MainKeeps ==
  ASSUME IInv, NEW j \in Jobs,
         \/ RestoreMiss(j) \/ \E s \in Slots : RestoreHit(j, s)
         \/ SkipInstall(j) \/ Install(j) \/ InstallThrows(j) \/ PostStart(j)
  PROVE  IInv'
<1> USE DEF IInv
<1>1. CASE RestoreMiss(j)
  <2>1. "install" \in Phases \ {"done"} /\ repair'[j] = "none"
    BY <1>1 DEF RestoreMiss, jobVars, At, OfJob, Course, Phases
  <2> QED BY <1>1, <2>1, MoveKeeps DEF RestoreMiss, jobVars, At, TypeOK, Saving
<1>2. ASSUME NEW s \in Slots, RestoreHit(j, s) PROVE IInv'
  <2>1. PICK bad \in BOOLEAN : /\ invalid' = [invalid EXCEPT ![j] = bad]
    BY <1>2 DEF RestoreHit
  <2>2. store[s] # Nothing
    BY <1>2 DEF RestoreHit, Candidates, OnRef, Found
  <2>3. /\ matched' = [matched EXCEPT ![j] = s] /\ origin' = [origin EXCEPT ![j] = store[s]]
        /\ pc' = [pc EXCEPT ![j] = "install"] /\ pc[j] = "restore"
        /\ UNCHANGED <<store, uploading, ref, unchanged, diff, listed, repair, staged, result, failed>>
    BY <1>2 DEF RestoreHit, Goto, At
  <2>4. TypeOK' /\ OthersKept(j) /\ pc'[j] = "install"
    BY <2>1, <2>3 DEF TypeOK, OthersKept, Phases
  <2>5. Author(store[s]) /\ origin'[j] = store[s] /\ matched'[j] = s /\ s # Nothing
    BY <2>3, Marks DEF TypeOK
  <2>6. Restored(j)'
    <3>1. Author(origin[j])'
      BY <2>3, <2>4, <2>5 DEF Author, OthersKept
    <3> QED BY <3>1, <2>2, <2>4, <2>5 DEF Restored
  <2>7. repair[j] = "none" /\ result[j] = "none"
    BY <2>3 DEF OfJob, Course
  <2>8. Course(j)' /\ Removed(j)' /\ Staged(j)'
    BY <2>3, <2>4, <2>7 DEF Course, Removed, Staged, Saving
  <2> QED BY <2>3, <2>4, <2>6, <2>8, Frame DEF OfJob
<1>3. CASE SkipInstall(j) \/ Install(j)
  <2>1. PICK d \in {"none", "empty", "full"}, b \in BOOLEAN : RecordDiff(j, d, b)
    <3>1. \A d \in {"none", "empty", "full"} : (d # "none") \in BOOLEAN
      OBVIOUS
    <3> QED BY <1>3, <3>1 DEF SkipInstall, Install
  <2>2. pc[j] = "install" /\ repair[j] = "none" /\ "post" \in Phases \ {"done"}
    BY <1>3 DEF SkipInstall, Install, At, OfJob, Course, Phases
  <2> QED BY <2>1, <2>2, MoveKeeps DEF RecordDiff, TypeOK, Saving
<1>4. CASE InstallThrows(j)
  <2>1. /\ failed' = [failed EXCEPT ![j] = TRUE] /\ pc' = [pc EXCEPT ![j] = "post"] /\ pc[j] = "install"
        /\ UNCHANGED <<store, uploading, ref, matched, origin, invalid, unchanged, diff, listed,
                       repair, staged, result>>
    BY <1>4 DEF InstallThrows, Goto, At
  <2>2. TypeOK' /\ OthersKept(j) /\ pc'[j] = "post"
    BY <2>1 DEF TypeOK, OthersKept, Phases
  <2>3. Restored(j)'
    <3>1. Author(origin[j])'
      BY <2>1, <2>2 DEF OfJob, Restored, Author, OthersKept
    <3> QED BY <2>1, <2>2, <3>1 DEF OfJob, Restored
  <2>4. Course(j)' /\ Removed(j)' /\ Staged(j)'
    BY <2>1, <2>2 DEF OfJob, Course, Removed, Staged, PoisonGone, Here, Saving
  <2> QED BY <2>1, <2>2, <2>3, <2>4, Frame DEF OfJob
<1>5. CASE PostStart(j)
  <2> DEFINE to == IF invalid[j] THEN "list" ELSE "precheck"
  <2>1. /\ Goto(j, to) /\ to \in Phases \ {"done"} /\ pc[j] = "post" /\ repair[j] = "none"
        /\ to \in {"list", "precheck"} /\ (to = "list" <=> invalid[j])
    BY <1>5 DEF PostStart, At, OfJob, Course, Phases
  <2> HIDE DEF to
  <2> QED BY <1>5, <2>1, MoveKeeps DEF PostStart, jobVars, TypeOK, Saving
<1> QED BY <1>1, <1>2, <1>3, <1>4, <1>5

\* The deletion of the entry that did not pass.
LEMMA RepairKeeps ==
  ASSUME IInv, NEW j \in Jobs, ListCorrupt(j) \/ DeleteListed(j) \/ DeleteFails(j)
  PROVE  IInv'
<1> USE DEF IInv
<1>1. /\ invalid[j] /\ matched[j] # Nothing /\ origin[j] # Nothing
      /\ matched[j] \in Slots /\ Suspect(j) \in Slots
      /\ matched[j][2] = ref[j] => Suspect(j) = matched[j]
  <2>1. pc[j] \in {"list", "delete"}
    BY DEF ListCorrupt, DeleteListed, DeleteFails, At
  <2> QED BY <2>1, SuspectTyped DEF OfJob, Course, Restored
<1>2. "stage" \in Phases \ {"done"} /\ "delete" \in Phases \ {"done"}
  BY DEF Phases
<1>3. CASE ListCorrupt(j)
  <2>1. CASE ListFails(j)
    <3>1. /\ Goto(j, "stage") /\ repair' = [repair EXCEPT ![j] = "incomplete"]
          /\ UNCHANGED <<store, uploading, ref, matched, origin, invalid, unchanged, diff, staged,
                         result, failed, listed>>
      BY <1>3, <2>1 DEF ListCorrupt, ListFails, AfterRepair
    <3>2. /\ repair' \in [Jobs -> {"none", "complete", "incomplete"}] /\ repair'[j] = "incomplete"
          /\ \A i \in Jobs \ {j} : repair'[i] = repair[i]
      BY <3>1 DEF TypeOK
    <3> QED BY <1>3, <1>2, <3>1, <3>2, MoveKeeps DEF ListCorrupt, At, TypeOK, Saving
  <2>2. CASE ListFound(j) /\ Found(Suspect(j)[1], ref[j])
    <3>1. /\ Goto(j, "delete") /\ UNCHANGED repair
          /\ listed' \in [Jobs -> Entries \cup {Nothing}]
      BY <2>2, <1>1 DEF ListFound, TypeOK
    <3> QED BY <1>1, <1>2, <1>3, <3>1, MoveKeeps DEF ListCorrupt, At, TypeOK, Saving
  <2>3. CASE ListFound(j) /\ ~Found(Suspect(j)[1], ref[j])
    <3>1. /\ Goto(j, "stage") /\ repair' = [repair EXCEPT ![j] = "complete"]
          /\ listed' \in [Jobs -> Entries \cup {Nothing}]
      BY <2>3, <1>1 DEF ListFound, AfterRepair, TypeOK
    <3>2. /\ repair' \in [Jobs -> {"none", "complete", "incomplete"}] /\ repair'[j] = "complete"
          /\ \A i \in Jobs \ {j} : repair'[i] = repair[i]
      BY <3>1 DEF TypeOK
    <3>3. matched[j][2] = ref[j] => PoisonGone(j)
      BY <1>1, <2>3 DEF Found, Suspect, PoisonGone
    <3> QED BY <1>1, <1>2, <1>3, <3>1, <3>2, <3>3, MoveKeeps DEF ListCorrupt, At, TypeOK, Saving
  <2> QED BY <1>3, <2>1, <2>2, <2>3 DEF ListCorrupt
<1>4. CASE DeleteListed(j)
  <2>1. /\ store' = [store EXCEPT ![Suspect(j)] = Nothing]
        /\ repair' = [repair EXCEPT ![j] = "complete"] /\ pc' = [pc EXCEPT ![j] = "stage"]
        /\ pc[j] = "delete"
        /\ UNCHANGED <<uploading, ref, matched, origin, invalid, unchanged, diff, listed, staged,
                       result, failed>>
    BY <1>4 DEF DeleteListed, AfterRepair, Goto, At
  <2>2. TypeOK' /\ OthersKept(j) /\ pc'[j] = "stage" /\ repair'[j] = "complete"
    BY <2>1 DEF TypeOK, OthersKept, Phases
  <2>3. \A s \in Slots : store'[s] \in {store[s], Nothing}
    BY <2>1 DEF TypeOK
  <2>4. \A e \in Entries \cup {Nothing} : Author(e) => Author(e)'
    BY <2>1, <2>2 DEF Author, OthersKept
  <2>5. \A s \in Slots : Author(store[s])'
    <3> SUFFICES ASSUME NEW s \in Slots, store'[s] # Nothing PROVE Author(store[s])'
      BY DEF Author
    <3>1. store'[s] = store[s] /\ store[s] \in Entries
      BY <2>3 DEF TypeOK
    <3> QED BY <3>1, <2>1, <2>2 DEF Author, OthersKept
  <2>6. \A i \in Jobs : invalid[i] => origin[i] # Nothing /\ matched[i] \in Slots
    BY DEF OfJob, Restored, TypeOK
  <2>7. ASSUME NEW i \in Jobs PROVE Restored(i)' /\ Removed(i)'
    <3>1. Author(origin[i])'
      BY <2>1, <2>2 DEF OfJob, Restored, Author, OthersKept
    <3>2. Restored(i)'
      BY <2>1, <2>2, <3>1 DEF OfJob, Restored, OthersKept
    <3>3. i # j => Removed(i)'
      BY <2>1, <2>2, <2>3, <2>6 DEF OfJob, Removed, PoisonGone, Here, OthersKept
    <3>4. Removed(j)'
      <4>1. result[j] = "none"
        BY <2>1 DEF OfJob, Course
      <4>2. matched[j][2] = ref[j] => store'[matched[j]] = Nothing
        BY <1>1, <2>1 DEF TypeOK
      <4> QED BY <1>1, <2>1, <4>1, <4>2 DEF Removed, PoisonGone
    <3> QED BY <3>2, <3>3, <3>4
  <2>8. ASSUME NEW i \in Jobs PROVE Course(i)' /\ Staged(i)'
    BY <2>1, <2>2 DEF OfJob, Course, Staged, OthersKept, Saving
  <2>9. ReplacementsWhole'
    BY <2>1, <2>3 DEF ReplacementsWhole
  <2> QED BY <2>2, <2>5, <2>7, <2>8, <2>9 DEF OfJob
<1>5. CASE DeleteFails(j)
  <2>1. /\ Goto(j, "stage") /\ repair' = [repair EXCEPT ![j] = "incomplete"]
        /\ UNCHANGED <<store, uploading, ref, matched, origin, invalid, unchanged, diff, staged,
                       result, failed, listed>>
    BY <1>5 DEF DeleteFails, AfterRepair
  <2>2. /\ repair' \in [Jobs -> {"none", "complete", "incomplete"}] /\ repair'[j] = "incomplete"
        /\ \A i \in Jobs \ {j} : repair'[i] = repair[i]
    BY <2>1 DEF TypeOK
  <2> QED BY <1>5, <1>2, <2>1, <2>2, MoveKeeps DEF DeleteFails, At, TypeOK, Saving
<1> QED BY <1>3, <1>4, <1>5

-----------------------------------------------------------------------------
\* The save that did not happen.
LEMMA NotSavedKeeps ==
  ASSUME IInv, NEW j \in Jobs, NotSaved(j), pc[j] \in {"reserve", "upload"},
         uploading' \in [Jobs -> Slots \cup {Nothing}],
         UNCHANGED <<store, ref, matched, origin, invalid, unchanged, diff, listed, repair, staged>>
  PROVE  IInv'
<1> USE DEF IInv
<1>1. CASE invalid[j] /\ repair[j] = "complete"
  <2>1. Goto(j, "lookup") /\ UNCHANGED <<result, failed>> /\ "lookup" \in Phases \ {"done"}
    BY <1>1 DEF NotSaved, Phases
  <2> QED BY <1>1, <2>1, MoveKeeps DEF TypeOK, Saving
<1>2. CASE ~(invalid[j] /\ repair[j] = "complete")
  <2>1. Settle(j, "failed", TRUE) /\ "failed" \in Results \ {"saved"}
    BY <1>2 DEF NotSaved, Results
  <2> QED BY <2>1, SettleKeeps DEF TypeOK, Saving
<1> QED BY <1>1, <1>2

\* The save, up to the upload.
LEMMA SaveKeeps ==
  ASSUME IInv, NEW j \in Jobs,
         \/ Precheck(j) \/ NothingToSave(j) \/ Stage(j) \/ Probe(j)
         \/ Reserve(j) \/ ReserveRefused(j) \/ UploadFails(j) \/ Lookup(j)
  PROVE  IInv'
<1> USE DEF IInv
<1>0. /\ {"stage", "reserve", "probe", "upload"} \subseteq Phases \ {"done"}
      /\ {"race-skip", "not-needed", "policy-skip", "failed"} \subseteq Results \ {"saved"}
      /\ TypeOK /\ Course(j)
  BY DEF Phases, Results, OfJob
<1>1. CASE Precheck(j)
  <2>1. /\ ~invalid[j] /\ pc[j] = "precheck"
        /\ UNCHANGED <<store, uploading, ref, matched, origin, invalid, unchanged, diff, listed,
                       repair, staged>>
    BY <1>0, <1>1 DEF Precheck, At, Course
  <2>2. CASE Settle(j, "race-skip", FALSE)
    BY <1>0, <2>1, <2>2, SettleKeeps DEF TypeOK
  <2>3. CASE Goto(j, "stage") /\ UNCHANGED <<result, failed>>
    BY <1>0, <2>1, <2>3, MoveKeeps DEF TypeOK
  <2> QED BY <1>1, <2>2, <2>3 DEF Precheck
<1>2. CASE NothingToSave(j)
  BY <1>0, <1>2, SettleKeeps DEF NothingToSave, At, TypeOK, Saving
<1>3. CASE Stage(j)
  <2>1. /\ pc[j] = "stage" /\ staged' \in [Jobs -> BOOLEAN]
        /\ \A i \in Jobs \ {j} : staged'[i] = staged[i]
        /\ UNCHANGED <<store, uploading, ref, matched, origin, invalid, unchanged, diff, listed,
                       repair>>
    BY <1>0, <1>3 DEF Stage, At, TypeOK
  <2>2. CASE Settle(j, "failed", TRUE) \/ Settle(j, "policy-skip", FALSE)
    BY <1>0, <2>1, <2>2, SettleKeeps DEF TypeOK, Saving
  <2>3. CASE /\ ~MissingRefused(j)
             /\ Goto(j, IF invalid[j] THEN "reserve" ELSE "probe")
             /\ UNCHANGED <<result, failed>>
    <3> DEFINE to == IF invalid[j] THEN "reserve" ELSE "probe"
    <3>1. /\ Goto(j, to) /\ to \in {"reserve", "probe"} /\ (to = "reserve" <=> invalid[j])
          /\ to \in Phases \ {"done"} /\ UNCHANGED <<result, failed>>
      BY <1>0, <2>3
    <3>2. invalid[j] => staged'[j] /\ repair[j] # "none"
      BY <1>0, <2>1, <2>3 DEF MissingRefused, Course, Saving
    <3> HIDE DEF to
    <3> QED BY <1>0, <2>1, <3>1, <3>2, MoveKeeps DEF TypeOK
  <2> QED BY <1>3, <2>2, <2>3 DEF Stage
<1>4. CASE Probe(j)
  <2>1. /\ ~invalid[j] /\ pc[j] = "probe"
        /\ UNCHANGED <<store, uploading, ref, matched, origin, invalid, unchanged, diff, listed,
                       repair, staged>>
    BY <1>0, <1>4 DEF Probe, At, Course
  <2>2. CASE Settle(j, "race-skip", FALSE)
    BY <1>0, <2>1, <2>2, SettleKeeps DEF TypeOK, Saving
  <2>3. CASE Goto(j, "reserve") /\ UNCHANGED <<result, failed>>
    BY <1>0, <2>1, <2>3, MoveKeeps DEF TypeOK
  <2> QED BY <1>4, <2>2, <2>3 DEF Probe
<1>5. CASE Reserve(j)
  <2>1. /\ pc[j] = "reserve" /\ Goto(j, "upload")
        /\ uploading' \in [Jobs -> Slots \cup {Nothing}]
        /\ UNCHANGED <<store, jobVars>>
    BY <1>0, <1>5, HereTyped DEF Reserve, At, TypeOK
  <2>2. invalid[j] => staged[j] /\ repair[j] # "none"
    BY <1>0, <2>1 DEF OfJob, Staged, Course, Saving
  <2> QED BY <1>0, <2>1, <2>2, MoveKeeps DEF TypeOK, jobVars
<1>6. CASE ReserveRefused(j)
  BY <1>0, <1>6, NotSavedKeeps DEF ReserveRefused, At, TypeOK
<1>7. CASE UploadFails(j)
  BY <1>0, <1>7, NotSavedKeeps DEF UploadFails, At, TypeOK
<1>8. CASE Lookup(j)
  <2>1. /\ pc[j] = "lookup" /\ repair[j] = "complete"
        /\ Settle(j, "race-skip", FALSE) \/ Settle(j, "failed", TRUE)
        /\ UNCHANGED <<store, uploading, ref, matched, origin, invalid, unchanged, diff, listed,
                       repair, staged>>
    BY <1>0, <1>8 DEF Lookup, At, Course
  <2> QED BY <1>0, <2>1, SettleKeeps DEF TypeOK, Saving
<1> QED BY <1>1, <1>2, <1>3, <1>4, <1>5, <1>6, <1>7, <1>8

\* The upload: no job has restored the new entry yet, so that it is none of
\* those that did not pass.
LEMMA UploadKeeps ==
  ASSUME IInv, NEW j \in Jobs, FinishUpload(j)
  PROVE  IInv'
<1> USE DEF IInv
<1> DEFINE new == [by |-> j, whole |-> staged[j]]
<1>1. /\ pc[j] = "upload" /\ store' = [store EXCEPT ![Here(j)] = new]
      /\ uploading' = [uploading EXCEPT ![j] = Nothing]
      /\ Settle(j, "saved", FALSE) /\ "saved" \in Results
      /\ UNCHANGED <<ref, matched, origin, invalid, unchanged, diff, listed, repair, staged>>
  BY DEF FinishUpload, At, Results
<1>2. new \in Entries /\ new # Nothing /\ new.by = j /\ new.whole = staged[j] /\ Here(j) \in Slots
  BY Marks, HereTyped DEF Entries, TypeOK
<1>3. /\ result' = [result EXCEPT ![j] = "saved"]
      /\ failed' \in [Jobs -> BOOLEAN] /\ failed'[j] = failed[j]
      /\ \A i \in Jobs \ {j} : failed'[i] = failed[i]
      /\ pc' = [pc EXCEPT ![j] = "done"]
  <2>1. (failed[j] \/ (invalid[j] /\ FALSE)) = failed[j]
    BY DEF TypeOK
  <2> QED BY <1>1, <2>1, Settles
<1> HIDE DEF new
<1>4. TypeOK' /\ OthersKept(j) /\ pc'[j] = "done" /\ result'[j] = "saved"
  BY <1>1, <1>2, <1>3 DEF TypeOK, OthersKept, Phases
<1>5. \A s \in Slots : store'[s] = IF s = Here(j) THEN new ELSE store[s]
  BY <1>1 DEF TypeOK
<1>6. \A s \in Slots : Author(store[s])'
  <2> SUFFICES ASSUME NEW s \in Slots, store'[s] # Nothing, store'[s].by \in Jobs
               PROVE  pc'[store'[s].by] = "done"
    BY DEF Author
  <2>1. CASE s = Here(j)
    BY <2>1, <1>2, <1>4, <1>5
  <2>2. CASE s # Here(j)
    BY <2>2, <1>1, <1>4, <1>5 DEF Author, OthersKept
  <2> QED BY <2>1, <2>2
<1>7. \A i \in Jobs : matched[i] # Nothing => origin[i] # new
  BY <1>1, <1>2 DEF OfJob, Restored, Author
<1>8. ASSUME NEW i \in Jobs PROVE Restored(i)' /\ Removed(i)'
  <2>1. Author(origin[i])'
    BY <1>1, <1>4 DEF OfJob, Restored, Author, OthersKept
  <2>2. Restored(i)'
    BY <1>1, <1>4, <2>1 DEF OfJob, Restored, OthersKept
  <2>3. \A k \in Jobs : invalid[k] => matched[k] # Nothing /\ matched[k] \in Slots
    BY DEF OfJob, Restored, TypeOK
  <2>4. i # j => Removed(i)'
    BY <1>1, <1>4, <1>5, <1>7, <2>3 DEF OfJob, Removed, PoisonGone, Here, OthersKept
  <2>5. Removed(j)'
    <3>1. invalid[j] /\ matched[j] = Here(j) => PoisonGone(j)'
      BY <1>1, <1>2, <1>5, <1>7, <2>3 DEF PoisonGone
    <3>2. Here(j)' = Here(j)
      BY <1>1 DEF Here
    <3>3. invalid[j] /\ repair[j] = "complete" /\ matched[j][2] = ref[j] => PoisonGone(j)'
      BY <1>1, <1>5, <1>7, <2>3 DEF OfJob, Removed, PoisonGone
    <3> QED BY <1>1, <3>1, <3>2, <3>3 DEF Removed
  <2> QED BY <2>2, <2>4, <2>5
<1>9. ASSUME NEW i \in Jobs PROVE Course(i)' /\ Staged(i)'
  <2>1. i # j => Course(i)' /\ Staged(i)'
    BY <1>1, <1>4 DEF OfJob, Course, Staged, OthersKept
  <2>2. Course(j)' /\ Staged(j)'
    BY <1>1, <1>3, <1>4 DEF OfJob, Course, Staged, Saving
  <2> QED BY <2>1, <2>2
<1>10. ReplacementsWhole'
  <2> SUFFICES ASSUME NEW s \in Slots, store'[s] # Nothing, store'[s].by \in Jobs, invalid[store'[s].by]
               PROVE  store'[s].whole
    BY <1>1 DEF ReplacementsWhole
  <2>1. CASE s = Here(j)
    BY <2>1, <1>1, <1>2, <1>5 DEF OfJob, Staged
  <2>2. CASE s # Here(j)
    BY <2>2, <1>5 DEF ReplacementsWhole
  <2> QED BY <2>1, <2>2
<1> QED BY <1>4, <1>6, <1>8, <1>9, <1>10 DEF OfJob

\* GitHub's eviction, and the loss of a runner.
LEMMA EvictKeeps == ASSUME IInv, NEW x \in Slots, EvictEntry(x) PROVE IInv'
<1> USE DEF IInv
<1>1. /\ store' = [store EXCEPT ![x] = Nothing] /\ UNCHANGED <<uploading, pc, jobVars>>
  BY DEF EvictEntry
<1>2. TypeOK'
  BY <1>1 DEF TypeOK, jobVars
<1>3. \A s \in Slots : store'[s] \in {store[s], Nothing}
  BY <1>1 DEF TypeOK
<1>4. \A s \in Slots : Author(store[s])'
  BY <1>1, <1>3 DEF Author
<1>5. ASSUME NEW i \in Jobs PROVE OfJob(i)'
  <2>1. Restored(i)' /\ Course(i)' /\ Staged(i)'
    BY <1>1 DEF OfJob, Restored, Author, Course, Staged, jobVars
  <2>2. invalid[i] => origin[i] # Nothing /\ matched[i] \in Slots
    BY DEF OfJob, Restored, TypeOK
  <2>3. Removed(i)'
    BY <1>1, <1>3, <2>2 DEF OfJob, Removed, PoisonGone, Here, jobVars
  <2> QED BY <2>1, <2>3 DEF OfJob
<1>6. ReplacementsWhole'
  BY <1>1, <1>3 DEF ReplacementsWhole, jobVars
<1> QED BY <1>2, <1>4, <1>5, <1>6

LEMMA LossKeeps == ASSUME IInv, NEW j \in Jobs, RunnerLost(j) PROVE IInv'
<1> USE DEF IInv
<1>1. /\ Goto(j, "lost") /\ "lost" \in Phases \ {"done"} /\ pc[j] # "done"
      /\ uploading' \in [Jobs -> Slots \cup {Nothing}] /\ UNCHANGED <<store, jobVars>>
  BY DEF RunnerLost, Phases, TypeOK
<1> QED BY <1>1, MoveKeeps DEF TypeOK, jobVars, Saving

LEMMA NextIInv == IInv /\ [Next]_vars => IInv'
<1> SUFFICES ASSUME IInv, [Next]_vars PROVE IInv'
  OBVIOUS
<1>1. ASSUME NEW j \in Jobs, JobStep(j) PROVE IInv'
  BY <1>1, MainKeeps, RepairKeeps, SaveKeeps, UploadKeeps DEF JobStep
<1>2. ASSUME NEW j \in Mortal, RunnerLost(j) PROVE IInv'
  BY <1>2, LossKeeps, MortalAssumption
<1>3. ASSUME NEW s \in Evictable, EvictEntry(s) PROVE IInv'
  BY <1>3, EvictKeeps, SlotsAssumption DEF Slots
<1>4. CASE UNCHANGED vars
  <2> USE <1>4 DEF vars, jobVars
  <2>1. TypeOK' /\ ReplacementsWhole'
    BY DEF IInv, TypeOK, ReplacementsWhole
  <2>2. \A s \in Slots : Author(store[s])'
    BY DEF IInv, Author
  <2>3. ASSUME NEW j \in Jobs PROVE OfJob(j)'
    BY DEF IInv, OfJob, Restored, Author, Course, Removed, Staged, PoisonGone, Here
  <2> QED BY <2>1, <2>2, <2>3 DEF IInv
<1> QED BY <1>1, <1>2, <1>3, <1>4 DEF Next, Done

-----------------------------------------------------------------------------
THEOREM Invariant == Spec => []IInv
  BY InitIInv, NextIInv, PTL DEF Spec

\* Every entry of the store, every job's course and every outcome of a save is
\* what the steps of main and post can produce.
THEOREM TypeCorrect == Spec => []TypeOK
  BY Invariant, PTL DEF IInv

\* A job that ends after its toolchain did not pass has removed the entry of
\* its own ref, or failed, or says that the repair was not complete.
THEOREM PoisonIsGoneOrReported == Spec => []PoisonGoneOrReported
<1>1. IInv => PoisonGoneOrReported
  <2> SUFFICES ASSUME IInv, NEW j \in Jobs, pc[j] = "done", invalid[j], matched[j][2] = ref[j]
               PROVE  PoisonGone(j) \/ Reported(j)
    BY DEF PoisonGoneOrReported
  <2>1. repair[j] \in {"complete", "incomplete"}
    BY DEF IInv, TypeOK, OfJob, Course, Saving
  <2> QED BY <2>1 DEF IInv, OfJob, Removed, Reported
<1> QED BY <1>1, Invariant, PTL

\* An entry under the exact key that did not pass and is still there fails its
\* job, unless the save policy forbade the upload.
THEOREM SurvivorsFailTheirJob == Spec => []SurvivingPoisonFails
<1>1. IInv => SurvivingPoisonFails
  <2> SUFFICES ASSUME IInv, NEW j \in Jobs, pc[j] = "done", invalid[j], matched[j] = Here(j),
                      result[j] # "policy-skip", ~failed[j]
               PROVE  PoisonGone(j)
    BY DEF SurvivingPoisonFails
  <2>1. matched[j][2] = ref[j]
    BY HereTyped DEF IInv
  <2>2. result[j] = "saved" \/ repair[j] = "complete"
    BY DEF IInv, OfJob, Course
  <2> QED BY <2>1, <2>2 DEF IInv, OfJob, Removed
<1> QED BY <1>1, Invariant, PTL

\* What a repair publishes under any key is whole.
THEOREM RepairsPublishWhole == Spec => []ReplacementsWhole
  BY Invariant, PTL DEF IInv
=============================================================================
