------------------------- MODULE LayeredCook_proofs -------------------------
(***************************************************************************)
(* For any jobs, commits and plans, the cook cache keeps its types, every  *)
(* reservation has an owner that answers for it, a job leaves cook out     *)
(* only on a warm target, fails only when it was asked to, and publishes   *)
(* on a ref of its own only what an input asked for.                       *)
(***************************************************************************)
EXTENDS LayeredCook, TLAPS

Producing == {"produce", "upload"}

\* Who answers for a reservation: a job on its way to finalize it, one whose
\* runner was lost, or one that gave its save up.
Answers(j, s) ==
  \/ pc[j] \in Producing /\ s = SaveSlot(j)
  \/ pc[j] = "lost"
  \/ pc[j] = "done" /\ status[j] \in {"failed", "skipped-race-precheck"}

Held ==
  \A j \in Jobs : pc[j] \in Producing =>
    store[SaveSlot(j)] = "reserved" /\ holder[SaveSlot(j)] = j

Owned ==
  \A s \in Slots : store[s] = "reserved" => holder[s] \in Jobs /\ Answers(holder[s], s)

\* A job beyond its post step passed the save policy.
Allowed ==
  \A j \in Jobs : pc[j] \in {"reserve"} \cup Producing => AllowCacheSave(plan[j].env)

\* What fail-on-error is about.
Losses == {"failed", "threw", "skipped-missing-target", "skipped-missing-root"}

\* What is lost is reported, from the first step on.
Says(j) ==
  /\ pc[j] = "plan" => cooked[j] = "none"
  /\ pc[j] \notin {"done", "lost"} => status[j] = "none"
  /\ failed[j] => plan[j].deferred /\ (plan[j].strict \/ status[j] = "threw")
  /\ cooked[j] = "failed" \/ status[j] \in Losses =>
       (plan[j].deferred /\ plan[j].strict => failed[j])

Reported == \A j \in Jobs : Says(j)

\* Only a whole archive is uploaded.
Packed == \A j \in Jobs : pc[j] = "upload" => archive[j] = "whole"

IInv ==
  TypeOK /\ Held /\ Owned /\ Packed /\ Allowed /\ Reported /\ SkippedCookIsCovered

-----------------------------------------------------------------------------
LEMMA PlanTyped ==
  ASSUME TypeOK, NEW j \in Jobs
  PROVE  /\ plan[j].sha \in Shas /\ plan[j].suffix \in Suffixes \cup {NoSuffix}
         /\ plan[j].deferred \in BOOLEAN /\ plan[j].strict \in BOOLEAN
         /\ plan[j].env \in Environments
  BY PlansAssumption DEF TypeOK

LEMMA SlotTyped == ASSUME TypeOK, NEW j \in Jobs PROVE SaveSlot(j) \in Slots
<1>1. Scope(j) \in Scopes
  BY DEF Scope, Scopes
<1>2. MainKey(j) \in Keys
  BY PlanTyped DEF MainKey, Keys, BuildCookBaseCacheKey, BuildCookCacheKey
<1>3. BuildCookDeltaCacheKey(plan[j].suffix, plan[j].sha) \in Keys
  BY PlanTyped DEF Keys, BuildCookDeltaCacheKey
<1> QED BY <1>1, <1>2, <1>3 DEF SaveSlot, Slots

LEMMA InitIInv == Init => IInv
<1> SUFFICES ASSUME Init PROVE IInv
  OBVIOUS
<1>1. TypeOK
  BY StoreAssumption DEF Init, TypeOK, Steps, Statuses
<1>2. Held /\ Packed /\ Allowed /\ Reported /\ SkippedCookIsCovered
  BY DEF Init, Held, Packed, Allowed, Reported, Says, Losses, SkippedCookIsCovered, Producing
<1>3. Owned
  BY StoreAssumption DEF Init, Owned, Archives
<1> QED BY <1>1, <1>2, <1>3 DEF IInv

\* How a post step may go on.
LEMMA PostTyped ==
  ASSUME NEW j, NEW end \in PostEnds(j)
  PROVE  end \in Statuses \cup {"reserve"}
<1>1. SaveStarts(j) \subseteq Statuses \cup {"reserve"}
  BY DEF SaveStarts, Statuses
<1> QED BY <1>1 DEF PostEnds, Statuses

-----------------------------------------------------------------------------
\* Types.
LEMMA TypeNext == ASSUME TypeOK, Packed, Next PROVE TypeOK'
<1>1. ASSUME NEW j \in Jobs, Plan(j) PROVE TypeOK'
  <2> DEFINE f == plan[j].deferred /\ ~CookInputsValid(plan[j].env) /\ plan[j].strict
             p == IF Enabled(j) THEN "restore" ELSE "done"
  <2>1. f \in BOOLEAN /\ p \in Steps
    BY DEF Steps
  <2>2. failed' = [failed EXCEPT ![j] = f] /\ pc' = [pc EXCEPT ![j] = p]
    BY <1>1 DEF Plan, Goto
  <2> HIDE DEF f, p
  <2> QED BY <1>1, <2>1, <2>2 DEF Plan, TypeOK, setup
<1>2. ASSUME NEW j \in Jobs, RestoreMainKey(j) PROVE TypeOK'
  <2>1. PICK b \in {"miss", "other", "whole", "broken"} : base' = [base EXCEPT ![j] = b]
    <3>1. ASSUME NEW s, s \in Visible(j, MainKey(j)) \/ s \in PrefixVisible(j, MainKey(j))
          PROVE  Usable(j, s) \in {"miss", "other", "whole", "broken"}
      BY DEF Usable
    <3> QED BY <1>2, <3>1 DEF RestoreMainKey
  <2> QED BY <1>2, <2>1 DEF RestoreMainKey, TypeOK
<1>3. ASSUME NEW j \in Jobs, RestoreDelta(j) PROVE TypeOK'
  <2>1. PICK d \in {"miss", "whole", "broken"} : delta' = [delta EXCEPT ![j] = d]
    <3>1. ASSUME NEW s \in DeltaFound(j) PROVE store[s] \in Archives
      BY DEF DeltaFound, Visible
    <3>2. ASSUME NEW s \in DeltaFound(j)
          PROVE  (IF store[s] = "empty" THEN "miss" ELSE store[s]) \in {"miss", "whole", "broken"}
      BY <3>1 DEF Archives
    <3> QED BY <1>3, <3>2 DEF RestoreDelta
  <2> QED BY <1>3, <2>1 DEF RestoreDelta, TypeOK
<1>4. ASSUME NEW j \in Jobs, RestoresDone(j) PROVE TypeOK'
  BY <1>4 DEF RestoresDone, Goto, TypeOK, Steps
<1>5. ASSUME NEW j \in Jobs, Load(j) PROVE TypeOK'
  <2>1. PICK t \in SUBSET {"base", "delta", "legacy", "cooked", "gone"},
             l \in {"none", "base", "delta", "legacy"}, p \in Steps :
          /\ target' = [target EXCEPT ![j] = t] /\ layer' = [layer EXCEPT ![j] = l]
          /\ pc' = [pc EXCEPT ![j] = p]
    <3>1. MainKey(j)[1] \in {"base", "legacy"}
      BY DEF MainKey, BuildCookBaseCacheKey, BuildCookCacheKey
    <3>2. PICK bl, dl :
            /\ target' = [target EXCEPT
                 ![j] = (IF bl THEN {MainKey(j)[1]} ELSE {}) \cup (IF dl THEN {"delta"} ELSE {})]
            /\ layer' = [layer EXCEPT ![j] = IF Warm(j, bl, dl) THEN "none" ELSE DueLayer(j, bl)]
            /\ pc' = [pc EXCEPT ![j] = IF Warm(j, bl, dl) THEN "build" ELSE "cook"]
      BY <1>5 DEF Load, Goto
    <3>3. (IF bl THEN {MainKey(j)[1]} ELSE {}) \cup (IF dl THEN {"delta"} ELSE {})
            \in SUBSET {"base", "delta", "legacy", "cooked", "gone"}
      BY <3>1
    <3>4. (IF Warm(j, bl, dl) THEN "none" ELSE DueLayer(j, bl)) \in {"none", "base", "delta", "legacy"}
      BY DEF DueLayer
    <3>5. (IF Warm(j, bl, dl) THEN "build" ELSE "cook") \in Steps
      BY DEF Steps
    <3> QED BY <3>2, <3>3, <3>4, <3>5
  <2> QED BY <1>5, <2>1 DEF Load, TypeOK
<1>6. ASSUME NEW j \in Jobs, CookRuns(j) PROVE TypeOK'
  BY <1>6 DEF CookRuns, Goto, TypeOK, Steps
<1>7. ASSUME NEW j \in Jobs, CookFails(j) PROVE TypeOK'
  <2> DEFINE f == plan[j].deferred /\ plan[j].strict
             p == IF f THEN "done" ELSE "build"
  <2>1. f \in BOOLEAN /\ p \in Steps
    BY DEF Steps
  <2>2. failed' = [failed EXCEPT ![j] = f] /\ pc' = [pc EXCEPT ![j] = p]
    BY <1>7 DEF CookFails, Goto
  <2> HIDE DEF f, p
  <2> QED BY <1>7, <2>1, <2>2 DEF CookFails, TypeOK
<1>8. ASSUME NEW j \in Jobs, UserBuilds(j) PROVE TypeOK'
  BY <1>8 DEF UserBuilds, Goto, TypeOK, Steps
<1>9. ASSUME NEW j \in Jobs, Post(j) PROVE TypeOK'
  <2>1. PICK end \in PostEnds(j) :
          /\ status' = [status EXCEPT ![j] = IF end = "reserve" THEN "none" ELSE end]
          /\ failed' = [failed EXCEPT ![j] = @ \/ Fatal(j, end)]
          /\ pc' = [pc EXCEPT ![j] = IF end = "reserve" THEN "reserve" ELSE "done"]
    BY <1>9 DEF Post, Goto
  <2>2. end \in Statuses \cup {"reserve"}
    BY PostTyped
  <2> DEFINE x == IF end = "reserve" THEN "none" ELSE end
             f == failed[j] \/ Fatal(j, end)
             p == IF end = "reserve" THEN "reserve" ELSE "done"
  <2>3. x \in Statuses /\ f \in BOOLEAN /\ p \in Steps
    BY <2>2 DEF Statuses, Steps
  <2>4. /\ status' = [status EXCEPT ![j] = x] /\ failed' = [failed EXCEPT ![j] = f]
        /\ pc' = [pc EXCEPT ![j] = p]
    BY <2>1 DEF TypeOK
  <2> HIDE DEF x, f, p
  <2> QED BY <1>9, <2>3, <2>4 DEF Post, TypeOK, setup
<1>10. ASSUME NEW j \in Jobs, Reserve(j) \/ ReserveUnanswered(j) \/ ReserveRefused(j) PROVE TypeOK'
  <2>1. CASE Reserve(j)
    BY <2>1, SlotTyped DEF Reserve, Goto, TypeOK, Steps, setup
  <2>2. CASE ReserveUnanswered(j) \/ ReserveRefused(j)
    BY <2>2, SlotTyped DEF ReserveUnanswered, ReserveRefused, Goto, TypeOK, Steps, Statuses, setup
  <2> QED BY <1>10, <2>1, <2>2
<1>11. ASSUME NEW j \in Jobs, SaveFails(j)
       PROVE  /\ status' = [status EXCEPT ![j] = "failed"] /\ failed' \in [Jobs -> BOOLEAN]
              /\ pc' = [pc EXCEPT ![j] = "done"]
  <2> DEFINE f == failed[j] \/ Fatal(j, "failed")
  <2>1. f \in BOOLEAN
    OBVIOUS
  <2>2. failed' = [failed EXCEPT ![j] = f]
    BY <1>11 DEF SaveFails
  <2> HIDE DEF f
  <2> QED BY <1>11, <2>1, <2>2 DEF SaveFails, Goto, TypeOK
<1>12. ASSUME NEW j \in Jobs, Produce(j) PROVE TypeOK'
  <2>1. CASE SaveFails(j) /\ UNCHANGED archive
    BY <1>12, <1>11, <2>1 DEF Produce, TypeOK, Steps, Statuses, setup
  <2>2. CASE ~(SaveFails(j) /\ UNCHANGED archive)
    <3>1. PICK made \in Made(j) : /\ Accepted(made)
                                  /\ archive' = [archive EXCEPT ![j] = made]
                                  /\ Goto(j, "upload")
                                  /\ UNCHANGED <<status, failed>>
      BY <1>12, <2>2 DEF Produce
    <3>2. made = "whole"
      BY <3>1 DEF Made, Accepted
    <3> QED BY <1>12, <3>1, <3>2 DEF Produce, Goto, TypeOK, Steps, setup
  <2> QED BY <2>1, <2>2
<1>13. ASSUME NEW j \in Jobs, Upload(j) PROVE TypeOK'
  <2>1. archive[j] \in Archives
    BY <1>13 DEF Packed, Upload, Archives
  <2>2. store' \in [Slots -> Archives \cup {"free", "reserved"}] /\ holder' \in [Slots -> Jobs \cup {NoJob}]
    BY <1>13, <2>1 DEF Upload, Finalized, TypeOK
  <2>3. /\ status' \in [Jobs -> Statuses]
        /\ failed' \in [Jobs -> BOOLEAN] /\ pc' \in [Jobs -> Steps]
    BY <1>13, <1>11 DEF Upload, Goto, TypeOK, Steps, Statuses
  <2> QED BY <1>13, <2>2, <2>3 DEF Upload, TypeOK, setup
<1>14. ASSUME NEW j \in Jobs, RunnerLost(j) PROVE TypeOK'
  BY <1>14 DEF RunnerLost, Goto, TypeOK, Steps, setup
<1>15. ASSUME NEW x \in Slots, Evict(x) \/ ReservationExpires(x) PROVE TypeOK'
  BY <1>15 DEF Evict, ReservationExpires, TypeOK, setup
<1> QED BY <1>1, <1>2, <1>3, <1>4, <1>5, <1>6, <1>7, <1>8, <1>9, <1>10, <1>12, <1>13, <1>14, <1>15
        DEF Next, JobStep

-----------------------------------------------------------------------------
\* What the step of a job leaves alone.
OthersKept(j) ==
  \A i \in Jobs \ {j} :
    /\ pc'[i] = pc[i] /\ layer'[i] = layer[i] /\ status'[i] = status[i]
    /\ failed'[i] = failed[i] /\ cooked'[i] = cooked[i] /\ base'[i] = base[i]
    /\ target'[i] = target[i] /\ archive'[i] = archive[i]

LEMMA Local ==
  ASSUME TypeOK, NEW j \in Jobs, JobStep(j) \/ RunnerLost(j)
  PROVE  plan' = plan /\ OthersKept(j)
<1>1. CASE Plan(j)
  BY <1>1 DEF Plan, Goto, TypeOK, setup, OthersKept
<1>2. CASE RestoreMainKey(j)
  BY <1>2 DEF RestoreMainKey, TypeOK, OthersKept
<1>3. CASE RestoreDelta(j)
  BY <1>3 DEF RestoreDelta, TypeOK, OthersKept
<1>4. CASE RestoresDone(j)
  BY <1>4 DEF RestoresDone, Goto, TypeOK, OthersKept
<1>5. CASE Load(j)
  BY <1>5 DEF Load, Goto, TypeOK, OthersKept
<1>6. CASE CookRuns(j) \/ CookFails(j) \/ UserBuilds(j)
  BY <1>6 DEF CookRuns, CookFails, UserBuilds, Goto, TypeOK, OthersKept
<1>7. CASE Post(j)
  BY <1>7 DEF Post, Goto, TypeOK, setup, OthersKept
<1>8. CASE Reserve(j) \/ ReserveUnanswered(j) \/ ReserveRefused(j) \/ RunnerLost(j)
  BY <1>8 DEF Reserve, ReserveUnanswered, ReserveRefused, RunnerLost, Goto, TypeOK, setup, OthersKept
<1>9. CASE Produce(j)
  BY <1>9 DEF Produce, SaveFails, Goto, TypeOK, setup, OthersKept
<1>10. CASE Upload(j)
  BY <1>10 DEF Upload, Finalized, SaveFails, Goto, TypeOK, setup, OthersKept
<1> QED BY <1>1, <1>2, <1>3, <1>4, <1>5, <1>6, <1>7, <1>8, <1>9, <1>10 DEF JobStep

LEMMA SlotKept ==
  ASSUME plan' = plan, NEW i, layer'[i] = layer[i]
  PROVE  SaveSlot(i)' = SaveSlot(i)
  BY DEF SaveSlot, MainKey, Scope

\* A step of a job that is not under a reservation and gets none keeps what is
\* said of reservations.
LEMMA MoveKeeps ==
  ASSUME IInv, NEW j \in Jobs, plan' = plan, OthersKept(j), UNCHANGED <<store, holder>>,
         pc[j] \notin Producing \cup {"done", "lost"}, pc'[j] \notin Producing
  PROVE  Held' /\ Owned' /\ Packed'
<1>1. \A i \in Jobs \ {j} : SaveSlot(i)' = SaveSlot(i)
  BY SlotKept DEF OthersKept
<1>2. Held' /\ Packed'
  BY <1>1 DEF IInv, Held, Packed, OthersKept, Producing
<1>3. Owned'
  BY <1>1 DEF IInv, Owned, Answers, OthersKept, Producing
<1> QED BY <1>2, <1>3

\* Reservations.
LEMMA ReservationNext == ASSUME IInv, Next PROVE Held' /\ Owned' /\ Packed'
<1>1. ASSUME NEW j \in Jobs,
             \/ Plan(j) \/ RestoreMainKey(j) \/ RestoreDelta(j) \/ RestoresDone(j) \/ Load(j)
             \/ CookRuns(j) \/ CookFails(j) \/ UserBuilds(j) \/ Post(j) \/ ReserveRefused(j)
      PROVE  Held' /\ Owned' /\ Packed'
  <2>1. UNCHANGED <<store, holder>> /\ plan' = plan /\ OthersKept(j)
    BY <1>1, Local DEF IInv, JobStep, Plan, RestoreMainKey, RestoreDelta, RestoresDone, Load,
         CookRuns, CookFails, UserBuilds, Post, ReserveRefused
  <2>2. pc[j] \notin Producing \cup {"done", "lost"} /\ pc'[j] \notin Producing
    <3>1. PICK from \in {"plan", "restore", "load", "cook", "build", "post", "reserve"},
               to \in {"restore", "done", "load", "build", "cook", "post", "reserve"} :
            pc[j] = from /\ pc' \in {pc, [pc EXCEPT ![j] = to]}
      <4>1. CASE Plan(j) \/ RestoreMainKey(j) \/ RestoreDelta(j) \/ RestoresDone(j)
        BY <4>1 DEF Plan, RestoreMainKey, RestoreDelta, RestoresDone, Goto
      <4>2. CASE Load(j) \/ CookRuns(j) \/ CookFails(j) \/ UserBuilds(j)
        BY <4>2 DEF Load, CookRuns, CookFails, UserBuilds, Goto
      <4>3. CASE Post(j) \/ ReserveRefused(j)
        BY <4>3 DEF Post, ReserveRefused, Goto
      <4> QED BY <1>1, <4>1, <4>2, <4>3
    <3> QED BY <3>1 DEF IInv, TypeOK, Producing
  <2> QED BY <2>1, <2>2, MoveKeeps
<1>2. ASSUME NEW j \in Jobs, Reserve(j) \/ ReserveUnanswered(j) PROVE Held' /\ Owned' /\ Packed'
  <2>1. plan' = plan /\ layer' = layer /\ OthersKept(j) /\ archive' = archive
    BY <1>2, Local DEF IInv, JobStep, Reserve, ReserveUnanswered, setup
  <2>2. \A i \in Jobs : SaveSlot(i)' = SaveSlot(i)
    BY <2>1, SlotKept
  <2>3. /\ SaveSlot(j) \in Slots /\ store[SaveSlot(j)] = "free" /\ pc[j] = "reserve"
        /\ store' = [store EXCEPT ![SaveSlot(j)] = "reserved"]
        /\ holder' = [holder EXCEPT ![SaveSlot(j)] = j]
    BY <1>2, SlotTyped DEF IInv, Reserve, ReserveUnanswered
  <2>4. pc'[j] = "produce" \/ (pc'[j] = "done" /\ status'[j] = "skipped-race-precheck")
    BY <1>2 DEF IInv, TypeOK, Reserve, ReserveUnanswered, Goto
  <2>5. Held' /\ Packed'
    BY <2>1, <2>2, <2>3, <2>4, SlotTyped DEF IInv, TypeOK, Held, Packed, OthersKept, Producing
  <2>6. Owned'
    <3> SUFFICES ASSUME NEW s \in Slots, store'[s] = "reserved"
                 PROVE  (holder[s] \in Jobs /\ Answers(holder[s], s))'
      BY DEF Owned
    <3>1. CASE s = SaveSlot(j)
      <4>1. holder'[s] = j
        BY <3>1, <2>3 DEF IInv, TypeOK
      <4> QED BY <3>1, <4>1, <2>2, <2>4 DEF Answers, Producing
    <3>2. CASE s # SaveSlot(j)
      <4>1. store[s] = "reserved" /\ holder'[s] = holder[s]
        BY <3>2, <2>3 DEF IInv, TypeOK
      <4>2. holder[s] \in Jobs /\ Answers(holder[s], s)
        BY <4>1 DEF IInv, Owned
      <4>3. holder[s] # j
        BY <4>2, <2>3 DEF Answers, Producing
      <4> QED BY <4>1, <4>2, <4>3, <2>1, <2>2 DEF Answers, OthersKept
    <3> QED BY <3>1, <3>2
  <2> QED BY <2>5, <2>6
<1>3. ASSUME NEW j \in Jobs, Produce(j) \/ RunnerLost(j) PROVE Held' /\ Owned' /\ Packed'
  <2>1. /\ plan' = plan /\ layer' = layer /\ OthersKept(j) /\ UNCHANGED <<store, holder>>
        /\ pc[j] \in Producing
    BY <1>3, Local DEF IInv, JobStep, Produce, RunnerLost, setup, Producing
  <2>2. \A i \in Jobs : SaveSlot(i)' = SaveSlot(i)
    BY <2>1, SlotKept
  <2>3. \/ pc'[j] = "upload" /\ archive'[j] = "whole"
        \/ pc'[j] = "done" /\ status'[j] = "failed"
        \/ pc'[j] = "lost"
    BY <1>3 DEF IInv, TypeOK, Produce, RunnerLost, Made, Accepted, SaveFails, Goto
  <2>4. Held' /\ Packed'
    BY <2>1, <2>2, <2>3 DEF IInv, Held, Packed, OthersKept, Producing
  <2>5. Owned'
    <3> SUFFICES ASSUME NEW s \in Slots, store[s] = "reserved"
                 PROVE  (holder[s] \in Jobs /\ Answers(holder[s], s))'
      BY <2>1 DEF Owned
    <3>1. holder[s] \in Jobs /\ Answers(holder[s], s)
      BY DEF IInv, Owned
    <3>2. CASE holder[s] = j
      BY <3>1, <3>2, <2>1, <2>2, <2>3 DEF Answers, Producing
    <3>3. CASE holder[s] # j
      BY <3>1, <3>3, <2>1, <2>2 DEF Answers, OthersKept
    <3> QED BY <3>1, <3>2, <3>3
  <2> QED BY <2>4, <2>5
<1>4. ASSUME NEW j \in Jobs, Upload(j) PROVE Held' /\ Owned' /\ Packed'
  <2>1. plan' = plan /\ layer' = layer /\ OthersKept(j) /\ archive' = archive /\ pc[j] = "upload"
    BY <1>4, Local DEF IInv, JobStep, Upload, setup
  <2>2. \A i \in Jobs : SaveSlot(i)' = SaveSlot(i)
    BY <2>1, SlotKept
  <2>3. /\ pc'[j] = "done" /\ SaveSlot(j) \in Slots
        /\ store[SaveSlot(j)] = "reserved" /\ holder[SaveSlot(j)] = j
    BY <1>4, <2>1, SlotTyped DEF IInv, TypeOK, Held, Producing, Upload, SaveFails, Goto
  <2>4. \A s \in Slots \ {SaveSlot(j)} : store'[s] = store[s] /\ holder'[s] = holder[s]
    BY <1>4, <2>3 DEF IInv, TypeOK, Upload, Finalized
  <2>5. store'[SaveSlot(j)] = "reserved" => status'[j] = "failed" /\ holder' = holder
    BY <1>4, <2>1, <2>3 DEF IInv, TypeOK, Packed, Upload, Finalized, SaveFails
  <2>6. Held' /\ Packed'
    <3> SUFFICES ASSUME NEW i \in Jobs, pc'[i] \in Producing
                 PROVE  /\ store'[SaveSlot(i)] = "reserved" /\ holder'[SaveSlot(i)] = i
                        /\ pc'[i] = "upload" => archive'[i] = "whole"
      BY <2>2 DEF Held, Packed, Producing
    <3>1. i # j /\ pc[i] \in Producing
      BY <2>1, <2>3 DEF OthersKept, Producing
    <3>2. store[SaveSlot(i)] = "reserved" /\ holder[SaveSlot(i)] = i
      BY <3>1 DEF IInv, Held
    <3>3. SaveSlot(i) \in Slots \ {SaveSlot(j)}
      BY <3>1, <3>2, <2>3, SlotTyped DEF IInv
    <3> QED BY <3>1, <3>2, <3>3, <2>1, <2>4 DEF IInv, Packed, OthersKept, Producing
  <2>7. Owned'
    <3> SUFFICES ASSUME NEW s \in Slots, store'[s] = "reserved"
                 PROVE  (holder[s] \in Jobs /\ Answers(holder[s], s))'
      BY DEF Owned
    <3>1. CASE s = SaveSlot(j)
      BY <3>1, <2>3, <2>5 DEF Answers
    <3>2. CASE s # SaveSlot(j)
      <4>1. holder[s] \in Jobs /\ Answers(holder[s], s) /\ holder'[s] = holder[s]
        BY <3>2, <2>4 DEF IInv, Owned
      <4>2. holder[s] # j
        BY <4>1, <3>2, <2>1 DEF Answers
      <4> QED BY <4>1, <4>2, <2>1, <2>2 DEF Answers, OthersKept
    <3> QED BY <3>1, <3>2
  <2> QED BY <2>6, <2>7
<1>5. ASSUME NEW x \in Slots, Evict(x) \/ ReservationExpires(x) PROVE Held' /\ Owned' /\ Packed'
  <2>1. /\ UNCHANGED <<pc, plan, layer, status, archive>>
        /\ \A s \in Slots \ {x} : store'[s] = store[s] /\ holder'[s] = holder[s]
        /\ store'[x] = "free"
    BY <1>5 DEF IInv, TypeOK, Evict, ReservationExpires, setup
  <2>2. \A i \in Jobs : SaveSlot(i)' = SaveSlot(i)
    BY <2>1, SlotKept
  <2>3. \A i \in Jobs : pc[i] \in Producing => SaveSlot(i) # x
    BY <1>5 DEF IInv, Held, Producing, Evict, ReservationExpires, Orphaned, Active, Archives
  <2>4. Held' /\ Packed'
    BY <2>1, <2>2, <2>3, SlotTyped DEF IInv, Held, Packed
  <2>5. Owned'
    BY <2>1, <2>2 DEF IInv, Owned, Answers
  <2> QED BY <2>4, <2>5
<1> QED BY <1>1, <1>2, <1>3, <1>4, <1>5 DEF Next, JobStep

-----------------------------------------------------------------------------
\* The policy, the reports and the coverage of a skipped cook.
LEMMA AllowedNext == ASSUME IInv, Next PROVE Allowed'
<1>1. ASSUME NEW j \in Jobs, JobStep(j) \/ RunnerLost(j) PROVE Allowed'
  <2>1. plan' = plan /\ OthersKept(j)
    BY <1>1, Local DEF IInv
  <2>2. pc'[j] \in {"reserve"} \cup Producing => AllowCacheSave(plan[j].env)
    <3>1. CASE Post(j)
      <4>1. PICK end \in PostEnds(j) :
              pc' = [pc EXCEPT ![j] = IF end = "reserve" THEN "reserve" ELSE "done"]
        BY <3>1 DEF Post, Goto
      <4>2. end = "reserve" => AllowCacheSave(plan[j].env)
        BY <4>1 DEF PostEnds, SaveStarts
      <4> QED BY <4>1, <4>2 DEF IInv, TypeOK, Producing
    <3>2. CASE \/ Reserve(j) \/ ReserveUnanswered(j) \/ ReserveRefused(j) \/ Produce(j)
               \/ Upload(j) \/ RunnerLost(j)
      BY <3>2 DEF Reserve, ReserveUnanswered, ReserveRefused, Produce, Upload, RunnerLost, IInv, Allowed, Producing
    <3>3. CASE Plan(j) \/ RestoreMainKey(j) \/ RestoreDelta(j) \/ RestoresDone(j)
      BY <3>3 DEF Plan, RestoreMainKey, RestoreDelta, RestoresDone, Goto, IInv, TypeOK, Producing
    <3>4. CASE Load(j) \/ CookRuns(j) \/ CookFails(j) \/ UserBuilds(j)
      <4>1. PICK to \in {"build", "cook", "done", "post"} : pc' = [pc EXCEPT ![j] = to]
        BY <3>4 DEF Load, CookRuns, CookFails, UserBuilds, Goto
      <4> QED BY <4>1 DEF IInv, TypeOK, Producing
    <3> QED BY <1>1, <3>1, <3>2, <3>3, <3>4 DEF JobStep
  <2>3. ASSUME NEW i \in Jobs, pc'[i] \in {"reserve"} \cup Producing
        PROVE  AllowCacheSave(plan'[i].env)
    BY <2>1, <2>2, <2>3 DEF OthersKept, IInv, Allowed
  <2> QED BY <2>1, <2>3 DEF Allowed, AllowCacheSave, CurrentSaveDecision
<1>2. ASSUME NEW x \in Slots, Evict(x) \/ ReservationExpires(x) PROVE Allowed'
  BY <1>2 DEF Evict, ReservationExpires, setup, IInv, Allowed
<1> QED BY <1>1, <1>2 DEF Next

LEMMA ReportedNext == ASSUME IInv, Next PROVE Reported'
<1>1. ASSUME NEW j \in Jobs, JobStep(j) \/ RunnerLost(j) PROVE Reported'
  <2>1. plan' = plan /\ OthersKept(j) /\ Says(j)
    BY <1>1, Local DEF IInv, Reported
  <2>2. Says(j)'
    <3>1. CASE Plan(j)
      <4>1. /\ pc'[j] \in {"restore", "done"} /\ pc[j] = "plan"
            /\ UNCHANGED <<cooked, status>>
            /\ failed'[j] => plan[j].deferred /\ plan[j].strict
        BY <3>1 DEF Plan, Goto, setup, IInv, TypeOK
      <4> QED BY <2>1, <4>1 DEF Says, Losses
    <3>2. CASE RestoreMainKey(j) \/ RestoreDelta(j) \/ RestoresDone(j) \/ Load(j) \/ UserBuilds(j)
      <4>1. PICK to \in {"restore", "load", "build", "cook", "post"} :
              pc' \in {pc, [pc EXCEPT ![j] = to]} /\ pc[j] \notin {"plan", "done", "lost"}
        BY <3>2 DEF RestoreMainKey, RestoreDelta, RestoresDone, Load, UserBuilds, Goto
      <4>2. UNCHANGED <<cooked, status, failed>>
        BY <3>2 DEF RestoreMainKey, RestoreDelta, RestoresDone, Load, UserBuilds
      <4>3. pc'[j] # "plan"
        BY <4>1 DEF IInv, TypeOK
      <4> QED BY <2>1, <4>1, <4>2, <4>3 DEF Says
    <3>3. CASE CookRuns(j) \/ CookFails(j)
      <4> DEFINE throws == plan[j].deferred /\ plan[j].strict
      <4>1. CASE CookRuns(j)
        <5>1. pc'[j] = "build" /\ cooked'[j] = "ran" /\ UNCHANGED <<status, failed>> /\ pc[j] = "cook"
          BY <4>1 DEF CookRuns, Goto, IInv, TypeOK
        <5> QED BY <2>1, <5>1 DEF Says
      <4>2. CASE CookFails(j)
        <5>1. failed' = [failed EXCEPT ![j] = throws] /\ pc' = [pc EXCEPT ![j] = IF throws THEN "done" ELSE "build"]
          BY <4>2 DEF CookFails, Goto
        <5>2. pc'[j] # "plan" /\ failed'[j] = throws /\ status'[j] = "none"
          BY <2>1, <4>2, <5>1 DEF IInv, TypeOK, CookFails, Says
        <5> QED BY <2>1, <5>2 DEF Says
      <4> QED BY <3>3, <4>1, <4>2
    <3>4. CASE Post(j)
      <4>1. PICK end \in PostEnds(j) :
              /\ status' = [status EXCEPT ![j] = IF end = "reserve" THEN "none" ELSE end]
              /\ failed' = [failed EXCEPT ![j] = @ \/ Fatal(j, end)]
              /\ pc' = [pc EXCEPT ![j] = IF end = "reserve" THEN "reserve" ELSE "done"]
        BY <3>4 DEF Post, Goto
      <4>2. /\ status'[j] = IF end = "reserve" THEN "none" ELSE end
            /\ failed'[j] = (failed[j] \/ Fatal(j, end))
            /\ pc'[j] = IF end = "reserve" THEN "reserve" ELSE "done"
        BY <4>1 DEF IInv, TypeOK
      <4>3. status[j] = "none" /\ cooked' = cooked
        BY <2>1, <3>4 DEF Post, setup, Says
      <4>4. end # "failed"
        BY <4>1 DEF PostEnds, SaveStarts
      <4>5. failed'[j] => plan[j].deferred /\ (plan[j].strict \/ status'[j] = "threw")
        BY <2>1, <4>2, <4>3 DEF Says, Fatal
      <4>6. status'[j] \in Losses /\ plan[j].deferred /\ plan[j].strict => failed'[j]
        BY <4>2, <4>4 DEF Losses, Fatal
      <4> QED BY <2>1, <4>2, <4>3, <4>5, <4>6 DEF Says
    <3>5. CASE Reserve(j) \/ ReserveUnanswered(j) \/ ReserveRefused(j) \/ RunnerLost(j)
      <4>1. /\ pc[j] \in {"reserve", "produce", "upload"} /\ pc'[j] # "plan"
            /\ UNCHANGED <<cooked, failed>>
            /\ status'[j] = status[j] \/ (status'[j] = "skipped-race-precheck" /\ pc'[j] = "done")
        BY <3>5 DEF Reserve, ReserveUnanswered, ReserveRefused, RunnerLost, Goto, setup, IInv, TypeOK
      <4> QED BY <2>1, <4>1 DEF Says, Losses
    <3>6. CASE Produce(j) \/ Upload(j)
      <4>1. cooked' = cooked /\ pc'[j] # "plan" /\ pc[j] \in {"produce", "upload"}
        BY <3>6 DEF Produce, Upload, SaveFails, Goto, setup, IInv, TypeOK
      <4>4. status[j] = "none"
        BY <2>1, <4>1 DEF Says
      <4>2. CASE SaveFails(j)
        <5>1. /\ failed'[j] = (failed[j] \/ Fatal(j, "failed"))
              /\ status'[j] = "failed" /\ pc'[j] = "done"
          BY <4>2 DEF SaveFails, Goto, IInv, TypeOK
        <5> QED BY <2>1, <4>1, <4>4, <5>1 DEF Says, Fatal, Losses
      <4>3. CASE ~SaveFails(j)
        <5>1. /\ failed' = failed
              /\ status'[j] = "none" \/ (status'[j] = "saved" /\ pc'[j] = "done")
          BY <3>6, <4>3, <4>4 DEF Produce, Upload, Goto, IInv, TypeOK
        <5> QED BY <2>1, <4>1, <4>4, <5>1 DEF Says, Losses
      <4> QED BY <4>2, <4>3
    <3> QED BY <1>1, <3>1, <3>2, <3>3, <3>4, <3>5, <3>6 DEF JobStep
  <2>3. ASSUME NEW i \in Jobs, i # j PROVE Says(i)'
    BY <2>1, <2>3 DEF OthersKept, IInv, Reported, Says
  <2>4. \A i \in Jobs : Says(i)'
    BY <2>2, <2>3
  <2> QED BY <2>4 DEF Reported
<1>2. ASSUME NEW x \in Slots, Evict(x) \/ ReservationExpires(x) PROVE Reported'
  BY <1>2 DEF Evict, ReservationExpires, setup, IInv, Reported, Says
<1> QED BY <1>1, <1>2 DEF Next

LEMMA CoveredNext == ASSUME IInv, Next PROVE SkippedCookIsCovered'
<1> DEFINE Covered(j) == pc[j] = "build" /\ cooked[j] = "none" =>
             IF plan[j].layered THEN base[j] = "whole" /\ {"base", "delta"} \subseteq target[j]
             ELSE "legacy" \in target[j]
<1>1. ASSUME NEW j \in Jobs, JobStep(j) \/ RunnerLost(j) PROVE SkippedCookIsCovered'
  <2>1. plan' = plan /\ OthersKept(j)
    BY <1>1, Local DEF IInv
  <2>2. Covered(j)'
    <3>1. CASE Load(j)
      <4>1. PICK bl, dl :
              /\ target' = [target EXCEPT
                   ![j] = (IF bl THEN {MainKey(j)[1]} ELSE {}) \cup (IF dl THEN {"delta"} ELSE {})]
              /\ pc' = [pc EXCEPT ![j] = IF Warm(j, bl, dl) THEN "build" ELSE "cook"]
        BY <3>1 DEF Load, Goto
      <4>2. CASE ~Warm(j, bl, dl)
        BY <4>1, <4>2 DEF IInv, TypeOK
      <4>3. CASE Warm(j, bl, dl) /\ plan[j].layered
        <5>1. MainKey(j)[1] = "base" /\ base[j] = "whole" /\ bl /\ dl
          BY <4>3 DEF Warm, DeltaReady, BaseReady, MainKey, BuildCookBaseCacheKey
        <5> QED BY <3>1, <4>1, <4>3, <5>1, <2>1 DEF Load, IInv, TypeOK
      <4>4. CASE Warm(j, bl, dl) /\ ~plan[j].layered
        <5>1. MainKey(j)[1] = "legacy" /\ bl
          BY <4>4 DEF Warm, LegacyHit, MainKey, BuildCookCacheKey
        <5> QED BY <3>1, <4>1, <4>4, <5>1, <2>1 DEF Load, IInv, TypeOK
      <4> QED BY <4>2, <4>3, <4>4
    <3>2. CASE Plan(j) \/ RestoreMainKey(j) \/ RestoreDelta(j) \/ RestoresDone(j)
      BY <3>2 DEF Plan, RestoreMainKey, RestoreDelta, RestoresDone, Goto, IInv, TypeOK
    <3>3. CASE CookRuns(j) \/ CookFails(j) \/ UserBuilds(j)
      BY <3>3 DEF CookRuns, CookFails, UserBuilds, Goto, IInv, TypeOK
    <3>4. CASE Post(j) \/ Reserve(j) \/ ReserveUnanswered(j) \/ ReserveRefused(j) \/ RunnerLost(j)
      <4>1. PICK to \in {"reserve", "done", "produce", "lost"} : pc' = [pc EXCEPT ![j] = to]
        BY <3>4 DEF Post, Reserve, ReserveUnanswered, ReserveRefused, RunnerLost, Goto
      <4> QED BY <4>1 DEF IInv, TypeOK
    <3>5. CASE Produce(j) \/ Upload(j)
      BY <3>5 DEF Produce, Upload, SaveFails, Goto, IInv, TypeOK
    <3> QED BY <1>1, <3>1, <3>2, <3>3, <3>4, <3>5 DEF JobStep
  <2>3. ASSUME NEW i \in Jobs, i # j PROVE Covered(i)'
    BY <2>1, <2>3 DEF OthersKept, IInv, SkippedCookIsCovered
  <2>4. \A i \in Jobs : Covered(i)'
    BY <2>2, <2>3
  <2> QED BY <2>4 DEF SkippedCookIsCovered
<1>2. ASSUME NEW x \in Slots, Evict(x) \/ ReservationExpires(x) PROVE SkippedCookIsCovered'
  BY <1>2 DEF Evict, ReservationExpires, setup, IInv, SkippedCookIsCovered
<1> QED BY <1>1, <1>2 DEF Next

LEMMA NextIInv == IInv /\ [Next]_vars => IInv'
<1> SUFFICES ASSUME IInv, [Next]_vars PROVE IInv'
  OBVIOUS
<1>1. CASE Next
  BY <1>1, TypeNext, ReservationNext, AllowedNext, ReportedNext, CoveredNext DEF IInv
<1>2. CASE UNCHANGED vars
  <2>1. TypeOK'
    BY <1>2 DEF vars, IInv, TypeOK
  <2>2. Held' /\ Owned' /\ Packed'
    BY <1>2, SlotKept DEF vars, IInv, Held, Owned, Answers, Packed
  <2>3. Allowed' /\ Reported' /\ SkippedCookIsCovered'
    BY <1>2 DEF vars, IInv, Allowed, Reported, Says, SkippedCookIsCovered
  <2> QED BY <2>1, <2>2, <2>3 DEF IInv
<1> QED BY <1>1, <1>2

THEOREM Invariant == Spec => []IInv
  BY InitIInv, NextIInv, PTL DEF Spec

-----------------------------------------------------------------------------
(* The properties.                                                         *)

\* The variables of the cook cache keep their types.
THEOREM TypeCorrect == Spec => []TypeOK
<1>1. IInv => TypeOK
  BY DEF IInv
<1> QED BY Invariant, <1>1, PTL

\* Only the holder of a reservation produces and uploads under its key, and a
\* reservation that outlives its job comes from a lost runner, from a save the
\* job reported as failed, or from its own that it took for a conflict
\* (two-phase-actions-cache.ts, saveReservedCache).
THEOREM AccountsForReservations == Spec => []ReservationsAccounted
<1>1. IInv => ReservationsAccounted
  <2> SUFFICES ASSUME IInv PROVE ReservationsAccounted
    OBVIOUS
  <2>1. \A s \in Slots : Orphaned(s) => 
        pc[holder[s]] = "lost" \/ status[holder[s]] \in {"failed", "skipped-race-precheck"}
    BY DEF IInv, Owned, Answers, Orphaned, Active, Producing
  <2> QED BY <2>1 DEF IInv, ReservationsAccounted, Held, Producing
<1> QED BY Invariant, <1>1, PTL

\* When main leaves cook out, the target directory holds what it would build.
THEOREM CoversSkippedCook == Spec => []SkippedCookIsCovered
<1>1. IInv => SkippedCookIsCovered
  BY DEF IInv
<1> QED BY Invariant, <1>1, PTL

\* With fail-on-error a failed cook, a save that failed or threw and a target or
\* project that is gone fail the job of the cook action; without it, only an
\* error of the file system in post does.
THEOREM FailsWhenAsked == Spec => []FailsAsAsked
<1>1. IInv => FailsAsAsked
  BY DEF IInv, Reported, Says, Losses, FailsAsAsked
<1> QED BY Invariant, <1>1, PTL

\* A save the policy allows on a ref that is known not to be the default one
\* was asked for.
LEMMA AllowedIsAsked ==
  ASSUME NEW env, AllowCacheSave(env), env.ref = "other"
  PROVE  AsksToSave(env)
<1>1. \A raw : ParseSaveCacheMode(raw, "auto") = "true" => raw \in Truthy
  BY DEF ParseSaveCacheMode
<1> DEFINE parsed == ParseSaveCacheMode(env.save, "auto")
           mode   == IF parsed = "throws" THEN "auto" ELSE parsed
           remote == ParseSaveCacheMode(env.remote, "auto")
<1>2. DecideCacheSave(mode, env.event, env.local, remote, "other")
  BY DEF AllowCacheSave, CurrentSaveDecision
<1>3. env.local \/ remote = "true" \/ mode = "true"
  BY <1>2 DEF DecideCacheSave
<1>4. mode = "true" => parsed = "true"
  OBVIOUS
<1> QED BY <1>1, <1>3, <1>4 DEF AsksToSave

\* Nothing is published on another ref than the default branch that no input
\* asked for, unless the job could not tell its ref.
THEOREM AsksForScopedSaves == Spec => ScopedSavesAreAsked
<1>1. ASSUME IInv, [Next]_vars,
             NEW s \in Slots, s[1] = "other", store[s] = "reserved", store'[s] \in Archives
      PROVE  AsksToSave(plan[holder[s]].env) \/ plan[holder[s]].env.ref = "unknown"
  <2>1. PICK j \in Jobs : Upload(j) /\ s = SaveSlot(j)
    <3>1. "reserved" \notin Archives /\ "free" \notin Archives
      BY DEF Archives
    <3>2. store' # store
      BY <1>1, <3>1
    <3>3. ~\E x \in Slots : Evict(x) \/ ReservationExpires(x)
      BY <1>1, <3>1 DEF IInv, TypeOK, Evict, ReservationExpires
    <3>4. PICK j \in Jobs : JobStep(j) \/ RunnerLost(j)
      BY <1>1, <3>2, <3>3 DEF Next, vars
    <3>5. Reserve(j) \/ ReserveUnanswered(j) \/ Upload(j)
      BY <3>2, <3>4 DEF JobStep, RunnerLost, Plan, RestoreMainKey, RestoreDelta, RestoresDone,
           Load, CookRuns, CookFails, UserBuilds, Post, ReserveRefused, Produce
    <3>6. ~Reserve(j) /\ ~ReserveUnanswered(j)
      BY <1>1, <3>1, SlotTyped DEF IInv, TypeOK, Reserve, ReserveUnanswered
    <3>7. s = SaveSlot(j)
      BY <1>1, <3>1, <3>5, <3>6 DEF IInv, TypeOK, Upload, Finalized
    <3> QED BY <3>5, <3>6, <3>7
  <2>2. pc[j] = "upload" /\ holder[s] = j
    BY <1>1, <2>1 DEF IInv, Held, Producing, Upload
  <2>3. AllowCacheSave(plan[j].env)
    BY <1>1, <2>2 DEF IInv, Allowed, Producing
  <2>4. Scope(j) = "other"
    BY <1>1, <2>1 DEF SaveSlot
  <2>5. plan[j].env.ref \in {"other", "unknown"}
    BY <1>1, <2>4, PlanTyped DEF IInv, Scope, Environments, Refs
  <2> QED BY <2>2, <2>3, <2>5, AllowedIsAsked
<1>2. IInv /\ [Next]_vars =>
        [\A s \in Slots : s[1] = "other" /\ store[s] = "reserved" /\ store'[s] \in Archives =>
           AsksToSave(plan[holder[s]].env) \/ plan[holder[s]].env.ref = "unknown"]_vars
  BY <1>1
<1> QED BY Invariant, <1>2, PTL DEF Spec, ScopedSavesAreAsked
=============================================================================
