------------------------ MODULE VerdictLedger_proofs ------------------------
(***************************************************************************)
(* For any number of runs, jobs and checks, the verdict ledger keeps its   *)
(* types, a lazy run rests on checks that passed on its own checkout, and  *)
(* the janitor only deletes superseded manifests; and a run after one that *)
(* passed everything is lazy unless a call or an entry failed it.          *)
(***************************************************************************)
EXTENDS VerdictLedger, FiniteSetTheorems, TLAPS

AfterSave == {"janitor", "clean", "done"}

\* Verdicts are in the cache, spooled or restored only after a pass.
OnlyPasses ==
  /\ \A v \in verdicts : v[1] \in proved
  /\ \A r \in Runs : spool[r] \subseteq proved /\ have[r] \subseteq proved

\* A manifest that was saved once does not change.
SavedOnce ==
  /\ \A m \in manifests : pc[m] \in AfterSave
  /\ \A m \in Runs : born[m] # 0 => pc[m] \in AfterSave
  /\ \A m \in manifests : born[m] # 0
  /\ \A r \in Runs : doomed[r] \subseteq {m \in Runs : pc[m] \in AfterSave}

\* On one ref, the manifests of a job were last accessed in the order of their
\* clock: a restore only touches the newest.
InOrder ==
  /\ \A m \in Runs : born[m] <= clock /\ used[m] <= clock
  /\ \A m \in manifests, n \in manifests : m # n => born[m] # born[n]
  /\ \A m \in manifests, n \in manifests :
       Scope[m] = Scope[n] /\ Ref[m] = Ref[n] /\ born[m] < born[n] => used[m] < used[n]

\* What a run follows is a saved manifest.
Follows ==
  \A r \in Runs :
    /\ pc[r] = "start" => followed[r] = NoRun /\ ~lazy[r]
    /\ pc[r] \in {"install", "restore"} \/ lazy[r] => followed[r] # NoRun
    /\ followed[r] # NoRun => followed[r] \in Runs /\ pc[followed[r]] \in AfterSave

IInv == TypeOK /\ OnlyPasses /\ SavedOnce /\ InOrder /\ Follows /\ LazyIsProved /\ JanitorSparesNewest

LEMMA InitIInv == Init => IInv
<1> SUFFICES ASSUME Init PROVE IInv
  OBVIOUS
<1>1. TypeOK
  BY DEF Init, TypeOK, Phases
<1>2. OnlyPasses /\ SavedOnce /\ InOrder /\ Follows /\ LazyIsProved /\ JanitorSparesNewest
  BY DEF Init, OnlyPasses, SavedOnce, InOrder, Follows, LazyIsProved, JanitorSparesNewest
<1> QED BY <1>1, <1>2 DEF IInv
-----------------------------------------------------------------------------
\* A step that accesses no manifest and dooms none keeps their order, and what
\* is doomed superseded.
LEMMA OrderKeeps ==
  ASSUME InOrder, JanitorSparesNewest, UNCHANGED <<born, used, clock>>,
         manifests' \subseteq manifests, \A q \in Runs : doomed'[q] \subseteq doomed[q]
  PROVE  InOrder' /\ JanitorSparesNewest'
<1>1. InOrder'
  BY DEF InOrder
<1>2. ASSUME NEW m, Superseded(m) PROVE Superseded(m)'
  BY <1>2 DEF Superseded, SavedElsewhere
<1>3. JanitorSparesNewest'
  BY <1>2 DEF JanitorSparesNewest
<1> QED BY <1>1, <1>3

\* A step that publishes nothing, restores nothing and dooms nothing, and takes
\* its run from one place to a later one, keeps what is said of manifests.
LEMMA MoveKeeps ==
  ASSUME IInv, NEW r \in Runs, NEW from, NEW to \in Phases,
         Goes(r, from, to), from \notin AfterSave \/ to \in AfterSave,
         from # "start", to # "start", to \notin {"install", "restore"} \/ from = "install",
         UNCHANGED <<storeVars, mainVars, lazy, doomed>>
  PROVE  /\ pc' \in [Runs -> Phases]
         /\ SavedOnce' /\ Follows' /\ InOrder' /\ JanitorSparesNewest'
<1>1. /\ pc' \in [Runs -> Phases] /\ pc[r] = from /\ pc'[r] = to
      /\ \A q \in Runs : q # r => pc'[q] = pc[q]
      /\ \A q \in Runs : pc[q] \in AfterSave => pc'[q] \in AfterSave
  BY DEF Goes, IInv, TypeOK
<1>2. SavedOnce' /\ InOrder' /\ JanitorSparesNewest'
  BY <1>1, OrderKeeps DEF IInv, TypeOK, SavedOnce, storeVars
<1>3. Follows'
  BY <1>1 DEF IInv, TypeOK, Follows, mainVars
<1> QED BY <1>1, <1>2, <1>3

LEMMA MainKeeps ==
  ASSUME IInv, NEW r \in Runs, MainNext(r)
  PROVE  IInv'
<1> USE DEF IInv
<1>1. CASE PreflightMisses(r)
  <2>1. /\ pc' \in [Runs -> Phases] /\ pc'[r] \in {"full", "setup"} /\ pc[r] = "start"
        /\ \A q \in Runs : q # r => pc'[q] = pc[q]
        /\ UNCHANGED <<storeVars, mainVars, logVars, have, lazy, ledger, at, doomed, calm>>
    BY <1>1 DEF PreflightMisses, Goes, TypeOK, Phases
  <2>2. TypeOK' /\ OnlyPasses' /\ LazyIsProved' /\ InOrder' /\ JanitorSparesNewest'
    BY <2>1, OrderKeeps DEF TypeOK, OnlyPasses, LazyIsProved, storeVars, mainVars, logVars
  <2>3. SavedOnce'
    BY <2>1 DEF TypeOK, SavedOnce, storeVars, AfterSave
  <2>4. Follows'
    BY <2>1 DEF TypeOK, Follows, mainVars, AfterSave
  <2> QED BY <2>2, <2>3, <2>4
<1>2. CASE PreflightHits(r)
  <2>1. PICK m \in manifests : /\ Newest(r, m)
                               /\ followed' = [followed EXCEPT ![r] = m]
                               /\ earned' = [earned EXCEPT ![r] = calm /\ Promises(m, r)]
                               /\ clock' = clock + 1 /\ used' = [used EXCEPT ![m] = clock']
    BY <1>2 DEF PreflightHits
  <2>2. /\ pc' \in [Runs -> Phases] /\ pc'[r] = "install" /\ pc[r] = "start"
        /\ \A q \in Runs : q # r => pc'[q] = pc[q]
        /\ UNCHANGED <<verdicts, manifests, born, rows, input, program, logVars, have, lazy, ledger, at, doomed, calm>>
    BY <1>2 DEF PreflightHits, Goes, TypeOK, Phases
  <2>3. m \in Runs /\ pc[m] \in AfterSave
    BY DEF TypeOK, SavedOnce
  <2>4. /\ followed' \in [Runs -> Runs \cup {NoRun}] /\ followed'[r] = m
        /\ \A q \in Runs : q # r => followed'[q] = followed[q]
    BY <2>1, <2>3 DEF TypeOK
  <2>5. earned' \in [Runs -> BOOLEAN]
    <3> DEFINE e == calm /\ Promises(m, r)
    <3>1. e \in BOOLEAN
      BY DEF TypeOK
    <3> HIDE DEF e
    <3>2. earned' = [earned EXCEPT ![r] = e]
      BY <2>1 DEF e
    <3> QED BY <3>1, <3>2 DEF TypeOK
  <2>6. ~lazy[r] /\ r # m
    BY <2>2, <2>3 DEF Follows, AfterSave
  <2>t. /\ clock \in Nat /\ clock' = clock + 1
        /\ used' \in [Runs -> Nat] /\ used'[m] = clock + 1
        /\ \A q \in Runs : q # m => used'[q] = used[q]
    BY <2>1, <2>3 DEF TypeOK
  <2>7. TypeOK' /\ OnlyPasses'
    BY <2>2, <2>4, <2>5, <2>t DEF TypeOK, OnlyPasses, logVars
  <2>8. SavedOnce' /\ JanitorSparesNewest'
    BY <2>2 DEF TypeOK, SavedOnce, JanitorSparesNewest, Superseded, SavedElsewhere, AfterSave
  <2>11. InOrder'
    <3>1. \A q \in Runs : born'[q] <= clock' /\ used'[q] <= clock'
      BY <2>2, <2>t DEF InOrder, TypeOK
    <3>2. ASSUME NEW a \in manifests, NEW b \in manifests,
                 Scope[a] = Scope[b], Ref[a] = Ref[b], born[a] < born[b]
          PROVE  used'[a] < used'[b]
      <4>1. a \in Runs /\ b \in Runs /\ used[a] < used[b] /\ used[a] <= clock
        BY <3>2 DEF InOrder, TypeOK
      <4>2. a # m
        <5> SUFFICES ASSUME a = m PROVE FALSE
          OBVIOUS
        <5>1. b \in Siblings(r, Ref[m])
          BY <2>1, <3>2 DEF Newest, Siblings
        <5>2. born[b] <= born[m]
          BY <2>1, <5>1 DEF Newest
        <5> QED BY <3>2, <4>1, <5>2 DEF TypeOK
      <4>3. CASE b = m
        BY <2>t, <4>1, <4>2, <4>3 DEF TypeOK
      <4>4. CASE b # m
        BY <2>t, <4>1, <4>2, <4>4
      <4> QED BY <4>3, <4>4
    <3> QED BY <2>2, <3>1, <3>2 DEF InOrder
  <2>9. Follows'
    BY <2>2, <2>3, <2>4, <2>6, NoRunIsNone DEF TypeOK, Follows, AfterSave
  <2>10. LazyIsProved'
    BY <2>2, <2>4, <2>6 DEF TypeOK, LazyIsProved, logVars
  <2> QED BY <2>7, <2>8, <2>9, <2>10, <2>11
<1>3. CASE NoLedger(r) \/ SetupEnds(r) \/ MainThrows(r)
  <2>1. PICK from \in {"install", "setup", "lazy", "full"}, to \in {"full", "build", "post"} :
          Goes(r, from, to)
    BY <1>3 DEF NoLedger, SetupEnds, MainThrows
  <2>2. calm' \in BOOLEAN /\ UNCHANGED <<storeVars, mainVars, logVars, have, lazy, ledger, at, doomed>>
    BY <1>3 DEF NoLedger, SetupEnds, MainThrows, TypeOK
  <2>3. pc' \in [Runs -> Phases] /\ SavedOnce' /\ Follows' /\ InOrder' /\ JanitorSparesNewest'
    BY <2>1, <2>2, MoveKeeps DEF Phases, AfterSave
  <2>4. TypeOK' /\ OnlyPasses' /\ LazyIsProved'
    BY <2>2, <2>3 DEF TypeOK, OnlyPasses, LazyIsProved, storeVars, mainVars, logVars
  <2> QED BY <2>3, <2>4
<1>4. CASE Predicts(r) \/ PredictFails(r) \/ AfterInstall(r)
  <2>1. /\ \/ Goes(r, "install", "restore") \/ Goes(r, "install", "full")
           \/ Goes(r, "setup", "build")
        /\ ResetSeen(r) /\ ledger' = [ledger EXCEPT ![r] = TRUE] /\ calm' \in BOOLEAN
        /\ UNCHANGED <<storeVars, mainVars, have, lazy, at, doomed>>
    BY <1>4 DEF Predicts, PredictFails, AfterInstall, TypeOK
  <2>2. pc' \in [Runs -> Phases] /\ SavedOnce' /\ Follows' /\ InOrder' /\ JanitorSparesNewest'
    BY <2>1, MoveKeeps DEF Phases, AfterSave
  <2>3. /\ seen' \in [Runs -> SUBSET Steps] /\ spool' \in [Runs -> SUBSET Keys]
        /\ \A q \in Runs : spool'[q] \subseteq spool[q]
        /\ proved' = proved
    BY <2>1 DEF ResetSeen, TypeOK
  <2>4. TypeOK' /\ OnlyPasses' /\ LazyIsProved'
    BY <2>1, <2>2, <2>3 DEF TypeOK, OnlyPasses, LazyIsProved, storeVars, mainVars
  <2> QED BY <2>2, <2>4
<1>5. CASE RestoreVerdicts(r)
  <2>1. PICK restored \in SUBSET Found(r) :
          /\ have' = [have EXCEPT ![r] = restored]
          /\ calm' = (calm /\ restored = Found(r))
          /\ lazy' = [lazy EXCEPT ![r] = Mode[r] = "auto" /\ IsLazy(r, restored)]
          /\ pc' = [pc EXCEPT ![r] = IF lazy'[r] THEN "lazy" ELSE "full"]
    BY <1>5 DEF RestoreVerdicts
  <2>2. pc[r] = "restore" /\ UNCHANGED <<storeVars, mainVars, logVars, ledger, at, doomed>>
    BY <1>5 DEF RestoreVerdicts
  <2> DEFINE z == Mode[r] = "auto" /\ IsLazy(r, restored)
  <2>3. z \in BOOLEAN /\ restored \subseteq Keys /\ \A k \in restored : k \in proved
    BY DEF Found, Predicted, Cached, OnlyPasses
  <2>4. z => IsLazy(r, restored)
    OBVIOUS
  <2>5. lazy' = [lazy EXCEPT ![r] = z]
    BY <2>1
  <2> HIDE DEF z
  <2>6. /\ lazy' \in [Runs -> BOOLEAN] /\ lazy'[r] = z
        /\ \A q \in Runs : q # r => lazy'[q] = lazy[q]
    BY <2>3, <2>5 DEF TypeOK
  <2>7. /\ pc' \in [Runs -> Phases] /\ pc'[r] \in {"lazy", "full"}
        /\ \A q \in Runs : q # r => pc'[q] = pc[q]
    BY <2>1 DEF TypeOK, Phases
  <2>8. /\ have' \in [Runs -> SUBSET Keys] /\ have'[r] = restored
        /\ \A q \in Runs : q # r => have'[q] = have[q]
    BY <2>1, <2>3 DEF TypeOK
  <2>9. calm' \in BOOLEAN
    BY <2>1 DEF TypeOK
  <2>10. TypeOK'
    BY <2>2, <2>6, <2>7, <2>8, <2>9 DEF TypeOK, storeVars, mainVars, logVars
  <2>11. OnlyPasses'
    BY <2>2, <2>3, <2>8 DEF OnlyPasses, storeVars, logVars
  <2>12. SavedOnce' /\ InOrder' /\ JanitorSparesNewest'
    BY <2>2, <2>7, OrderKeeps DEF TypeOK, SavedOnce, storeVars, AfterSave
  <2>13. Follows'
    BY <2>2, <2>6, <2>7 DEF TypeOK, Follows, mainVars, AfterSave
  <2>14. ASSUME z
         PROVE  /\ rows[followed[r]] # {}
                /\ \A s \in rows[followed[r]] : s \in Checks /\ <<s, input[r]>> \in proved
    <3>1. followed[r] \in Runs /\ rows[followed[r]] \subseteq Steps /\ input[r] \in Inputs
      BY <2>2 DEF TypeOK, Follows
    <3>2. /\ Build \notin rows[followed[r]]
          /\ Unkeyed(followed[r], input[r]) = {}
          /\ Predicted(followed[r], input[r]) # {}
          /\ Predicted(followed[r], input[r]) \subseteq restored
      BY <2>4, <2>14 DEF IsLazy
    <3>3. ASSUME NEW s \in rows[followed[r]] PROVE s \in Checks /\ <<s, input[r]>> \in proved
      <4>1. s \in Checks
        BY <3>1, <3>2 DEF Steps
      <4>2. <<s, input[r]>> \in Keys
        BY <3>2, <4>1 DEF Unkeyed
      <4>3. <<s, input[r]>> \in Predicted(followed[r], input[r])
        BY <4>2 DEF Predicted
      <4> QED BY <2>3, <3>2, <4>1, <4>3 DEF OnlyPasses
    <3>4. rows[followed[r]] # {}
      BY <3>2 DEF Predicted
    <3> QED BY <3>3, <3>4
  <2>15. LazyIsProved'
    <3> SUFFICES ASSUME NEW q \in Runs, lazy'[q]
                 PROVE  /\ rows[followed[q]] # {}
                        /\ \A s \in rows[followed[q]] : s \in Checks /\ <<s, input[q]>> \in proved
      BY <2>2 DEF LazyIsProved, storeVars, mainVars, logVars
    <3>1. CASE q = r
      BY <2>6, <2>14, <3>1
    <3>2. CASE q # r
      BY <2>6, <3>2 DEF LazyIsProved
    <3> QED BY <3>1, <3>2
  <2> QED BY <2>10, <2>11, <2>12, <2>13, <2>15
<1> QED BY <1>1, <1>2, <1>3, <1>4, <1>5 DEF MainNext

LEMMA BuildKeeps ==
  ASSUME IInv, NEW r \in Runs, BuildNext(r)
  PROVE  IInv'
<1> USE DEF IInv
<1>1. CASE StepsEnd(r)
  <2>1. Goes(r, "build", "post")
        /\ UNCHANGED <<storeVars, mainVars, logVars, have, lazy, ledger, at, doomed, calm>>
    BY <1>1 DEF StepsEnd
  <2>2. pc' \in [Runs -> Phases] /\ SavedOnce' /\ Follows' /\ InOrder' /\ JanitorSparesNewest'
    BY <2>1, MoveKeeps DEF Phases, AfterSave
  <2>3. TypeOK' /\ OnlyPasses' /\ LazyIsProved'
    BY <2>1, <2>2 DEF TypeOK, OnlyPasses, LazyIsProved, storeVars, mainVars, logVars
  <2> QED BY <2>2, <2>3
<1>2. CASE RunsOrReplays(r) \/ CheckPasses(r) \/ CheckFails(r)
  <2>1. Command(r)
    BY <1>2 DEF RunsOrReplays, CheckPasses, CheckFails
  <2>2. /\ pc[r] = "build" /\ at[r] < Len(program[r])
        /\ seen' = [seen EXCEPT ![r] = @ \cup {Current(r)}]
        /\ UNCHANGED <<storeVars, mainVars, have, lazy, ledger, doomed, calm>>
    BY <2>1 DEF Command
  <2>3. Current(r) \in Steps
    <3>1. program[r] \in Seq(Steps) /\ at[r] + 1 \in 1..Len(program[r])
      BY <2>2, ProgramsType DEF TypeOK
    <3> QED BY <3>1 DEF Current
  <2>4. seen' \in [Runs -> SUBSET Steps]
    BY <2>2, <2>3 DEF TypeOK
  <2>5. at' \in [Runs -> Nat]
    BY <1>2 DEF RunsOrReplays, CheckPasses, CheckFails, TypeOK
  <2>6. pc' \in [Runs -> Phases] /\ SavedOnce' /\ Follows' /\ InOrder' /\ JanitorSparesNewest'
    <3>1. CASE Goes(r, "build", "post")
      BY <2>2, <3>1, MoveKeeps DEF Phases, AfterSave
    <3>2. CASE UNCHANGED pc
      BY <2>2, <3>2, OrderKeeps DEF TypeOK, SavedOnce, Follows, storeVars, mainVars
    <3> QED BY <1>2, <3>1, <3>2 DEF RunsOrReplays, CheckPasses, CheckFails
  <2>7. /\ spool' \in [Runs -> SUBSET Keys] /\ proved' \in SUBSET (Checks \X Inputs)
        /\ proved \subseteq proved'
        /\ \A q \in Runs : spool'[q] \subseteq proved'
    <3>1. CASE CheckPasses(r)
      <4>1. /\ Key(r) \in Passing
            /\ spool' = [spool EXCEPT ![r] = @ \cup Recorded(r)]
            /\ proved' = proved \cup {Key(r)}
        BY <3>1 DEF CheckPasses
      <4>2. Recorded(r) \subseteq Keys \cap {Key(r)}
        BY DEF Recorded
      <4>3. Key(r) \in Checks \X Inputs
        BY <2>3, <4>1, PassingType DEF Key
      <4>4. spool' \in [Runs -> SUBSET Keys] /\ \A q \in Runs : spool'[q] \subseteq spool[q] \cup {Key(r)}
        BY <4>1, <4>2 DEF TypeOK
      <4> QED BY <4>1, <4>3, <4>4 DEF TypeOK, OnlyPasses
    <3>2. CASE RunsOrReplays(r) \/ CheckFails(r)
      BY <3>2 DEF RunsOrReplays, CheckFails, TypeOK, OnlyPasses
    <3> QED BY <1>2, <3>1, <3>2
  <2>8. TypeOK'
    BY <2>2, <2>4, <2>5, <2>6, <2>7 DEF TypeOK, storeVars, mainVars
  <2>9. OnlyPasses' /\ LazyIsProved'
    BY <2>2, <2>7 DEF OnlyPasses, LazyIsProved, storeVars, mainVars
  <2> QED BY <2>6, <2>8, <2>9
<1> QED BY <1>1, <1>2 DEF BuildNext

\* What a janitor dooms is superseded: the manifests accessed after it are
\* either all of other refs, or one is of its own and was saved later.
LEMMA DoomedSuperseded ==
  ASSUME TypeOK, SavedOnce, InOrder, NEW m \in manifests, Cardinality(UsedAfter(m)) >= Kept
  PROVE  Superseded(m)
<1> DEFINE U == UsedAfter(m)
<1>1. \A n \in U : n \in manifests /\ n \in Runs /\ Scope[n] = Scope[m] /\ used[n] > used[m]
  BY DEF UsedAfter, TypeOK
<1>2. CASE \E n \in U : Ref[n] = Ref[m]
  <2>1. PICK n \in U : Ref[n] = Ref[m]
    BY <1>2
  <2>2. /\ n \in manifests /\ n \in Runs /\ m \in Runs /\ Scope[n] = Scope[m]
        /\ used[n] > used[m]
    BY <1>1 DEF TypeOK
  <2>3. /\ used[n] \in Nat /\ used[m] \in Nat /\ born[n] \in Nat /\ born[m] \in Nat
    BY <2>2 DEF TypeOK
  <2>4. n # m
    BY <2>2, <2>3
  <2>5. born[n] # born[m]
    BY <2>2, <2>4 DEF InOrder
  <2>6. ~(born[n] < born[m])
    BY <2>1, <2>2, <2>3 DEF InOrder
  <2>7. born[n] > born[m]
    BY <2>3, <2>5, <2>6
  <2> QED BY <2>1, <2>2, <2>7 DEF Superseded
<1>3. CASE \A n \in U : Ref[n] # Ref[m]
  <2>1. U \subseteq SavedElsewhere(m)
    BY <1>1, <1>3 DEF SavedElsewhere, SavedOnce
  <2>2. Cardinality(U) >= Kept
    OBVIOUS
  <2> HIDE DEF U
  <2> QED BY <2>1, <2>2 DEF Superseded
<1> QED BY <1>2, <1>3

LEMMA PostKeeps ==
  ASSUME IInv, NEW r \in Runs, PostNext(r)
  PROVE  IInv'
<1> USE DEF IInv
<1>1. CASE PostStarts(r) \/ JanitorEnds(r)
  <2>1. PICK from \in {"post", "janitor", "clean"}, to \in {"publish", "done"} :
          Goes(r, from, to) /\ (from = "post" \/ to = "done")
    BY <1>1 DEF PostStarts, JanitorEnds
  <2>2. UNCHANGED <<storeVars, mainVars, logVars, have, lazy, ledger, at, doomed, calm>>
    BY <1>1 DEF PostStarts, JanitorEnds
  <2>3. pc' \in [Runs -> Phases] /\ SavedOnce' /\ Follows' /\ InOrder' /\ JanitorSparesNewest'
    BY <2>1, <2>2, MoveKeeps DEF Phases, AfterSave
  <2>4. TypeOK' /\ OnlyPasses' /\ LazyIsProved'
    BY <2>2, <2>3 DEF TypeOK, OnlyPasses, LazyIsProved, storeVars, mainVars, logVars
  <2> QED BY <2>3, <2>4
<1>2. ASSUME NEW k \in Keys, SaveVerdict(r, k) \/ SaveVerdictFails(r, k) PROVE IInv'
  <2>1. /\ k \in spool[r] /\ verdicts' \subseteq verdicts \cup {<<k, Ref[r]>>}
        /\ spool' = [spool EXCEPT ![r] = @ \ {k}] /\ calm' \in BOOLEAN
        /\ UNCHANGED <<manifests, born, used, clock, rows, pc, doomed, mainVars, seen, proved, have,
                       lazy, ledger, at>>
    BY <1>2 DEF SaveVerdict, SaveVerdictFails, Publishing, storeVars, TypeOK
  <2>2. TypeOK'
    <3>2. Ref[r] \in Refs
      BY RefType
    <3>1. verdicts' \subseteq Keys \X Refs
      BY <2>1, <3>2 DEF TypeOK
    <3> QED BY <2>1, <3>1 DEF TypeOK, mainVars
  <2>3. OnlyPasses'
    <3>1. \A v \in verdicts' : v[1] \in proved
      BY <2>1 DEF TypeOK, OnlyPasses
    <3> QED BY <2>1, <3>1 DEF TypeOK, OnlyPasses
  <2>4. SavedOnce' /\ Follows' /\ LazyIsProved' /\ InOrder' /\ JanitorSparesNewest'
    BY <2>1, OrderKeeps DEF SavedOnce, Follows, LazyIsProved, mainVars
  <2> QED BY <2>2, <2>3, <2>4
<1>3. CASE SaveManifest(r)
  <2>1. /\ pc[r] = "publish" /\ manifests' = manifests \cup {r} /\ clock' = clock + 1
        /\ born' = [born EXCEPT ![r] = clock'] /\ used' = [used EXCEPT ![r] = clock'] /\ rows' = [rows EXCEPT ![r] = seen[r]]
        /\ pc' = [pc EXCEPT ![r] = "janitor"]
        /\ UNCHANGED <<mainVars, seen, proved, have, lazy, ledger, at, verdicts, spool, doomed, calm>>
    BY <1>3 DEF SaveManifest, Publishing
  <2>2. clock \in Nat /\ clock' \in Nat /\ clock' > clock
    BY <2>1 DEF TypeOK
  <2>3. /\ born' \in [Runs -> Nat] /\ born'[r] = clock'
        /\ used' \in [Runs -> Nat] /\ used'[r] = clock'
        /\ \A q \in Runs : q # r => born'[q] = born[q] /\ used'[q] = used[q]
    BY <2>1, <2>2 DEF TypeOK
  <2>4. /\ rows' \in [Runs -> SUBSET Steps]
        /\ \A q \in Runs : q # r => rows'[q] = rows[q]
    BY <2>1 DEF TypeOK
  <2>5. /\ pc' \in [Runs -> Phases] /\ pc'[r] = "janitor"
        /\ \A q \in Runs : q # r => pc'[q] = pc[q]
    BY <2>1 DEF TypeOK, Phases
  <2>6. TypeOK' /\ OnlyPasses'
    BY <2>1, <2>2, <2>3, <2>4, <2>5 DEF TypeOK, OnlyPasses, mainVars
  <2>7. SavedOnce'
    <3>1. \A m \in manifests' : pc'[m] \in AfterSave
      BY <2>1, <2>5 DEF TypeOK, SavedOnce, AfterSave
    <3>2. \A m \in Runs : born'[m] # 0 => pc'[m] \in AfterSave
      BY <2>3, <2>5 DEF SavedOnce, AfterSave
    <3>3. \A m \in manifests' : born'[m] # 0
      BY <2>1, <2>2, <2>3 DEF TypeOK, SavedOnce
    <3>4. \A q \in Runs : doomed'[q] \subseteq {m \in Runs : pc'[m] \in AfterSave}
      BY <2>1, <2>5 DEF SavedOnce, AfterSave
    <3> QED BY <3>1, <3>2, <3>3, <3>4 DEF SavedOnce
  <2>8. Follows'
    BY <2>1, <2>5 DEF Follows, mainVars, AfterSave
  <2>9. LazyIsProved'
    <3>1. \A q \in Runs : lazy[q] => followed[q] \in Runs /\ followed[q] # r
      BY <2>1 DEF Follows, AfterSave
    <3> QED BY <2>1, <2>4, <3>1 DEF LazyIsProved, mainVars
  <2>10. JanitorSparesNewest'
    <3> SUFFICES ASSUME NEW q \in Runs, NEW m \in doomed[q]
                 PROVE  Superseded(m)'
      BY <2>1 DEF JanitorSparesNewest
    <3>1. Superseded(m) /\ m \in Runs /\ m # r
      BY <2>1 DEF JanitorSparesNewest, SavedOnce, AfterSave
    <3>2. born[r] = 0
      BY <2>1 DEF SavedOnce, AfterSave
    <3>3. ASSUME NEW n \in Runs, Scope[n] = Scope[m], Ref[n] = Ref[m], born[n] > born[m]
          PROVE  Superseded(m)'
      <4>1. n # r
        BY <3>1, <3>2, <3>3 DEF TypeOK
      <4>2. born'[n] = born[n] /\ born'[m] = born[m]
        BY <2>3, <3>1, <4>1
      <4> QED BY <3>3, <4>2 DEF Superseded
    <3>4. ASSUME NEW S \in SUBSET SavedElsewhere(m), Cardinality(S) >= Kept
          PROVE  Superseded(m)'
      <4>1. SavedElsewhere(m) \subseteq SavedElsewhere(m)'
        BY <2>3, <3>2 DEF SavedElsewhere
      <4> QED BY <3>4, <4>1 DEF Superseded
    <3> QED BY <3>1, <3>3, <3>4 DEF Superseded
  <2>11. InOrder'
    <3>1. \A q \in Runs : born'[q] <= clock' /\ used'[q] <= clock'
      BY <2>2, <2>3 DEF InOrder, TypeOK
    <3>2. \A q \in manifests : q \in Runs /\ q # r
      BY <2>1 DEF TypeOK, SavedOnce, AfterSave
    <3>3. \A q \in manifests : /\ born'[q] = born[q] /\ used'[q] = used[q]
                                /\ born'[q] < born'[r] /\ used'[q] < used'[r]
      BY <2>2, <2>3, <3>2 DEF InOrder, TypeOK
    <3>4. \A a \in manifests', b \in manifests' : a # b => born'[a] # born'[b]
      BY <2>1, <2>2, <2>3, <3>2, <3>3 DEF InOrder, TypeOK
    <3>5. ASSUME NEW a \in manifests', NEW b \in manifests',
                 Scope[a] = Scope[b], Ref[a] = Ref[b], born'[a] < born'[b]
          PROVE  used'[a] < used'[b]
      <4>1. CASE a = r
        <5>1. b # r => b \in manifests
          BY <2>1
        <5> QED BY <2>2, <2>3, <3>2, <3>3, <3>5, <4>1, <5>1 DEF TypeOK
      <4>2. CASE a # r /\ b = r
        BY <2>1, <3>3, <4>2
      <4>3. CASE a # r /\ b # r
        <5>1. a \in manifests /\ b \in manifests
          BY <2>1, <4>3
        <5> QED BY <3>3, <3>5, <5>1 DEF InOrder
      <4> QED BY <4>1, <4>2, <4>3
    <3> QED BY <3>1, <3>4, <3>5 DEF InOrder
  <2> QED BY <2>6, <2>7, <2>8, <2>9, <2>10, <2>11
<1>4. CASE NoManifest(r)
  <2>1. /\ Goes(r, "publish", "janitor")
        /\ UNCHANGED <<storeVars, mainVars, logVars, have, lazy, ledger, at, doomed, calm>>
    BY <1>4 DEF NoManifest, Publishing, Goes, logVars
  <2>2. pc' \in [Runs -> Phases] /\ SavedOnce' /\ Follows' /\ InOrder' /\ JanitorSparesNewest'
    BY <2>1, MoveKeeps DEF Phases, AfterSave
  <2>3. TypeOK' /\ OnlyPasses' /\ LazyIsProved'
    BY <2>1, <2>2 DEF TypeOK, OnlyPasses, LazyIsProved, storeVars, mainVars, logVars
  <2> QED BY <2>2, <2>3
<1>5. CASE JanitorLists(r)
  <2> DEFINE old == {m \in manifests : Cardinality(UsedAfter(m)) >= Kept}
  <2>1. /\ Goes(r, "janitor", "clean") /\ doomed' = [doomed EXCEPT ![r] = old]
        /\ UNCHANGED <<storeVars, mainVars, logVars, have, lazy, ledger, at, calm>>
    BY <1>5 DEF JanitorLists
  <2>2. \A m \in old : m \in manifests /\ Superseded(m)
    BY DoomedSuperseded
  <2> HIDE DEF old
  <2>3. /\ doomed' \in [Runs -> SUBSET Runs] /\ doomed'[r] = old
        /\ \A q \in Runs : q # r => doomed'[q] = doomed[q]
    BY <2>1, <2>2 DEF TypeOK
  <2>4. /\ pc' \in [Runs -> Phases] /\ pc[r] = "janitor" /\ pc'[r] = "clean"
        /\ \A q \in Runs : q # r => pc'[q] = pc[q]
    BY <2>1 DEF Goes, TypeOK, Phases
  <2>5. TypeOK' /\ OnlyPasses' /\ LazyIsProved'
    BY <2>1, <2>3, <2>4 DEF TypeOK, OnlyPasses, LazyIsProved, storeVars, mainVars, logVars
  <2>6. SavedOnce'
    <3>1. \A m \in Runs : pc[m] \in AfterSave => pc'[m] \in AfterSave
      BY <2>4 DEF AfterSave
    <3>2. old \subseteq {m \in Runs : pc[m] \in AfterSave}
      BY <2>2 DEF TypeOK, SavedOnce
    <3>3. \A q \in Runs : doomed'[q] \subseteq {m \in Runs : pc[m] \in AfterSave}
      BY <2>3, <3>2 DEF SavedOnce
    <3> QED BY <2>1, <3>1, <3>3 DEF SavedOnce, storeVars, TypeOK
  <2>7. Follows'
    BY <2>1, <2>4 DEF TypeOK, Follows, mainVars, AfterSave
  <2>8. InOrder'
    BY <2>1 DEF InOrder, storeVars
  <2>9. JanitorSparesNewest'
    <3> SUFFICES ASSUME NEW q \in Runs, NEW m \in doomed'[q]
                 PROVE  Superseded(m)'
      BY DEF JanitorSparesNewest
    <3>1. Superseded(m)
      <4>1. CASE q = r
        BY <2>2, <2>3, <4>1
      <4>2. CASE q # r
        BY <2>3, <4>2 DEF JanitorSparesNewest
      <4> QED BY <4>1, <4>2
    <3> QED BY <2>1, <3>1 DEF Superseded, SavedElsewhere, storeVars
  <2> QED BY <2>5, <2>6, <2>7, <2>8, <2>9
<1>6. ASSUME NEW m \in Runs, JanitorDeletes(r, m) PROVE IInv'
  <2>1. /\ manifests' \subseteq manifests
        /\ doomed' = [doomed EXCEPT ![r] = @ \ {m}]
        /\ UNCHANGED <<verdicts, born, used, clock, rows, mainVars, logVars, pc, have, lazy, ledger, at, calm>>
    BY <1>6 DEF JanitorDeletes
  <2>2. doomed' \in [Runs -> SUBSET Runs] /\ \A q \in Runs : doomed'[q] \subseteq doomed[q]
    BY <2>1 DEF TypeOK
  <2>3. TypeOK' /\ OnlyPasses' /\ LazyIsProved'
    BY <2>1, <2>2 DEF TypeOK, OnlyPasses, LazyIsProved, mainVars, logVars
  <2>4. SavedOnce' /\ Follows' /\ InOrder' /\ JanitorSparesNewest'
    BY <2>1, <2>2, OrderKeeps DEF SavedOnce, Follows, mainVars
  <2> QED BY <2>3, <2>4
<1> QED BY <1>1, <1>2, <1>3, <1>4, <1>5, <1>6 DEF PostNext

LEMMA OutsideKeeps ==
  ASSUME IInv, EvictVerdict \/ EvictManifest \/ (\E r \in Runs : RunnerLost(r))
  PROVE  IInv'
<1> USE DEF IInv
<1>1. CASE EvictVerdict \/ EvictManifest
  <2>1. /\ verdicts' \subseteq verdicts /\ manifests' \subseteq manifests /\ calm' \in BOOLEAN
        /\ UNCHANGED <<born, used, clock, rows, mainVars, logVars, pc, have, lazy, ledger, at, doomed>>
    BY <1>1 DEF EvictVerdict, EvictManifest, TypeOK
  <2>2. TypeOK' /\ OnlyPasses'
    BY <2>1 DEF TypeOK, OnlyPasses, mainVars, logVars
  <2>3. SavedOnce' /\ Follows' /\ LazyIsProved'
    BY <2>1 DEF SavedOnce, Follows, LazyIsProved, mainVars, logVars
  <2>4. InOrder' /\ JanitorSparesNewest'
    BY <2>1, OrderKeeps
  <2> QED BY <2>2, <2>3, <2>4
<1>2. ASSUME NEW r \in Runs, RunnerLost(r) PROVE IInv'
  <2>1. PICK from \in Phases \ {"start", "done"} : Goes(r, from, "done")
    BY <1>2 DEF RunnerLost
  <2>2. UNCHANGED <<storeVars, mainVars, logVars, have, lazy, ledger, at, doomed, calm>>
    BY <1>2 DEF RunnerLost
  <2>3. pc' \in [Runs -> Phases] /\ SavedOnce' /\ Follows' /\ InOrder' /\ JanitorSparesNewest'
    BY <2>1, <2>2, MoveKeeps DEF Phases, AfterSave
  <2>4. TypeOK' /\ OnlyPasses' /\ LazyIsProved'
    BY <2>2, <2>3 DEF TypeOK, OnlyPasses, LazyIsProved, storeVars, mainVars, logVars
  <2> QED BY <2>3, <2>4
<1> QED BY <1>1, <1>2

LEMMA NextIInv == IInv /\ [Next]_vars => IInv'
<1> SUFFICES ASSUME IInv, [Next]_vars PROVE IInv'
  OBVIOUS
<1>1. CASE UNCHANGED vars
  <2>1. TypeOK' /\ OnlyPasses'
    BY <1>1 DEF vars, storeVars, mainVars, logVars, IInv, TypeOK, OnlyPasses
  <2>2. SavedOnce' /\ Follows' /\ LazyIsProved'
    BY <1>1 DEF vars, storeVars, mainVars, logVars, IInv, SavedOnce, Follows, LazyIsProved
  <2>3. InOrder' /\ JanitorSparesNewest'
    BY <1>1, OrderKeeps DEF vars, storeVars, IInv
  <2> QED BY <2>1, <2>2, <2>3 DEF IInv
<1>2. CASE Next
  BY <1>1, <1>2, MainKeeps, BuildKeeps, PostKeeps, OutsideKeeps DEF Next, Done
<1> QED BY <1>1, <1>2

LEMMA Inductive == Spec => []IInv
BY InitIInv, NextIInv, PTL DEF Spec

\* Every variable keeps its type.
THEOREM TypeCorrect == Spec => []TypeOK
<1>1. IInv => TypeOK
  BY DEF IInv
<1> QED BY <1>1, Inductive, PTL

\* A run is lazy only when each check its manifest lists has passed, in some
\* run, with the inputs of this very checkout.
THEOREM LazyProved == Spec => []LazyIsProved
<1>1. IInv => LazyIsProved
  BY DEF IInv
<1> QED BY <1>1, Inductive, PTL

\* What a janitor will delete was superseded by a manifest of its job saved later
\* on its own ref, or pushed out by as many on other refs as a janitor keeps.
THEOREM NewestSpared == Spec => []JanitorSparesNewest
<1>1. IInv => JanitorSparesNewest
  BY DEF IInv
<1> QED BY <1>1, Inductive, PTL
-----------------------------------------------------------------------------
(***************************************************************************)
(* That laziness is earned.  While nothing was evicted and no call failed, *)
(* each check a run went through has its verdict in the cache or, until    *)
(* the manifest is saved, in the run's spool; and what a manifest promised *)
(* when it was restored it still promises.                                 *)
(***************************************************************************)
BeforeBuild == {"start", "install", "restore", "setup", "lazy", "full"}

Backed(r) ==
  /\ pc[r] \in BeforeBuild => at[r] = 0
  /\ r \in manifests => born[r] # 0
  /\ born[r] # 0 => spool[r] = {}
  /\ calm => have[r] \subseteq Cached(r)
  /\ calm => \A n \in 1..at[r] : <<program[r][n], input[r]>> \in Keys =>
               <<program[r][n], input[r]>> \in spool[r] \cup Cached(r)

Trusts(r) ==
  /\ pc[r] \in {"start", "setup"} => ~earned[r]
  /\ earned[r] =>
       /\ followed[r] \in Runs /\ born[followed[r]] # 0 /\ Promises(followed[r], r)
       /\ Ref[followed[r]] \in {Ref[r], Default}
  /\ earned[r] /\ calm /\ Mode[r] = "auto" /\ pc[r] \in {"lazy", "full", "build"} => lazy[r]

EarnedInv == \A r \in Runs : Backed(r) /\ Trusts(r)

\* What no step changes once a run is past its save.
Settled ==
  /\ UNCHANGED <<program, input>>
  /\ \A m \in Runs : pc[m] \in AfterSave =>
       at'[m] = at[m] /\ rows'[m] = rows[m] /\ spool'[m] = spool[m] /\ born'[m] = born[m]

LEMMA PromiseKeeps ==
  ASSUME IInv, Settled, NEW m \in Runs, NEW r \in Runs, born[m] # 0
  PROVE  Promises(m, r)' = Promises(m, r) /\ born'[m] # 0
<1>1. pc[m] \in AfterSave BY DEF IInv, SavedOnce
<1>2. at'[m] = at[m] /\ rows'[m] = rows[m] /\ UNCHANGED <<program, input>> /\ born'[m] = born[m]
  BY <1>1 DEF Settled
<1>3. Commands(r)' = Commands(r) BY <1>2 DEF Commands
<1> QED BY <1>2, <1>3 DEF Promises

\* While no verdict is evicted, a run can restore what it could.
LEMMA CachedGrows ==
  ASSUME verdicts \subseteq verdicts', NEW q
  PROVE  Cached(q) \subseteq Cached(q)'
BY DEF Cached

\* A step that moves a run, and at most loses calm, keeps what it is owed.
LEMMA MovesKeep ==
  ASSUME IInv, EarnedInv, NEW r \in Runs, Settled, calm' => calm,
         \A q \in Runs \ {r} : pc'[q] = pc[q],
         pc'[r] \in BeforeBuild => pc[r] \in BeforeBuild,
         pc'[r] \in {"start", "setup"} => pc[r] \in {"start", "setup"} \/ ~earned[r],
         calm' /\ pc'[r] \in {"lazy", "full", "build"} =>
           pc[r] \in {"lazy", "full", "build"} \/ ~earned[r],
         manifests' \subseteq manifests, calm' => verdicts \subseteq verdicts',
         UNCHANGED <<born, followed, earned, have, lazy, at, spool>>
  PROVE  EarnedInv'
<1>1. ASSUME NEW q \in Runs PROVE Backed(q)' /\ Trusts(q)'
  <2>1. Backed(q) /\ Trusts(q) BY DEF EarnedInv
  <2>5. calm' => Cached(q) \subseteq Cached(q)' BY CachedGrows
  <2>2. Backed(q)' BY <2>1, <2>5 DEF Backed, Settled, IInv, TypeOK
  <2>3. ASSUME NEW m \in Runs, m = followed[q], earned[q]
        PROVE  born'[m] # 0 /\ Promises(m, q)'
    BY <2>1, <2>3, PromiseKeeps DEF Trusts
  <2>4. earned'[q] => followed'[q] \in Runs /\ born'[followed'[q]] # 0 /\ Promises(followed[q], q)'
    BY <2>1, <2>3 DEF Trusts
  <2>7. Trusts(q)' BY <2>1, <2>4 DEF Trusts
  <2>8. QED BY <2>2, <2>7
<1> QED BY <1>1 DEF EarnedInv

LEMMA InitEarned == Init => EarnedInv
BY DEF Init, EarnedInv, Backed, Trusts

\* Steps that leave the spools, the restored verdicts and the logs in place.
LEMMA QuietKeeps ==
  ASSUME IInv, EarnedInv, NEW r \in Runs,
         \/ PreflightMisses(r) \/ NoLedger(r) \/ SetupEnds(r) \/ MainThrows(r)
         \/ CheckFails(r) \/ StepsEnd(r)
         \/ PostStarts(r) \/ NoManifest(r) \/ JanitorLists(r) \/ JanitorEnds(r)
         \/ \E m \in Runs : JanitorDeletes(r, m)
         \/ RunnerLost(r) \/ EvictVerdict \/ EvictManifest
  PROVE  EarnedInv'
<1> USE DEF storeVars, mainVars, logVars
<1>t. TypeOK /\ Trusts(r) BY DEF IInv, EarnedInv
<1>1. CASE PreflightMisses(r) \/ NoLedger(r) \/ SetupEnds(r) \/ MainThrows(r)
  <2>1. /\ UNCHANGED <<program, input, born, rows, manifests, verdicts, followed, earned, have, lazy, at, spool>>
        /\ \A q \in Runs \ {r} : pc'[q] = pc[q]
        /\ pc[r] \in BeforeBuild
        /\ calm' => calm
    BY <1>1, <1>t DEF PreflightMisses, NoLedger, SetupEnds, MainThrows, Goes, BeforeBuild, TypeOK
  <2>2. pc'[r] \in {"start", "setup"} => pc[r] \in {"start", "setup"}
    BY <1>1, <1>t DEF PreflightMisses, NoLedger, SetupEnds, MainThrows, Goes, TypeOK
  <2>3. calm' /\ pc'[r] \in {"lazy", "full", "build"} => pc[r] \in {"lazy", "full", "build", "start"}
    BY <1>1, <1>t DEF PreflightMisses, NoLedger, SetupEnds, MainThrows, Goes, TypeOK
  <2>4. Settled BY <2>1 DEF Settled
  <2>5. pc[r] = "start" => ~earned[r] BY <1>t DEF Trusts
  <2>6. /\ UNCHANGED <<born, followed, earned, have, lazy, at, spool>>
        /\ manifests' \subseteq manifests
        /\ calm' => verdicts \subseteq verdicts'
    BY <2>1
  <2>7. QED BY <2>1, <2>2, <2>3, <2>4, <2>5, <2>6, MovesKeep
<1>2. CASE \/ CheckFails(r) \/ StepsEnd(r) \/ PostStarts(r) \/ NoManifest(r) \/ JanitorLists(r)
           \/ JanitorEnds(r) \/ RunnerLost(r)
  <2>1. /\ UNCHANGED <<program, input, born, rows, manifests, verdicts, followed, earned, have, lazy, at, spool, calm>>
        /\ \A q \in Runs \ {r} : pc'[q] = pc[q]
        /\ pc'[r] \in {"post", "publish", "done", "janitor", "clean"}
    BY <1>2, <1>t DEF CheckFails, StepsEnd, PostStarts, NoManifest, Publishing, JanitorLists,
       JanitorEnds, RunnerLost, Command, Goes, TypeOK
  <2>2. Settled BY <2>1 DEF Settled
  <2>3. pc'[r] \notin BeforeBuild /\ pc'[r] \notin {"start", "setup", "lazy", "full", "build"}
    BY <2>1 DEF BeforeBuild
  <2>4. QED BY <2>1, <2>2, <2>3, MovesKeep
<1>3. CASE (\E m \in Runs : JanitorDeletes(r, m)) \/ EvictVerdict \/ EvictManifest
  <2>1. /\ UNCHANGED <<program, input, pc, born, rows, followed, earned, have, lazy, at, spool>>
        /\ manifests' \subseteq manifests
        /\ calm' => calm
        /\ calm' => verdicts \subseteq verdicts'
    BY <1>3 DEF JanitorDeletes, EvictVerdict, EvictManifest
  <2>2. Settled BY <2>1 DEF Settled
  <2>3. /\ UNCHANGED <<born, followed, earned, have, lazy, at, spool>>
        /\ \A q \in Runs : pc'[q] = pc[q]
    BY <2>1
  <2>4. QED BY <2>1, <2>2, <2>3, MovesKeep
<1> QED BY <1>1, <1>2, <1>3

\* A manifest found by the preflight is saved, and is judged as it is.
LEMMA HitKeeps ==
  ASSUME IInv, EarnedInv, NEW r \in Runs, PreflightHits(r)
  PROVE  EarnedInv'
<1>t. TypeOK BY DEF IInv
<1>1. PICK m \in manifests : /\ Newest(r, m)
                             /\ followed' = [followed EXCEPT ![r] = m]
                             /\ earned' = [earned EXCEPT ![r] = calm /\ Promises(m, r)]
  BY DEF PreflightHits
<1>2. /\ pc'[r] = "install" /\ pc[r] = "start" /\ \A q \in Runs \ {r} : pc'[q] = pc[q]
      /\ UNCHANGED <<verdicts, manifests, born, rows, input, program, logVars, have, lazy, at, calm>>
  BY <1>t DEF PreflightHits, Goes, TypeOK
<1>3. Settled BY <1>2 DEF Settled, logVars
<1>4. m \in Runs /\ born[m] # 0 BY <1>t DEF TypeOK, EarnedInv, Backed
<1>5. ASSUME NEW q \in Runs PROVE Backed(q)'
  <2>1. Cached(q) \subseteq Cached(q)' BY <1>2, CachedGrows
  <2>2. QED BY <1>2, <2>1 DEF EarnedInv, Backed, logVars, BeforeBuild
<1>6. /\ followed'[r] = m
      /\ earned'[r] => Promises(m, r)
      /\ \A q \in Runs \ {r} : followed'[q] = followed[q] /\ earned'[q] = earned[q]
  <2> DEFINE e == calm /\ Promises(m, r)
  <2>1. e => Promises(m, r) OBVIOUS
  <2> HIDE DEF e
  <2>2. earned' = [earned EXCEPT ![r] = e] BY <1>1 DEF e
  <2>3. QED BY <1>1, <1>t, <2>1, <2>2 DEF TypeOK
<1>7. ASSUME NEW q \in Runs PROVE Trusts(q)'
  <2>1. CASE q = r
    <3>1. Promises(m, r)' = Promises(m, r) /\ born'[m] # 0 BY <1>3, <1>4, PromiseKeeps
    <3>2. earned'[r] => Promises(m, r)' BY <1>6, <3>1
    <3>3. followed'[r] = m BY <1>6
    <3>4. earned'[r] => Promises(followed[r], r)' BY <3>2, <3>3 DEF Promises
    <3>6. Ref[m] \in {Ref[r], Default} BY <1>1 DEF Newest
    <3>5. QED BY <1>2, <1>4, <2>1, <3>1, <3>3, <3>4, <3>6 DEF Trusts
  <2>2. CASE q # r
    <3>1. ASSUME NEW n \in Runs, n = followed[q], earned[q] PROVE born'[n] # 0 /\ Promises(n, q)'
      BY <1>3, <3>1, PromiseKeeps DEF EarnedInv, Trusts
    <3>2. earned'[q] => followed'[q] \in Runs /\ born'[followed'[q]] # 0 /\ Promises(followed[q], q)'
      BY <1>6, <2>2, <3>1 DEF EarnedInv, Trusts
    <3>3. QED BY <1>2, <1>6, <2>2, <3>2 DEF EarnedInv, Trusts
  <2>3. QED BY <2>1, <2>2
<1> QED BY <1>5, <1>7 DEF EarnedInv

\* What every run trusts survives a step that neither moves it into the setup
\* or the build nor changes what it follows.
LEMMA TrustKeeps ==
  ASSUME IInv, Settled, NEW q \in Runs, Trusts(q), calm' => calm,
         UNCHANGED <<followed[q], earned[q], lazy[q]>>,
         pc'[q] \in {"start", "setup"} => pc[q] \in {"start", "setup"} \/ ~earned[q],
         calm' /\ pc'[q] \in {"lazy", "full", "build"} =>
           pc[q] \in {"lazy", "full", "build"} \/ ~earned[q]
  PROVE  Trusts(q)'
<1>1. ASSUME NEW m \in Runs, m = followed[q], earned[q] PROVE born'[m] # 0 /\ Promises(m, q)'
  BY <1>1, PromiseKeeps DEF Trusts
<1>2. earned'[q] => /\ followed'[q] \in Runs /\ born'[followed'[q]] # 0
                    /\ Promises(followed[q], q)'
  BY <1>1 DEF Trusts
<1> QED BY <1>2 DEF Trusts

\* Soldr starts on an empty log before any command of the workflow ran.
LEMMA ResetKeeps ==
  ASSUME IInv, EarnedInv, NEW r \in Runs, Predicts(r) \/ PredictFails(r) \/ AfterInstall(r)
  PROVE  EarnedInv'
<1>t. TypeOK BY DEF IInv
<1>1. /\ UNCHANGED <<storeVars, mainVars, have, lazy, at>>
      /\ spool' = [spool EXCEPT ![r] = {}]
      /\ \A q \in Runs \ {r} : pc'[q] = pc[q]
      /\ calm' => calm
  BY <1>t DEF Predicts, PredictFails, AfterInstall, ResetSeen, Goes, TypeOK
<1>2. \/ pc[r] = "install" /\ pc'[r] = "restore"
      \/ pc[r] = "install" /\ pc'[r] = "full" /\ ~calm'
      \/ pc[r] = "setup" /\ pc'[r] = "build"
  BY <1>t DEF Predicts, PredictFails, AfterInstall, Goes, TypeOK
<1>3. \A q \in Runs : spool'[q] = IF q = r THEN {} ELSE spool[q] BY <1>1, <1>t DEF TypeOK
<1>4. Settled BY <1>1, <1>2, <1>3 DEF Settled, AfterSave, storeVars, mainVars
<1>5. Backed(r) /\ Trusts(r) /\ at[r] = 0 BY <1>2 DEF EarnedInv, Backed, BeforeBuild
<1>6. ASSUME NEW q \in Runs PROVE Backed(q)' /\ Trusts(q)'
  <2>1. Backed(q) /\ Trusts(q) BY DEF EarnedInv
  <2>5. Cached(q) \subseteq Cached(q)' BY <1>1, CachedGrows DEF storeVars
  <2>2. CASE q = r
    <3>1. Backed(q)' BY <1>1, <1>3, <1>5, <2>2, <2>5 DEF Backed, storeVars, mainVars
    <3>2. pc[r] = "setup" => ~earned[r] BY <1>5 DEF Trusts
    <3>3. Trusts(q)' BY <1>1, <1>2, <1>4, <2>1, <2>2, <3>2, TrustKeeps DEF mainVars
    <3>4. QED BY <3>1, <3>3
  <2>3. CASE q # r
    <3>1. Backed(q)' BY <1>1, <1>3, <2>1, <2>3, <2>5 DEF Backed, storeVars, mainVars
    <3>2. Trusts(q)' BY <1>1, <1>4, <2>1, <2>3, TrustKeeps DEF mainVars
    <3>3. QED BY <3>1, <3>2
  <2>4. QED BY <2>2, <2>3
<1> QED BY <1>6 DEF EarnedInv

\* A run that was promised laziness finds every verdict it predicts, as long
\* as no entry was evicted and no restore failed.
LEMMA PromisedFinds ==
  ASSUME IInv, EarnedInv, NEW r \in Runs, pc[r] = "restore", earned[r], calm
  PROVE  IsLazy(r, Found(r))
<1> DEFINE m == followed[r]
<1>t. TypeOK /\ Trusts(r) BY DEF IInv, EarnedInv
<1>1. m \in Runs /\ born[m] # 0 /\ Promises(m, r) BY <1>t DEF Trusts
<1>2. Backed(m) BY <1>1 DEF EarnedInv
<1>f. Ref[m] \in {Ref[r], Default} BY <1>1, <1>t DEF Trusts
<1> HIDE DEF m
<1>3. spool[m] = {} BY <1>1, <1>2 DEF Backed
<1>4. /\ at[m] = Len(program[m]) /\ program[m] = program[r] /\ input[m] = input[r]
      /\ rows[m] = Commands(r) /\ rows[m] # {}
      /\ \A s \in Commands(r) : <<s, input[r]>> \in Keys
  BY <1>1 DEF Promises
<1>v. Cached(m) \subseteq Cached(r)
  <2>1. QED BY <1>f DEF Cached
<1>5. ASSUME NEW s \in rows[m] PROVE <<s, input[r]>> \in Cached(r) /\ s \in Checks
  <2>1. PICK n \in 1..Len(program[r]) : s = program[r][n] BY <1>4 DEF Commands
  <2>2. <<s, input[r]>> \in Keys BY <1>4
  <2>3. n \in 1..at[m] /\ <<program[m][n], input[m]>> = <<s, input[r]>> BY <1>4, <2>1
  <2>4. <<program[m][n], input[m]>> \in spool[m] \cup Cached(m) BY <1>2, <2>2, <2>3 DEF Backed
  <2>5. s \in Checks BY <2>2 DEF Keys
  <2>6. QED BY <1>3, <1>v, <2>3, <2>4, <2>5
<1>6. Build \notin rows[m] BY <1>5, BuildIsNoCheck
<1>7. Unkeyed(m, input[r]) = {} BY <1>4 DEF Unkeyed
<1>8. PICK s \in rows[m] : TRUE BY <1>4
<1>9. <<s, input[r]>> \in Predicted(m, input[r]) BY <1>4, <1>8 DEF Predicted
<1>10. ASSUME NEW k \in Predicted(m, input[r]) PROVE k \in Cached(r)
  <2>1. k[1] \in rows[m] /\ k[2] = input[r] /\ k = <<k[1], k[2]>> BY DEF Predicted, Keys
  <2>2. <<k[1], k[2]>> \in Cached(r) BY <1>5, <2>1
  <2>3. QED BY <2>1, <2>2
<1>11. Predicted(m, input[r]) \subseteq Found(r) BY <1>10 DEF Found, m
<1>12. QED BY <1>6, <1>7, <1>9, <1>11 DEF IsLazy, m

LEMMA RestoreKeeps ==
  ASSUME IInv, EarnedInv, NEW r \in Runs, RestoreVerdicts(r)
  PROVE  EarnedInv'
<1>t. TypeOK BY DEF IInv
<1>1. PICK restored \in SUBSET Found(r) :
        /\ have' = [have EXCEPT ![r] = restored]
        /\ calm' = (calm /\ restored = Found(r))
        /\ lazy' = [lazy EXCEPT ![r] = Mode[r] = "auto" /\ IsLazy(r, restored)]
        /\ pc' = [pc EXCEPT ![r] = IF lazy'[r] THEN "lazy" ELSE "full"]
  BY DEF RestoreVerdicts
<1>2. /\ pc[r] = "restore" /\ \A q \in Runs \ {r} : pc'[q] = pc[q]
      /\ pc'[r] \in {"lazy", "full"}
      /\ UNCHANGED <<storeVars, mainVars, logVars, at>>
  BY <1>1, <1>t DEF RestoreVerdicts, TypeOK
<1>3. /\ calm' => calm /\ restored = Found(r)
      /\ have'[r] = restored
      /\ \A q \in Runs \ {r} : have'[q] = have[q] /\ lazy'[q] = lazy[q]
  BY <1>1, <1>t DEF TypeOK
<1>4. lazy'[r] <=> Mode[r] = "auto" /\ IsLazy(r, restored)
  <2> DEFINE z == Mode[r] = "auto" /\ IsLazy(r, restored)
  <2>1. z \in BOOLEAN /\ (z <=> Mode[r] = "auto" /\ IsLazy(r, restored)) BY DEF IsLazy
  <2>2. lazy' = [lazy EXCEPT ![r] = z] BY <1>1
  <2> HIDE DEF z
  <2>3. lazy'[r] = z BY <1>t, <2>1, <2>2 DEF TypeOK
  <2>4. QED BY <2>1, <2>3
<1>5. Settled BY <1>2 DEF Settled, storeVars, mainVars, logVars
<1>6. ASSUME NEW q \in Runs PROVE Backed(q)' /\ Trusts(q)'
  <2>1. Backed(q) /\ Trusts(q) BY DEF EarnedInv
  <2>2. restored \subseteq Cached(r) BY DEF Found
  <2>7. Cached(q) \subseteq Cached(q)' BY <1>2, CachedGrows DEF storeVars
  <2>3. Backed(q)'
    BY <1>2, <1>3, <2>1, <2>2, <2>7 DEF Backed, BeforeBuild, storeVars, mainVars, logVars
  <2>4. CASE q # r BY <1>2, <1>3, <1>5, <2>1, <2>3, <2>4, TrustKeeps DEF mainVars
  <2>5. CASE q = r
    <3>1. ASSUME NEW n \in Runs, n = followed[r], earned[r] PROVE born'[n] # 0 /\ Promises(n, r)'
      BY <1>5, <2>1, <2>5, <3>1, PromiseKeeps DEF Trusts
    <3>2. earned'[r] => /\ followed'[r] \in Runs /\ born'[followed'[r]] # 0
                        /\ Promises(followed[r], r)'
                        /\ Ref[followed'[r]] \in {Ref[r], Default}
      BY <1>2, <2>1, <2>5, <3>1 DEF Trusts, mainVars
    <3>3. earned'[r] /\ calm' /\ Mode[r] = "auto" => lazy'[r]
      BY <1>2, <1>3, <1>4, PromisedFinds DEF mainVars
    <3>4. QED BY <1>2, <2>3, <2>5, <3>2, <3>3 DEF Trusts
  <2>6. QED BY <2>3, <2>4, <2>5
<1> QED BY <1>6 DEF EarnedInv

\* A command leaves its verdict in the spool, or replays one the run has.
LEMMA CommandKeeps ==
  ASSUME IInv, EarnedInv, NEW r \in Runs, RunsOrReplays(r) \/ CheckPasses(r)
  PROVE  EarnedInv'
<1>t. TypeOK BY DEF IInv
<1>1. /\ pc[r] = "build" /\ at' = [at EXCEPT ![r] = @ + 1]
      /\ UNCHANGED <<storeVars, mainVars, have, lazy, calm, pc>>
  BY DEF RunsOrReplays, CheckPasses, Command
<1>2. PICK S : /\ spool' = [spool EXCEPT ![r] = @ \cup S]
               /\ calm /\ Key(r) \in Keys => Key(r) \in S \cup Cached(r)
  <2>1. CASE RunsOrReplays(r)
    <3>1. spool' = [spool EXCEPT ![r] = @ \cup {}] BY <2>1, <1>t DEF RunsOrReplays, TypeOK
    <3>2. Current(r) = Build => Key(r) \notin Keys BY BuildIsNoCheck DEF Key, Keys
    <3>3. calm /\ Key(r) \in Keys => Key(r) \in {} \cup Cached(r)
      BY <2>1, <3>2 DEF RunsOrReplays, EarnedInv, Backed
    <3>4. QED BY <3>1, <3>3
  <2>2. CASE CheckPasses(r)
    BY <2>2 DEF CheckPasses, Recorded
  <2>3. QED BY <2>1, <2>2
<1>3. /\ at'[r] = at[r] + 1 /\ at[r] \in Nat
      /\ spool'[r] = spool[r] \cup S
      /\ \A q \in Runs \ {r} : at'[q] = at[q] /\ spool'[q] = spool[q]
  BY <1>1, <1>2, <1>t DEF TypeOK
<1>4. Settled BY <1>1, <1>3 DEF Settled, AfterSave, storeVars, mainVars
<1>5. born[r] = 0 BY <1>1 DEF IInv, SavedOnce, AfterSave
<1>6. ASSUME NEW q \in Runs PROVE Backed(q)' /\ Trusts(q)'
  <2>1. Backed(q) /\ Trusts(q) BY DEF EarnedInv
  <2>2. Trusts(q)' BY <1>1, <1>4, <2>1, TrustKeeps DEF mainVars
  <2>6. Cached(q) \subseteq Cached(q)' BY <1>1, CachedGrows DEF storeVars
  <2>3. CASE q # r BY <1>1, <1>3, <2>1, <2>2, <2>3, <2>6 DEF Backed, storeVars, mainVars
  <2>4. CASE q = r
    <3>1. ASSUME calm, NEW n \in 1..(at[r] + 1), <<program[r][n], input[r]>> \in Keys
          PROVE  <<program[r][n], input[r]>> \in spool[r] \cup S \cup Cached(r)
      <4>1. CASE n = at[r] + 1 BY <1>2, <3>1, <4>1 DEF Key, Current
      <4>2. CASE n # at[r] + 1
        <5>1. n \in 1..at[r] BY <1>3, <4>2
        <5>2. QED BY <2>1, <2>4, <3>1, <5>1 DEF Backed
      <4>3. QED BY <4>1, <4>2
    <3>2. Backed(r)'
      BY <1>1, <1>3, <1>5, <2>1, <2>4, <2>6, <3>1 DEF Backed, BeforeBuild, storeVars, mainVars
    <3>3. QED BY <2>2, <2>4, <3>2
  <2>5. QED BY <2>3, <2>4
<1> QED BY <1>6 DEF EarnedInv

\* Post publishes the verdicts, and the manifest only once none is spooled.
LEMMA PublishKeeps ==
  ASSUME IInv, EarnedInv, NEW r \in Runs,
         \/ SaveManifest(r)
         \/ \E k \in Keys : SaveVerdict(r, k) \/ SaveVerdictFails(r, k)
  PROVE  EarnedInv'
<1>t. TypeOK BY DEF IInv
<1>1. /\ pc[r] = "publish" /\ UNCHANGED <<mainVars, have, lazy, at>>
      /\ verdicts \subseteq verdicts'
      /\ \A q \in Runs \ {r} : pc'[q] = pc[q] /\ spool'[q] = spool[q]
      /\ pc'[r] \in {"publish", "janitor"}
  BY <1>t DEF SaveManifest, SaveVerdict, SaveVerdictFails, Publishing, storeVars, TypeOK
<1>2. /\ calm' => calm
      /\ calm' => spool[r] \subseteq spool'[r] \cup Cached(r)'
  <2>1. CASE SaveManifest(r)
    BY <1>t, <2>1 DEF SaveManifest, Publishing, TypeOK
  <2>2. ASSUME NEW k \in Keys, SaveVerdict(r, k) PROVE calm' = calm /\ spool[r] \subseteq spool'[r] \cup Cached(r)'
    <3>1. calm' = calm /\ spool'[r] = spool[r] \ {k} /\ <<k, Ref[r]>> \in verdicts'
      BY <1>t, <2>2 DEF SaveVerdict, TypeOK
    <3>2. k \in Cached(r)' BY <3>1 DEF Cached
    <3>3. QED BY <3>1, <3>2
  <2>3. ASSUME NEW k \in Keys, SaveVerdictFails(r, k) PROVE ~calm'
    BY <2>3 DEF SaveVerdictFails
  <2>4. QED BY <2>1, <2>2, <2>3
<1>3. /\ \A q \in Runs \ {r} : born'[q] = born[q] /\ rows'[q] = rows[q]
      /\ manifests' \subseteq manifests \cup {r}
      /\ born'[r] # 0 => spool'[r] = {}
      /\ r \in manifests' => born'[r] # 0
  <2>1. CASE SaveManifest(r)
    BY <1>t, <2>1 DEF SaveManifest, Listable, TypeOK
  <2>2. CASE \E k \in Keys : SaveVerdict(r, k) \/ SaveVerdictFails(r, k)
    <3>1. r \notin manifests /\ born[r] = 0 BY <1>1 DEF IInv, SavedOnce, AfterSave
    <3>2. UNCHANGED <<manifests, born, rows>> BY <2>2 DEF SaveVerdict, SaveVerdictFails, storeVars
    <3>3. QED BY <3>1, <3>2
  <2>3. QED BY <2>1, <2>2
<1>4. Settled BY <1>1, <1>3 DEF Settled, AfterSave, mainVars
<1>5. ASSUME NEW q \in Runs PROVE Backed(q)' /\ Trusts(q)'
  <2>1. Backed(q) /\ Trusts(q) BY DEF EarnedInv
  <2>2. Trusts(q)' BY <1>1, <1>2, <1>4, <2>1, TrustKeeps DEF mainVars
  <2>5. Cached(q) \subseteq Cached(q)' BY <1>1, CachedGrows
  <2>3. Backed(q)' BY <1>1, <1>2, <1>3, <2>1, <2>5 DEF Backed, BeforeBuild, mainVars
  <2>4. QED BY <2>2, <2>3
<1> QED BY <1>5 DEF EarnedInv

LEMMA NextEarned == IInv /\ EarnedInv /\ [Next]_vars => EarnedInv'
<1> SUFFICES ASSUME IInv, EarnedInv, [Next]_vars PROVE EarnedInv'
  OBVIOUS
<1>1. CASE UNCHANGED vars
  <2>1. UNCHANGED <<program, input, pc, born, rows, manifests, verdicts, followed, earned, have, lazy, at, spool, calm>>
    BY <1>1 DEF vars, storeVars, mainVars, logVars
  <2>2. Settled BY <2>1 DEF Settled
  <2>3. ASSUME NEW q \in Runs PROVE Backed(q)' /\ Trusts(q)'
    <3>1. Cached(q) \subseteq Cached(q)' BY <2>1, CachedGrows
    <3>2. QED BY <2>1, <2>2, <3>1, TrustKeeps DEF EarnedInv, Backed
  <2>4. QED BY <2>3 DEF EarnedInv
<1>2. ASSUME NEW r \in Runs, MainNext(r) \/ BuildNext(r) \/ PostNext(r) \/ RunnerLost(r) PROVE EarnedInv'
  BY <1>2, QuietKeeps, HitKeeps, ResetKeeps, RestoreKeeps, CommandKeeps, PublishKeeps
     DEF MainNext, BuildNext, PostNext
<1>3. CASE EvictVerdict \/ EvictManifest
  BY <1>3, QuietKeeps DEF EarnedInv
<1> QED BY <1>1, <1>2, <1>3 DEF Next, Done

\* A run of the same program on the same checkout, after one that passed all
\* of it, is lazy unless a cache call or an entry failed it: post publishes
\* the verdicts before the manifest that predicts them.
THEOREM LazinessEarned == Spec => []EarnedIsLazy
<1>1. EarnedInv => EarnedIsLazy
  BY DEF EarnedInv, Trusts, EarnedIsLazy
<1> QED BY <1>1, Inductive, InitEarned, NextEarned, PTL DEF Spec
=============================================================================
