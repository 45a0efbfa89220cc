------------------------ MODULE BuildJourney_proofs ------------------------
(***************************************************************************)
(* For any history, any workflows of any number of runs and any number of  *)
(* failures.                                                               *)
(***************************************************************************)
EXTENDS BuildJourney, FiniteSetTheorems, SequenceTheorems, WellFoundedInduction, TLAPS

-----------------------------------------------------------------------------
(***************************************************************************)
(* The Actions cache: what CHOOSE finds in it.                             *)
(***************************************************************************)
LEMMA Least ==
  ASSUME NEW S \in SUBSET Nat, S # {}
  PROVE  \E m \in S : \A k \in S : m <= k
<1>1. PICK m \in S : \A k \in S : ~(<<k, m>> \in OpToRel(<, Nat))
  BY NatLessThanWellFounded, WFMin, Zenon
<1>2. \A k \in S : ~(k < m)
  BY <1>1 DEF OpToRel
<1> QED BY <1>2

LEMMA Newest ==
  ASSUME NEW S, S # {}, NEW b \in Nat, \A e \in S : e.id \in 1 .. b
  PROVE  \E e \in S : \A f \in S : f.id <= e.id
<1> DEFINE D == {b - e.id : e \in S}
<1>1. PICK m \in D : \A k \in D : m <= k
  <2>1. D \in SUBSET Nat /\ D # {}
    OBVIOUS
  <2> QED BY <2>1, Least
<1>2. PICK e \in S : m = b - e.id
  OBVIOUS
<1>3. \A f \in S : m <= b - f.id
  BY <1>1
<1>4. \A f \in S : f.id <= e.id
  BY <1>2, <1>3
<1> QED BY <1>4

\* Of the pairs asked for there is a first one.
LEMMA First ==
  ASSUME NEW A \in SUBSET (Nat \X Nat), A # {}
  PROVE  \E a \in A : \A b \in A : Before(a, b)
<1> DEFINE Ones == {a[1] : a \in A}
<1>1. PICK x \in Ones : \A k \in Ones : x <= k
  <2>1. Ones \in SUBSET Nat /\ Ones # {}
    OBVIOUS
  <2> QED BY <2>1, Least
<1> DEFINE Twos == {a[2] : a \in {c \in A : c[1] = x}}
<1>2. PICK y \in Twos : \A k \in Twos : y <= k
  <2>1. Twos \in SUBSET Nat /\ Twos # {}
    BY <1>1
  <2> HIDE DEF Twos
  <2> QED BY <2>1, Least
<1>3. PICK a \in A : a[1] = x /\ a[2] = y
  BY <1>2
<1>4. \A b \in A : x <= b[1]
  BY <1>1
<1>5. \A b \in A : b[1] = x => y <= b[2]
  BY <1>2
<1>6. ASSUME NEW b \in A PROVE Before(a, b)
  <2>1. a[1] \in Nat /\ b[1] \in Nat
    OBVIOUS
  <2> QED BY <1>3, <1>4, <1>5, <2>1 DEF Before
<1> QED BY <1>6

\* Keys are asked for in a sequence.
IsSeq(s) == \E S : s \in Seq(S)

LEMMA Tuples ==
  /\ IsSeq(<<>>)
  /\ \A a : IsSeq(<<a>>)
  /\ \A a, b : IsSeq(<<a, b>>)
<1>1. <<>> \in Seq({})
  OBVIOUS
<1>2. \A a : <<a>> \in Seq({a})
  OBVIOUS
<1>3. \A a, b : <<a, b>> \in Seq({a, b})
  OBVIOUS
<1> QED BY <1>1, <1>2, <1>3 DEF IsSeq

LEMMA Concats ==
  ASSUME NEW s, NEW t, IsSeq(s), IsSeq(t)
  PROVE  IsSeq(s \o t)
<1>1. PICK S, T : s \in Seq(S) /\ t \in Seq(T)
  BY DEF IsSeq
<1>2. s \in Seq(S \cup T) /\ t \in Seq(S \cup T)
  BY <1>1, SeqMonotonic
<1>3. s \o t \in Seq(S \cup T)
  BY <1>2, ConcatProperties
<1> QED BY <1>3 DEF IsSeq

\* What a restore brings is an entry of the store with these paths, visible to the run.
Found(found, ref, paths) ==
  \/ found = {}
  \/ \E e \in store : /\ found = {e} /\ e.ref \in ToSet(ScopesOf(ref)) /\ e.paths = paths
                       /\ KeyOf(found) = e.key /\ Body(found) = e.body

LEMMA Restored ==
  ASSUME \A e \in store : e.id \in 1 .. Cardinality(store), IsFiniteSet(store),
         NEW ref, NEW paths, NEW keys, IsSeq(keys)
  PROVE  Found(restoreCache(ref, paths, keys), ref, paths)
<1> DEFINE asked == {a \in (DOMAIN ScopesOf(ref)) \X (DOMAIN keys) :
                       Matches(ScopesOf(ref)[a[1]], paths, keys[a[2]]) # {}}
           hits(a) == Matches(ScopesOf(ref)[a[1]], paths, keys[a[2]])
           first == CHOOSE a \in asked : \A b \in asked : Before(a, b)
           newest == CHOOSE e \in hits(first) : \A f \in hits(first) : f.id <= e.id
<1>1. CASE asked = {}
  BY <1>1 DEF restoreCache, Found
<1>2. CASE asked # {}
  <2>1. DOMAIN ScopesOf(ref) \in SUBSET Nat /\ DOMAIN keys \in SUBSET Nat
    <3>1. PICK S : keys \in Seq(S)
      BY DEF IsSeq
    <3>2. DOMAIN keys = 1 .. Len(keys)
      BY <3>1, LenProperties
    <3> QED BY <3>2 DEF ScopesOf
  <2>2. first \in asked
    <3>1. asked \in SUBSET (Nat \X Nat)
      BY <2>1
    <3>2. \E a \in asked : \A b \in asked : Before(a, b)
      <4> HIDE DEF asked
      <4> QED BY <3>1, <1>2, First
    <3> HIDE DEF asked
    <3> QED BY <3>2
  <2>3. hits(first) # {}
    BY <2>2
  <2>4. \A e \in hits(first) : e \in store /\ e.paths = paths /\ e.ref \in ToSet(ScopesOf(ref))
    <3>1. first[1] \in DOMAIN ScopesOf(ref)
      BY <2>2
    <3>2. ScopesOf(ref)[first[1]] \in ToSet(ScopesOf(ref))
      BY <3>1 DEF ToSet
    <3> HIDE DEF first
    <3> QED BY <3>2 DEF Matches
  <2>5. newest \in hits(first)
    <3> HIDE DEF hits, first
    <3>1. Cardinality(store) \in Nat
      BY FS_CardinalityType
    <3>2. \E e \in hits(first) : \A f \in hits(first) : f.id <= e.id
      BY <2>3, <2>4, <3>1, Newest
    <3> QED BY <3>2
  <2>6. restoreCache(ref, paths, keys) = {newest}
    BY <1>2 DEF restoreCache
  <2> HIDE DEF newest, first, asked, hits
  <2>7. newest \in store /\ newest.paths = paths /\ newest.ref \in ToSet(ScopesOf(ref))
    BY <2>4, <2>5
  <2> QED BY <2>6, <2>7 DEF Found, KeyOf, Body
<1> QED BY <1>1, <1>2

-----------------------------------------------------------------------------
(***************************************************************************)
(* The steps of a job.                                                     *)
(***************************************************************************)
LEMMA AfterIs ==
  ASSUME Later(job) # {}
  PROVE  \E i \in Later(job) : After(job) = Steps[i] /\ \A k \in Later(job) : i <= k
<1>1. Later(job) \in SUBSET Nat
  BY DEF Later, Steps
<1>2. \E i \in Later(job) : \A k \in Later(job) : i <= k
  BY <1>1, Least
<1> QED BY <1>2 DEF After

\* Only the steps named in Skipped are ever skipped.
Optional == {"restoreTools", "crossPrepare", "cleanup", "savePrepared", "saveTools", "saveLint"}

LEMMA StepsAre ==
  /\ DOMAIN Steps = 1 .. 15
  /\ Steps[1] = "restoreTarget" /\ Steps[2] = "restoreBuild" /\ Steps[3] = "restoreTools"
  /\ Steps[4] = "prepare" /\ Steps[5] = "extractRegistry" /\ Steps[6] = "crossPrepare"
  /\ Steps[7] = "work" /\ Steps[8] = "cleanup" /\ Steps[9] = "saveBuild"
  /\ Steps[10] = "saveTarget" /\ Steps[11] = "saveRegistry" /\ Steps[12] = "savePrepared"
  /\ Steps[13] = "saveTools" /\ Steps[14] = "saveLint" /\ Steps[15] = "end"
BY DEF Steps

LEMMA AfterLeast ==
  ASSUME NEW p \in 1 .. 14, Steps[p] = pc, NEW q \in 1 .. 15, p < q, Steps[q] \notin job.skipped
  PROVE  \E i \in 1 .. 15 :
           /\ p < i /\ i <= q /\ After(job) = Steps[i] /\ Steps[i] \notin job.skipped
           /\ \A k \in 1 .. 15 : p < k /\ k < i => Steps[k] \in job.skipped
<1>1. \A k \in 1 .. 15 : Steps[k] = pc => k = p
  BY StepsAre
<1>2. Later(job) = {i \in 1 .. 15 : Steps[i] \notin job.skipped /\ p < i}
  BY <1>1, StepsAre DEF Later
<1>3. PICK i \in Later(job) : After(job) = Steps[i] /\ \A k \in Later(job) : i <= k
  BY <1>2, AfterIs
<1> QED BY <1>2, <1>3

LEMMA AfterStep ==
  ASSUME job.skipped \subseteq Optional
  PROVE  /\ pc = "restoreBuild" =>
              After(job) \in {"restoreTools", "prepare"} \ job.skipped
         /\ pc = "restoreTools" => After(job) = "prepare"
         /\ pc = "prepare" => After(job) = "extractRegistry"
         /\ pc = "extractRegistry" => After(job) \in {"crossPrepare", "work"} \ job.skipped
         /\ pc = "crossPrepare" => After(job) = "work"
         /\ pc = "work" => After(job) \in {"cleanup", "saveBuild"} \ job.skipped
         /\ pc = "saveRegistry" =>
              After(job) \in {"savePrepared", "saveTools", "saveLint", "end"} \ job.skipped
         /\ pc = "savePrepared" => After(job) \in {"saveTools", "saveLint", "end"} \ job.skipped
         /\ pc = "saveTools" => After(job) \in {"saveLint", "end"} \ job.skipped
         /\ pc = "saveLint" => After(job) = "end"
         /\ pc = "saveRegistry" /\ "savePrepared" \notin job.skipped => After(job) = "savePrepared"
         /\ pc \in {"saveRegistry", "savePrepared", "saveTools"} /\ After(job) = "end"
              => "saveLint" \in job.skipped
<1>1. CASE pc = "restoreBuild"
  BY <1>1, StepsAre, AfterLeast DEF Optional
<1>2. CASE pc = "restoreTools"
  BY <1>2, StepsAre, AfterLeast DEF Optional
<1>3. CASE pc = "prepare"
  BY <1>3, StepsAre, AfterLeast DEF Optional
<1>4. CASE pc = "extractRegistry"
  BY <1>4, StepsAre, AfterLeast DEF Optional
<1>5. CASE pc = "crossPrepare"
  BY <1>5, StepsAre, AfterLeast DEF Optional
<1>6. CASE pc = "work"
  BY <1>6, StepsAre, AfterLeast DEF Optional
<1>7. CASE pc = "saveRegistry"
  BY <1>7, StepsAre, AfterLeast DEF Optional
<1>8. CASE pc = "savePrepared"
  BY <1>8, StepsAre, AfterLeast DEF Optional
<1>9. CASE pc = "saveTools"
  BY <1>9, StepsAre, AfterLeast DEF Optional
<1>10. CASE pc = "saveLint"
  BY <1>10, StepsAre, AfterLeast DEF Optional
<1> QED BY <1>1, <1>2, <1>3, <1>4, <1>5, <1>6, <1>7, <1>8, <1>9, <1>10

-----------------------------------------------------------------------------
(***************************************************************************)
(* Types.                                                                  *)
(***************************************************************************)
JobFields ==
  {"in", "host", "save", "result", "sha", "ref", "mtime", "key", "writer", "donor", "matched",
   "hit", "replayed", "targetMatched", "targetHit", "registryMatched", "registryHit",
   "toolsHit", "lintHit", "prepareHit", "prepareMatched", "complete", "linted", "skipped",
   "failed", "oversize", "compiled", "misses", "uploaded"}

DiskFields == {"units", "side", "tree", "bundle", "locks", "tools", "lint", "prepared"}

AtMostOne(s) == s = <<>> \/ s = <<s[1]>>

Contents(b) ==
  /\ b.units \subseteq Range(Content) /\ b.locks \subseteq Range(Lock) /\ b.bundle \in BOOLEAN
  /\ AtMostOne(b.tree) /\ AtMostOne(b.side) /\ AtMostOne(b.lint)

StoreTyped ==
  /\ IsFiniteSet(store)
  /\ \A e \in store : /\ e.id \in 1 .. Cardinality(store) /\ e.ref \in {"main", "pull"}
                      /\ Contents(e.body)

DiskTyped == DiskFields \subseteq DOMAIN disk /\ Contents(disk) /\ disk.tools \in BOOLEAN

\* The job is one of the workflow's, resolved for one of its checkouts.
Planned(j) ==
  \E plan \in workflow : \E checkout \in plan.for :
    /\ j.in = Effective(plan.in) /\ j.host = plan.host /\ j.save = plan.save
    /\ j.sha = checkout.sha /\ j.ref = checkout.ref
    /\ j.result = resolveSetup(plan.in, plan.host, Digest, Lock[checkout.sha], Manifest,
                               checkout.sha, checkout.parent)
    /\ j.skipped = Skipped(plan.in, plan.host, j.result)

JobTyped(j) == JobFields \subseteq DOMAIN j /\ Planned(j)

RunsTyped == IsSeq(runs)

TypeInv ==
  /\ workflow \in Workflows
  /\ n \in 1 .. Runs + 1 /\ faults \in 0 .. MaxFaults
  /\ pc \in {"idle"} \cup Stages
  /\ pc = "idle" => job = NoJob
  /\ pc # "idle" => n <= Runs /\ JobTyped(job)
  /\ RunsTyped /\ Len(runs) = IF pc = "idle" THEN n - 1 ELSE n
  /\ StoreTyped /\ DiskTyped

LEMMA StagesAre ==
  Stages = {"restoreTarget", "restoreBuild", "restoreTools", "prepare", "extractRegistry",
            "crossPrepare", "work", "cleanup", "saveBuild", "saveTarget", "saveRegistry",
            "savePrepared", "saveTools", "saveLint", "end"}
<1>1. \A x \in Stages : \E i \in 1 .. 15 : x = Steps[i]
  BY StepsAre DEF Stages, Range
<1>2. \A i \in 1 .. 15 : Steps[i] \in Stages
  BY StepsAre DEF Stages, Range
<1>3. ASSUME NEW x \in Stages
      PROVE  x \in {"restoreTarget", "restoreBuild", "restoreTools", "prepare", "extractRegistry",
                    "crossPrepare", "work", "cleanup", "saveBuild", "saveTarget", "saveRegistry",
                    "savePrepared", "saveTools", "saveLint", "end"}
  BY <1>1, StepsAre
<1> QED BY <1>2, <1>3, StepsAre

LEMMA RunsGrow ==
  ASSUME RunsTyped, NEW r
  PROVE  /\ IsSeq(Append(runs, r))
         /\ Len(Append(runs, r)) = Len(runs) + 1 /\ Len(runs) \in Nat
         /\ \A i \in 1 .. Len(runs) : Append(runs, r)[i] = runs[i]
         /\ Append(runs, r)[Len(runs) + 1] = r
<1>1. PICK S : runs \in Seq(S)
  BY DEF RunsTyped, IsSeq
<1>2. runs \in Seq(S \cup {r})
  BY <1>1, SeqMonotonic
<1> QED BY <1>2, AppendProperties, LenProperties DEF IsSeq

LEMMA RunsChange ==
  ASSUME RunsTyped, NEW i \in 1 .. Len(runs), NEW r
  PROVE  /\ IsSeq([runs EXCEPT ![i] = r])
         /\ Len([runs EXCEPT ![i] = r]) = Len(runs)
         /\ \A k \in 1 .. Len(runs) : [runs EXCEPT ![i] = r][k] = IF k = i THEN r ELSE runs[k]
<1>1. PICK S : runs \in Seq(S)
  BY DEF RunsTyped, IsSeq
<1>2. runs \in Seq(S \cup {r})
  BY <1>1, SeqMonotonic
<1> QED BY <1>2, ExceptSeq DEF IsSeq

LEMMA TypeInvImplies == TypeInv => TypeOK
<1> SUFFICES ASSUME TypeInv PROVE TypeOK
  OBVIOUS
<1>1. (pc = "idle") = (job = NoJob)
  <2>1. CASE pc = "idle"
    BY <2>1 DEF TypeInv
  <2>2. CASE pc # "idle"
    <3>1. "sha" \in DOMAIN job
      BY <2>2 DEF TypeInv, JobTyped, JobFields
    <3>2. "sha" \notin DOMAIN NoJob
      BY DEF NoJob
    <3>3. job # NoJob
      BY <3>1, <3>2
    <3> QED BY <2>2, <3>3
  <2> QED BY <2>1, <2>2
<1>2. Len(disk.tree) <= 1 /\ Len(disk.side) <= 1 /\ Len(disk.lint) <= 1
  <2>1. \A s : AtMostOne(s) => Len(s) <= 1
    BY DEF AtMostOne
  <2> QED BY <2>1 DEF TypeInv, DiskTyped, Contents
<1> QED BY <1>1, <1>2 DEF TypeInv, TypeOK, StoreTyped, DiskTyped, Contents

\* A step of a job changes these fields of what main decided and no other.
Updates(F) ==
  JobFields \subseteq DOMAIN job' /\ \A f \in JobFields \ F : job'[f] = job[f]

\* What no step changes.
Fixed == {"in", "host", "save", "result", "sha", "ref", "skipped"}

Decided(j) == <<j.in, j.host, j.save, j.result, j.sha, j.ref, j.skipped>>

LEMMA FixedKept ==
  ASSUME NEW F, Updates(F), F \cap Fixed = {}
  PROVE  Decided(job') = Decided(job)
<1>1. \A f \in Fixed : job'[f] = job[f]
  BY DEF Updates, Fixed, JobFields
<1> QED BY <1>1 DEF Fixed, Decided

LEMMA StoreGrows ==
  ASSUME StoreTyped, NEW ref \in {"main", "pull"}, NEW paths, NEW key, NEW body, Contents(body),
         Reservable(ref, paths, key), store' = store \cup {Entry(ref, paths, key, body)}
  PROVE  StoreTyped'
<1> DEFINE e == Entry(ref, paths, key, body)
<1>1. e.ref = ref /\ e.paths = paths /\ e.key = key /\ e.body = body /\ e.id = NextId
  BY DEF Entry
<1>2. e \notin store
  BY <1>1 DEF Reservable
<1> HIDE DEF e
<1>3. store' = store \cup {e}
  BY DEF e
<1>4. Cardinality(store) \in Nat /\ Cardinality(store') = Cardinality(store) + 1 /\ IsFiniteSet(store')
  BY <1>2, <1>3, FS_AddElement, FS_CardinalityType DEF StoreTyped
<1>5. NextId \in 1 .. Cardinality(store')
  BY <1>4 DEF NextId
<1>6. ASSUME NEW x \in store'
      PROVE  /\ x.id \in 1 .. Cardinality(store') /\ x.ref \in {"main", "pull"}
             /\ Contents(x.body)
  <2>1. CASE x = e
    BY <1>1, <1>5, <2>1
  <2>2. CASE x \in store
    BY <1>4, <2>2 DEF StoreTyped
  <2> QED BY <1>3, <1>6, <2>1, <2>2
<1> QED BY <1>4, <1>6 DEF StoreTyped, Contents

LEMMA PlannedIs ==
  ASSUME workflow \in Workflows, NEW j, Planned(j)
  PROVE  /\ j.sha \in Commits /\ j.ref \in {"main", "pull"} /\ j.skipped \subseteq Optional
<1>1. PICK plan \in workflow : \E checkout \in plan.for :
        /\ j.sha = checkout.sha /\ j.ref = checkout.ref
        /\ j.skipped = Skipped(plan.in, plan.host, j.result)
  BY DEF Planned
<1>2. plan.for \subseteq [sha : Commits, ref : {"main", "pull"}, head : Commits,
                          parent : Commits \cup {NoSha}]
  BY JourneyAssumption
<1>3. j.skipped \subseteq Optional
  BY <1>1 DEF Skipped, Optional
<1> QED BY <1>1, <1>2, <1>3

LEMMA TargetIs ==
  ASSUME NEW raw, NEW host, NEW lock, NEW sha, NEW parent
  PROVE  \E on, mode :
           resolveSetup(raw, host, Digest, lock, Manifest, sha, parent).target
             = TargetCache(Effective(raw), on, mode, Digest, lock, Manifest, sha, parent)
<1> DEFINE in   == Effective(raw)
           mode == buildCacheMode(in, BuildCacheEnabled(in), TargetCacheRequested(in))
           on   == TargetCacheEnabled(BuildCacheEnabled(in), TargetCacheRequested(in), mode, lock)
<1>1. resolveSetup(raw, host, Digest, lock, Manifest, sha, parent).target
        = TargetCache(in, on, mode, Digest, lock, Manifest, sha, parent)
  BY DEF resolveSetup
<1> QED BY <1>1

LEMMA PlannedKeys ==
  ASSUME NEW j, Planned(j)
  PROVE  /\ IsSeq(<<j.result.target.key>> \o j.result.target.prefixes)
         /\ IsSeq(<<j.result.prepare.key>> \o j.result.prepare.prefixes)
<1>1. PICK raw, host, lock, sha, parent :
        j.result = resolveSetup(raw, host, Digest, lock, Manifest, sha, parent)
  BY DEF Planned
<1>2. IsSeq(j.result.target.prefixes)
  <2>1. \A a, b, c, d : IsSeq(TargetRestoreKeys(a, b, c, d))
    BY Tuples, Concats DEF TargetRestoreKeys
  <2>2. \A in, on, mode : IsSeq(TargetCache(in, on, mode, Digest, lock, Manifest, sha, parent).prefixes)
    BY <2>1, Tuples DEF TargetCache
  <2>3. PICK in, on, mode : j.result.target = TargetCache(in, on, mode, Digest, lock, Manifest, sha, parent)
    BY <1>1, TargetIs
  <2> QED BY <2>2, <2>3
<1>3. IsSeq(j.result.prepare.prefixes)
  <2>1. \A in, v : IsSeq(planBlessedPrepareCache(in, v).prefixes)
    BY Tuples DEF planBlessedPrepareCache
  <2> QED BY <1>1, <2>1 DEF resolveSetup
<1> QED BY <1>2, <1>3, Tuples, Concats

DiskUpdates(F) ==
  DiskFields \subseteq DOMAIN disk' /\ \A f \in DiskFields \ F : disk'[f] = disk[f]

LEMMA Sure ==
  ASSUME TypeInv, pc # "idle"
  PROVE  /\ JobFields \subseteq DOMAIN job /\ DiskFields \subseteq DOMAIN disk
         /\ Planned(job)
         /\ job.sha \in Commits /\ job.ref \in {"main", "pull"} /\ job.skipped \subseteq Optional
         /\ \A paths, keys : IsSeq(keys) => Found(restoreCache(job.ref, paths, keys), job.ref, paths)
         /\ \A paths : Found({}, job.ref, paths)
<1>1. JobTyped(job) /\ workflow \in Workflows
  BY DEF TypeInv
<1>2. Planned(job) /\ JobFields \subseteq DOMAIN job
  BY <1>1 DEF JobTyped
<1>3. job.sha \in Commits /\ job.ref \in {"main", "pull"} /\ job.skipped \subseteq Optional
  BY <1>1, <1>2, PlannedIs
<1>4. \A paths, keys : IsSeq(keys) => Found(restoreCache(job.ref, paths, keys), job.ref, paths)
  BY Restored DEF TypeInv, StoreTyped
<1>5. \A paths : Found({}, job.ref, paths)
  BY DEF Found
<1> QED BY <1>2, <1>3, <1>4, <1>5 DEF TypeInv, DiskTyped

LEMMA RestoreTargetIs ==
  ASSUME TypeInv, RestoreTarget
  PROVE  /\ Updates({"targetMatched", "targetHit"}) /\ DiskUpdates({"tree", "bundle"})
         /\ \E found : /\ Found(found, job.ref, job.result.target.paths)
                       /\ disk'.tree = IF found = {} THEN disk.tree ELSE Body(found).tree
                       /\ disk'.bundle = (found # {} /\ Body(found).bundle)
<1> DEFINE plan  == job.result.target
           found(down) == IF ~plan.on \/ down THEN {}
                          ELSE restoreCache(job.ref, plan.paths, <<plan.key>> \o plan.prefixes)
           hit(down) == plan.on /\ KeyOf(found(down)) = plan.key
           held(down) == found(down) # {} /\ Body(found(down)).bundle
           tree(down) == IF found(down) = {} THEN disk.tree ELSE Body(found(down)).tree
<1>1. PICK down \in BOOLEAN :
        /\ job' = [job EXCEPT !.targetMatched = KeyOf(found(down)), !.targetHit = hit(down)]
        /\ disk' = [disk EXCEPT !.tree = tree(down), !.bundle = held(down)]
  BY DEF RestoreTarget
<1>2. Found(found(down), job.ref, plan.paths)
  BY Sure, PlannedKeys DEF RestoreTarget
<1>3. JobFields \subseteq DOMAIN job /\ DiskFields \subseteq DOMAIN disk
  BY Sure DEF RestoreTarget
<1> HIDE DEF plan, found, hit, held
<1>4. Updates({"targetMatched", "targetHit"})
  BY <1>1, <1>3 DEF Updates
<1>5. disk'.tree = tree(down) /\ disk'.bundle = held(down)
  BY <1>1, <1>3 DEF DiskFields
<1>6. DiskUpdates({"tree", "bundle"})
  BY <1>1, <1>3 DEF DiskUpdates
<1> QED BY <1>2, <1>4, <1>5, <1>6 DEF plan, held

LEMMA PlanPrefixes == \A j, down : IsSeq(BuildPlan(j, down).prefixes)
BY Tuples DEF BuildPlan, planAncestorRestore, NoPlan

LEMMA BuildArchiveFound ==
  ASSUME TypeInv, pc # "idle", NEW plan, IsSeq(plan.prefixes)
  PROVE  \A down \in BOOLEAN : Found(BuildArchive(job, plan, down), job.ref, {"archive"})
<1> DEFINE keys == IF plan.donor.found THEN <<plan.donor.key>>
                   ELSE <<IF plan.prefixes # <<>> THEN plan.writeKey ELSE LegacyKey(job)>>
                          \o plan.prefixes \o BuildRestoreKeys(job)
           fallback == <<LegacyKey(job)>> \o BuildRestoreKeys(job)
<1>1. IsSeq(BuildRestoreKeys(job))
  BY Tuples DEF BuildRestoreKeys
<1>2. IsSeq(keys) /\ IsSeq(fallback)
  BY <1>1, Tuples, Concats
<1> HIDE DEF keys, fallback
<1>3. \A down \in BOOLEAN : BuildArchive(job, plan, down) \in
        {{}, restoreCache(job.ref, {"archive"}, keys), restoreCache(job.ref, {"archive"}, fallback)}
  BY DEF BuildArchive, keys, fallback
<1> QED BY <1>2, <1>3, Sure

\* What the restore of the build cache comes to.
Restores(plan, found, result) ==
  /\ Found(found, job.ref, {"archive"})
  /\ found = {} => result = Nothing
  /\ found # {} => result.units \subseteq Body(found).units
  /\ found # {} /\ result.whole => result.units = Body(found).units /\ result.side = Body(found).side
  /\ ~result.whole => result.side = <<>>
  /\ RestoreFrom(plan, found, result)

LEMMA RestoreBuildIs ==
  ASSUME TypeInv, RestoreBuild
  PROVE  \/ ~MainBuildCacheEnabled(job.in) /\ pc' = After(job) /\ UNCHANGED <<job, disk, faults>>
         \/ /\ pc' = "saveBuild" /\ Updates({"failed"}) /\ job'.failed = TRUE
            /\ UNCHANGED <<disk, faults>>
         \/ /\ pc' = After(job) /\ MainBuildCacheEnabled(job.in)
            /\ \E down \in BOOLEAN : \E found, result : Restores(BuildPlan(job, down), found, result)
<1>1. CASE ~MainBuildCacheEnabled(job.in)
  BY <1>1 DEF RestoreBuild
<1>2. CASE MainBuildCacheEnabled(job.in) /\ InvalidKey(job.in)
  <2>1. pc' = "saveBuild" /\ job' = [job EXCEPT !.failed = TRUE] /\ UNCHANGED <<disk, faults>>
    BY <1>2 DEF RestoreBuild
  <2>2. JobFields \subseteq DOMAIN job
    BY Sure DEF RestoreBuild
  <2> QED BY <2>1, <2>2 DEF Updates, JobFields
<1>3. CASE MainBuildCacheEnabled(job.in) /\ ~InvalidKey(job.in)
  <2>1. PICK trouble \in {"none", "api", "cache", "archive"} :
          /\ pc' = After(job)
          /\ \E plan \in {BuildPlan(job, trouble = "api")} :
             \E found \in {BuildArchive(job, plan, trouble = "cache")} :
               \E result \in IF found = {} THEN {Nothing}
                             ELSE IF trouble = "archive" THEN Broken(found) ELSE Unpacked(found, job) :
                 RestoreFrom(plan, found, result)
    BY <1>3 DEF RestoreBuild
  <2> DEFINE down  == trouble = "api"
             plan  == BuildPlan(job, down)
             found == BuildArchive(job, plan, trouble = "cache")
  <2>2. Found(found, job.ref, {"archive"})
    BY Sure, PlanPrefixes, BuildArchiveFound DEF RestoreBuild
  <2>3. PICK result \in IF found = {} THEN {Nothing}
                        ELSE IF trouble = "archive" THEN Broken(found) ELSE Unpacked(found, job) :
          RestoreFrom(plan, found, result)
    BY <2>1
  <2>3a. down \in BOOLEAN
    OBVIOUS
  <2> HIDE DEF down
  <2> HIDE DEF plan, found
  <2>4. found = {} => result = Nothing
    BY <2>3
  <2>5. found # {} => result.units \subseteq Body(found).units
    BY <2>3 DEF Broken, Unpacked
  <2>6. found # {} /\ result.whole => result.units = Body(found).units /\ result.side = Body(found).side
    BY <2>3 DEF Broken, Unpacked
  <2>7. ~result.whole => result.side = <<>>
    BY <2>3 DEF Broken, Unpacked, Nothing
  <2>8. Restores(plan, found, result)
    BY <2>2, <2>3, <2>4, <2>5, <2>6, <2>7 DEF Restores
  <2> QED BY <1>3, <2>1, <2>3a, <2>8 DEF plan
<1> QED BY <1>1, <1>2, <1>3

LEMMA RestoreFromIs ==
  ASSUME JobFields \subseteq DOMAIN job, DiskFields \subseteq DOMAIN disk,
         NEW plan, NEW found, NEW result, RestoreFrom(plan, found, result)
  PROVE  /\ Updates({"key", "writer", "donor", "matched", "hit", "replayed", "mtime"})
         /\ DiskUpdates({"units", "side"})
         /\ disk'.units = result.units /\ disk'.side = result.side
         /\ job'.key = IF plan.threw THEN LegacyKey(job) ELSE plan.writeKey
         /\ job'.writer = ~plan.threw /\ job'.donor = plan.donor
         /\ job'.matched = MatchedKey(found, result)
         /\ job'.hit = (job'.matched # <<>> /\ job'.matched = job'.key)
         /\ \/ job'.replayed = 0 /\ job'.mtime = job.mtime
            \/ /\ job'.hit /\ Replayable(job, result.side)
               /\ job'.replayed = result.side[1].run /\ job'.mtime = result.side[1].mtime
<1> DEFINE key     == IF plan.threw THEN LegacyKey(job) ELSE plan.writeKey
           matched == MatchedKey(found, result)
           hit     == matched # <<>> /\ matched = key
           replay  == hit /\ Replayable(job, result.side)
           writer  == ~plan.threw
           replayed == IF replay THEN result.side[1].run ELSE 0
           mtime == IF replay THEN result.side[1].mtime ELSE job.mtime
<1>1. /\ job' = [job EXCEPT !.key = key, !.writer = writer, !.donor = plan.donor,
                            !.matched = matched, !.hit = hit,
                            !.replayed = replayed, !.mtime = mtime]
      /\ disk' = [disk EXCEPT !.units = result.units, !.side = result.side]
  BY DEF RestoreFrom
<1> HIDE DEF key, matched, hit, writer, replayed, mtime
<1>2. Updates({"key", "writer", "donor", "matched", "hit", "replayed", "mtime"})
  BY <1>1 DEF Updates
<1>3. DiskUpdates({"units", "side"}) /\ disk'.units = result.units /\ disk'.side = result.side
  BY <1>1 DEF DiskUpdates, DiskFields
<1>4. /\ job'.key = key /\ job'.writer = writer /\ job'.donor = plan.donor /\ job'.matched = matched
      /\ job'.hit = hit /\ job'.replayed = replayed /\ job'.mtime = mtime
  BY <1>1 DEF JobFields
<1> QED BY <1>2, <1>3, <1>4 DEF key, matched, hit, writer, replayed, mtime

LEMMA RestoreToolsIs ==
  ASSUME TypeInv, RestoreTools
  PROVE  /\ Updates({"registryMatched", "registryHit", "prepareMatched", "prepareHit", "toolsHit", "lintHit"})
         /\ DiskUpdates({"prepared", "tools", "lint"})
         /\ pc' = After(job)
         /\ job'.registryHit =>
              /\ RegistryDownload(job) # {} /\ KeyOf(RegistryDownload(job)) = job.result.registry.key
              /\ job'.registryMatched = job.result.registry.key
         /\ \E prepare, tools, lint :
              LET plan   == job.result.prepare
                  usable == prepare # {} /\ ArchivesReady(plan, Body(prepare).prepared)
              IN  /\ Found(prepare, job.ref, {"prepare"}) /\ (prepare # {} => plan.on)
                  /\ Found(tools, job.ref, {"tools"}) /\ Found(lint, job.ref, {"lint"})
                  /\ job'.prepareHit = (usable /\ KeyOf(prepare) = plan.key)
                  /\ job'.toolsHit = (KeyOf(tools) = job.result.tools.key)
                  /\ job'.lintHit = (KeyOf(lint) = job.result.lint.key)
                  /\ disk'.prepared = IF prepare = {} THEN {} ELSE Body(prepare).prepared
                  /\ disk'.tools = (tools # {})
                  /\ disk'.lint = IF lint = {} THEN <<>> ELSE Body(lint).lint
<1> DEFINE plan == job.result.prepare
           registry(down) == IF down = "registry" THEN {} ELSE RegistryDownload(job)
           registryMatched(down) == KeyOf(registry(down))
           registryHit(down) == registry(down) # {} /\ KeyOf(registry(down)) = job.result.registry.key
           prepare(down) == RestoreLayer("prepare", plan.on, down, <<plan.key>> \o plan.prefixes)
           tools(down) == RestoreLayer("tools", job.result.tools.on, down, <<job.result.tools.key>>)
           lint(down) == RestoreLayer("lint", job.result.lint.on, down,
                                      <<job.result.lint.key, job.result.lint.prefix>>)
           usable(down) == prepare(down) # {} /\ ArchivesReady(plan, Body(prepare(down)).prepared)
           prepareHit(down) == usable(down) /\ KeyOf(prepare(down)) = plan.key
           toolsHit(down) == KeyOf(tools(down)) = job.result.tools.key
           lintHit(down) == KeyOf(lint(down)) = job.result.lint.key
           prepared(down) == IF prepare(down) = {} THEN {} ELSE Body(prepare(down)).prepared
           held(down) == tools(down) # {}
           linted(down) == IF lint(down) = {} THEN <<>> ELSE Body(lint(down)).lint
<1>1. PICK down \in {"none", "registry", "prepare", "tools", "lint"} :
        /\ job' = [job EXCEPT !.registryMatched = registryMatched(down),
                              !.registryHit = registryHit(down),
                              !.prepareMatched = usable(down), !.prepareHit = prepareHit(down),
                              !.toolsHit = toolsHit(down), !.lintHit = lintHit(down)]
        /\ disk' = [disk EXCEPT !.prepared = prepared(down), !.tools = held(down),
                                !.lint = linted(down)]
  BY DEF RestoreTools
<1>2. /\ Found(prepare(down), job.ref, {"prepare"}) /\ (prepare(down) # {} => plan.on)
      /\ Found(tools(down), job.ref, {"tools"}) /\ Found(lint(down), job.ref, {"lint"})
  <2>1. /\ \A paths, keys : IsSeq(keys) => Found(restoreCache(job.ref, paths, keys), job.ref, paths)
        /\ \A paths : Found({}, job.ref, paths)
    BY Sure DEF RestoreTools
  <2>2. IsSeq(<<plan.key>> \o plan.prefixes)
    BY Sure, PlannedKeys DEF RestoreTools
  <2>3. /\ IsSeq(<<job.result.tools.key>>) /\ IsSeq(<<job.result.lint.key, job.result.lint.prefix>>)
    BY Tuples
  <2> HIDE DEF plan
  <2>4. Found(prepare(down), job.ref, {"prepare"}) /\ (prepare(down) # {} => plan.on)
    BY <2>1, <2>2 DEF RestoreLayer
  <2>5. Found(tools(down), job.ref, {"tools"}) /\ Found(lint(down), job.ref, {"lint"})
    BY <2>1, <2>3 DEF RestoreLayer
  <2> QED BY <2>4, <2>5
<1>3. JobFields \subseteq DOMAIN job /\ DiskFields \subseteq DOMAIN disk
  BY Sure DEF RestoreTools
<1>4. pc' = After(job)
  BY DEF RestoreTools
<1>4a. registryHit(down) =>
          /\ RegistryDownload(job) # {} /\ KeyOf(RegistryDownload(job)) = job.result.registry.key
          /\ registryMatched(down) = job.result.registry.key
  OBVIOUS
<1> HIDE DEF plan, registry, prepare, tools, lint, usable, registryMatched, registryHit, prepareHit,
             toolsHit, lintHit, prepared, held, linted
<1>5. Updates({"registryMatched", "registryHit", "prepareMatched", "prepareHit", "toolsHit", "lintHit"})
  BY <1>1, <1>3 DEF Updates
<1>6. DiskUpdates({"prepared", "tools", "lint"})
  BY <1>1, <1>3 DEF DiskUpdates
<1>7. /\ job'.prepareHit = prepareHit(down) /\ job'.toolsHit = toolsHit(down)
      /\ job'.lintHit = lintHit(down)
  BY <1>1, <1>3 DEF JobFields
<1>8. /\ disk'.prepared = prepared(down) /\ disk'.tools = held(down) /\ disk'.lint = linted(down)
  BY <1>1, <1>3 DEF DiskFields
<1>9. job'.registryHit = registryHit(down) /\ job'.registryMatched = registryMatched(down)
  BY <1>1, <1>3 DEF JobFields
<1>10. /\ prepareHit(down) = ((prepare(down) # {} /\ ArchivesReady(job.result.prepare, Body(prepare(down)).prepared))
                               /\ KeyOf(prepare(down)) = job.result.prepare.key)
       /\ toolsHit(down) = (KeyOf(tools(down)) = job.result.tools.key)
       /\ lintHit(down) = (KeyOf(lint(down)) = job.result.lint.key)
       /\ prepared(down) = IF prepare(down) = {} THEN {} ELSE Body(prepare(down)).prepared
       /\ held(down) = (tools(down) # {})
       /\ linted(down) = IF lint(down) = {} THEN <<>> ELSE Body(lint(down)).lint
       /\ plan = job.result.prepare
  BY DEF plan, usable, prepareHit, toolsHit, lintHit, prepared, held, linted
<1>11. \E p, t, l :
         /\ Found(p, job.ref, {"prepare"}) /\ (p # {} => job.result.prepare.on)
         /\ Found(t, job.ref, {"tools"}) /\ Found(l, job.ref, {"lint"})
         /\ job'.prepareHit = ((p # {} /\ ArchivesReady(job.result.prepare, Body(p).prepared))
                                /\ KeyOf(p) = job.result.prepare.key)
         /\ job'.toolsHit = (KeyOf(t) = job.result.tools.key)
         /\ job'.lintHit = (KeyOf(l) = job.result.lint.key)
         /\ disk'.prepared = IF p = {} THEN {} ELSE Body(p).prepared
         /\ disk'.tools = (t # {})
         /\ disk'.lint = IF l = {} THEN <<>> ELSE Body(l).lint
  <2> WITNESS prepare(down), tools(down), lint(down)
  <2> QED BY <1>2, <1>7, <1>8, <1>10
<1>12. job'.registryHit =>
         /\ RegistryDownload(job) # {} /\ KeyOf(RegistryDownload(job)) = job.result.registry.key
         /\ job'.registryMatched = job.result.registry.key
  BY <1>4a, <1>9
<1> QED BY <1>4, <1>5, <1>6, <1>11, <1>12

LEMMA PrepareIs ==
  ASSUME TypeInv, Prepare
  PROVE  /\ Updates({"failed"}) /\ DiskUpdates({"tools"})
         /\ disk.tools => disk'.tools
         /\ disk'.tools \in BOOLEAN
         /\ \/ pc' = "saveBuild" /\ job'.failed = TRUE
            \/ pc' = After(job) /\ job'.failed = FALSE
<1> DEFINE stops(failure) == failure \in {"setup", "dylint"} \/ SeedStops(job, failure = "seed")
           held(failure) == disk.tools \/ (DylintMode(job.in) /\ ~stops(failure))
<1>1. PICK failure \in {"none", "setup", "seed", "dylint"} :
        /\ job' = [job EXCEPT !.failed = stops(failure)]
        /\ disk' = [disk EXCEPT !.tools = held(failure)]
        /\ pc' = IF stops(failure) THEN "saveBuild" ELSE After(job)
  BY DEF Prepare
<1>2. JobFields \subseteq DOMAIN job /\ DiskFields \subseteq DOMAIN disk
  BY Sure DEF Prepare
<1>3. /\ stops(failure) \in BOOLEAN /\ (disk.tools => held(failure)) /\ held(failure) \in BOOLEAN
  BY DEF SeedStops
<1> HIDE DEF stops, held
<1>4. Updates({"failed"}) /\ job'.failed = stops(failure)
  BY <1>1, <1>2 DEF Updates, JobFields
<1>5. DiskUpdates({"tools"}) /\ disk'.tools = held(failure)
  BY <1>1, <1>2 DEF DiskUpdates, DiskFields
<1> QED BY <1>1, <1>3, <1>4, <1>5

LEMMA TargetsAre ==
  ASSUME NEW j, Planned(j)
  PROVE  ToSet(j.result.prepare.targets) =
           {j.result.prepare.targets[i] : i \in 1 .. Len(j.result.prepare.targets)}
<1>1. PICK raw, host, lock, sha, parent :
        j.result = resolveSetup(raw, host, Digest, lock, Manifest, sha, parent)
  BY DEF Planned
<1>2. \A t : IsSeq(prepareTargetsFor(t))
  BY Tuples DEF prepareTargetsFor
<1>3. \A in, v : IsSeq(planBlessedPrepareCache(in, v).targets)
  BY <1>2 DEF planBlessedPrepareCache
<1>4. IsSeq(j.result.prepare.targets)
  BY <1>1, <1>3 DEF resolveSetup
<1>5. DOMAIN j.result.prepare.targets = 1 .. Len(j.result.prepare.targets)
  BY <1>4, LenProperties DEF IsSeq
<1> QED BY <1>5 DEF ToSet

Ready(j) == ToSet(j.result.prepare.targets) \X {j.host.version}

LEMMA CrossPrepareIs ==
  ASSUME TypeInv, CrossPrepare
  PROVE  /\ Updates({"complete", "failed"}) /\ DiskUpdates({"prepared"})
         /\ job'.complete = ~job'.failed /\ job'.failed \in BOOLEAN
         /\ pc' = IF job'.failed THEN "saveBuild" ELSE After(job)
         /\ job'.complete /\ ~job.prepareHit /\ job.result.prepare.on => Ready(job) \subseteq disk'.prepared
         /\ job.prepareHit /\ job.result.prepare.on /\ ArchivesReady(job.result.prepare, disk.prepared)
              => disk'.prepared = disk.prepared
<1> DEFINE plan    == job.result.prepare
           targets == plan.targets
           use     == decideBlessedPrepareCacheUse(plan.on, job.prepareHit,
                        job.prepareMatched, ArchivesReady(plan, disk.prepared))
           tooOld  == job.host.version < MinimumVersion
           packed(done) == {targets[i] : i \in 1 .. done}
           stops(done)  == tooOld \/ done < Len(targets)
           goes(done) == ~stops(done)
           prepared(done) == {p \in disk.prepared : p[1] \notin packed(done)}
                               \cup (packed(done) \X {job.host.version})
<1>1. PICK done \in 0 .. Len(targets) :
        /\ job' = [job EXCEPT !.complete = goes(done), !.failed = stops(done)]
        /\ disk' = IF ~use.save THEN disk ELSE [disk EXCEPT !.prepared = prepared(done)]
        /\ pc' = IF stops(done) THEN "saveBuild" ELSE After(job)
  BY DEF CrossPrepare
<1>2. JobFields \subseteq DOMAIN job /\ DiskFields \subseteq DOMAIN disk
  BY Sure DEF CrossPrepare
<1>3. goes(done) = ~stops(done) /\ stops(done) \in BOOLEAN
  OBVIOUS
<1>4. goes(done) => ToSet(targets) = packed(done)
  <2>1. ToSet(targets) = {targets[i] : i \in 1 .. Len(targets)}
    BY Sure, TargetsAre DEF CrossPrepare
  <2>2. goes(done) => ~(done < Len(targets))
    OBVIOUS
  <2>3. CASE goes(done) /\ Len(targets) \in Int
    <3>1. done = Len(targets)
      BY <2>2, <2>3
    <3> QED BY <2>1, <3>1
  <2>4. Len(targets) \in Nat
    <3>1. IsSeq(targets)
      <4>1. PICK raw, host, lock, sha, parent :
              job.result = resolveSetup(raw, host, Digest, lock, Manifest, sha, parent)
        BY Sure DEF Planned, CrossPrepare
      <4>2. \A t : IsSeq(prepareTargetsFor(t))
        BY Tuples DEF prepareTargetsFor
      <4>3. \A in, v : IsSeq(planBlessedPrepareCache(in, v).targets)
        BY <4>2 DEF planBlessedPrepareCache
      <4> QED BY <4>1, <4>3 DEF resolveSetup
    <3> QED BY <3>1, LenProperties DEF IsSeq
  <2> QED BY <2>3, <2>4
<1>5. use.save <=> plan.on /\ ~(job.prepareHit /\ ArchivesReady(plan, disk.prepared))
  BY DEF decideBlessedPrepareCacheUse
<1>6. packed(done) \X {job.host.version} \subseteq prepared(done)
  OBVIOUS
<1> HIDE DEF use, stops, goes, prepared
<1>7. Updates({"complete", "failed"}) /\ job'.complete = goes(done) /\ job'.failed = stops(done)
  BY <1>1, <1>2 DEF Updates, JobFields
<1>8. DiskUpdates({"prepared"}) /\ disk'.prepared = IF use.save THEN prepared(done) ELSE disk.prepared
  BY <1>1, <1>2 DEF DiskUpdates, DiskFields
<1> HIDE DEF packed, tooOld
<1> QED BY <1>1, <1>3, <1>4, <1>5, <1>6, <1>7, <1>8 DEF Ready

LEMMA ExtractRegistryIs ==
  ASSUME TypeInv, ExtractRegistry
  PROVE  /\ Updates({"registryMatched", "registryHit", "failed"}) /\ DiskUpdates({"locks"})
         /\ job'.failed \in BOOLEAN
         /\ pc' = IF job'.failed THEN "saveBuild" ELSE After(job)
         /\ \E found, good :
              /\ found = IF job.registryMatched = <<>> THEN {} ELSE RegistryDownload(job)
              /\ Found(found, job.ref, RegistryPaths(job))
              /\ good => found # {}
              /\ job'.registryHit => job.registryHit /\ (good \/ job'.failed)
              /\ disk'.locks = IF good THEN Body(found).locks ELSE {}
<1> DEFINE archive  == IF job.registryMatched = <<>> THEN {} ELSE RegistryDownload(job)
           result(breaks) == restoreCargoRegistryArchive(job, archive, breaks)
           opens(breaks)   == archive # {} /\ result(breaks) = "used"
           stops(breaks)  == ExtractionStops(job, result(breaks))
           matched(breaks) == IF opens(breaks) \/ stops(breaks) THEN job.registryMatched ELSE <<>>
           hit(breaks) == job.registryHit /\ (opens(breaks) \/ stops(breaks))
           locks(breaks) == IF opens(breaks) THEN Body(archive).locks ELSE {}
<1>1. PICK breaks \in BOOLEAN :
        /\ job' = [job EXCEPT !.registryMatched = matched(breaks), !.registryHit = hit(breaks),
                              !.failed = stops(breaks)]
        /\ disk' = [disk EXCEPT !.locks = locks(breaks)]
        /\ pc' = IF stops(breaks) THEN "saveBuild" ELSE After(job)
  BY DEF ExtractRegistry
<1>2. JobFields \subseteq DOMAIN job /\ DiskFields \subseteq DOMAIN disk
  BY Sure DEF ExtractRegistry
<1>3. Found(archive, job.ref, RegistryPaths(job))
  BY Sure, Tuples DEF ExtractRegistry, RegistryDownload
<1>4. /\ stops(breaks) \in BOOLEAN /\ (opens(breaks) => archive # {})
      /\ hit(breaks) => job.registryHit /\ (opens(breaks) \/ stops(breaks))
      /\ locks(breaks) = IF opens(breaks) THEN Body(archive).locks ELSE {}
  BY DEF ExtractionStops
<1>4a. archive = IF job.registryMatched = <<>> THEN {} ELSE RegistryDownload(job)
  OBVIOUS
<1> HIDE DEF archive, result, opens, stops, matched, hit, locks
<1>5. /\ Updates({"registryMatched", "registryHit", "failed"})
      /\ job'.registryHit = hit(breaks) /\ job'.failed = stops(breaks)
  BY <1>1, <1>2 DEF Updates, JobFields
<1>6. DiskUpdates({"locks"}) /\ disk'.locks = locks(breaks)
  BY <1>1, <1>2 DEF DiskUpdates, DiskFields
<1>7. pc' = IF job'.failed THEN "saveBuild" ELSE After(job)
  BY <1>1, <1>5
<1>8. job'.failed \in BOOLEAN
  BY <1>4, <1>5
<1>9. \E found, good :
        /\ found = IF job.registryMatched = <<>> THEN {} ELSE RegistryDownload(job)
        /\ Found(found, job.ref, RegistryPaths(job))
        /\ good => found # {}
        /\ job'.registryHit => job.registryHit /\ (good \/ job'.failed)
        /\ disk'.locks = IF good THEN Body(found).locks ELSE {}
  <2> WITNESS archive, opens(breaks)
  <2> QED BY <1>3, <1>4, <1>4a, <1>5, <1>6
<1>10. Updates({"registryMatched", "registryHit", "failed"}) /\ DiskUpdates({"locks"})
  BY <1>5, <1>6
<1> HIDE DEF archive
<1> QED BY ONLY <1>7, <1>8, <1>9, <1>10

LEMMA CleanupIs ==
  ASSUME TypeInv, Cleanup
  PROVE  /\ Updates({"failed"}) /\ pc' = "saveBuild" /\ UNCHANGED disk
         /\ job.failed => job'.failed
<1>1. PICK soldr \in Calls, zccache \in {"ran", "failed"} :
        job' = [job EXCEPT !.failed = @ \/ ~shutdownCacheDaemons(soldr, zccache)]
  BY DEF Cleanup
<1> DEFINE failed == job.failed \/ ~shutdownCacheDaemons(soldr, zccache)
<1>2. JobFields \subseteq DOMAIN job
  BY Sure DEF Cleanup
<1>3. job' = [job EXCEPT !.failed = failed]
  BY <1>1
<1> HIDE DEF failed
<1>4. Updates({"failed"}) /\ job'.failed = failed
  BY <1>2, <1>3 DEF Updates, JobFields
<1> QED BY <1>4 DEF Cleanup, failed

\* What the build leaves under target/ and of the lint.
Output(j) == [content |-> Content[j.sha], built |-> 2 * n + 1, run |-> n]

LintOutput(j) ==
  [o \in DOMAIN Output(j) \cup {"lock"} |-> IF o = "lock" THEN LockOf(j) ELSE Output(j)[o]]

LEMMA WorkIs ==
  ASSUME TypeInv, Work
  PROVE  /\ Updates({"failed", "linted", "compiled"})
         /\ DiskUpdates({"units", "tree", "bundle", "locks", "tools", "lint"})
         /\ pc' = After(job)
         /\ disk'.units = IF Fresh(job) THEN disk.units ELSE disk.units \cup {Content[job.sha]}
         /\ disk'.tree = IF Fresh(job) THEN disk.tree ELSE <<Output(job)>>
         /\ disk'.locks = disk.locks \cup {LockOf(job)}
         /\ disk'.bundle \in BOOLEAN
         /\ disk'.tools = (disk.tools \/ job.result.tools.on)
         /\ job'.compiled = IF Fresh(job) \/ Content[job.sha] \in disk.units THEN 0 ELSE 1
         /\ \/ disk'.lint = disk.lint /\ (job'.linted => FreshLint(job))
            \/ disk'.lint = <<LintOutput(job)>>
<1> DEFINE source == Content[job.sha]
           output == Output(job)
           units == IF Fresh(job) THEN disk.units ELSE disk.units \cup {source}
           tree == IF Fresh(job) THEN disk.tree ELSE <<output>>
           bundle == disk.bundle \/ (job.host.bundles /\ job.result.runtime # "off")
           locks == disk.locks \cup {LockOf(job)}
           tools == disk.tools \/ job.result.tools.on
           lint(lints) == IF lints /\ ~FreshLint(job) THEN <<LintOutput(job)>> ELSE disk.lint
           compiled == IF Fresh(job) \/ source \in disk.units THEN 0 ELSE 1
           failed(passes) == ~passes
<1>1. PICK passes \in BOOLEAN, lints \in BOOLEAN :
        /\ disk' = [disk EXCEPT !.units = units, !.tree = tree, !.bundle = bundle,
                                !.locks = locks, !.tools = tools, !.lint = lint(lints)]
        /\ job' = [job EXCEPT !.failed = failed(passes), !.linted = lints, !.compiled = compiled]
  BY DEF Work, Output, LintOutput
<1>2. JobFields \subseteq DOMAIN job /\ DiskFields \subseteq DOMAIN disk
  BY Sure DEF Work
<1>3. bundle \in BOOLEAN
  OBVIOUS
<1>4. \/ lint(lints) = disk.lint /\ (lints => FreshLint(job))
      \/ lint(lints) = <<LintOutput(job)>>
  OBVIOUS
<1>5. pc' = After(job)
  BY DEF Work
<1> HIDE DEF source, output, units, tree, bundle, locks, tools, lint, compiled, failed
<1>6. Updates({"failed", "linted", "compiled"}) /\ job'.linted = lints /\ job'.compiled = compiled
  BY <1>1, <1>2 DEF Updates, JobFields
<1>7. /\ DiskUpdates({"units", "tree", "bundle", "locks", "tools", "lint"})
      /\ disk'.units = units /\ disk'.tree = tree /\ disk'.bundle = bundle
      /\ disk'.locks = locks /\ disk'.tools = tools /\ disk'.lint = lint(lints)
  BY <1>1, <1>2 DEF DiskUpdates, DiskFields
<1> QED BY <1>3, <1>4, <1>5, <1>6, <1>7 DEF source, output, units, tree, locks, tools, compiled

LEMMA SaveBuildIs ==
  ASSUME TypeInv, SaveBuild
  PROVE  /\ Updates({"uploaded", "misses", "oversize"}) /\ DiskUpdates({"side"})
         /\ \E git \in BOOLEAN, packed \in SUBSET disk.units : \E seal, misses :
              /\ disk'.side = Snapshot(job, git)
              /\ misses \in {<<>>, <<job.compiled>>}
              /\ LET key   == job.key
                     paths == SavedPaths(job, "dir")
                     body  == [NoBody EXCEPT !.units = packed, !.side = disk'.side, !.seal = seal]
                     saved == Reservable(job.ref, paths, key) /\ SavesBuild(job, misses)
                 IN  \/ /\ store' = store /\ runs' = runs /\ job'.uploaded = job.uploaded
                        /\ faults' = faults => ~saved
                     \/ /\ store' = store \cup {Entry(job.ref, paths, key, body)} /\ saved
                        /\ job'.uploaded = job.uploaded \cup {"zccache-unit"}
                        /\ faults' = faults => packed = disk.units
                        /\ \E proofs : runs' = [runs EXCEPT ![n].proofs = proofs]
<1>1. PICK trouble \in {"none", "git", "upload", "large", "daemon"}, packed \in SUBSET disk.units, soldr \in Calls :
        /\ Fault(trouble # "none")
        /\ trouble # "daemon" => packed = disk.units
        /\ \E misses \in computeJobNewCompiles(job, soldr) : FinishBuild(trouble, packed, misses)
  BY DEF SaveBuild
<1>2. PICK misses \in computeJobNewCompiles(job, soldr) : FinishBuild(trouble, packed, misses)
  BY <1>1
<1> DEFINE side == Snapshot(job, trouble # "git")
           seal == SavedSeal(job, job.key)
           paths == SavedPaths(job, "dir")
           body == [NoBody EXCEPT !.units = packed, !.side = side, !.seal = seal]
           entry == Entry(job.ref, paths, job.key, body)
           saved == /\ SavesBuild(job, misses) /\ trouble \notin {"upload", "large"}
                    /\ Reservable(job.ref, paths, job.key)
           uploaded == IF saved THEN job.uploaded \cup {"zccache-unit"} ELSE job.uploaded
           oversize == applyCachePayloadOversizeAction(job, trouble = "large")
<1>3. /\ disk' = [disk EXCEPT !.side = side]
      /\ store' = IF saved THEN store \cup {entry} ELSE store
      /\ runs' = IF saved THEN [runs EXCEPT ![n].proofs = Proofs(job, entry)] ELSE runs
      /\ job' = [job EXCEPT !.uploaded = uploaded, !.misses = misses, !.oversize = oversize]
  BY <1>2 DEF FinishBuild
<1>4. JobFields \subseteq DOMAIN job /\ DiskFields \subseteq DOMAIN disk
  BY Sure DEF SaveBuild
<1>5. misses \in {<<>>, <<job.compiled>>}
  BY <1>2 DEF computeJobNewCompiles, LastSession
<1>6. faults' = faults => trouble = "none"
  BY <1>1 DEF Fault, TypeInv
<1> HIDE DEF side, seal, uploaded, oversize, paths
<1>7. DiskUpdates({"side"}) /\ disk'.side = side
  BY <1>3, <1>4 DEF DiskUpdates, DiskFields
<1>8. /\ Updates({"uploaded", "misses", "oversize"})
      /\ job'.uploaded = uploaded
  BY <1>3, <1>4 DEF Updates, JobFields
<1>9. (trouble # "git") \in BOOLEAN /\ disk'.side = Snapshot(job, trouble # "git")
  BY <1>7 DEF side
<1>10. CASE saved
  <2>1. /\ store' = store \cup {Entry(job.ref, paths, job.key, body)}
        /\ runs' = [runs EXCEPT ![n].proofs = Proofs(job, entry)]
    BY <1>3, <1>10
  <2>2. job'.uploaded = job.uploaded \cup {"zccache-unit"}
    BY <1>8, <1>10 DEF uploaded
  <2>3. faults' = faults => packed = disk.units
    BY <1>1, <1>6
  <2>4. body = [NoBody EXCEPT !.units = packed, !.side = disk'.side, !.seal = seal]
    BY <1>7
  <2>5. Reservable(job.ref, SavedPaths(job, "dir"), job.key) /\ SavesBuild(job, misses)
    BY <1>10 DEF paths
  <2> HIDE DEF saved, entry, body
  <2> QED BY <1>5, <1>7, <1>8, <1>9, <2>1, <2>2, <2>3, <2>4, <2>5 DEF paths
<1>11. CASE ~saved
  <2>1. store' = store /\ runs' = runs
    BY <1>3, <1>11
  <2>2. job'.uploaded = job.uploaded
    BY <1>8, <1>11 DEF uploaded
  <2>3. faults' = faults =>
          ~(Reservable(job.ref, SavedPaths(job, "dir"), job.key) /\ SavesBuild(job, misses))
    BY <1>6, <1>11 DEF paths
  <2> HIDE DEF saved, entry, body
  <2> QED BY <1>5, <1>7, <1>8, <1>9, <2>1, <2>2, <2>3 DEF paths
<1> QED BY <1>10, <1>11

LEMMA SaveTargetIs ==
  ASSUME TypeInv, SaveTarget
  PROVE  /\ Updates({"uploaded"}) /\ UNCHANGED <<disk, runs, faults>>
         /\ LET key   == job.result.target.key
                paths == ExistingPaths(job)
                body  == [NoBody EXCEPT !.tree   = IF "target" \in paths THEN disk.tree ELSE <<>>,
                                        !.bundle = "bundle" \in paths]
                label == IF "target" \in paths THEN "target-tree" ELSE "target-bundle"
            IN  \/ store' = store /\ job'.uploaded = job.uploaded
                \/ /\ store' = store \cup {Entry(job.ref, paths, key, body)}
                   /\ SavesTarget(job) /\ Reservable(job.ref, paths, key)
                   /\ job'.uploaded = job.uploaded \cup {label}
<1> DEFINE key   == job.result.target.key
           paths == ExistingPaths(job)
           body  == [NoBody EXCEPT !.tree   = IF "target" \in paths THEN disk.tree ELSE <<>>,
                                   !.bundle = "bundle" \in paths]
           label == IF "target" \in paths THEN "target-tree" ELSE "target-bundle"
           entry == Entry(job.ref, paths, key, body)
           saved == SavesTarget(job) /\ Reservable(job.ref, paths, key)
<1>1. /\ store' = IF saved THEN store \cup {entry} ELSE store
      /\ job' = IF ~saved THEN job ELSE [job EXCEPT !.uploaded = @ \cup {label}]
  BY DEF SaveTarget
<1>2. JobFields \subseteq DOMAIN job
  BY Sure DEF SaveTarget
<1>3. UNCHANGED <<disk, runs, faults>>
  BY DEF SaveTarget
<1> HIDE DEF label, body, paths, key
<1>4. Updates({"uploaded"}) /\ job'.uploaded = IF saved THEN job.uploaded \cup {label} ELSE job.uploaded
  BY <1>1, <1>2 DEF Updates, JobFields
<1>5. CASE saved
  BY <1>1, <1>3, <1>4, <1>5 DEF label, body, paths, key
<1>6. CASE ~saved
  BY <1>1, <1>3, <1>4, <1>6 DEF label, body, paths, key
<1> QED BY <1>5, <1>6

LEMMA SaveRegistryIs ==
  ASSUME TypeInv, SaveRegistry
  PROVE  /\ Updates({"uploaded", "oversize"}) /\ UNCHANGED <<disk, runs>> /\ pc' = After(job)
         /\ \E paths, seal :
              LET key  == job.result.registry.key
                  body == [NoBody EXCEPT !.locks = disk.locks, !.seal = seal]
              IN  /\ "prepare" \notin paths /\ "lint" \notin paths
                  /\ \/ store' = store /\ job'.uploaded = job.uploaded
                     \/ /\ store' = store \cup {Entry(job.ref, paths, key, body)}
                        /\ SavesRegistry(job) /\ Reservable(job.ref, paths, key)
                        /\ job'.uploaded = job.uploaded \cup {"cargo-registry"}
<1> DEFINE key   == job.result.registry.key
           v2    == job.result.registry.format = "soldr-v2"
           paths == IF v2 THEN RegistryPaths(job)
                    ELSE IF Archived(job.in, job.host) THEN {"registry.tar"} ELSE {"registry"}
           seal  == IF v2 THEN <<>> ELSE SavedSeal(job, key)
           body  == [NoBody EXCEPT !.locks = disk.locks, !.seal = seal]
           entry == Entry(job.ref, paths, key, body)
           saved(trouble) == /\ SavesRegistry(job) /\ trouble # "large"
                             /\ saveCargoRegistryArchive(job, trouble # "archive")
                             /\ Reservable(job.ref, paths, key)
           uploaded(trouble) ==
             IF saved(trouble) THEN job.uploaded \cup {"cargo-registry"} ELSE job.uploaded
           oversize(trouble) ==
             job.oversize \/ applyCachePayloadOversizeAction(job, trouble = "large")
<1>1. PICK trouble \in {"none", "large", "archive"} :
        /\ store' = IF saved(trouble) THEN store \cup {entry} ELSE store
        /\ job' = [job EXCEPT !.uploaded = uploaded(trouble), !.oversize = oversize(trouble)]
  BY DEF SaveRegistry
<1>2. JobFields \subseteq DOMAIN job
  BY Sure DEF SaveRegistry
<1>3. UNCHANGED <<disk, runs>> /\ pc' = After(job)
  BY DEF SaveRegistry
<1>4. "prepare" \notin paths /\ "lint" \notin paths
  BY DEF RegistryPaths
<1> HIDE DEF uploaded, oversize, paths, seal, key
<1>5. Updates({"uploaded", "oversize"}) /\ job'.uploaded = uploaded(trouble)
  BY <1>1, <1>2 DEF Updates, JobFields
<1>6. CASE saved(trouble)
  <2>1. /\ store' = store \cup {Entry(job.ref, paths, key, body)}
        /\ job'.uploaded = job.uploaded \cup {"cargo-registry"}
        /\ SavesRegistry(job) /\ Reservable(job.ref, paths, key)
    BY <1>1, <1>5, <1>6 DEF uploaded
  <2>2. body = [NoBody EXCEPT !.locks = disk.locks, !.seal = seal]
    OBVIOUS
  <2>3. key = job.result.registry.key
    BY DEF key
  <2> HIDE DEF saved, entry, body
  <2> QED BY <1>3, <1>4, <1>5, <2>1, <2>2, <2>3
<1>7. CASE ~saved(trouble)
  <2>1. store' = store /\ job'.uploaded = job.uploaded
    BY <1>1, <1>5, <1>7 DEF uploaded
  <2> HIDE DEF saved, entry, body
  <2> QED BY <1>3, <1>4, <1>5, <2>1
<1> QED BY <1>6, <1>7

LEMMA SaveLayerIs ==
  ASSUME TypeInv, NEW step \in Stages, NEW saves \in BOOLEAN, NEW layer, NEW label, NEW key,
         NEW body, SaveLayer(step, saves, layer, label, key, body)
  PROVE  /\ pc = step /\ pc' = After(job) /\ UNCHANGED <<disk, runs>> /\ Updates({"uploaded"})
         /\ \/ /\ store' = store /\ job'.uploaded = job.uploaded
               /\ faults' = faults => ~(saves /\ Reservable(job.ref, {layer}, key))
            \/ /\ saves /\ Reservable(job.ref, {layer}, key)
               /\ store' = store \cup {Entry(job.ref, {layer}, key, body)}
               /\ job'.uploaded = job.uploaded \cup {label}
<1> DEFINE entry == Entry(job.ref, {layer}, key, body)
           saved(uploads) == saves /\ uploads /\ Reservable(job.ref, {layer}, key)
<1>1. PICK uploads \in BOOLEAN :
        /\ Fault(~uploads)
        /\ store' = IF saved(uploads) THEN store \cup {entry} ELSE store
        /\ job' = IF saved(uploads) THEN [job EXCEPT !.uploaded = @ \cup {label}] ELSE job
  BY DEF SaveLayer
<1>2. pc = step /\ pc' = After(job) /\ UNCHANGED <<disk, runs>>
  BY DEF SaveLayer
<1>3. JobFields \subseteq DOMAIN job
  <2>1. pc # "idle"
    BY <1>2, StagesAre
  <2> QED BY <2>1, Sure
<1>4. faults' = faults => uploads
  BY <1>1 DEF Fault, TypeInv
<1>5. CASE saved(uploads)
  <2>1. Updates({"uploaded"}) /\ job'.uploaded = job.uploaded \cup {label}
    BY <1>1, <1>3, <1>5 DEF Updates, JobFields
  <2> QED BY <1>1, <1>2, <1>5, <2>1
<1>6. CASE ~saved(uploads)
  <2>1. Updates({"uploaded"}) /\ job'.uploaded = job.uploaded
    BY <1>1, <1>3, <1>6 DEF Updates, JobFields
  <2> QED BY <1>1, <1>2, <1>4, <1>6, <2>1
<1> QED BY <1>5, <1>6

LEMMA SavePreparedIs ==
  ASSUME TypeInv, SavePrepared
  PROVE  /\ pc = "savePrepared" /\ pc' = After(job) /\ UNCHANGED <<disk, runs>>
         /\ Updates({"uploaded"})
         /\ LET key   == job.result.prepare.key
                body  == [NoBody EXCEPT !.prepared = disk.prepared]
                saves == /\ AllowSave(job) /\ ~job.prepareHit /\ job.complete
                         /\ ArchivesReady(job.result.prepare, disk.prepared)
            IN  \/ /\ store' = store /\ job'.uploaded = job.uploaded
                   /\ faults' = faults => ~(saves /\ Reservable(job.ref, {"prepare"}, key))
                \/ /\ saves /\ Reservable(job.ref, {"prepare"}, key)
                   /\ store' = store \cup {Entry(job.ref, {"prepare"}, key, body)}
                   /\ job'.uploaded = job.uploaded \cup {"toolchain"}
<1> DEFINE key   == job.result.prepare.key
           body  == [NoBody EXCEPT !.prepared = disk.prepared]
           saves == /\ AllowSave(job) /\ ~job.prepareHit /\ job.complete
                    /\ ArchivesReady(job.result.prepare, disk.prepared)
<1>1. SaveLayer("savePrepared", saves, "prepare", "toolchain", key, body)
  BY DEF SavePrepared
<1>2. "savePrepared" \in Stages /\ saves \in BOOLEAN
  BY StagesAre
<1> HIDE DEF saves, body, key
<1>3. /\ pc = "savePrepared" /\ pc' = After(job) /\ UNCHANGED <<disk, runs>> /\ Updates({"uploaded"})
      /\ \/ /\ store' = store /\ job'.uploaded = job.uploaded
            /\ faults' = faults => ~(saves /\ Reservable(job.ref, {"prepare"}, key))
         \/ /\ saves /\ Reservable(job.ref, {"prepare"}, key)
            /\ store' = store \cup {Entry(job.ref, {"prepare"}, key, body)}
            /\ job'.uploaded = job.uploaded \cup {"toolchain"}
  BY <1>1, <1>2, SaveLayerIs
<1> QED BY <1>3 DEF saves, body, key

LEMMA SaveToolsIs ==
  ASSUME TypeInv, SaveTools
  PROVE  /\ pc = "saveTools" /\ pc' = After(job) /\ UNCHANGED <<disk, runs>>
         /\ Updates({"uploaded"})
         /\ \/ store' = store /\ job'.uploaded = job.uploaded
            \/ /\ Reservable(job.ref, {"tools"}, job.result.tools.key)
               /\ store' = store \cup {Entry(job.ref, {"tools"}, job.result.tools.key,
                                             [NoBody EXCEPT !.tools = TRUE])}
               /\ job'.uploaded = job.uploaded \cup {"dylint-foundation"}
<1> DEFINE key   == job.result.tools.key
           body  == [NoBody EXCEPT !.tools = TRUE]
           saves == /\ AllowSave(job) /\ ~job.toolsHit /\ disk.tools
                    /\ DylintMode(job.in) => dylintMarkerIdentityMatches(job)
<1>1. SaveLayer("saveTools", saves, "tools", "dylint-foundation", key, body)
  BY DEF SaveTools
<1>2. "saveTools" \in Stages /\ saves \in BOOLEAN
  BY StagesAre
<1> HIDE DEF saves, body, key
<1>3. /\ pc = "saveTools" /\ pc' = After(job) /\ UNCHANGED <<disk, runs>> /\ Updates({"uploaded"})
      /\ \/ /\ store' = store /\ job'.uploaded = job.uploaded
            /\ faults' = faults => ~(saves /\ Reservable(job.ref, {"tools"}, key))
         \/ /\ saves /\ Reservable(job.ref, {"tools"}, key)
            /\ store' = store \cup {Entry(job.ref, {"tools"}, key, body)}
            /\ job'.uploaded = job.uploaded \cup {"dylint-foundation"}
  BY <1>1, <1>2, SaveLayerIs
<1> QED BY <1>3 DEF body, key

LEMMA SaveLintIs ==
  ASSUME TypeInv, SaveLint
  PROVE  /\ pc = "saveLint" /\ pc' = After(job) /\ UNCHANGED <<disk, runs>>
         /\ Updates({"uploaded"})
         /\ LET key   == job.result.lint.key
                body  == [NoBody EXCEPT !.lint = disk.lint]
                saves == /\ AllowSave(job) /\ ~job.lintHit /\ job.linted /\ job.result.tools.on
                         /\ disk.lint # <<>>
            IN  \/ /\ store' = store /\ job'.uploaded = job.uploaded
                   /\ faults' = faults => ~(saves /\ Reservable(job.ref, {"lint"}, key))
                \/ /\ saves /\ Reservable(job.ref, {"lint"}, key)
                   /\ store' = store \cup {Entry(job.ref, {"lint"}, key, body)}
                   /\ job'.uploaded = job.uploaded \cup {"dylint-output"}
<1> DEFINE key   == job.result.lint.key
           body  == [NoBody EXCEPT !.lint = disk.lint]
           saves == /\ AllowSave(job) /\ ~job.lintHit /\ dylintMarkerIdentityMatches(job)
                    /\ disk.lint # <<>>
<1>1. SaveLayer("saveLint", saves, "lint", "dylint-output", key, body)
  BY DEF SaveLint
<1>2. "saveLint" \in Stages /\ saves \in BOOLEAN
  BY StagesAre
<1> HIDE DEF saves, body, key
<1>3. /\ pc = "saveLint" /\ pc' = After(job) /\ UNCHANGED <<disk, runs>> /\ Updates({"uploaded"})
      /\ \/ /\ store' = store /\ job'.uploaded = job.uploaded
            /\ faults' = faults => ~(saves /\ Reservable(job.ref, {"lint"}, key))
         \/ /\ saves /\ Reservable(job.ref, {"lint"}, key)
            /\ store' = store \cup {Entry(job.ref, {"lint"}, key, body)}
            /\ job'.uploaded = job.uploaded \cup {"dylint-output"}
  BY <1>1, <1>2, SaveLayerIs
<1> QED BY <1>3 DEF saves, body, key, dylintMarkerIdentityMatches

\* A job starts with nothing restored and nothing done.
Begun(j) ==
  /\ JobTyped(j) /\ ~j.hit /\ ~j.registryHit /\ ~j.toolsHit /\ ~j.lintHit /\ ~j.prepareHit
  /\ ~j.complete /\ ~j.linted /\ ~j.failed /\ ~j.writer /\ ~j.donor.found
  /\ j.key = <<>> /\ j.matched = <<>> /\ j.replayed = 0 /\ j.compiled = 0 /\ j.uploaded = {}
  /\ j.mtime = CheckoutMtime(j.in, j.sha)

LEMMA StartIs ==
  ASSUME TypeInv, Start
  PROVE  /\ UNCHANGED <<workflow, store, faults>> /\ pc = "idle" /\ n <= Runs
         /\ \E r : runs' = Append(runs, r)
         /\ \/ n' = n + 1 /\ UNCHANGED <<pc, job, disk>>
            \/ /\ n' = n /\ pc' = "restoreTarget" /\ disk' = EmptyDisk /\ Begun(job')
<1>1. PICK plan \in workflow : \E checkout \in plan.for :
        LET result == resolveSetup(plan.in, plan.host, Digest, Lock[checkout.sha], Manifest,
                                   checkout.sha, checkout.parent)
        IN  IF Rejected(plan.in, result)
            THEN /\ n' = n + 1
                 /\ runs' = Append(runs, RunRecord(checkout, "failure", {}))
                 /\ UNCHANGED <<pc, job, disk>>
            ELSE /\ job' = NewJob(plan, checkout, result)
                 /\ disk' = EmptyDisk
                 /\ pc' = "restoreTarget"
                 /\ runs' = Append(runs, RunRecord(checkout, "", {}))
                 /\ UNCHANGED n
  BY DEF Start
<1>2. PICK checkout \in plan.for :
        LET result == resolveSetup(plan.in, plan.host, Digest, Lock[checkout.sha], Manifest,
                                   checkout.sha, checkout.parent)
        IN  IF Rejected(plan.in, result)
            THEN /\ n' = n + 1
                 /\ runs' = Append(runs, RunRecord(checkout, "failure", {}))
                 /\ UNCHANGED <<pc, job, disk>>
            ELSE /\ job' = NewJob(plan, checkout, result)
                 /\ disk' = EmptyDisk
                 /\ pc' = "restoreTarget"
                 /\ runs' = Append(runs, RunRecord(checkout, "", {}))
                 /\ UNCHANGED n
  BY <1>1
<1> DEFINE result == resolveSetup(plan.in, plan.host, Digest, Lock[checkout.sha], Manifest,
                                  checkout.sha, checkout.parent)
           j == NewJob(plan, checkout, result)
<1>3. /\ j.in = Effective(plan.in) /\ j.host = plan.host /\ j.save = plan.save
      /\ j.sha = checkout.sha /\ j.ref = checkout.ref /\ j.result = result
      /\ j.skipped = Skipped(plan.in, plan.host, result)
      /\ j.mtime = CheckoutMtime(plan.in, checkout.sha)
  BY DEF NewJob
<1>4. Planned(j)
  BY <1>3 DEF Planned
<1>5. JobFields \subseteq DOMAIN j
  BY DEF NewJob, JobFields
<1>6. /\ j.hit = FALSE /\ j.registryHit = FALSE /\ j.toolsHit = FALSE /\ j.lintHit = FALSE
      /\ j.prepareHit = FALSE /\ j.complete = FALSE /\ j.linted = FALSE /\ j.failed = FALSE
      /\ j.writer = FALSE /\ j.key = <<>> /\ j.matched = <<>> /\ j.replayed = 0 /\ j.compiled = 0
      /\ j.uploaded = {} /\ j.donor = NoDonor("none")
  BY DEF NewJob
<1>7. ~NoDonor("none").found
  BY DEF NoDonor
<1>8. CheckoutMtime(plan.in, checkout.sha) = CheckoutMtime(Effective(plan.in), checkout.sha)
  <2>1. "sourceMtimeNormalize" \in DOMAIN plan.in
    <3>1. DOMAIN plan.in = DOMAIN Unset
      BY JourneyAssumption DEF TypeInv
    <3> QED BY <3>1 DEF Unset
  <2>2. WithPreset(plan.in).sourceMtimeNormalize = plan.in.sourceMtimeNormalize
    BY <2>1 DEF WithPreset
  <2>3. "sourceMtimeNormalize" \in DOMAIN WithPreset(plan.in)
    BY <2>1 DEF WithPreset
  <2>4. Effective(plan.in).sourceMtimeNormalize = plan.in.sourceMtimeNormalize
    BY <2>2, <2>3 DEF Effective
  <2> QED BY <2>4 DEF CheckoutMtime
<1> HIDE DEF j, result
<1>9. Begun(j)
  BY <1>3, <1>4, <1>5, <1>6, <1>7, <1>8 DEF Begun, JobTyped
<1>10. UNCHANGED <<workflow, store, faults>> /\ pc = "idle" /\ n <= Runs
  BY DEF Start
<1>11. CASE Rejected(plan.in, result)
  BY <1>2, <1>10, <1>11 DEF result
<1>12. CASE ~Rejected(plan.in, result)
  BY <1>2, <1>9, <1>10, <1>12 DEF result, j
<1> QED BY <1>11, <1>12

-----------------------------------------------------------------------------
(***************************************************************************)
(* Every step keeps the types.                                             *)
(***************************************************************************)
LEMMA FaultsBounded ==
  ASSUME TypeInv, Next
  PROVE  faults' \in 0 .. MaxFaults /\ faults <= faults'
<1>1. faults \in 0 .. MaxFaults /\ MaxFaults \in Nat
  BY JourneyAssumption DEF TypeInv
<1> DEFINE Bounded == faults' \in 0 .. MaxFaults /\ faults <= faults'
<1>2. CASE Start
  BY <1>1, <1>2, StartIs
<1>3. CASE RestoreTarget
  BY <1>1, <1>3 DEF RestoreTarget, Fault
<1>4. CASE RestoreBuild
  <2>1. UNCHANGED faults \/ \E happens \in BOOLEAN : Fault(happens)
    BY <1>4 DEF RestoreBuild
  <2> QED BY <1>1, <2>1 DEF Fault
<1>5. CASE RestoreTools
  BY <1>1, <1>5 DEF RestoreTools, Fault
<1>6. CASE Prepare
  BY <1>1, <1>6 DEF Prepare, Fault
<1>7. CASE ExtractRegistry
  BY <1>1, <1>7 DEF ExtractRegistry, Fault
<1>8. CASE CrossPrepare
  BY <1>1, <1>8 DEF CrossPrepare, Fault
<1>9. CASE Work
  BY <1>1, <1>9 DEF Work, Fault
<1>10. CASE Cleanup
  BY <1>1, <1>10 DEF Cleanup, Fault
<1>11. CASE SaveBuild
  BY <1>1, <1>11 DEF SaveBuild, Fault
<1>12. CASE SaveTarget
  BY <1>1, <1>12 DEF SaveTarget, Fault
<1>13. CASE SaveRegistry
  BY <1>1, <1>13 DEF SaveRegistry, Fault
<1>14. CASE SavePrepared \/ SaveTools \/ SaveLint
  BY <1>1, <1>14 DEF SavePrepared, SaveTools, SaveLint, SaveLayer, Fault
<1>15. CASE End \/ Finished
  BY <1>1, <1>15 DEF End, Finished, vars, Fault
<1> QED BY <1>2, <1>3, <1>4, <1>5, <1>6, <1>7, <1>8, <1>9, <1>10, <1>11, <1>12, <1>13, <1>14, <1>15
        DEF Next, Bounded

\* What every step of a job leaves alone.
LEMMA StepIs ==
  ASSUME TypeInv, Next, pc # "idle", pc # "end"
  PROVE  /\ UNCHANGED <<workflow, n>> /\ pc' \in Stages
         /\ Decided(job') = Decided(job) /\ JobFields \subseteq DOMAIN job'
         /\ \/ UNCHANGED runs
            \/ \E r : runs' = [runs EXCEPT ![n] = r]
<1> DEFINE Steady == Decided(job') = Decided(job) /\ JobFields \subseteq DOMAIN job'
<1>0. job.skipped \subseteq Optional /\ JobFields \subseteq DOMAIN job
  BY Sure
<1>1. \A F : Updates(F) /\ F \cap Fixed = {} => Steady
  BY FixedKept DEF Updates
<1>2. UNCHANGED job => Steady
  BY <1>0 DEF Decided
<1> HIDE DEF Steady
<1>3. CASE RestoreTarget
  <2>1. Steady
    BY <1>1, <1>3, RestoreTargetIs DEF Fixed
  <2> QED BY <1>3, <2>1, StagesAre DEF RestoreTarget, Steady
<1>4. CASE RestoreBuild
  <2>1. Steady
    <3>1. CASE UNCHANGED job
      BY <3>1, <1>2
    <3>2. CASE Updates({"failed"})
      BY <3>2, <1>1 DEF Fixed
    <3>3. CASE \E down \in BOOLEAN : \E found, result : Restores(BuildPlan(job, down), found, result)
      <4>1. \E plan, found, result : RestoreFrom(plan, found, result)
        BY <3>3 DEF Restores
      <4>2. Updates({"key", "writer", "donor", "matched", "hit", "replayed", "mtime"})
        BY <4>1, <1>4, Sure, RestoreFromIs DEF RestoreBuild
      <4> QED BY <4>2, <1>1 DEF Fixed
    <3> QED BY <1>4, <3>1, <3>2, <3>3, RestoreBuildIs
  <2>2. pc' \in Stages
    BY <1>0, <1>4, AfterStep, StagesAre DEF RestoreBuild
  <2> QED BY <1>4, <2>1, <2>2 DEF RestoreBuild, Steady
<1>5. CASE RestoreTools
  <2>1. Steady
    BY <1>1, <1>5, RestoreToolsIs DEF Fixed
  <2>2. pc' \in Stages
    BY <1>0, <1>5, AfterStep, StagesAre DEF RestoreTools
  <2> QED BY <1>5, <2>1, <2>2 DEF RestoreTools, Steady
<1>6. CASE Prepare
  <2>1. Steady
    BY <1>1, <1>6, PrepareIs DEF Fixed
  <2>2. pc' \in Stages
    BY <1>0, <1>6, PrepareIs, AfterStep, StagesAre DEF Prepare
  <2> QED BY <1>6, <2>1, <2>2 DEF Prepare, Steady
<1>7. CASE ExtractRegistry
  <2>1. Steady
    BY <1>1, <1>7, ExtractRegistryIs DEF Fixed
  <2>2. pc' \in Stages
    BY <1>0, <1>7, ExtractRegistryIs, AfterStep, StagesAre DEF ExtractRegistry
  <2> QED BY <1>7, <2>1, <2>2 DEF ExtractRegistry, Steady
<1>8. CASE CrossPrepare
  <2>1. Steady
    BY <1>1, <1>8, CrossPrepareIs DEF Fixed
  <2>2. pc' \in Stages
    BY <1>0, <1>8, CrossPrepareIs, AfterStep, StagesAre DEF CrossPrepare
  <2> QED BY <1>8, <2>1, <2>2 DEF CrossPrepare, Steady
<1>9. CASE Work
  <2>1. Steady
    BY <1>1, <1>9, WorkIs DEF Fixed
  <2>2. pc' \in Stages
    BY <1>0, <1>9, AfterStep, StagesAre DEF Work
  <2> QED BY <1>9, <2>1, <2>2 DEF Work, Steady
<1>10. CASE Cleanup
  <2>1. Steady
    BY <1>1, <1>10, CleanupIs DEF Fixed
  <2> QED BY <1>10, <2>1, StagesAre DEF Cleanup, Steady
<1>11. CASE SaveBuild
  <2>1. Steady
    BY <1>1, <1>11, SaveBuildIs DEF Fixed
  <2>2. UNCHANGED runs \/ \E proofs : runs' = [runs EXCEPT ![n].proofs = proofs]
    BY <1>11, SaveBuildIs
  <2>3. UNCHANGED runs \/ \E r : runs' = [runs EXCEPT ![n] = r]
    BY <2>2
  <2> QED BY <1>11, <2>1, <2>3, StagesAre DEF SaveBuild, Steady
<1>12. CASE SaveTarget
  <2>1. Steady
    BY <1>1, <1>12, SaveTargetIs DEF Fixed
  <2> QED BY <1>12, <2>1, StagesAre DEF SaveTarget, Steady
<1>13. CASE SaveRegistry
  <2>1. Steady
    BY <1>1, <1>13, SaveRegistryIs DEF Fixed
  <2>2. pc' \in Stages
    BY <1>0, <1>13, AfterStep, StagesAre DEF SaveRegistry
  <2> QED BY <1>13, <2>1, <2>2 DEF SaveRegistry, Steady
<1>14. CASE SavePrepared \/ SaveTools \/ SaveLint
  <2>1. UNCHANGED <<workflow, n, runs>>
    BY <1>14 DEF SavePrepared, SaveTools, SaveLint, SaveLayer
  <2>2. /\ Updates({"uploaded"}) /\ pc' = After(job)
        /\ pc \in {"savePrepared", "saveTools", "saveLint"}
    BY <1>14, SavePreparedIs, SaveToolsIs, SaveLintIs
  <2>3. Steady
    BY <1>1, <2>2 DEF Fixed
  <2>4. pc' \in Stages
    BY <1>0, <2>2, AfterStep, StagesAre
  <2> QED BY <2>1, <2>3, <2>4 DEF Steady
<1>15. CASE Finished
  <2>1. n > Runs /\ n <= Runs
    BY <1>15 DEF Finished, TypeInv
  <2> QED BY <2>1, JourneyAssumption DEF TypeInv
<1> QED BY <1>3, <1>4, <1>5, <1>6, <1>7, <1>8, <1>9, <1>10, <1>11, <1>12, <1>13, <1>14, <1>15
        DEF Next, Start, End

LEMMA FoundTyped ==
  ASSUME TypeInv, NEW found, NEW paths, Found(found, job.ref, paths), found # {}
  PROVE  Contents(Body(found))
BY DEF Found, TypeInv, StoreTyped

LEMMA NothingHeld ==
  Contents(EmptyDisk) /\ Contents(NoBody) /\ DiskFields \subseteq DOMAIN EmptyDisk
BY DEF Contents, EmptyDisk, NoBody, AtMostOne, DiskFields

LEMMA Commit == ASSUME NEW c \in Commits PROVE Content[c] \in Range(Content) /\ Lock[c] \in Range(Lock)
BY JourneyAssumption DEF Range

LEMMA DiskStep ==
  ASSUME TypeInv, Next, pc # "idle", pc # "end"
  PROVE  DiskTyped'
<1>0. /\ JobFields \subseteq DOMAIN job /\ DiskFields \subseteq DOMAIN disk
      /\ job.sha \in Commits /\ Contents(disk) /\ disk.tools \in BOOLEAN
  BY Sure DEF TypeInv, DiskTyped
<1>1. UNCHANGED disk => DiskTyped'
  BY DEF TypeInv, DiskTyped, Contents
<1>2. \A F : DiskUpdates(F) => DiskFields \subseteq DOMAIN disk' /\ \A f \in DiskFields \ F : disk'[f] = disk[f]
  BY DEF DiskUpdates
<1>3. CASE RestoreTarget
  <2>1. PICK found : /\ Found(found, job.ref, job.result.target.paths)
                     /\ disk'.tree = IF found = {} THEN disk.tree ELSE Body(found).tree
                     /\ disk'.bundle = (found # {} /\ Body(found).bundle)
    BY <1>3, RestoreTargetIs
  <2>2. AtMostOne(disk'.tree) /\ disk'.bundle \in BOOLEAN
    BY <1>0, <2>1, FoundTyped DEF Contents
  <2>3. DiskUpdates({"tree", "bundle"})
    BY <1>3, RestoreTargetIs
  <2> QED BY <1>0, <1>2, <2>2, <2>3 DEF DiskTyped, Contents, DiskFields
<1>4. CASE RestoreBuild
  <2>1. CASE \E down \in BOOLEAN : \E found, result : Restores(BuildPlan(job, down), found, result)
    <3>1. PICK plan, found, result : Restores(plan, found, result)
      BY <2>1
    <3>2. /\ DiskUpdates({"units", "side"}) /\ disk'.units = result.units /\ disk'.side = result.side
      BY <1>0, <3>1, RestoreFromIs DEF Restores
    <3>3. result.units \subseteq Range(Content) /\ AtMostOne(result.side)
      <4>1. CASE found = {}
        BY <3>1, <4>1 DEF Restores, Nothing, AtMostOne
      <4>2. CASE found # {}
        <5>1. Contents(Body(found))
          BY <3>1, <4>2, FoundTyped DEF Restores
        <5>2. result.units \subseteq Body(found).units
          BY <3>1, <4>2 DEF Restores
        <5>3. result.side = <<>> \/ result.side = Body(found).side
          BY <3>1, <4>2 DEF Restores
        <5> QED BY <5>1, <5>2, <5>3 DEF Contents, AtMostOne
      <4> QED BY <4>1, <4>2
    <3> QED BY <1>0, <1>2, <3>2, <3>3 DEF DiskTyped, Contents, DiskFields
  <2>2. CASE UNCHANGED disk
    BY <1>1, <2>2
  <2> QED BY <1>4, <2>1, <2>2, RestoreBuildIs
<1>5. CASE RestoreTools
  <2>1. PICK tools, lint : /\ Found(lint, job.ref, {"lint"}) /\ disk'.tools = (tools # {})
                           /\ disk'.lint = IF lint = {} THEN <<>> ELSE Body(lint).lint
    BY <1>5, RestoreToolsIs
  <2>2. AtMostOne(disk'.lint) /\ disk'.tools \in BOOLEAN
    BY <2>1, FoundTyped DEF Contents, AtMostOne
  <2>3. DiskUpdates({"prepared", "tools", "lint"})
    BY <1>5, RestoreToolsIs
  <2> QED BY <1>0, <1>2, <2>2, <2>3 DEF DiskTyped, Contents, DiskFields
<1>6. CASE Prepare
  <2>1. DiskUpdates({"tools"}) /\ disk'.tools \in BOOLEAN
    BY <1>6, PrepareIs
  <2> QED BY <1>0, <1>2, <2>1 DEF DiskTyped, Contents, DiskFields
<1>7. CASE ExtractRegistry
  <2>1. PICK found, good : /\ Found(found, job.ref, RegistryPaths(job))
                           /\ good => found # {}
                           /\ disk'.locks = IF good THEN Body(found).locks ELSE {}
    BY <1>7, ExtractRegistryIs
  <2>2. disk'.locks \subseteq Range(Lock)
    BY <2>1, FoundTyped DEF Contents
  <2>3. DiskUpdates({"locks"})
    BY <1>7, ExtractRegistryIs
  <2> QED BY <1>0, <1>2, <2>2, <2>3 DEF DiskTyped, Contents, DiskFields
<1>8. CASE CrossPrepare
  <2>1. DiskUpdates({"prepared"})
    BY <1>8, CrossPrepareIs
  <2> QED BY <1>0, <1>2, <2>1 DEF DiskTyped, Contents, DiskFields
<1>9. CASE Work
  <2>1. /\ DiskUpdates({"units", "tree", "bundle", "locks", "tools", "lint"})
        /\ disk'.units = IF Fresh(job) THEN disk.units ELSE disk.units \cup {Content[job.sha]}
        /\ disk'.tree = IF Fresh(job) THEN disk.tree ELSE <<Output(job)>>
        /\ disk'.locks = disk.locks \cup {LockOf(job)}
        /\ disk'.bundle \in BOOLEAN
        /\ disk'.tools = (disk.tools \/ job.result.tools.on)
        /\ disk'.lint = disk.lint \/ disk'.lint = <<LintOutput(job)>>
    BY <1>9, WorkIs
  <2>2. \A x : AtMostOne(<<x>>)
    BY DEF AtMostOne
  <2>3. /\ disk'.units \subseteq Range(Content) /\ disk'.locks \subseteq Range(Lock)
    BY <1>0, <2>1, Commit DEF LockOf, Contents
  <2>4. AtMostOne(disk'.tree) /\ AtMostOne(disk'.lint)
    BY <1>0, <2>1, <2>2 DEF Contents
  <2>5. disk'.tools \in BOOLEAN
    BY <2>1
  <2>6. disk'.side = disk.side /\ DiskFields \subseteq DOMAIN disk'
    BY <1>2, <2>1 DEF DiskFields
  <2> QED BY <1>0, <2>1, <2>3, <2>4, <2>5, <2>6 DEF DiskTyped, Contents
<1>10. CASE Cleanup \/ SaveTarget \/ SaveRegistry \/ SavePrepared \/ SaveTools \/ SaveLint
  BY <1>1, <1>10, CleanupIs, SaveTargetIs, SaveRegistryIs, SavePreparedIs, SaveToolsIs, SaveLintIs
<1>11. CASE SaveBuild
  <2>1. DiskUpdates({"side"}) /\ \E git \in BOOLEAN : disk'.side = Snapshot(job, git)
    BY <1>11, SaveBuildIs
  <2>2. \A git \in BOOLEAN : AtMostOne(Snapshot(job, git))
    BY <1>0 DEF Snapshot, AtMostOne, Contents
  <2>3. AtMostOne(disk'.side)
    BY <2>1, <2>2
  <2> QED BY <1>0, <1>2, <2>1, <2>3 DEF DiskTyped, Contents, DiskFields
<1>12. CASE Finished
  BY <1>1, <1>12 DEF Finished, vars
<1> QED BY <1>3, <1>4, <1>5, <1>6, <1>7, <1>8, <1>9, <1>10, <1>11, <1>12 DEF Next, Start, End

\* The store after a step: what it was, or one more entry, in the scope of the job.
LEMMA StoreIs ==
  ASSUME TypeInv, Next
  PROVE  \/ store' = store
         \/ /\ pc # "idle"
            /\ \E paths, key, body :
                 /\ Contents(body) /\ Reservable(job.ref, paths, key)
                 /\ store' = store \cup {Entry(job.ref, paths, key, body)}
<1> DEFINE Grown == \E paths, key, body :
                      /\ Contents(body) /\ Reservable(job.ref, paths, key)
                      /\ store' = store \cup {Entry(job.ref, paths, key, body)}
<1>0. Contents(disk) /\ DiskTyped
  BY DEF TypeInv, DiskTyped
<1>1. CASE SaveBuild
  <2>1. CASE store' # store
    <3>1. PICK packed, seal :
            LET body == [NoBody EXCEPT !.units = packed, !.side = disk'.side, !.seal = seal]
            IN  /\ packed \in SUBSET disk.units
                /\ Reservable(job.ref, SavedPaths(job, "dir"), job.key)
                /\ store' = store \cup {Entry(job.ref, SavedPaths(job, "dir"), job.key, body)}
      BY <1>1, <2>1, SaveBuildIs
    <3>2. AtMostOne(disk'.side)
      BY <1>1, DiskStep DEF SaveBuild, Next, DiskTyped, Contents
    <3> DEFINE body == [NoBody EXCEPT !.units = packed, !.side = disk'.side, !.seal = seal]
    <3>3. Contents(body)
      BY <1>0, <3>1, <3>2 DEF Contents, NoBody, AtMostOne
    <3> HIDE DEF body
    <3> QED BY <1>1, <3>1, <3>3 DEF body, SaveBuild
  <2> QED BY <2>1
<1>2. CASE SaveTarget
  <2> DEFINE paths == ExistingPaths(job)
             body  == [NoBody EXCEPT !.tree   = IF "target" \in paths THEN disk.tree ELSE <<>>,
                                     !.bundle = "bundle" \in paths]
  <2>1. \/ store' = store
        \/ /\ store' = store \cup {Entry(job.ref, paths, job.result.target.key, body)}
           /\ Reservable(job.ref, paths, job.result.target.key)
    BY <1>2, SaveTargetIs
  <2>2. Contents(body)
    BY <1>0 DEF Contents, NoBody, AtMostOne
  <2> HIDE DEF body, paths
  <2> QED BY <1>2, <2>1, <2>2 DEF SaveTarget
<1>3. CASE SaveRegistry
  <2>1. PICK paths, seal :
          LET body == [NoBody EXCEPT !.locks = disk.locks, !.seal = seal]
          IN  \/ store' = store
              \/ /\ store' = store \cup {Entry(job.ref, paths, job.result.registry.key, body)}
                 /\ Reservable(job.ref, paths, job.result.registry.key)
    BY <1>3, SaveRegistryIs
  <2> DEFINE body == [NoBody EXCEPT !.locks = disk.locks, !.seal = seal]
  <2>2. Contents(body)
    BY <1>0 DEF Contents, NoBody, AtMostOne
  <2> HIDE DEF body
  <2> QED BY <1>3, <2>1, <2>2 DEF body, SaveRegistry
<1>4. CASE SavePrepared
  <2> DEFINE body == [NoBody EXCEPT !.prepared = disk.prepared]
  <2>1. \/ store' = store
        \/ /\ store' = store \cup {Entry(job.ref, {"prepare"}, job.result.prepare.key, body)}
           /\ Reservable(job.ref, {"prepare"}, job.result.prepare.key)
    BY <1>4, SavePreparedIs
  <2>2. Contents(body) /\ pc # "idle"
    BY <1>4, SavePreparedIs DEF Contents, NoBody, AtMostOne
  <2> HIDE DEF body
  <2> QED BY <2>1, <2>2
<1>5. CASE SaveTools
  <2> DEFINE body == [NoBody EXCEPT !.tools = TRUE]
  <2>1. \/ store' = store
        \/ /\ store' = store \cup {Entry(job.ref, {"tools"}, job.result.tools.key, body)}
           /\ Reservable(job.ref, {"tools"}, job.result.tools.key)
    BY <1>5, SaveToolsIs
  <2>2. Contents(body) /\ pc # "idle"
    BY <1>5, SaveToolsIs DEF Contents, NoBody, AtMostOne
  <2> HIDE DEF body
  <2> QED BY <2>1, <2>2
<1>6. CASE SaveLint
  <2> DEFINE body == [NoBody EXCEPT !.lint = disk.lint]
  <2>1. \/ store' = store
        \/ /\ store' = store \cup {Entry(job.ref, {"lint"}, job.result.lint.key, body)}
           /\ Reservable(job.ref, {"lint"}, job.result.lint.key)
    BY <1>6, SaveLintIs
  <2>2. Contents(body) /\ pc # "idle"
    BY <1>0, <1>6, SaveLintIs DEF Contents, NoBody, AtMostOne
  <2> HIDE DEF body
  <2> QED BY <2>1, <2>2
<1>7. CASE ~(SaveBuild \/ SaveTarget \/ SaveRegistry \/ SavePrepared \/ SaveTools \/ SaveLint)
  BY <1>7 DEF Next, Start, RestoreTarget, RestoreBuild, RestoreTools, Prepare, ExtractRegistry,
              CrossPrepare, Work, Cleanup, End, Finished, vars
<1> QED BY <1>1, <1>2, <1>3, <1>4, <1>5, <1>6, <1>7

LEMMA TypeStep == TypeInv /\ [Next]_vars => TypeInv'
<1> SUFFICES ASSUME TypeInv, Next PROVE TypeInv'
  <2>1. CASE UNCHANGED vars
    BY <2>1 DEF TypeInv, vars, JobTyped, Planned, RunsTyped, StoreTyped, DiskTyped, Contents
  <2> QED BY <2>1
<1>1. faults' \in 0 .. MaxFaults
  BY FaultsBounded
<1>2. StoreTyped'
  <2>1. CASE store' = store
    BY <2>1 DEF TypeInv, StoreTyped
  <2>2. CASE store' # store
    <3>1. PICK paths, key, body :
            /\ Contents(body) /\ Reservable(job.ref, paths, key)
            /\ store' = store \cup {Entry(job.ref, paths, key, body)}
      BY <2>2, StoreIs
    <3>2. job.ref \in {"main", "pull"}
      BY <2>2, StoreIs, Sure
    <3> QED BY <3>1, <3>2, StoreGrows DEF TypeInv
  <2> QED BY <2>1, <2>2
<1>3. CASE pc # "idle" /\ pc # "end"
  <2>1. /\ UNCHANGED <<workflow, n>> /\ pc' \in Stages
        /\ Decided(job') = Decided(job) /\ JobFields \subseteq DOMAIN job'
        /\ \/ UNCHANGED runs
           \/ \E r : runs' = [runs EXCEPT ![n] = r]
    BY <1>3, StepIs
  <2>2. DiskTyped'
    BY <1>3, DiskStep
  <2>3. JobTyped(job)'
    <3>1. Planned(job)
      BY <1>3, Sure
    <3>2. Planned(job)'
      BY <2>1, <3>1 DEF Planned, Decided
    <3> QED BY <2>1, <3>2 DEF JobTyped
  <2>4. RunsTyped' /\ Len(runs') = Len(runs)
    <3>1. CASE UNCHANGED runs
      BY <3>1 DEF TypeInv, RunsTyped
    <3>2. CASE \E r : runs' = [runs EXCEPT ![n] = r]
      <4>1. n \in 1 .. Len(runs)
        BY <1>3 DEF TypeInv
      <4>2. PICK r : runs' = [runs EXCEPT ![n] = r]
        BY <3>2
      <4>3. IsSeq([runs EXCEPT ![n] = r]) /\ Len([runs EXCEPT ![n] = r]) = Len(runs)
        BY <4>1, RunsChange DEF TypeInv
      <4> QED BY <4>2, <4>3 DEF RunsTyped
    <3> QED BY <2>1, <3>1, <3>2
  <2>5. pc' # "idle"
    BY <2>1, StagesAre
  <2> QED BY <1>1, <1>2, <1>3, <2>1, <2>2, <2>3, <2>4, <2>5 DEF TypeInv
<1>4. CASE Start
  <2>1. PICK r : runs' = Append(runs, r)
    BY <1>4, StartIs
  <2>2. RunsTyped' /\ Len(runs') = n
    <3>1. Len(runs) = n - 1
      BY <1>4, StartIs DEF TypeInv
    <3>2. IsSeq(Append(runs, r)) /\ Len(Append(runs, r)) = Len(runs) + 1
      BY RunsGrow DEF TypeInv
    <3>3. n \in Nat
      BY DEF TypeInv
    <3> QED BY <2>1, <3>1, <3>2, <3>3 DEF RunsTyped
  <2>3. UNCHANGED workflow /\ pc = "idle" /\ n <= Runs
    BY <1>4, StartIs
  <2>4. CASE n' = n + 1 /\ UNCHANGED <<pc, job, disk>>
    <3>1. DiskTyped' /\ n' \in 1 .. Runs + 1
      BY <2>3, <2>4, JourneyAssumption DEF TypeInv, DiskTyped, Contents
    <3> QED BY <1>1, <1>2, <2>2, <2>3, <2>4, <3>1 DEF TypeInv
  <2>5. CASE n' = n /\ pc' = "restoreTarget" /\ disk' = EmptyDisk /\ Begun(job')
    <3>1. DiskTyped'
      BY <2>5, NothingHeld DEF DiskTyped, Contents, EmptyDisk
    <3>2. JobTyped(job)'
      BY <2>3, <2>5 DEF Begun, JobTyped, Planned
    <3>3. pc' \in Stages /\ pc' # "idle"
      BY <2>5, StagesAre
    <3> QED BY <1>1, <1>2, <2>2, <2>3, <2>5, <3>1, <3>2, <3>3 DEF TypeInv
  <2> QED BY <1>4, <2>4, <2>5, StartIs
<1>5. CASE End
  <2>1. /\ n' = n + 1 /\ pc = "end" /\ pc' = "idle" /\ job' = NoJob /\ disk' = EmptyDisk
        /\ UNCHANGED workflow
    BY <1>5 DEF End
  <2>2. \E r : runs' = [runs EXCEPT ![n] = r]
    BY <1>5 DEF End
  <2>3. n \in 1 .. Len(runs) /\ Len(runs) = n /\ n <= Runs
    BY <2>1 DEF TypeInv
  <2>4. RunsTyped' /\ Len(runs') = n
    <3>1. PICK r : runs' = [runs EXCEPT ![n] = r]
      BY <2>2
    <3>2. IsSeq([runs EXCEPT ![n] = r]) /\ Len([runs EXCEPT ![n] = r]) = Len(runs)
      BY <2>3, RunsChange DEF TypeInv
    <3> QED BY <2>3, <3>1, <3>2 DEF RunsTyped
  <2>5. DiskTyped'
    BY <2>1, NothingHeld DEF DiskTyped, Contents, EmptyDisk
  <2> QED BY <1>1, <1>2, <2>1, <2>3, <2>4, <2>5, JourneyAssumption DEF TypeInv
<1>6. CASE Finished
  BY <1>6 DEF Finished, TypeInv, vars, JobTyped, Planned, RunsTyped, StoreTyped, DiskTyped, Contents
<1>7. CASE pc = "idle" /\ ~Start /\ ~Finished
  BY <1>7 DEF Next, RestoreTarget, RestoreBuild, RestoreTools, Prepare, ExtractRegistry,
              CrossPrepare, Work, Cleanup, SaveBuild, SaveTarget, SaveRegistry, SavePrepared,
              SaveTools, SaveLint, SaveLayer, End
<1>8. CASE pc = "end" /\ ~End /\ ~Finished
  BY <1>8 DEF Next, Start, RestoreTarget, RestoreBuild, RestoreTools, Prepare, ExtractRegistry,
              CrossPrepare, Work, Cleanup, SaveBuild, SaveTarget, SaveRegistry, SavePrepared,
              SaveTools, SaveLint, SaveLayer
<1> QED BY <1>3, <1>4, <1>5, <1>6, <1>7, <1>8

LEMMA InitTyped == Init => TypeInv
<1> SUFFICES ASSUME Init PROVE TypeInv
  OBVIOUS
<1>1. StoreTyped /\ RunsTyped /\ Len(runs) = 0
  BY FS_EmptySet, Tuples DEF Init, StoreTyped, RunsTyped
<1>2. DiskTyped
  BY NothingHeld DEF Init, DiskTyped, EmptyDisk
<1> QED BY <1>1, <1>2, JourneyAssumption DEF Init, TypeInv

LEMMA TypeInductive == Spec => []TypeInv
BY InitTyped, TypeStep, PTL DEF Spec

\* The types of the variables.
THEOREM TypeCorrect == Spec => []TypeOK
BY TypeInductive, TypeInvImplies, PTL

-----------------------------------------------------------------------------
(***************************************************************************)
(* The policy.  A job that did not fail has an artifact, and a layer with  *)
(* a step of its own is one the job published.                             *)
(***************************************************************************)
AfterWork ==
  {"cleanup", "saveBuild", "saveTarget", "saveRegistry", "savePrepared", "saveTools", "saveLint", "end"}

LEMMA SavingIs == Saving \cup {"cleanup"} = AfterWork
BY StagesAre DEF Saving, AfterWork

LEMMA LayersAre ==
  ASSUME NEW j, Planned(j), Umbrella(j.in)
  PROVE  /\ "toolchain" \in j.result.layers
         /\ MainBuildCacheEnabled(j.in) => "zccache-unit" \in j.result.layers
         /\ "target" \in j.result.target.paths => "target-tree" \in j.result.layers /\ ~CiTests(j.in)
         /\ j.result.target.on /\ "target" \notin j.result.target.paths
              => "target-bundle" \in j.result.layers
         /\ j.result.registry.on => "cargo-registry" \in j.result.layers
         /\ j.result.tools.on => "dylint-foundation" \in j.result.layers
         /\ j.result.lint.on => "dylint-output" \in j.result.layers
<1>1. PICK raw, host, lock, sha, parent :
        /\ j.in = Effective(raw)
        /\ j.result = resolveSetup(raw, host, Digest, lock, Manifest, sha, parent)
  BY DEF Planned
<1> DEFINE in        == j.in
           buildOn   == BuildCacheEnabled(in)
           requested == TargetCacheRequested(in)
           mode      == buildCacheMode(in, buildOn, requested)
           targetOn  == TargetCacheEnabled(buildOn, requested, mode, lock)
           tree      == targetOn /\ mode = "full"
           registryOn == CargoRegistryCacheEnabled(in)
           toolsOn   == DylintCacheEnabled(in)
           lintOn    == DylintOutputCacheEnabled(in)
<1>2. /\ j.result.layers = CachePolicyLayers(in, registryOn, buildOn, targetOn, tree, toolsOn, lintOn)
      /\ j.result.target.on = targetOn /\ j.result.target.paths = TargetCachePaths(targetOn, tree)
      /\ j.result.registry.on = registryOn /\ j.result.tools.on = toolsOn
      /\ j.result.lint.on = lintOn
  BY <1>1 DEF resolveSetup, TargetCache
<1>3. MainBuildCacheEnabled(in) => buildOn
  BY DEF MainBuildCacheEnabled, BuildCacheEnabled
<1>4. tree => ~CiTests(in)
  BY DEF TargetCacheEnabled, CiTestsTargetTreeRefusal, buildCacheMode
<1> HIDE DEF buildOn, requested, mode, targetOn, tree, registryOn, toolsOn, lintOn
<1>5. "target" \in j.result.target.paths <=> targetOn /\ tree
  BY <1>2 DEF TargetCachePaths
<1> QED BY <1>2, <1>3, <1>4, <1>5 DEF CachePolicyLayers

LEMMA SkippedIs ==
  ASSUME NEW j, Planned(j)
  PROVE  /\ "saveTools" \notin j.skipped <=> j.result.tools.on
         /\ "saveLint" \notin j.skipped <=> j.result.lint.on
         /\ "savePrepared" \notin j.skipped <=> j.result.prepare.on
         /\ j.result.prepare.on => "restoreTools" \notin j.skipped
<1>1. PICK plan : j.skipped = Skipped(plan.in, plan.host, j.result)
  BY DEF Planned
<1> QED BY <1>1 DEF Skipped

\* The job of the next state, where a step leaves it the same.
LEMMA SameJob ==
  ASSUME TypeInv, Next, pc # "idle", pc # "end"
  PROVE  /\ job'.in = job.in /\ job'.host = job.host /\ job'.save = job.save
         /\ job'.result = job.result /\ job'.sha = job.sha /\ job'.ref = job.ref
         /\ job'.skipped = job.skipped
<1>1. Decided(job') = Decided(job)
  BY StepIs
<1> QED BY <1>1 DEF Decided

LEMMA UpdatesMore ==
  ASSUME NEW F, NEW G, Updates(F), F \subseteq G
  PROVE  Updates(G)
BY DEF Updates

SaveStep == SaveBuild \/ SaveTarget \/ SaveRegistry \/ SavePrepared \/ SaveTools \/ SaveLint

\* The saves add to what was uploaded, and SaveBuild takes its snapshot.
LEMMA SaveStepIs ==
  ASSUME TypeInv, SaveStep
  PROVE  /\ Updates({"uploaded", "misses", "oversize"})
         /\ DiskFields \subseteq DOMAIN disk' /\ \A f \in DiskFields \ {"side"} : disk'[f] = disk[f]
         /\ pc # "idle" /\ pc # "end" /\ pc \in AfterWork
         /\ pc' \in AfterWork \ job.skipped /\ pc' \notin {"cleanup", "saveBuild"}
<1> DEFINE F == {"uploaded", "misses", "oversize"}
           Held == DiskFields \subseteq DOMAIN disk' /\ \A f \in DiskFields \ {"side"} : disk'[f] = disk[f]
<1>1. DiskUpdates({"side"}) => Held
  BY DEF DiskUpdates
<1>2. UNCHANGED disk => Held
  BY DEF TypeInv, DiskTyped
<1> HIDE DEF F, Held
<1>3. Updates({"uploaded"}) => Updates(F)
  BY UpdatesMore DEF F
<1>4. Updates({"uploaded", "oversize"}) => Updates(F)
  BY UpdatesMore DEF F
<1>5. pc # "idle" => job.skipped \subseteq Optional
  BY Sure
<1>6. CASE SaveBuild
  BY <1>1, <1>5, <1>6, SaveBuildIs DEF SaveBuild, AfterWork, Optional, F, Held
<1>7. CASE SaveTarget
  BY <1>2, <1>3, <1>5, <1>7, SaveTargetIs DEF SaveTarget, AfterWork, Optional, F, Held
<1>8. CASE SaveRegistry
  <2>1. pc' \in {"savePrepared", "saveTools", "saveLint", "end"} \ job.skipped /\ pc = "saveRegistry"
    BY <1>5, <1>8, AfterStep DEF SaveRegistry
  <2>2. Updates(F) /\ Held
    BY <1>2, <1>4, <1>8, SaveRegistryIs
  <2> QED BY <2>1, <2>2 DEF AfterWork, F, Held
<1>9. CASE SavePrepared
  <2>1. pc' \in {"saveTools", "saveLint", "end"} \ job.skipped /\ pc = "savePrepared"
    BY <1>5, <1>9, AfterStep, SavePreparedIs
  <2>2. Updates(F) /\ Held
    BY <1>2, <1>3, <1>9, SavePreparedIs
  <2> QED BY <2>1, <2>2 DEF AfterWork, F, Held
<1>10. CASE SaveTools
  <2>1. pc' \in {"saveLint", "end"} \ job.skipped /\ pc = "saveTools"
    BY <1>5, <1>10, AfterStep, SaveToolsIs
  <2>2. Updates(F) /\ Held
    BY <1>2, <1>3, <1>10, SaveToolsIs
  <2> QED BY <2>1, <2>2 DEF AfterWork, F, Held
<1>11. CASE SaveLint
  <2>1. pc' = "end" /\ pc = "saveLint"
    BY <1>5, <1>11, AfterStep, SaveLintIs
  <2>2. Updates(F) /\ Held
    BY <1>2, <1>3, <1>11, SaveLintIs
  <2> QED BY <1>5, <2>1, <2>2 DEF AfterWork, Optional, F, Held
<1> QED BY <1>6, <1>7, <1>8, <1>9, <1>10, <1>11 DEF SaveStep

\* No other step of a job touches what it uploaded.
MainStep ==
  \/ RestoreTarget \/ RestoreBuild \/ RestoreTools \/ Prepare \/ ExtractRegistry \/ CrossPrepare
  \/ Work \/ Cleanup

LEMMA MainStepIs ==
  ASSUME TypeInv, MainStep
  PROVE  job'.uploaded = job.uploaded /\ UNCHANGED <<store, runs>>
<1> DEFINE Same == job'.uploaded = job.uploaded
<1>1. \A F : Updates(F) /\ "uploaded" \notin F => Same
  BY DEF Updates, JobFields
<1> HIDE DEF Same
<1>2. CASE RestoreTarget
  BY <1>1, <1>2, RestoreTargetIs DEF RestoreTarget, Same
<1>3. CASE RestoreBuild
  <2>1. UNCHANGED <<store, runs>>
    BY <1>3 DEF RestoreBuild
  <2>2. CASE UNCHANGED job
    BY <2>1, <2>2 DEF Same
  <2>3. CASE Updates({"failed"})
    BY <1>1, <2>1, <2>3 DEF Same
  <2>4. CASE \E plan, found, result : RestoreFrom(plan, found, result)
    <3>1. Updates({"key", "writer", "donor", "matched", "hit", "replayed", "mtime"})
      BY <1>3, <2>4, Sure, RestoreFromIs DEF RestoreBuild
    <3> QED BY <1>1, <2>1, <3>1 DEF Same
  <2> QED BY <1>3, <2>2, <2>3, <2>4, RestoreBuildIs DEF Restores
<1>4. CASE RestoreTools
  BY <1>1, <1>4, RestoreToolsIs DEF RestoreTools, Same
<1>5. CASE Prepare
  BY <1>1, <1>5, PrepareIs DEF Prepare, Same
<1>6. CASE ExtractRegistry
  BY <1>1, <1>6, ExtractRegistryIs DEF ExtractRegistry, Same
<1>7. CASE CrossPrepare
  BY <1>1, <1>7, CrossPrepareIs DEF CrossPrepare, Same
<1>8. CASE Work
  BY <1>1, <1>8, WorkIs DEF Work, Same
<1>9. CASE Cleanup
  BY <1>1, <1>9, CleanupIs DEF Cleanup, Same
<1> QED BY <1>2, <1>3, <1>4, <1>5, <1>6, <1>7, <1>8, <1>9 DEF MainStep, Same

\* What the next state may come of.
LEMMA StepCases ==
  ASSUME TypeInv, Next
  PROVE  \/ pc # "idle" /\ pc # "end" /\ (MainStep \/ SaveStep)
         \/ Start \/ End \/ UNCHANGED vars
BY DEF Next, MainStep, SaveStep, Finished, RestoreTarget, RestoreBuild, RestoreTools, Prepare,
       ExtractRegistry, CrossPrepare, Work, Cleanup, SaveBuild, SaveTarget, SaveRegistry,
       SavePrepared, SaveTools, SaveLint, SaveLayer

Control ==
  pc # "idle" => /\ pc \notin job.skipped
                 /\ pc \in AfterWork /\ ~job.failed => disk.tree # <<>>

LEMMA ControlStep ==
  ASSUME TypeInv, Control, Next
  PROVE  Control'
<1>1. CASE pc # "idle" /\ pc # "end" /\ (MainStep \/ SaveStep)
  <2>0. job'.skipped = job.skipped /\ job.skipped \subseteq Optional
    BY <1>1, SameJob, Sure
  <2>1. CASE RestoreTarget
    BY <2>0, <2>1 DEF Control, RestoreTarget, AfterWork, Optional
  <2>2. CASE RestoreBuild
    <3>1. pc' = After(job) \/ (pc' = "saveBuild" /\ job'.failed = TRUE)
      BY <2>2, RestoreBuildIs
    <3>2. pc' = After(job) => pc' \in {"restoreTools", "prepare"} \ job.skipped
      BY <2>0, <2>2, AfterStep DEF RestoreBuild
    <3> QED BY <2>0, <3>1, <3>2 DEF Control, AfterWork, Optional
  <2>3. CASE RestoreTools
    <3>1. pc' = "prepare"
      BY <2>0, <2>3, AfterStep DEF RestoreTools
    <3> QED BY <2>0, <3>1 DEF Control, AfterWork, Optional
  <2>4. CASE Prepare
    <3>1. pc' = After(job) \/ (pc' = "saveBuild" /\ job'.failed = TRUE)
      BY <2>4, PrepareIs
    <3>2. pc' = After(job) => pc' = "extractRegistry"
      BY <2>0, <2>4, AfterStep DEF Prepare
    <3> QED BY <2>0, <3>1, <3>2 DEF Control, AfterWork, Optional
  <2>5. CASE ExtractRegistry
    <3>1. pc' = (IF job'.failed THEN "saveBuild" ELSE After(job)) /\ job'.failed \in BOOLEAN
      BY <2>5, ExtractRegistryIs
    <3>2. pc' = After(job) => pc' \in {"crossPrepare", "work"} \ job.skipped
      BY <2>0, <2>5, AfterStep DEF ExtractRegistry
    <3> QED BY <2>0, <3>1, <3>2 DEF Control, AfterWork, Optional
  <2>6. CASE CrossPrepare
    <3>1. pc' = (IF job'.failed THEN "saveBuild" ELSE After(job)) /\ job'.failed \in BOOLEAN
      BY <2>6, CrossPrepareIs
    <3>2. pc' = After(job) => pc' = "work"
      BY <2>0, <2>6, AfterStep DEF CrossPrepare
    <3> QED BY <2>0, <3>1, <3>2 DEF Control, AfterWork, Optional
  <2>7. CASE Work
    <3>1. pc' \in {"cleanup", "saveBuild"} \ job.skipped
      BY <2>0, <2>7, AfterStep DEF Work
    <3>2. disk'.tree = IF Fresh(job) THEN disk.tree ELSE <<Output(job)>>
      BY <2>7, WorkIs
    <3>3. disk'.tree # <<>>
      BY <3>2 DEF Fresh
    <3> QED BY <2>0, <3>1, <3>3 DEF Control
  <2>8. CASE Cleanup
    <3>1. pc' = "saveBuild" /\ UNCHANGED disk /\ (job.failed => job'.failed) /\ pc = "cleanup"
      BY <2>8, CleanupIs DEF Cleanup
    <3> QED BY <2>0, <3>1 DEF Control, AfterWork, Optional
  <2>9. CASE SaveStep
    <3>1. job'.failed = job.failed /\ disk'.tree = disk.tree
      BY <2>9, SaveStepIs DEF Updates, JobFields, DiskFields
    <3> QED BY <2>0, <2>9, <3>1, SaveStepIs DEF Control
  <2> QED BY <1>1, <2>1, <2>2, <2>3, <2>4, <2>5, <2>6, <2>7, <2>8, <2>9 DEF MainStep
<1>2. CASE Start
  <2>1. CASE n' = n /\ pc' = "restoreTarget" /\ disk' = EmptyDisk /\ Begun(job')
    <3>1. job'.skipped \subseteq Optional
      BY <2>1, PlannedIs DEF TypeInv, Begun, JobTyped
    <3> QED BY <2>1, <3>1 DEF Control, AfterWork, Optional
  <2>2. CASE UNCHANGED <<pc, job, disk>>
    BY <2>2 DEF Control
  <2> QED BY <1>2, <2>1, <2>2, StartIs
<1>3. CASE End
  BY <1>3 DEF End, Control
<1>4. CASE UNCHANGED vars
  BY <1>4 DEF vars, Control
<1> QED BY <1>1, <1>2, <1>3, <1>4, StepCases

Policies ==
  pc # "idle" /\ Umbrella(job.in) =>
    /\ job.uploaded \subseteq job.result.layers
    /\ CiTests(job.in) => "target-tree" \notin job.uploaded

LEMMA PolicyStep ==
  ASSUME TypeInv, Control, Policies, Next
  PROVE  Policies'
<1>1. CASE pc # "idle" /\ pc # "end" /\ (MainStep \/ SaveStep)
  <2>0. /\ job'.in = job.in /\ job'.result = job.result /\ Planned(job)
    BY <1>1, SameJob, Sure
  <2> SUFFICES ASSUME Umbrella(job.in)
               PROVE  /\ job'.uploaded \subseteq job.result.layers
                      /\ CiTests(job.in) => "target-tree" \notin job'.uploaded
    BY <2>0 DEF Policies
  <2>1. /\ job.uploaded \subseteq job.result.layers
        /\ CiTests(job.in) => "target-tree" \notin job.uploaded
    BY <1>1 DEF Policies
  <2>2. CASE job'.uploaded = job.uploaded
    BY <2>1, <2>2
  <2>3. CASE SaveBuild
    <3>1. job'.uploaded # job.uploaded =>
            MainBuildCacheEnabled(job.in) /\ job'.uploaded = job.uploaded \cup {"zccache-unit"}
      BY <2>3, SaveBuildIs DEF SavesBuild
    <3> QED BY <2>0, <2>1, <3>1, LayersAre
  <2>4. CASE SaveTarget
    <3> DEFINE paths == ExistingPaths(job)
               label == IF "target" \in paths THEN "target-tree" ELSE "target-bundle"
    <3>1. CASE job'.uploaded # job.uploaded
      <4>1. SavesTarget(job) /\ job'.uploaded = job.uploaded \cup {label}
        BY <2>4, <3>1, SaveTargetIs
      <4>2. disk.tree # <<>> /\ job.result.target.on
        BY <1>1, <2>4, <4>1 DEF Control, SaveTarget, SavesTarget, BuildOutputGate, AfterWork
      <4>3. "target" \in paths <=> "target" \in job.result.target.paths
        BY <4>2 DEF ExistingPaths
      <4> HIDE DEF paths
      <4> QED BY <2>0, <2>1, <4>1, <4>2, <4>3, LayersAre
    <3> QED BY <2>1, <3>1
  <2>5. CASE SaveRegistry
    <3>1. job'.uploaded # job.uploaded =>
            job.result.registry.on /\ job'.uploaded = job.uploaded \cup {"cargo-registry"}
      BY <2>5, SaveRegistryIs DEF SavesRegistry
    <3> QED BY <2>0, <2>1, <3>1, LayersAre
  <2>6. CASE SavePrepared
    <3>1. job'.uploaded # job.uploaded => job'.uploaded = job.uploaded \cup {"toolchain"}
      BY <2>6, SavePreparedIs
    <3> QED BY <2>0, <2>1, <3>1, LayersAre
  <2>7. CASE SaveTools
    <3>1. /\ job'.uploaded # job.uploaded => job'.uploaded = job.uploaded \cup {"dylint-foundation"}
          /\ pc = "saveTools"
      BY <2>7, SaveToolsIs
    <3>2. job.result.tools.on
      BY <1>1, <2>0, <3>1, SkippedIs DEF Control
    <3> QED BY <2>0, <2>1, <3>1, <3>2, LayersAre
  <2>8. CASE SaveLint
    <3>1. /\ job'.uploaded # job.uploaded => job'.uploaded = job.uploaded \cup {"dylint-output"}
          /\ pc = "saveLint"
      BY <2>8, SaveLintIs
    <3>2. job.result.lint.on
      BY <1>1, <2>0, <3>1, SkippedIs DEF Control
    <3> QED BY <2>0, <2>1, <3>1, <3>2, LayersAre
  <2>9. CASE MainStep
    BY <2>2, <2>9, MainStepIs
  <2> QED BY <1>1, <2>3, <2>4, <2>5, <2>6, <2>7, <2>8, <2>9 DEF SaveStep
<1>2. CASE Start
  BY <1>2, StartIs DEF Policies, Begun
<1>3. CASE End
  BY <1>3 DEF End, Policies
<1>4. CASE UNCHANGED vars
  BY <1>4 DEF vars, Policies
<1> QED BY <1>1, <1>2, <1>3, <1>4, StepCases

LEMMA ControlInductive == Spec => []Control
<1>1. Init => Control
  BY DEF Init, Control
<1>2. TypeInv /\ Control /\ [Next]_vars => Control'
  <2>1. TypeInv /\ Control /\ UNCHANGED vars => Control'
    BY DEF Control, vars
  <2> QED BY <2>1, ControlStep
<1> QED BY <1>1, <1>2, TypeInductive, PTL DEF Spec

\* Under the umbrella switch a job uploads no layer it did not publish in its
\* policy, and a lane of test binaries never uploads a bulk target tree.
THEOREM PoliciesHonest == Spec => []PolicyHonest
<1>1. Init => Policies
  BY DEF Init, Policies
<1>2. TypeInv /\ Control /\ Policies /\ [Next]_vars => Policies'
  <2>1. Policies /\ UNCHANGED vars => Policies'
    BY DEF Policies, vars
  <2> QED BY <2>1, PolicyStep
<1>3. TypeInv /\ Policies => PolicyHonest
  BY StagesAre DEF Policies, PolicyHonest
<1> QED BY <1>1, <1>2, <1>3, TypeInductive, ControlInductive, PTL DEF Spec

-----------------------------------------------------------------------------
(***************************************************************************)
(* Provenance.  f[r] is the source run r built from: every output and every*)
(* sidecar, in an entry or on the disk, is of a run no later than this one *)
(* and of what that run built from.                                        *)
(***************************************************************************)
Bound == IF pc \in AfterWork THEN n ELSE n - 1

Known(f, m, x) == x.run \in 1 .. m /\ x.content = f[x.run]

Made(f, m, b) ==
  /\ b.tree # <<>> => Known(f, m, b.tree[1]) /\ b.tree[1].built = 2 * b.tree[1].run + 1
  /\ b.lint # <<>> => Known(f, m, b.lint[1]) /\ b.lint[1].built = 2 * b.lint[1].run + 1
  /\ b.side # <<>> => Known(f, m, b.side[1])

Provenance(f) ==
  /\ f = [r \in Nat |-> f[r]]
  /\ \A e \in store : Made(f, Bound, e.body)
  /\ Made(f, Bound, disk)
  /\ pc # "idle" => /\ f[n] = Content[job.sha]
                    /\ job.replayed # 0 => f[job.replayed] = Content[job.sha]

\* The mtime of the source is the one of the checkout unless it was replayed.
Told(x) == x.content = Content[job.sha] \/ job.replayed \notin {0, x.run}

Normalized == job.in.sourceMtimeNormalize \in Truthy

Snapshots ==
  pc # "idle" =>
    /\ pc \in {"restoreTarget", "restoreBuild"} => job.replayed = 0
    /\ pc \notin AfterWork => job.compiled = 0 /\ ~job.linted
    /\ ~Normalized /\ job.replayed = 0 => job.mtime = 2 * n
    /\ pc \in AfterWork /\ ~Normalized =>
         /\ disk.tree # <<>> /\ ~(job.failed /\ job.compiled = 0) => Told(disk.tree[1])
         /\ job.linted => Told(disk.lint[1])

LEMMA MadeMore ==
  ASSUME NEW f, NEW g, NEW m \in Int, NEW k \in Int, m <= k, \A r \in 1 .. m : g[r] = f[r],
         NEW b, Made(f, m, b)
  PROVE  Made(g, k, b)
<1>1. \A x : Known(f, m, x) => Known(g, k, x)
  BY DEF Known
<1> QED BY <1>1 DEF Made

LEMMA NothingMade ==
  \A f, m : Made(f, m, EmptyDisk) /\ Made(f, m, NoBody)
BY DEF Made, EmptyDisk, NoBody

LEMMA BoundIs == TypeInv => Bound \in Int /\ n \in Int /\ Bound <= n
BY DEF Bound, TypeInv

\* Where the build's outputs go to on the disk.
LEMMA MainMade ==
  ASSUME TypeInv, Next, MainStep, pc # "idle", NEW f, Provenance(f)
  PROVE  Made(f, Bound', disk')
<1>0. /\ Bound \in Int /\ Bound' \in Int /\ n \in Int /\ Bound <= n /\ DiskFields \subseteq DOMAIN disk
      /\ n' = n /\ JobFields \subseteq DOMAIN job
  <2>1. UNCHANGED n
    BY DEF MainStep, RestoreTarget, RestoreBuild, RestoreTools, Prepare, ExtractRegistry,
           CrossPrepare, Work, Cleanup
  <2> QED BY <2>1, BoundIs, Sure DEF Bound
<1>1. Bound <= Bound' \/ pc' \notin AfterWork
  BY <1>0 DEF Bound
<1>2. Made(f, Bound, disk) /\ \A e \in store : Made(f, Bound, e.body)
  BY DEF Provenance
<1>3. \A found, paths : Found(found, job.ref, paths) /\ found # {} => Made(f, Bound, Body(found))
  BY <1>2 DEF Found
<1>4. pc \notin AfterWork \/ pc = "cleanup"
  BY DEF MainStep, RestoreTarget, RestoreBuild, RestoreTools, Prepare, ExtractRegistry,
         CrossPrepare, Work, Cleanup, AfterWork
<1>5. pc # "cleanup" => Bound <= Bound'
  BY <1>0, <1>4 DEF Bound
<1>6. \A b : Made(f, Bound, b) /\ Bound <= Bound' => Made(f, Bound', b)
  BY <1>0, MadeMore
<1>7. CASE RestoreTarget
  <2>1. PICK found : /\ Found(found, job.ref, job.result.target.paths)
                     /\ disk'.tree = IF found = {} THEN disk.tree ELSE Body(found).tree
    BY <1>7, RestoreTargetIs
  <2>2. disk'.lint = disk.lint /\ disk'.side = disk.side
    BY <1>7, RestoreTargetIs DEF DiskUpdates, DiskFields
  <2>3. found # {} => Made(f, Bound, Body(found))
    BY <1>3, <2>1
  <2>4. Made(f, Bound, disk')
    BY <1>2, <2>1, <2>2, <2>3 DEF Made
  <2> QED BY <1>5, <1>6, <1>7, <2>4 DEF RestoreTarget
<1>8. CASE RestoreBuild
  <2>1. CASE \E down \in BOOLEAN : \E found, result : Restores(BuildPlan(job, down), found, result)
    <3>1. PICK plan, found, result : Restores(plan, found, result)
      BY <2>1
    <3>2. DiskUpdates({"units", "side"}) /\ disk'.side = result.side
      BY <1>0, <3>1, RestoreFromIs DEF Restores
    <3>3. disk'.lint = disk.lint /\ disk'.tree = disk.tree
      BY <3>2 DEF DiskUpdates, DiskFields
    <3>4. result.side = <<>> \/ (found # {} /\ result.side = Body(found).side)
      BY <3>1 DEF Restores, Nothing
    <3>5. found # {} => Made(f, Bound, Body(found))
      BY <1>3, <3>1 DEF Restores
    <3>6. Made(f, Bound, disk')
      BY <1>2, <3>2, <3>3, <3>4, <3>5 DEF Made
    <3> QED BY <1>5, <1>6, <1>8, <3>6 DEF RestoreBuild
  <2>2. CASE UNCHANGED disk
    BY <1>2, <1>5, <1>6, <1>8, <2>2 DEF RestoreBuild
  <2> QED BY <1>8, <2>1, <2>2, RestoreBuildIs
<1>9. CASE RestoreTools
  <2>1. PICK lint : /\ Found(lint, job.ref, {"lint"})
                    /\ disk'.lint = IF lint = {} THEN <<>> ELSE Body(lint).lint
    BY <1>9, RestoreToolsIs
  <2>2. disk'.tree = disk.tree /\ disk'.side = disk.side
    BY <1>9, RestoreToolsIs DEF DiskUpdates, DiskFields
  <2>3. lint # {} => Made(f, Bound, Body(lint))
    BY <1>3, <2>1
  <2>4. Made(f, Bound, disk')
    BY <1>2, <2>1, <2>2, <2>3 DEF Made
  <2> QED BY <1>5, <1>6, <1>9, <2>4 DEF RestoreTools
<1>10. CASE Prepare \/ ExtractRegistry \/ CrossPrepare
  <2>1. DiskUpdates({"tools"}) \/ DiskUpdates({"locks"}) \/ DiskUpdates({"prepared"})
    BY <1>10, PrepareIs, ExtractRegistryIs, CrossPrepareIs
  <2>2. disk'.tree = disk.tree /\ disk'.lint = disk.lint /\ disk'.side = disk.side
    BY <2>1 DEF DiskUpdates, DiskFields
  <2>3. Made(f, Bound, disk')
    BY <1>2, <2>2 DEF Made
  <2> QED BY <1>5, <1>6, <1>10, <2>3 DEF Prepare, ExtractRegistry, CrossPrepare
<1>11. CASE Work
  <2>1. /\ DiskUpdates({"units", "tree", "bundle", "locks", "tools", "lint"})
        /\ disk'.tree = IF Fresh(job) THEN disk.tree ELSE <<Output(job)>>
        /\ disk'.lint = disk.lint \/ disk'.lint = <<LintOutput(job)>>
    BY <1>11, WorkIs
  <2>2. disk'.side = disk.side
    BY <2>1 DEF DiskUpdates, DiskFields
  <2>3. Bound' = n /\ n \in 1 .. n /\ Bound <= Bound'
    <3>1. pc' \in AfterWork
      BY <1>11, WorkIs, AfterStep, Sure DEF Work, AfterWork
    <3> QED BY <1>0, <3>1 DEF TypeInv, Bound
  <2>4. Output(job).run = n /\ Output(job).content = Content[job.sha] /\ Output(job).built = 2 * n + 1
    BY DEF Output
  <2>5. LintOutput(job).run = n /\ LintOutput(job).content = Content[job.sha]
        /\ LintOutput(job).built = 2 * n + 1
    BY DEF Output, LintOutput
  <2>6. f[n] = Content[job.sha]
    BY DEF Provenance
  <2>7. Made(f, Bound', disk)
    BY <1>2, <1>6, <2>3
  <2> HIDE DEF Bound
  <2> QED BY <2>1, <2>2, <2>3, <2>4, <2>5, <2>6, <2>7 DEF Made, Known
<1>12. CASE Cleanup
  <2>1. UNCHANGED disk /\ Bound' = Bound
    BY <1>0, <1>12, CleanupIs DEF Cleanup, Bound, AfterWork
  <2> QED BY <1>2, <2>1
<1> QED BY <1>7, <1>8, <1>9, <1>10, <1>11, <1>12 DEF MainStep

LEMMA SaveMade ==
  ASSUME TypeInv, SaveStep, NEW f, Provenance(f)
  PROVE  /\ Bound' = Bound /\ Made(f, Bound, disk')
         /\ \A e \in store' : Made(f, Bound, e.body)
<1>0. /\ n' = n /\ Bound = n /\ Bound' = n /\ n \in 1 .. n
  <2>1. pc \in AfterWork /\ pc' \in AfterWork
    BY SaveStepIs
  <2>2. n' = n
    BY DEF SaveStep, SaveBuild, SaveTarget, SaveRegistry, SavePrepared, SaveTools, SaveLint, SaveLayer
  <2> QED BY <2>1, <2>2 DEF Bound, TypeInv
<1>1. Made(f, n, disk) /\ \A e \in store : Made(f, n, e.body)
  BY <1>0 DEF Provenance
<1>2. f[n] = Content[job.sha]
  BY SaveStepIs DEF Provenance
<1>3. \A b \in {NoBody} : b.tree = <<>> /\ b.lint = <<>> /\ b.side = <<>>
  BY DEF NoBody
<1>4. \A paths, key, body :
        Made(f, n, body) /\ store' = store \cup {Entry(job.ref, paths, key, body)}
          => \A e \in store' : Made(f, n, e.body)
  BY <1>1 DEF Entry
<1>5. UNCHANGED store => \A e \in store' : Made(f, n, e.body)
  BY <1>1
<1>6. UNCHANGED disk => Made(f, n, disk')
  BY <1>1
<1>7. CASE SaveBuild
  <2> DEFINE paths == SavedPaths(job, "dir")
  <2>1. PICK git \in BOOLEAN, packed \in SUBSET disk.units :
          \E seal :
            LET body == [NoBody EXCEPT !.units = packed, !.side = disk'.side, !.seal = seal]
            IN  /\ disk'.side = Snapshot(job, git)
                /\ store' = store \/ store' = store \cup {Entry(job.ref, paths, job.key, body)}
    BY <1>7, SaveBuildIs
  <2>2. PICK seal :
          LET body == [NoBody EXCEPT !.units = packed, !.side = disk'.side, !.seal = seal]
          IN  /\ disk'.side = Snapshot(job, git)
              /\ store' = store \/ store' = store \cup {Entry(job.ref, paths, job.key, body)}
    BY <2>1
  <2>3. disk'.side # <<>> => Known(f, n, disk'.side[1])
    <3>1. disk'.side = disk.side
            \/ disk'.side = <<[content |-> Content[job.sha], mtime |-> job.mtime, run |-> n]>>
      BY <2>2 DEF Snapshot
    <3>2. CASE disk'.side = disk.side
      BY <1>1, <3>2 DEF Made
    <3>3. CASE disk'.side = <<[content |-> Content[job.sha], mtime |-> job.mtime, run |-> n]>>
      <4>1. disk'.side[1].run = n /\ disk'.side[1].content = Content[job.sha]
        BY <3>3
      <4> QED BY <1>0, <1>2, <4>1 DEF Known
    <3> QED BY <3>1, <3>2, <3>3
  <2>4. disk'.tree = disk.tree /\ disk'.lint = disk.lint
    BY <1>7, SaveStepIs DEF SaveStep, DiskFields
  <2>5. Made(f, n, disk')
    BY <1>1, <2>3, <2>4 DEF Made
  <2> DEFINE body == [NoBody EXCEPT !.units = packed, !.side = disk'.side, !.seal = seal]
  <2>6. Made(f, n, body)
    BY <2>3 DEF Made, NoBody
  <2> HIDE DEF body, paths
  <2>7. \A e \in store' : Made(f, n, e.body)
    BY <1>4, <1>5, <2>2, <2>6 DEF body
  <2> QED BY <1>0, <2>5, <2>7
<1>8. CASE SaveTarget
  <2> DEFINE paths == ExistingPaths(job)
             body  == [NoBody EXCEPT !.tree   = IF "target" \in paths THEN disk.tree ELSE <<>>,
                                     !.bundle = "bundle" \in paths]
  <2>1. store' = store \/ store' = store \cup {Entry(job.ref, paths, job.result.target.key, body)}
    BY <1>8, SaveTargetIs
  <2>2. Made(f, n, body)
    BY <1>1 DEF Made, NoBody
  <2> HIDE DEF body, paths
  <2> QED BY <1>0, <1>4, <1>5, <1>6, <1>8, <2>1, <2>2, SaveTargetIs
<1>9. CASE SaveRegistry
  <2>1. PICK paths, seal :
          store' = store \/ store' = store \cup {Entry(job.ref, paths, job.result.registry.key,
                              [NoBody EXCEPT !.locks = disk.locks, !.seal = seal])}
    BY <1>9, SaveRegistryIs
  <2> DEFINE body == [NoBody EXCEPT !.locks = disk.locks, !.seal = seal]
  <2>2. Made(f, n, body)
    BY DEF Made, NoBody
  <2> HIDE DEF body
  <2> QED BY <1>0, <1>4, <1>5, <1>6, <1>9, <2>1, <2>2, SaveRegistryIs DEF body
<1>10. CASE SavePrepared
  <2> DEFINE body == [NoBody EXCEPT !.prepared = disk.prepared]
  <2>1. store' = store \/ store' = store \cup {Entry(job.ref, {"prepare"}, job.result.prepare.key, body)}
    BY <1>10, SavePreparedIs
  <2>2. Made(f, n, body)
    BY DEF Made, NoBody
  <2> HIDE DEF body
  <2> QED BY <1>0, <1>4, <1>5, <1>6, <1>10, <2>1, <2>2, SavePreparedIs
<1>11. CASE SaveTools
  <2> DEFINE body == [NoBody EXCEPT !.tools = TRUE]
  <2>1. store' = store \/ store' = store \cup {Entry(job.ref, {"tools"}, job.result.tools.key, body)}
    BY <1>11, SaveToolsIs
  <2>2. Made(f, n, body)
    BY DEF Made, NoBody
  <2> HIDE DEF body
  <2> QED BY <1>0, <1>4, <1>5, <1>6, <1>11, <2>1, <2>2, SaveToolsIs
<1>12. CASE SaveLint
  <2> DEFINE body == [NoBody EXCEPT !.lint = disk.lint]
  <2>1. store' = store \/ store' = store \cup {Entry(job.ref, {"lint"}, job.result.lint.key, body)}
    BY <1>12, SaveLintIs
  <2>2. Made(f, n, body)
    BY <1>1 DEF Made, NoBody
  <2> HIDE DEF body
  <2> QED BY <1>0, <1>4, <1>5, <1>6, <1>12, <2>1, <2>2, SaveLintIs
<1> QED BY <1>7, <1>8, <1>9, <1>10, <1>11, <1>12 DEF SaveStep

\* What a job replays is of the source it has.
LEMMA ReplayIs ==
  ASSUME TypeInv, Next, MainStep, pc # "idle", NEW f, Provenance(f)
  PROVE  /\ job'.sha = job.sha
         /\ \/ job'.replayed = job.replayed /\ job'.mtime = job.mtime
            \/ pc = "restoreBuild" /\ job'.replayed = 0 /\ job'.mtime = job.mtime
            \/ pc = "restoreBuild" /\ job'.replayed # 0 /\ f[job'.replayed] = Content[job.sha]
<1>0. pc # "end"
  BY DEF MainStep, RestoreTarget, RestoreBuild, RestoreTools, Prepare, ExtractRegistry,
         CrossPrepare, Work, Cleanup
<1>1. job'.sha = job.sha
  BY <1>0, SameJob
<1> DEFINE Same == job'.replayed = job.replayed /\ job'.mtime = job.mtime
<1>2. \A F : Updates(F) /\ "replayed" \notin F /\ "mtime" \notin F => Same
  BY DEF Updates, JobFields
<1>3. CASE RestoreBuild
  <2>1. CASE \E down \in BOOLEAN : \E found, result : Restores(BuildPlan(job, down), found, result)
    <3>1. PICK plan, found, result : Restores(plan, found, result)
      BY <2>1
    <3>2. \/ job'.replayed = 0 /\ job'.mtime = job.mtime
          \/ /\ Replayable(job, result.side) /\ job'.replayed = result.side[1].run
      BY <3>1, Sure, RestoreFromIs DEF Restores
    <3>3. CASE Replayable(job, result.side) /\ job'.replayed = result.side[1].run
      <4>1. result.side # <<>> /\ result.side[1].content = Content[job.sha]
        BY <3>3 DEF Replayable
      <4>2. found # {} /\ result.side = Body(found).side
        BY <3>1, <4>1 DEF Restores, Nothing
      <4>3. Made(f, Bound, Body(found))
        BY <3>1, <4>2 DEF Restores, Found, Provenance
      <4>4. Known(f, Bound, result.side[1])
        BY <4>1, <4>2, <4>3 DEF Made
      <4>5. Bound \in Int
        BY BoundIs
      <4> QED BY <1>1, <1>3, <3>3, <4>1, <4>4, <4>5 DEF Known, RestoreBuild
    <3> QED BY <1>1, <1>3, <3>2, <3>3 DEF RestoreBuild
  <2>2. CASE UNCHANGED job
    BY <1>1, <2>2
  <2>3. CASE Updates({"failed"})
    BY <1>1, <1>2, <2>3
  <2> QED BY <1>3, <2>1, <2>2, <2>3, RestoreBuildIs
<1> HIDE DEF Same
<1>4. CASE RestoreTarget
  BY <1>1, <1>2, <1>4, RestoreTargetIs DEF Same
<1>5. CASE RestoreTools
  BY <1>1, <1>2, <1>5, RestoreToolsIs DEF Same
<1>6. CASE Prepare
  BY <1>1, <1>2, <1>6, PrepareIs DEF Same
<1>7. CASE ExtractRegistry
  BY <1>1, <1>2, <1>7, ExtractRegistryIs DEF Same
<1>8. CASE CrossPrepare
  BY <1>1, <1>2, <1>8, CrossPrepareIs DEF Same
<1>9. CASE Work
  BY <1>1, <1>2, <1>9, WorkIs DEF Same
<1>10. CASE Cleanup
  BY <1>1, <1>2, <1>10, CleanupIs DEF Same
<1> QED BY <1>3, <1>4, <1>5, <1>6, <1>7, <1>8, <1>9, <1>10 DEF MainStep

LEMMA ProvenanceStep ==
  ASSUME TypeInv, Next, \E f : Provenance(f)
  PROVE  (\E f : Provenance(f))'
<1>1. PICK f : Provenance(f)
  OBVIOUS
<1>2. CASE pc # "idle" /\ pc # "end" /\ MainStep
  <2>1. Made(f, Bound', disk')
    BY <1>1, <1>2, MainMade
  <2>2. UNCHANGED <<store, n>> /\ job'.sha = job.sha /\ Bound \in Int
    BY <1>2, MainStepIs, SameJob, StepIs, BoundIs
  <2>3. \A e \in store' : Made(f, Bound', e.body)
    <3>0. pc \notin AfterWork \/ (pc = "cleanup" /\ pc' = "saveBuild")
      BY <1>2 DEF MainStep, RestoreTarget, RestoreBuild, RestoreTools,
         Prepare, ExtractRegistry, CrossPrepare, Work, Cleanup, AfterWork
    <3>1. Bound <= Bound'
      BY <2>2, <3>0 DEF Bound, TypeInv, AfterWork
    <3>2. Bound' \in Int
      BY <2>2 DEF Bound, TypeInv
    <3> QED BY <1>1, <2>2, <3>1, <3>2, MadeMore DEF Provenance
  <2>4. f[n'] = Content[job'.sha] /\ (job'.replayed # 0 => f[job'.replayed] = Content[job'.sha])
    BY <1>1, <1>2, <2>2, ReplayIs DEF Provenance
  <2>5. Provenance(f)'
    BY <1>1, <2>1, <2>3, <2>4 DEF Provenance
  <2> QED BY <2>5
<1>3. CASE pc # "idle" /\ pc # "end" /\ SaveStep
  <2>1. Bound' = Bound /\ Made(f, Bound, disk') /\ \A e \in store' : Made(f, Bound, e.body)
    BY <1>1, <1>3, SaveMade
  <2>2. UNCHANGED n /\ job'.sha = job.sha
    BY <1>3, SameJob, StepIs
  <2>3. job'.replayed = job.replayed
    BY <1>3, SaveStepIs DEF Updates, JobFields
  <2>4. Provenance(f)'
    BY <1>1, <1>3, <2>1, <2>2, <2>3 DEF Provenance
  <2> QED BY <2>4
<1>4. CASE Start
  <2>1. pc = "idle" /\ store' = store /\ Bound = n - 1 /\ n \in Nat
    BY <1>4, StartIs DEF Bound, AfterWork, TypeInv
  <2>2. CASE n' = n + 1 /\ UNCHANGED <<pc, job, disk>>
    <3>1. Bound' = n /\ Bound <= Bound' /\ Bound \in Int /\ Bound' \in Int
      BY <2>1, <2>2 DEF Bound, AfterWork
    <3>2. Made(f, Bound', disk') /\ \A e \in store' : Made(f, Bound', e.body)
      <4>1. \A b : Made(f, Bound, b) => Made(f, Bound', b)
        BY <3>1, MadeMore
      <4> QED BY <1>1, <2>1, <2>2, <4>1 DEF Provenance
    <3>3. Provenance(f)'
      BY <1>1, <2>1, <2>2, <3>2 DEF Provenance
    <3> QED BY <3>3
  <2>3. CASE n' = n /\ pc' = "restoreTarget" /\ disk' = EmptyDisk /\ Begun(job')
    <3>1. PICK g : /\ g = [r \in Nat |-> g[r]] /\ g[n] = Content[job'.sha]
                   /\ \A r \in 1 .. Bound : g[r] = f[r]
      <4> DEFINE h == [f EXCEPT ![n] = Content[job'.sha]]
      <4>1. h = [r \in Nat |-> h[r]] /\ h[n] = Content[job'.sha] /\ \A r \in 1 .. n - 1 : h[r] = f[r]
        BY <1>1, <2>1 DEF Provenance
      <4> HIDE DEF h
      <4> QED BY <2>1, <4>1
    <3>2. Bound' = n - 1
      BY <2>1, <2>3 DEF Bound, AfterWork
    <3>3. Made(g, Bound', disk')
      BY <2>3, NothingMade
    <3>4. \A e \in store' : Made(g, Bound', e.body)
      <4>1. /\ Bound \in Int /\ Bound' = Bound /\ Bound <= Bound
            /\ \A r \in 1 .. Bound : g[r] = f[r]
        BY <2>1, <3>1, <3>2
      <4>2. \A b : Made(f, Bound, b) => Made(g, Bound, b)
        BY <4>1, MadeMore
      <4>3. \A e \in store : Made(g, Bound, e.body)
        BY <1>1, <4>2 DEF Provenance
      <4> QED BY <2>1, <4>1, <4>3
    <3>5. job'.replayed = 0 /\ g[n'] = Content[job'.sha]
      BY <2>3, <3>1 DEF Begun
    <3>6. Provenance(g)'
      BY <3>1, <3>3, <3>4, <3>5 DEF Provenance
    <3> QED BY <3>6
  <2> QED BY <1>4, <2>2, <2>3, StartIs
<1>5. CASE End
  <2>1. n' = n + 1 /\ pc' = "idle" /\ store' = store /\ disk' = EmptyDisk
    BY <1>5 DEF End
  <2>2. Bound' = n /\ Bound <= n /\ Bound \in Int /\ n \in Int
    BY <2>1, BoundIs DEF Bound, AfterWork
  <2>3. Made(f, Bound', disk')
    BY <2>1, NothingMade
  <2>4. \A e \in store' : Made(f, Bound', e.body)
    <3>1. \A b : Made(f, Bound, b) => Made(f, Bound', b)
      BY <2>2, MadeMore
    <3> QED BY <1>1, <2>1, <3>1 DEF Provenance
  <2>5. Provenance(f)'
    BY <1>1, <2>1, <2>3, <2>4 DEF Provenance
  <2> QED BY <2>5
<1>6. CASE UNCHANGED vars
  <2>1. Provenance(f)'
    BY <1>1, <1>6 DEF vars, Provenance, Bound
  <2> QED BY <2>1
<1> QED BY <1>2, <1>3, <1>4, <1>5, <1>6, StepCases

LEMMA SnapshotsStep ==
  ASSUME TypeInv, Control, Next, \E f : Provenance(f), Snapshots
  PROVE  Snapshots'
<1>0. PICK f : Provenance(f)
  OBVIOUS
<1>1. CASE pc # "idle" /\ pc # "end" /\ MainStep
  <2>0. /\ job'.in = job.in /\ job'.sha = job.sha /\ n' = n /\ n \in 1 .. Runs + 1
        /\ job.skipped \subseteq Optional
    BY <1>1, SameJob, StepIs, Sure DEF TypeInv
  <2> DEFINE Ended == job'.failed = TRUE /\ job'.compiled = 0 /\ ~job'.linted
             Quiet == pc' \notin AfterWork \/ Ended
             Idle  == job'.compiled = 0 /\ ~job'.linted
             Timed == ~Normalized /\ job'.replayed = 0 => job'.mtime = 2 * n
             Early == pc' \in {"restoreTarget", "restoreBuild"} => job'.replayed = 0
  <2>1. Timed
    BY <1>0, <1>1, ReplayIs DEF Snapshots
  <2>2. \A F : Updates(F) /\ "compiled" \notin F /\ "linted" \notin F /\ pc \notin AfterWork => Idle
    BY <1>1 DEF Updates, JobFields, Snapshots
  <2>3. Idle /\ Timed /\ Early /\ Quiet => Snapshots'
    BY <2>0 DEF Snapshots, Normalized
  <2> HIDE DEF Idle, Timed
  <2>4. CASE RestoreTarget
    <3>1. Idle
      BY <2>2, <2>4, RestoreTargetIs DEF RestoreTarget, AfterWork
    <3>2. job'.replayed = 0
      BY <2>4, RestoreTargetIs DEF RestoreTarget, Snapshots, Updates, JobFields
    <3> QED BY <2>1, <2>3, <2>4, <3>1, <3>2 DEF RestoreTarget, AfterWork
  <2>5. CASE RestoreBuild
    <3>0. pc = "restoreBuild" /\ pc \notin AfterWork
      BY <2>5 DEF RestoreBuild, AfterWork
    <3>1. After(job) \in {"restoreTools", "prepare", "extractRegistry"}
      BY <2>0, <3>0, AfterStep
    <3>2. CASE pc' = After(job)
      <4>1. Idle
        <5>1. CASE UNCHANGED job
          BY <1>1, <3>0, <5>1 DEF Idle, Snapshots
        <5>2. CASE Updates({"failed"})
          BY <2>2, <3>0, <5>2
        <5>3. CASE \E plan, found, result : RestoreFrom(plan, found, result)
          <6>1. Updates({"key", "writer", "donor", "matched", "hit", "replayed", "mtime"})
            BY <1>1, <5>3, Sure, RestoreFromIs
          <6> QED BY <2>2, <3>0, <6>1
        <5> QED BY <2>5, <5>1, <5>2, <5>3, RestoreBuildIs DEF Restores
      <4> QED BY <2>1, <2>3, <3>1, <3>2, <4>1 DEF AfterWork
    <3>3. CASE pc' = "saveBuild" /\ Updates({"failed"}) /\ job'.failed = TRUE
      <4>1. Idle
        BY <2>2, <3>0, <3>3
      <4> QED BY <2>1, <2>3, <3>3, <4>1 DEF Idle
    <3> QED BY <2>5, <3>2, <3>3, RestoreBuildIs
  <2>6. CASE RestoreTools
    <3>1. Idle
      BY <2>2, <2>6, RestoreToolsIs DEF RestoreTools, AfterWork
    <3>2. pc' \in {"prepare", "extractRegistry"}
      BY <2>0, <2>6, AfterStep DEF RestoreTools
    <3> QED BY <2>1, <2>3, <3>1, <3>2 DEF AfterWork
  <2>7. CASE Prepare \/ ExtractRegistry \/ CrossPrepare
    <3>1. Idle
      BY <2>2, <2>7, PrepareIs, ExtractRegistryIs, CrossPrepareIs
         DEF Prepare, ExtractRegistry, CrossPrepare, AfterWork
    <3>2. \/ pc' = "saveBuild" /\ job'.failed = TRUE
          \/ pc' = After(job)
      BY <2>7, PrepareIs, ExtractRegistryIs, CrossPrepareIs
    <3>3. After(job) \in {"extractRegistry", "crossPrepare", "work"}
      BY <2>0, <2>7, AfterStep DEF Prepare, ExtractRegistry, CrossPrepare
    <3> QED BY <2>1, <2>3, <3>1, <3>2, <3>3 DEF AfterWork, Idle
  <2>8. CASE Work
    <3>1. /\ pc = "work" /\ pc' \in AfterWork /\ job'.replayed = job.replayed
      BY <2>0, <2>8, WorkIs, AfterStep DEF Work, AfterWork, Updates, JobFields
    <3>2. ASSUME ~Normalized, NEW x, Known(f, Bound, x), x.built = 2 * x.run + 1,
                 job.mtime <= x.built
          PROVE  x.content = Content[job.sha] \/ job.replayed \notin {0, x.run}
      <4>1. Bound = n - 1 /\ n \in Nat
        BY <2>0, <3>1 DEF Bound, AfterWork
      <4>2. job.replayed = 0 => job.mtime = 2 * n
        BY <1>1, <3>2 DEF Snapshots
      <4>3. x.run \in 1 .. n - 1 /\ x.content = f[x.run]
        BY <3>2, <4>1 DEF Known
      <4>4. job.replayed # 0
        <5> SUFFICES ASSUME job.replayed = 0 PROVE FALSE
          OBVIOUS
        <5>1. 2 * n <= 2 * x.run + 1 /\ x.run <= n - 1 /\ x.run \in Nat
          BY <3>2, <4>2, <4>3
        <5> QED BY <4>1, <5>1
      <4>5. job.replayed = x.run => x.content = Content[job.sha]
        BY <1>0, <1>1, <4>3, <4>4 DEF Provenance
      <4> QED BY <4>4, <4>5
    <3>3. Made(f, Bound, disk)
      BY <1>0 DEF Provenance
    <3>4. ~Normalized => disk'.tree[1].content = Content[job.sha] \/ job.replayed \notin {0, disk'.tree[1].run}
      <4>1. disk'.tree = IF Fresh(job) THEN disk.tree ELSE <<Output(job)>>
        BY <2>8, WorkIs
      <4>2. CASE Fresh(job)
        <5>1. disk.tree # <<>> /\ job.mtime <= disk.tree[1].built
          BY <4>2 DEF Fresh
        <5>2. Known(f, Bound, disk.tree[1]) /\ disk.tree[1].built = 2 * disk.tree[1].run + 1
          BY <3>3, <5>1 DEF Made
        <5> QED BY <3>2, <4>1, <4>2, <5>1, <5>2
      <4>3. CASE ~Fresh(job)
        <5>1. Output(job).content = Content[job.sha]
          BY DEF Output
        <5> QED BY <4>1, <4>3, <5>1
      <4> QED BY <4>2, <4>3
    <3>5. ~Normalized /\ job'.linted =>
             disk'.lint[1].content = Content[job.sha] \/ job.replayed \notin {0, disk'.lint[1].run}
      <4>1. \/ disk'.lint = disk.lint /\ (job'.linted => FreshLint(job))
            \/ disk'.lint = <<LintOutput(job)>>
        BY <2>8, WorkIs
      <4>2. CASE disk'.lint = disk.lint /\ FreshLint(job)
        <5>1. disk.lint # <<>> /\ job.mtime <= disk.lint[1].built
          BY <4>2 DEF FreshLint
        <5>2. Known(f, Bound, disk.lint[1]) /\ disk.lint[1].built = 2 * disk.lint[1].run + 1
          BY <3>3, <5>1 DEF Made
        <5> QED BY <3>2, <4>2, <5>1, <5>2
      <4>3. CASE disk'.lint = <<LintOutput(job)>>
        <5>1. LintOutput(job).content = Content[job.sha]
          BY DEF LintOutput, Output
        <5> QED BY <4>3, <5>1
      <4> QED BY <4>1, <4>2, <4>3
    <3>6. pc' \notin {"restoreTarget", "restoreBuild"}
      BY <3>1 DEF AfterWork
    <3> QED BY <2>0, <2>1, <3>1, <3>4, <3>5, <3>6 DEF Snapshots, Told, Normalized, Timed
  <2>9. CASE Cleanup
    <3>1. /\ pc' = "saveBuild" /\ UNCHANGED disk /\ (job.failed => job'.failed) /\ pc \in AfterWork
          /\ Updates({"failed"})
      BY <2>9, CleanupIs DEF Cleanup, AfterWork
    <3>2. job'.compiled = job.compiled /\ job'.linted = job.linted /\ job'.replayed = job.replayed
      BY <3>1 DEF Updates, JobFields
    <3> QED BY <1>1, <2>0, <2>1, <3>1, <3>2 DEF Snapshots, Told, Normalized, Timed, AfterWork
  <2> QED BY <1>1, <2>4, <2>5, <2>6, <2>7, <2>8, <2>9 DEF MainStep
<1>2. CASE pc # "idle" /\ pc # "end" /\ SaveStep
  <2>0. job'.in = job.in /\ job'.sha = job.sha /\ n' = n
    BY <1>2, SameJob, StepIs
  <2>1. /\ job'.compiled = job.compiled /\ job'.linted = job.linted /\ job'.replayed = job.replayed
        /\ job'.mtime = job.mtime /\ job'.failed = job.failed
    BY <1>2, SaveStepIs DEF Updates, JobFields
  <2>2. disk'.tree = disk.tree /\ disk'.lint = disk.lint
    BY <1>2, SaveStepIs DEF DiskFields
  <2>3. pc \in AfterWork /\ pc' \in AfterWork /\ pc' \notin {"restoreTarget", "restoreBuild"}
    BY <1>2, SaveStepIs DEF AfterWork
  <2> QED BY <1>2, <2>0, <2>1, <2>2, <2>3 DEF Snapshots, Told, Normalized
<1>3. CASE Start
  <2>1. CASE n' = n + 1 /\ UNCHANGED <<pc, job, disk>>
    BY <1>3, <2>1, StartIs DEF Snapshots
  <2>2. CASE n' = n /\ pc' = "restoreTarget" /\ disk' = EmptyDisk /\ Begun(job')
    <3>1. /\ job'.replayed = 0 /\ job'.compiled = 0 /\ ~job'.linted
          /\ job'.mtime = CheckoutMtime(job'.in, job'.sha)
      BY <2>2 DEF Begun
    <3>2. ~Normalized' => job'.mtime = 2 * n
      BY <3>1 DEF Normalized, CheckoutMtime
    <3> QED BY <2>2, <3>1, <3>2 DEF Snapshots, AfterWork
  <2> QED BY <1>3, <2>1, <2>2, StartIs
<1>4. CASE End
  BY <1>4 DEF End, Snapshots
<1>5. CASE UNCHANGED vars
  BY <1>5 DEF vars, Snapshots, Told, Normalized
<1> QED BY <1>1, <1>2, <1>3, <1>4, <1>5, StepCases

SourceInv == Control /\ (\E f : Provenance(f)) /\ Snapshots

LEMMA SourceInductive == Spec => []SourceInv
<1>1. Init => SourceInv
  <2> SUFFICES ASSUME Init PROVE SourceInv
    OBVIOUS
  <2> DEFINE f == [r \in Nat |-> 0]
  <2>1. f = [r \in Nat |-> f[r]]
    OBVIOUS
  <2> HIDE DEF f
  <2>2. Provenance(f)
    BY <2>1, NothingMade DEF Init, Provenance
  <2> QED BY <2>2 DEF Init, SourceInv, Control, Snapshots
<1>2. TypeInv /\ SourceInv /\ [Next]_vars => SourceInv'
  <2> SUFFICES ASSUME TypeInv, SourceInv, [Next]_vars PROVE SourceInv'
    OBVIOUS
  <2>1. CASE Next
    <3>1. Control' /\ Snapshots'
      BY <2>1, ControlStep, SnapshotsStep DEF SourceInv
    <3>2. (\E f : Provenance(f))'
      BY <2>1, ProvenanceStep DEF SourceInv
    <3> QED BY <3>1, <3>2 DEF SourceInv
  <2>2. CASE UNCHANGED vars
    <3>1. PICK f : Provenance(f)
      BY DEF SourceInv
    <3>2. Provenance(f)'
      BY <2>2, <3>1 DEF vars, Provenance, Bound
    <3>3. Control' /\ Snapshots'
      BY <2>2 DEF SourceInv, vars, Control, Snapshots, Told, Normalized
    <3> QED BY <3>2, <3>3 DEF SourceInv
  <2> QED BY <2>1, <2>2
<1> QED BY <1>1, <1>2, TypeInductive, PTL DEF Spec

\* A job serves a stale artifact, or passes Dylint on stale outputs, only if
\* mtimes are normalized or it replayed the sidecar of another run than the
\* one whose outputs it has.
THEOREM OwnSnapshotsSound == Spec => []OwnSnapshotSound
<1>1. TypeInv /\ SourceInv => OwnSnapshotSound
  <2> SUFFICES ASSUME TypeInv, SourceInv PROVE OwnSnapshotSound
    OBVIOUS
  <2>1. pc \in Saving => pc # "idle" /\ pc \in AfterWork
    BY SavingIs, StagesAre DEF AfterWork
  <2>2. Underbuilt => Normalized \/ job.replayed \notin {0, disk.tree[1].run}
    BY <2>1 DEF SourceInv, Snapshots, Told, Underbuilt
  <2>3. Unlinted => Normalized \/ job.replayed \notin {0, disk.lint[1].run}
    BY <2>1 DEF SourceInv, Snapshots, Told, Unlinted
  <2> QED BY <2>2, <2>3 DEF OwnSnapshotSound, Normalized
<1> QED BY <1>1, TypeInductive, SourceInductive, PTL

-----------------------------------------------------------------------------
(***************************************************************************)
(* Hits.  An entry of the prepared archives or of the Dylint outputs is    *)
(* what its key names, and what the restores reported stays on the disk.   *)
(***************************************************************************)
StoreHeld ==
  \A e \in store :
    /\ "prepare" \in e.paths =>
         ToSet(prepareTargetsFor(e.key[2][2])) \X {e.key[3][2]} \subseteq e.body.prepared
    /\ "lint" \in e.paths => e.body.lint # <<>> /\ e.body.lint[1].lock = e.key[3][2]

Linted == disk.lint # <<>> /\ disk.lint[1].lock = LockOf(job)

HitHeld == job.hit => \E e \in store : e.key = job.key /\ e.body.units \subseteq disk.units

\* The steps up to the extraction of the registry: the archive it is to open is
\* the one the hit was noted for.
Unextracted == {"restoreTarget", "restoreBuild", "restoreTools", "prepare", "extractRegistry"}

RegistryHeld ==
  job.registryHit =>
    /\ \E e \in store : /\ e.ref \in ToSet(ScopesOf(job.ref)) /\ e.key = job.result.registry.key
                        /\ pc \in Extracted => e.body.locks \subseteq disk.locks
    /\ pc \in Unextracted =>
         /\ RegistryDownload(job) # {} /\ KeyOf(RegistryDownload(job)) = job.result.registry.key
         /\ job.registryMatched # <<>>

PreparedHeld ==
  /\ job.prepareHit => /\ job.result.prepare.on /\ Ready(job) \subseteq disk.prepared
                       /\ \E e \in store : e.key = job.result.prepare.key
  /\ job.complete => /\ job.result.prepare.on => Ready(job) \subseteq disk.prepared
                     /\ pc \notin {"restoreTarget", "restoreBuild", "restoreTools"}

LintHeld ==
  /\ job.lintHit => Linted /\ \E e \in store : e.key = job.result.lint.key
  /\ job.linted => Linted

Held ==
  /\ StoreHeld
  /\ pc # "idle" => /\ HitHeld /\ RegistryHeld /\ PreparedHeld /\ LintHeld
                    /\ job.toolsHit => disk.tools

LEMMA KeysAre ==
  ASSUME NEW j, Planned(j)
  PROVE  /\ ToSet(prepareTargetsFor(j.result.prepare.key[2][2])) \X {j.result.prepare.key[3][2]}
              = Ready(j)
         /\ j.result.lint.key[3][2] = LockOf(j)
         /\ j.result.lint.key # <<>> /\ j.result.tools.key # <<>> /\ j.result.registry.key # <<>>
         /\ "prepare" \notin j.result.target.paths /\ "lint" \notin j.result.target.paths
<1>1. PICK raw, host, sha, parent :
        /\ j.result = resolveSetup(raw, host, Digest, LockOf(j), Manifest, sha, parent)
        /\ j.in = Effective(raw) /\ j.host = host
  BY DEF Planned, LockOf
<1>2. \A in, v : /\ planBlessedPrepareCache(in, v).key = blessedPrepareCacheKey(in, v)
                 /\ planBlessedPrepareCache(in, v).targets = prepareTargetsFor(in.crossTargets)
  BY DEF planBlessedPrepareCache
<1>3. \A in, v : /\ blessedPrepareCacheKey(in, v)[2] = <<"target", in.crossTargets>>
                 /\ blessedPrepareCacheKey(in, v)[3] = <<"soldr", v>>
  BY DEF blessedPrepareCacheKey, blessedPrepareCacheBase, SuffixPart
<1>4. j.result.prepare = planBlessedPrepareCache(Effective(raw), host.version)
  BY <1>1 DEF resolveSetup
<1>5. /\ j.result.prepare.key[2][2] = j.in.crossTargets /\ j.result.prepare.key[3][2] = j.host.version
      /\ j.result.prepare.targets = prepareTargetsFor(j.in.crossTargets)
  BY <1>1, <1>2, <1>3, <1>4
<1>6. j.result.lint.key = Append(DylintOutputRestoreKey(j.in, Digest, Manifest), <<"lock", LockOf(j)>>)
  BY <1>1 DEF resolveSetup
<1>7. j.result.tools.key = DylintCacheKey(j.in, Digest, LockOf(j), Manifest)
  BY <1>1 DEF resolveSetup
<1>8. \A in, lock : DylintCacheKey(in, Digest, lock, Manifest) # <<>>
  <2>1. \A a, b : (<<a>> \o <<b>>) \o <<>> # <<>>
    OBVIOUS
  <2>2. \A a, b, c : (<<a>> \o <<b>>) \o <<c>> # <<>>
    OBVIOUS
  <2>3. \A in : SuffixPart(in) = <<>> \/ SuffixPart(in) = <<<<"suffix", in.cacheKeySuffix>>>>
    BY DEF SuffixPart
  <2> QED BY <2>1, <2>2, <2>3 DEF DylintCacheKey
<1>9. \E on, tree : j.result.target.paths = TargetCachePaths(on, tree)
  <2>1. PICK on, mode :
          j.result.target = TargetCache(j.in, on, mode, Digest, LockOf(j), Manifest, sha, parent)
    BY <1>1, TargetIs
  <2> QED BY <2>1 DEF TargetCache
<1>10. "prepare" \notin j.result.target.paths /\ "lint" \notin j.result.target.paths
  BY <1>9 DEF TargetCachePaths
<1>11. j.result.lint.key[3][2] = LockOf(j) /\ j.result.lint.key # <<>>
  BY <1>6 DEF DylintOutputRestoreKey
<1>12. j.result.registry.key # <<>>
  <2>1. j.result.registry.key =
          Append(CargoRegistryRestorePrefix(CargoRegistryFormat(j.in, host), LockOf(j)),
                 <<"toolchain", Digest>>)
    BY <1>1 DEF resolveSetup
  <2>2. \A a, b, c, d : Append(<<a, b, c>>, d) # <<>>
    OBVIOUS
  <2> QED BY <2>1, <2>2 DEF CargoRegistryRestorePrefix
<1> QED BY <1>5, <1>7, <1>8, <1>10, <1>11, <1>12 DEF Ready

Restoring == {"restoreTarget", "restoreBuild", "restoreTools"}

\* The registry's archive is looked up again where it was found.
LEMMA DownloadSame ==
  ASSUME store' = store, job'.ref = job.ref, job'.result = job.result
  PROVE  RegistryDownload(job)' = RegistryDownload(job)
BY DEF RegistryDownload, RegistryPaths, restoreCache, Matches

\* No step but the extraction goes from one side of it to the other, and what
\* comes before it saves nothing.
LEMMA PhasesAre ==
  ASSUME TypeInv, Next, pc # "idle", pc # "end", pc # "extractRegistry"
  PROVE  /\ pc' \in Extracted => pc \in Extracted
         /\ pc' \in Unextracted => pc \in Unextracted /\ store' = store
<1>0. job.skipped \subseteq Optional
  BY Sure
<1>1. CASE RestoreTarget
  BY <1>1 DEF RestoreTarget, Extracted, Unextracted
<1>2. CASE RestoreBuild
  <2>1. pc' = "saveBuild" \/ pc' = After(job)
    BY <1>2, RestoreBuildIs
  <2>2. After(job) \in {"restoreTools", "prepare"} /\ pc = "restoreBuild" /\ store' = store
    BY <1>0, <1>2, AfterStep DEF RestoreBuild
  <2> QED BY <2>1, <2>2 DEF Extracted, Unextracted
<1>3. CASE RestoreTools
  BY <1>0, <1>3, AfterStep DEF RestoreTools, Extracted, Unextracted
<1>4. CASE Prepare
  <2>1. pc' = "saveBuild" \/ pc' = After(job)
    BY <1>4, PrepareIs
  <2>2. After(job) = "extractRegistry" /\ pc = "prepare" /\ store' = store
    BY <1>0, <1>4, AfterStep DEF Prepare
  <2> QED BY <2>1, <2>2 DEF Extracted, Unextracted
<1>5. CASE CrossPrepare
  BY <1>0, <1>5, AfterStep, CrossPrepareIs DEF CrossPrepare, Extracted, Unextracted
<1>6. CASE Work
  BY <1>0, <1>6, AfterStep DEF Work, Extracted, Unextracted
<1>7. CASE Cleanup
  BY <1>7 DEF Cleanup, Extracted, Unextracted
<1>8. CASE SaveStep
  BY <1>8, SaveStepIs DEF AfterWork, Extracted, Unextracted
<1>9. CASE UNCHANGED vars
  <2>1. ~Finished
    BY JourneyAssumption DEF Finished, TypeInv
  <2> QED BY <1>0, <1>1, <1>2, <1>3, <1>4, <1>5, <1>6, <1>7, <1>8, <2>1
          DEF Next, Start, End, SaveStep, ExtractRegistry
<1> QED BY <1>1, <1>2, <1>3, <1>4, <1>5, <1>6, <1>7, <1>8, <1>9, StepCases
        DEF MainStep, ExtractRegistry, Start, End

\* What a step keeps, it keeps held.
LEMMA PartsKept ==
  ASSUME TypeInv, Next, pc # "idle", pc # "end", Held, store \subseteq store'
  PROVE  /\ job'.hit = job.hit /\ job'.key = job.key /\ disk.units \subseteq disk'.units => HitHeld'
         /\ /\ job'.registryHit = job.registryHit /\ job'.registryMatched = job.registryMatched
            /\ disk.locks \subseteq disk'.locks /\ pc # "extractRegistry"
            => RegistryHeld'
         /\ /\ job'.prepareHit = job.prepareHit /\ job'.complete = job.complete
            /\ disk'.prepared = disk.prepared
            /\ pc \in Restoring \/ pc' \notin Restoring
            => PreparedHeld'
         /\ /\ job'.lintHit = job.lintHit /\ job'.linted = job.linted /\ disk'.lint = disk.lint
            => LintHeld'
         /\ job'.toolsHit = job.toolsHit /\ (disk.tools => disk'.tools)
              => (job'.toolsHit => disk'.tools)
<1>1. /\ job'.host = job.host /\ job'.result = job.result /\ job'.sha = job.sha
      /\ job'.ref = job.ref
  BY SameJob
<1>2. HitHeld /\ RegistryHeld /\ PreparedHeld /\ LintHeld /\ (job.toolsHit => disk.tools)
  BY DEF Held
<1>3. job'.hit = job.hit /\ job'.key = job.key /\ disk.units \subseteq disk'.units => HitHeld'
  BY <1>2 DEF HitHeld
<1>4. ASSUME job'.registryHit = job.registryHit, job'.registryMatched = job.registryMatched,
             disk.locks \subseteq disk'.locks, pc # "extractRegistry"
      PROVE  RegistryHeld'
  <2>1. /\ pc' \in Extracted => pc \in Extracted
        /\ pc' \in Unextracted => pc \in Unextracted /\ store' = store
    BY <1>4, PhasesAre
  <2>2. pc' \in Unextracted => RegistryDownload(job)' = RegistryDownload(job)
    BY <1>1, <2>1, DownloadSame
  <2>3. ScopesOf(job.ref)' = ScopesOf(job.ref)
    BY <1>1
  <2>4. KeyOf(RegistryDownload(job))' = KeyOf(RegistryDownload(job)')
    OBVIOUS
  <2> QED BY <1>1, <1>2, <1>4, <2>1, <2>2, <2>3, <2>4 DEF RegistryHeld
<1>5. ASSUME job'.prepareHit = job.prepareHit, job'.complete = job.complete,
             disk'.prepared = disk.prepared, pc \in Restoring \/ pc' \notin Restoring
      PROVE  PreparedHeld'
  BY <1>1, <1>2, <1>5 DEF PreparedHeld, Ready, Restoring
<1>6. ASSUME job'.lintHit = job.lintHit, job'.linted = job.linted, disk'.lint = disk.lint
      PROVE  LintHeld'
  BY <1>1, <1>2, <1>6 DEF LintHeld, Linted, LockOf
<1> QED BY <1>2, <1>3, <1>4, <1>5, <1>6

LEMMA StoreHeldMore ==
  ASSUME StoreHeld, NEW ref, NEW paths, NEW key, NEW body,
         store' = store \cup {Entry(ref, paths, key, body)},
         "prepare" \in paths =>
           ToSet(prepareTargetsFor(key[2][2])) \X {key[3][2]} \subseteq body.prepared,
         "lint" \in paths => body.lint # <<>> /\ body.lint[1].lock = key[3][2]
  PROVE  StoreHeld'
<1> DEFINE e == Entry(ref, paths, key, body)
<1>1. e.paths = paths /\ e.key = key /\ e.body = body
  BY DEF Entry
<1> HIDE DEF e
<1>2. store' = store \cup {e}
  BY DEF e
<1> QED BY <1>1, <1>2 DEF StoreHeld

LEMMA SaveHeld ==
  ASSUME TypeInv, Control, Held, SaveStep
  PROVE  StoreHeld' /\ store \subseteq store'
<1>1. StoreHeld /\ Planned(job) /\ pc # "idle"
  BY SaveStepIs, Sure DEF Held
<1>2. UNCHANGED store => StoreHeld' /\ store \subseteq store'
  BY <1>1 DEF StoreHeld
<1>3. CASE SaveBuild
  <2>1. \/ store' = store
        \/ \E body : store' = store \cup {Entry(job.ref, SavedPaths(job, "dir"), job.key, body)}
    BY <1>3, SaveBuildIs
  <2>2. "prepare" \notin SavedPaths(job, "dir") /\ "lint" \notin SavedPaths(job, "dir")
    BY DEF SavedPaths
  <2> QED BY <1>1, <1>2, <2>1, <2>2, StoreHeldMore
<1>4. CASE SaveTarget
  <2>1. \/ store' = store
        \/ \E body : store' = store \cup {Entry(job.ref, ExistingPaths(job), job.result.target.key, body)}
    BY <1>4, SaveTargetIs
  <2>2. "prepare" \notin ExistingPaths(job) /\ "lint" \notin ExistingPaths(job)
    BY <1>1, KeysAre DEF ExistingPaths
  <2> QED BY <1>1, <1>2, <2>1, <2>2, StoreHeldMore
<1>5. CASE SaveRegistry
  <2>1. \E paths, body :
          /\ "prepare" \notin paths /\ "lint" \notin paths
          /\ \/ store' = store
             \/ store' = store \cup {Entry(job.ref, paths, job.result.registry.key, body)}
    BY <1>5, SaveRegistryIs
  <2> QED BY <1>1, <1>2, <2>1, StoreHeldMore
<1>6. CASE SavePrepared
  <2> DEFINE key  == job.result.prepare.key
             body == [NoBody EXCEPT !.prepared = disk.prepared]
  <2>1. \/ store' = store
        \/ store' = store \cup {Entry(job.ref, {"prepare"}, key, body)} /\ job.complete
    BY <1>6, SavePreparedIs
  <2>2. job.result.prepare.on
    BY <1>1, <1>6, SavePreparedIs, SkippedIs DEF Control
  <2>3. job.complete => Ready(job) \subseteq disk.prepared
    BY <1>1, <2>2 DEF Held, PreparedHeld
  <2>4. body.prepared = disk.prepared
    BY DEF NoBody
  <2>5. ToSet(prepareTargetsFor(key[2][2])) \X {key[3][2]} = Ready(job)
    BY <1>1, KeysAre
  <2>6. "lint" \notin {"prepare"}
    OBVIOUS
  <2> HIDE DEF key, body
  <2> QED BY <1>1, <1>2, <2>1, <2>3, <2>4, <2>5, <2>6, StoreHeldMore
<1>7. CASE SaveTools
  <2>1. \/ store' = store
        \/ \E body : store' = store \cup {Entry(job.ref, {"tools"}, job.result.tools.key, body)}
    BY <1>7, SaveToolsIs
  <2>2. "lint" \notin {"tools"} /\ "prepare" \notin {"tools"}
    OBVIOUS
  <2> QED BY <1>1, <1>2, <2>1, <2>2, StoreHeldMore
<1>8. CASE SaveLint
  <2> DEFINE key  == job.result.lint.key
             body == [NoBody EXCEPT !.lint = disk.lint]
  <2>1. \/ store' = store
        \/ store' = store \cup {Entry(job.ref, {"lint"}, key, body)} /\ job.linted
    BY <1>8, SaveLintIs
  <2>2. job.linted => Linted
    BY <1>1 DEF Held, LintHeld
  <2>3. body.lint = disk.lint
    BY DEF NoBody
  <2>4. key[3][2] = LockOf(job)
    BY <1>1, KeysAre
  <2>5. "prepare" \notin {"lint"}
    OBVIOUS
  <2> HIDE DEF key, body
  <2> QED BY <1>1, <1>2, <2>1, <2>2, <2>3, <2>4, <2>5, StoreHeldMore DEF Linted
<1> QED BY <1>3, <1>4, <1>5, <1>6, <1>7, <1>8 DEF SaveStep

LEMMA MainHeld ==
  ASSUME TypeInv, Control, Snapshots, Held, MainStep, Next, pc # "idle", pc # "end"
  PROVE  /\ HitHeld' /\ RegistryHeld' /\ PreparedHeld' /\ LintHeld'
         /\ job'.toolsHit => disk'.tools
<1> DEFINE ToolsHeld == job.toolsHit => disk.tools
<1>0. /\ JobFields \subseteq DOMAIN job /\ DiskFields \subseteq DOMAIN disk /\ Planned(job)
      /\ job.skipped \subseteq Optional
  BY Sure
<1>1. store' = store /\ job'.host = job.host /\ job'.result = job.result /\ job'.sha = job.sha
  BY MainStepIs, SameJob
<1>2. StoreHeld /\ HitHeld /\ RegistryHeld /\ PreparedHeld /\ LintHeld /\ ToolsHeld
  BY DEF Held
<1>3. /\ job'.hit = job.hit /\ job'.key = job.key /\ disk.units \subseteq disk'.units => HitHeld'
      /\ /\ job'.registryHit = job.registryHit /\ job'.registryMatched = job.registryMatched
         /\ disk.locks \subseteq disk'.locks /\ pc # "extractRegistry"
         => RegistryHeld'
      /\ /\ job'.prepareHit = job.prepareHit /\ job'.complete = job.complete
         /\ disk'.prepared = disk.prepared
         /\ pc \in Restoring \/ pc' \notin Restoring
         => PreparedHeld'
      /\ /\ job'.lintHit = job.lintHit /\ job'.linted = job.linted /\ disk'.lint = disk.lint
         => LintHeld'
      /\ job'.toolsHit = job.toolsHit /\ (disk.tools => disk'.tools) => ToolsHeld'
  BY <1>1, PartsKept
<1>4. CASE RestoreTarget
  <2>1. /\ Updates({"targetMatched", "targetHit"}) /\ DiskUpdates({"tree", "bundle"})
        /\ pc \in Restoring /\ pc # "extractRegistry"
    BY <1>4, RestoreTargetIs DEF RestoreTarget, Restoring
  <2>2. /\ job'.hit = job.hit /\ job'.key = job.key /\ job'.registryHit = job.registryHit
        /\ job'.registryMatched = job.registryMatched
        /\ job'.prepareHit = job.prepareHit /\ job'.complete = job.complete
        /\ job'.lintHit = job.lintHit /\ job'.linted = job.linted /\ job'.toolsHit = job.toolsHit
    BY <2>1 DEF Updates, JobFields
  <2>3. /\ disk'.units = disk.units /\ disk'.locks = disk.locks /\ disk'.prepared = disk.prepared
        /\ disk'.lint = disk.lint /\ disk'.tools = disk.tools
    BY <2>1 DEF DiskUpdates, DiskFields
  <2>4. HitHeld' /\ ToolsHeld'
    BY <1>3, <2>2, <2>3
  <2>5. RegistryHeld'
    BY <1>3, <2>1, <2>2, <2>3
  <2>6. PreparedHeld'
    BY <1>3, <2>1, <2>2, <2>3
  <2>7. LintHeld'
    BY <1>3, <2>2, <2>3
  <2> QED BY <2>4, <2>5, <2>6, <2>7
<1>5. CASE RestoreBuild
  <2>0. pc \in Restoring /\ pc # "extractRegistry"
    BY <1>5 DEF RestoreBuild, Restoring
  <2>1. CASE UNCHANGED <<job, disk>>
    BY <1>3, <2>0, <2>1
  <2>2. CASE Updates({"failed"}) /\ UNCHANGED disk
    BY <1>3, <2>0, <2>2 DEF Updates, JobFields
  <2>3. CASE \E down \in BOOLEAN : \E found, result : Restores(BuildPlan(job, down), found, result)
    <3>1. PICK plan, found, result : Restores(plan, found, result)
      BY <2>3
    <3>2. /\ Updates({"key", "writer", "donor", "matched", "hit", "replayed", "mtime"})
          /\ DiskUpdates({"units", "side"})
          /\ disk'.units = result.units /\ job'.matched = MatchedKey(found, result)
          /\ job'.hit = (job'.matched # <<>> /\ job'.matched = job'.key)
      BY <1>0, <3>1, RestoreFromIs DEF Restores
    <3>3. HitHeld'
      <4>1. SUFFICES ASSUME job'.hit
                     PROVE  \E e \in store : e.key = job'.key /\ e.body.units \subseteq disk'.units
        BY <1>1 DEF HitHeld
      <4>2. found # {} /\ result.whole /\ KeyOf(found) = job'.key
        BY <3>2, <4>1 DEF MatchedKey
      <4>3. result.units = Body(found).units
        BY <3>1, <4>2 DEF Restores
      <4>4. PICK e \in store : KeyOf(found) = e.key /\ Body(found) = e.body
        BY <3>1, <4>2 DEF Restores, Found
      <4> QED BY <3>2, <4>2, <4>3, <4>4
    <3> QED BY <1>3, <2>0, <3>2, <3>3 DEF Updates, DiskUpdates, JobFields, DiskFields
  <2> QED BY <1>5, <2>1, <2>2, <2>3, RestoreBuildIs
<1>6. CASE RestoreTools
  <2>1. /\ Updates({"registryMatched", "registryHit", "prepareMatched", "prepareHit",
                    "toolsHit", "lintHit"})
        /\ DiskUpdates({"prepared", "tools", "lint"})
    BY <1>6, RestoreToolsIs
  <2>2. PICK prepare, tools, lint :
          /\ Found(prepare, job.ref, {"prepare"}) /\ (prepare # {} => job.result.prepare.on)
          /\ Found(tools, job.ref, {"tools"}) /\ Found(lint, job.ref, {"lint"})
          /\ job'.prepareHit =
               ((prepare # {} /\ ArchivesReady(job.result.prepare, Body(prepare).prepared))
                  /\ KeyOf(prepare) = job.result.prepare.key)
          /\ job'.toolsHit = (KeyOf(tools) = job.result.tools.key)
          /\ job'.lintHit = (KeyOf(lint) = job.result.lint.key)
          /\ disk'.prepared = IF prepare = {} THEN {} ELSE Body(prepare).prepared
          /\ disk'.tools = (tools # {})
          /\ disk'.lint = IF lint = {} THEN <<>> ELSE Body(lint).lint
    BY <1>6, RestoreToolsIs
  <2>3. job'.complete = job.complete /\ job'.linted = job.linted /\ ~job.complete /\ ~job.linted
    <3>1. job'.complete = job.complete /\ job'.linted = job.linted
      BY <2>1 DEF Updates, JobFields
    <3>2. pc = "restoreTools"
      BY <1>6 DEF RestoreTools
    <3>3. ~job.complete
      BY <1>2, <3>2 DEF PreparedHeld
    <3>4. ~job.linted
      BY <3>2 DEF Snapshots, AfterWork
    <3> QED BY <3>1, <3>3, <3>4
  <2>4. PreparedHeld'
    <3>1. SUFFICES ASSUME job'.prepareHit
                   PROVE  /\ job.result.prepare.on /\ Ready(job) \subseteq disk'.prepared
                          /\ \E e \in store : e.key = job.result.prepare.key
      BY <1>1, <2>3 DEF PreparedHeld, Ready
    <3>2. PICK e \in store : /\ "prepare" \in e.paths /\ e.key = job.result.prepare.key
                             /\ Body(prepare) = e.body
      <4>1. /\ prepare # {} /\ KeyOf(prepare) = job.result.prepare.key
            /\ Found(prepare, job.ref, {"prepare"})
        BY <2>2, <3>1
      <4> QED BY <4>1 DEF Found
    <3>3. ToSet(prepareTargetsFor(e.key[2][2])) \X {e.key[3][2]} = Ready(job)
      BY <1>0, <3>2, KeysAre
    <3>4. Ready(job) \subseteq e.body.prepared
      BY <1>2, <3>2, <3>3 DEF StoreHeld
    <3> QED BY <2>2, <3>1, <3>2, <3>4
  <2>5. LintHeld'
    <3>1. SUFFICES ASSUME job'.lintHit
                   PROVE  /\ disk'.lint # <<>> /\ disk'.lint[1].lock = LockOf(job)
                          /\ \E e \in store : e.key = job.result.lint.key
      BY <1>1, <2>3 DEF LintHeld, Linted, LockOf
    <3>2. lint # {}
      BY <1>0, <2>2, <3>1, KeysAre DEF KeyOf
    <3>3. PICK e \in store : /\ "lint" \in e.paths /\ e.key = job.result.lint.key
                             /\ Body(lint) = e.body
      <4>1. KeyOf(lint) = job.result.lint.key /\ Found(lint, job.ref, {"lint"})
        BY <2>2, <3>1
      <4> QED BY <3>2, <4>1 DEF Found
    <3>4. e.key[3][2] = LockOf(job)
      BY <1>0, <3>3, KeysAre
    <3>5. e.body.lint # <<>> /\ e.body.lint[1].lock = LockOf(job)
      BY <1>2, <3>3, <3>4 DEF StoreHeld
    <3> QED BY <2>2, <3>2, <3>3, <3>5
  <2>6. ToolsHeld'
    BY <1>0, <2>2, KeysAre DEF KeyOf
  <2>7. HitHeld'
    BY <1>3, <2>1 DEF Updates, DiskUpdates, JobFields, DiskFields
  <2>8. RegistryHeld'
    <3> DEFINE down == RegistryDownload(job)
    <3>1. SUFFICES ASSUME job'.registryHit
                   PROVE  /\ \E e \in store' : /\ e.ref \in ToSet(ScopesOf(job'.ref))
                                               /\ e.key = job'.result.registry.key
                          /\ RegistryDownload(job)' # {}
                          /\ KeyOf(RegistryDownload(job)') = job'.result.registry.key
                          /\ job'.registryMatched # <<>> /\ pc' \notin Extracted
      <4>1. KeyOf(RegistryDownload(job))' = KeyOf(RegistryDownload(job)')
        OBVIOUS
      <4> QED BY <4>1 DEF RegistryHeld
    <3>2. pc' = "prepare"
      BY <1>0, <1>6, AfterStep DEF RestoreTools
    <3>3. /\ down # {} /\ KeyOf(down) = job.result.registry.key
          /\ job'.registryMatched = job.result.registry.key
      BY <1>6, <3>1, RestoreToolsIs
    <3>4. job'.ref = job.ref
      BY SameJob
    <3>5. RegistryDownload(job)' = down
      BY <1>1, <3>4, DownloadSame
    <3>6. Found(down, job.ref, RegistryPaths(job))
      BY <3>3, Sure, Tuples DEF RegistryDownload
    <3> HIDE DEF down
    <3>7. \E e \in store : e.ref \in ToSet(ScopesOf(job.ref)) /\ e.key = job.result.registry.key
      BY <3>3, <3>6 DEF Found
    <3>8. job.result.registry.key # <<>>
      BY <1>0, KeysAre
    <3> QED BY <1>1, <3>2, <3>3, <3>4, <3>5, <3>7, <3>8 DEF Extracted
  <2> QED BY <2>4, <2>5, <2>6, <2>7, <2>8
<1>7. CASE Prepare
  <2>1. /\ Updates({"failed"}) /\ DiskUpdates({"tools"}) /\ (disk.tools => disk'.tools)
        /\ pc' \notin Restoring /\ pc # "extractRegistry"
    <3>1. pc' = "saveBuild" \/ pc' = After(job)
      BY <1>7, PrepareIs
    <3>2. After(job) = "extractRegistry"
      BY <1>0, <1>7, AfterStep DEF Prepare
    <3> QED BY <1>7, <3>1, <3>2, PrepareIs DEF Restoring, Prepare
  <2> QED BY <1>3, <2>1 DEF Updates, DiskUpdates, JobFields, DiskFields
<1>8. CASE ExtractRegistry
  <2>1. Updates({"registryMatched", "registryHit", "failed"}) /\ DiskUpdates({"locks"})
    BY <1>8, ExtractRegistryIs
  <2>2. pc' \notin Restoring
    <3>1. pc' = "saveBuild" \/ pc' = After(job)
      BY <1>8, ExtractRegistryIs
    <3>2. After(job) \in {"crossPrepare", "work"}
      BY <1>0, <1>8, AfterStep DEF ExtractRegistry
    <3> QED BY <3>1, <3>2 DEF Restoring
  <2>3. RegistryHeld'
    <3> DEFINE down == RegistryDownload(job)
    <3>1. PICK found, good :
            /\ found = IF job.registryMatched = <<>> THEN {} ELSE down
            /\ Found(found, job.ref, RegistryPaths(job))
            /\ good => found # {}
            /\ job'.registryHit => job.registryHit /\ (good \/ job'.failed)
            /\ disk'.locks = IF good THEN Body(found).locks ELSE {}
      BY <1>8, ExtractRegistryIs
    <3>2. pc' \notin Unextracted /\ (pc' \in Extracted => ~job'.failed)
      <4>1. pc' = (IF job'.failed THEN "saveBuild" ELSE After(job)) /\ job'.failed \in BOOLEAN
        BY <1>8, ExtractRegistryIs
      <4>2. After(job) \in {"crossPrepare", "work"}
        BY <1>0, <1>8, AfterStep DEF ExtractRegistry
      <4> QED BY <4>1, <4>2 DEF Extracted, Unextracted
    <3>3. SUFFICES ASSUME job'.registryHit
                   PROVE  \E e \in store' : /\ e.ref \in ToSet(ScopesOf(job'.ref))
                                            /\ e.key = job'.result.registry.key
                                            /\ pc' \in Extracted => e.body.locks \subseteq disk'.locks
      BY <3>2 DEF RegistryHeld
    <3>4. /\ job'.ref = job.ref /\ pc \in Unextracted /\ job.registryHit
      BY <1>8, <3>1, <3>3, SameJob DEF ExtractRegistry, Unextracted
    <3>5. found = down /\ found # {} /\ KeyOf(found) = job.result.registry.key
      BY <1>2, <3>1, <3>4 DEF RegistryHeld
    <3>6. PICK e \in store : /\ e.ref \in ToSet(ScopesOf(job.ref))
                             /\ e.key = job.result.registry.key /\ Body(found) = e.body
      BY <3>1, <3>5 DEF Found
    <3> HIDE DEF down
    <3>7. pc' \in Extracted => e.body.locks \subseteq disk'.locks
      BY <3>1, <3>2, <3>3, <3>6
    <3> QED BY <1>1, <3>4, <3>6, <3>7
  <2> QED BY <1>3, <2>1, <2>2, <2>3 DEF Updates, DiskUpdates, JobFields, DiskFields
<1>9. CASE CrossPrepare
  <2>1. /\ Updates({"complete", "failed"}) /\ DiskUpdates({"prepared"})
        /\ job'.complete /\ ~job.prepareHit /\ job.result.prepare.on => Ready(job) \subseteq disk'.prepared
        /\ job.prepareHit /\ job.result.prepare.on /\ ArchivesReady(job.result.prepare, disk.prepared)
             => disk'.prepared = disk.prepared
    BY <1>9, CrossPrepareIs
  <2>2. pc' \notin Restoring
    <3>1. pc' = "saveBuild" \/ pc' = After(job)
      BY <1>9, CrossPrepareIs
    <3>2. After(job) = "work"
      BY <1>0, <1>9, AfterStep DEF CrossPrepare
    <3> QED BY <3>1, <3>2 DEF Restoring
  <2>2a. pc # "extractRegistry"
    BY <1>9 DEF CrossPrepare
  <2>3. Ready(job) \subseteq disk.prepared => ArchivesReady(job.result.prepare, disk.prepared)
    <3>1. ASSUME Ready(job) \subseteq disk.prepared, NEW t \in ToSet(job.result.prepare.targets)
          PROVE  \E p \in disk.prepared : p[1] = t
      <4>1. <<t, job.host.version>> \in disk.prepared
        BY <3>1 DEF Ready
      <4> QED BY <4>1
    <3> QED BY <3>1 DEF ArchivesReady
  <2>4. job.prepareHit => disk'.prepared = disk.prepared
    BY <1>2, <2>1, <2>3 DEF PreparedHeld
  <2>5. job'.prepareHit = job.prepareHit
    BY <2>1 DEF Updates, JobFields
  <2>6. Ready(job)' = Ready(job)
    BY <1>1 DEF Ready
  <2>7. PreparedHeld'
    BY <1>1, <1>2, <2>1, <2>2, <2>4, <2>5, <2>6 DEF PreparedHeld, Restoring
  <2> QED BY <1>3, <2>1, <2>2a, <2>7 DEF Updates, DiskUpdates, JobFields, DiskFields
<1>10. CASE Work
  <2>1. /\ Updates({"failed", "linted", "compiled"})
        /\ DiskUpdates({"units", "tree", "bundle", "locks", "tools", "lint"})
        /\ disk.units \subseteq disk'.units /\ disk.locks \subseteq disk'.locks
        /\ disk.tools => disk'.tools
        /\ \/ disk'.lint = disk.lint /\ (job'.linted => FreshLint(job))
           \/ disk'.lint = <<LintOutput(job)>>
    BY <1>10, WorkIs
  <2>2. pc' \notin Restoring /\ pc # "extractRegistry"
    <3>1. After(job) \in {"cleanup", "saveBuild"} /\ pc = "work"
      BY <1>0, <1>10, AfterStep DEF Work
    <3> QED BY <1>10, <3>1, WorkIs DEF Restoring
  <2>3. LintHeld'
    <3>1. job'.lintHit = job.lintHit
      BY <2>1 DEF Updates, JobFields
    <3>2. LintOutput(job).lock = LockOf(job)
      BY DEF LintOutput
    <3>3. disk'.lint = <<LintOutput(job)>> => disk'.lint # <<>> /\ disk'.lint[1].lock = LockOf(job)
      BY <3>2
    <3>4. LockOf(job)' = LockOf(job)
      BY <1>1 DEF LockOf
    <3> QED BY <1>1, <1>2, <2>1, <3>1, <3>3, <3>4 DEF LintHeld, Linted, FreshLint
  <2> QED BY <1>3, <2>1, <2>2, <2>3 DEF Updates, DiskUpdates, JobFields, DiskFields
<1>11. CASE Cleanup
  <2>1. Updates({"failed"}) /\ pc' = "saveBuild" /\ UNCHANGED disk /\ pc # "extractRegistry"
    BY <1>11, CleanupIs DEF Cleanup
  <2> QED BY <1>3, <2>1 DEF Updates, JobFields, Restoring
<1> QED BY <1>4, <1>5, <1>6, <1>7, <1>8, <1>9, <1>10, <1>11 DEF MainStep

LEMMA HeldSame == Held /\ UNCHANGED vars => Held'
<1> SUFFICES ASSUME Held, UNCHANGED vars PROVE Held'
  OBVIOUS
<1>1. RegistryHeld => RegistryHeld'
  <2>1. RegistryDownload(job)' = RegistryDownload(job)
    BY DownloadSame DEF vars
  <2>2. KeyOf(RegistryDownload(job))' = KeyOf(RegistryDownload(job)')
    OBVIOUS
  <2> QED BY <2>1, <2>2 DEF vars, RegistryHeld
<1> QED BY <1>1 DEF vars, Held, StoreHeld, HitHeld, PreparedHeld, LintHeld, Linted, Ready, LockOf

LEMMA HeldStep ==
  ASSUME TypeInv, Control, Snapshots, Held, Next
  PROVE  Held'
<1>1. CASE pc # "idle" /\ pc # "end" /\ MainStep
  <2>1. store' = store
    BY <1>1, MainStepIs
  <2>2. StoreHeld'
    BY <2>1 DEF Held, StoreHeld
  <2> QED BY <1>1, <2>2, MainHeld DEF Held
<1>2. CASE pc # "idle" /\ pc # "end" /\ SaveStep
  <2>1. StoreHeld' /\ store \subseteq store'
    BY <1>2, SaveHeld
  <2>2. /\ Updates({"uploaded", "misses", "oversize"})
        /\ \A f \in DiskFields \ {"side"} : disk'[f] = disk[f]
        /\ pc' \notin Restoring /\ pc # "extractRegistry"
    BY <1>2, SaveStepIs DEF AfterWork, Restoring
  <2>3. /\ job'.hit = job.hit /\ job'.key = job.key /\ job'.registryHit = job.registryHit
        /\ job'.registryMatched = job.registryMatched
        /\ job'.prepareHit = job.prepareHit /\ job'.complete = job.complete
        /\ job'.lintHit = job.lintHit /\ job'.linted = job.linted /\ job'.toolsHit = job.toolsHit
    BY <2>2 DEF Updates, JobFields
  <2>4. /\ disk'.units = disk.units /\ disk'.locks = disk.locks /\ disk'.prepared = disk.prepared
        /\ disk'.lint = disk.lint /\ disk'.tools = disk.tools
    BY <2>2 DEF DiskFields
  <2> QED BY <1>2, <2>1, <2>2, <2>3, <2>4, PartsKept DEF Held
<1>3. CASE Start
  <2>1. StoreHeld'
    BY <1>3, StartIs DEF Held, StoreHeld
  <2>2. CASE n' = n /\ pc' = "restoreTarget" /\ disk' = EmptyDisk /\ Begun(job')
    BY <2>1, <2>2 DEF Held, Begun, HitHeld, RegistryHeld, PreparedHeld, LintHeld
  <2>3. CASE UNCHANGED <<pc, job, disk>>
    BY <1>3, <2>1, <2>3, StartIs DEF Held
  <2> QED BY <1>3, <2>2, <2>3, StartIs
<1>4. CASE End
  BY <1>4 DEF End, Held, StoreHeld
<1>5. CASE UNCHANGED vars
  BY <1>5, HeldSame
<1> QED BY <1>1, <1>2, <1>3, <1>4, <1>5, StepCases

LEMMA HeldInductive == Spec => []Held
<1>1. Init => Held
  BY DEF Init, Held, StoreHeld
<1>2. TypeInv /\ SourceInv /\ Held /\ [Next]_vars => Held'
  <2> QED BY HeldSame, HeldStep DEF SourceInv
<1> QED BY <1>1, <1>2, TypeInductive, SourceInductive, PTL DEF Spec

\* A layer noted as an exact hit is there under its very key and is what the key
\* names, and a job that builds has it on the disk in full: for the registry,
\* whose hit is noted before it is extracted, wherever main went on.
THEOREM HitsHeld == Spec => []HitMeansHeld
<1>1. TypeInv /\ Held => HitMeansHeld
  BY StagesAre DEF Held, HitMeansHeld, HitHeld, RegistryHeld, PreparedHeld, LintHeld, Linted, Ready
<1> QED BY <1>1, TypeInductive, HeldInductive, PTL

-----------------------------------------------------------------------------
(***************************************************************************)
(* Work kept.  The key a job with an automatic key writes under names its  *)
(* run, and no entry of the store names a run that has not saved yet: the  *)
(* key can be reserved, whatever was restored.                             *)
(***************************************************************************)
SavedBy(key, m) ==
  \A i \in DOMAIN key :
    key[1] = <<"layer", "ancestor">> /\ key[i][1] = "run" => key[i][2] \in 0 .. m

LEMMA SavedByMore ==
  ASSUME NEW key, NEW m \in Int, NEW k \in Int, m <= k, SavedBy(key, m)
  PROVE  SavedBy(key, k)
BY DEF SavedBy

\* What a sequence starts with.
LEMMA FirstPart ==
  /\ \A a, s : IsSeq(s) => (<<a>> \o s)[1] = a
  /\ \A a, x, s : s[1] = a /\ IsSeq(s) /\ s # <<>> => Append(s, x)[1] = a
  /\ \A a, s, t : s[1] = a /\ IsSeq(s) /\ s # <<>> /\ IsSeq(t) => (s \o t)[1] = a
<1>1. \A a, s, t : s[1] = a /\ IsSeq(s) /\ s # <<>> /\ IsSeq(t) => (s \o t)[1] = a
  <2>1. ASSUME NEW s, NEW t, IsSeq(s), IsSeq(t), s # <<>> PROVE (s \o t)[1] = s[1]
    <3>1. PICK S, T : s \in Seq(S) /\ t \in Seq(T)
      BY <2>1 DEF IsSeq
    <3>2. s \in Seq(S \cup T) /\ t \in Seq(S \cup T)
      BY <3>1, SeqMonotonic
    <3>3. Len(s) \in Nat /\ Len(s) # 0 /\ Len(t) \in Nat
      BY <2>1, <3>1, EmptySeq, LenProperties
    <3> QED BY <3>2, <3>3, ConcatProperties
  <2> QED BY <2>1
<1>2. \A a, s : IsSeq(s) => (<<a>> \o s)[1] = a
  BY <1>1, Tuples
<1>3. \A a, x, s : s[1] = a /\ IsSeq(s) /\ s # <<>> => Append(s, x)[1] = a
  <2>1. ASSUME NEW s, NEW x, IsSeq(s), s # <<>> PROVE Append(s, x)[1] = s[1]
    <3>1. PICK S : s \in Seq(S)
      BY <2>1 DEF IsSeq
    <3>2. s \in Seq(S \cup {x}) /\ x \in S \cup {x}
      BY <3>1, SeqMonotonic
    <3>3. Len(s) \in Nat /\ Len(s) # 0
      BY <2>1, <3>1, EmptySeq, LenProperties
    <3> QED BY <3>2, <3>3, AppendProperties
  <2> QED BY <2>1
<1> QED BY <1>1, <1>2, <1>3

\* The runs a sequence names, and that it names one.
RunsAt(s, m) == IsSeq(s) /\ \A i \in DOMAIN s : s[i][1] = "run" => s[i][2] = m
Has(s, x) == \E i \in DOMAIN s : s[i] = x

LEMMA Joined ==
  ASSUME NEW s, NEW t, NEW m, NEW x, RunsAt(s, m), RunsAt(t, m)
  PROVE  RunsAt(s \o t, m) /\ (Has(s, x) \/ Has(t, x) => Has(s \o t, x))
<1>1. PICK S, T : s \in Seq(S) /\ t \in Seq(T)
  BY DEF RunsAt, IsSeq
<1>2. s \in Seq(S \cup T) /\ t \in Seq(S \cup T)
  BY <1>1, SeqMonotonic
<1>3. /\ DOMAIN s = 1 .. Len(s) /\ DOMAIN t = 1 .. Len(t)
      /\ Len(s) \in Nat /\ Len(t) \in Nat
  BY <1>1, LenProperties
<1>4. /\ s \o t \in Seq(S \cup T) /\ DOMAIN (s \o t) = 1 .. Len(s) + Len(t)
      /\ \A i \in 1 .. Len(s) : (s \o t)[i] = s[i]
      /\ \A i \in Len(s) + 1 .. Len(s) + Len(t) : (s \o t)[i] = t[i - Len(s)]
  <2>1. s \o t \in Seq(S \cup T) /\ Len(s \o t) = Len(s) + Len(t)
    BY <1>2, ConcatProperties
  <2>2. DOMAIN (s \o t) = 1 .. Len(s) + Len(t)
    BY <2>1, LenProperties
  <2>3. /\ \A i \in 1 .. Len(s) : (s \o t)[i] = s[i]
        /\ \A i \in Len(s) + 1 .. Len(s) + Len(t) : (s \o t)[i] = t[i - Len(s)]
    BY <1>2, <1>3, ConcatProperties
  <2> QED BY <2>1, <2>2, <2>3
<1>5. ASSUME NEW i \in 1 .. Len(s) + Len(t), (s \o t)[i][1] = "run" PROVE (s \o t)[i][2] = m
  <2>1. CASE i \in 1 .. Len(s)
    BY <1>3, <1>4, <1>5, <2>1 DEF RunsAt
  <2>2. CASE i \notin 1 .. Len(s)
    <3>1. i \in Len(s) + 1 .. Len(s) + Len(t) /\ i - Len(s) \in 1 .. Len(t)
      BY <1>3, <2>2
    <3> QED BY <1>3, <1>4, <1>5, <3>1 DEF RunsAt
  <2> QED BY <2>1, <2>2
<1>6. ASSUME Has(s, x) PROVE Has(s \o t, x)
  <2>1. PICK i \in 1 .. Len(s) : s[i] = x
    BY <1>3, <1>6 DEF Has
  <2>2. i \in 1 .. Len(s) + Len(t) /\ (s \o t)[i] = x
    BY <1>3, <1>4, <2>1
  <2> QED BY <1>4, <2>2 DEF Has
<1>7. ASSUME Has(t, x) PROVE Has(s \o t, x)
  <2>1. PICK i \in 1 .. Len(t) : t[i] = x
    BY <1>3, <1>7 DEF Has
  <2>2. i + Len(s) \in Len(s) + 1 .. Len(s) + Len(t) /\ (i + Len(s)) - Len(s) = i
    BY <1>3
  <2>3. i + Len(s) \in 1 .. Len(s) + Len(t) /\ (s \o t)[i + Len(s)] = x
    BY <1>3, <1>4, <2>1, <2>2
  <2> QED BY <1>4, <2>3 DEF Has
<1> QED BY <1>4, <1>5, <1>6, <1>7 DEF RunsAt, IsSeq

LEMMA Parts ==
  /\ \A m : RunsAt(<<>>, m)
  /\ \A a, m : a[1] # "run" => RunsAt(<<a>>, m)
  /\ \A a, m : a[1] # "run" => RunsAt(<<a, <<"run", m>>>>, m) /\ Has(<<a, <<"run", m>>>>, <<"run", m>>)
<1>1. \A m : RunsAt(<<>>, m)
  BY Tuples DEF RunsAt
<1>2. \A a, m : a[1] # "run" => RunsAt(<<a>>, m)
  BY Tuples DEF RunsAt
<1>3. \A a, m : a[1] # "run" => RunsAt(<<a, <<"run", m>>>>, m) /\ Has(<<a, <<"run", m>>>>, <<"run", m>>)
  BY Tuples DEF RunsAt, Has
<1> QED BY <1>1, <1>2, <1>3

\* The write key of a job names its run and no other.
LEMMA WriteKeyIs ==
  ASSUME n \in Nat, NEW j
  PROVE  /\ SavedBy(WriteKey(j), n) /\ ~SavedBy(WriteKey(j), n - 1)
<1> DEFINE family == IF j.host.local
                     THEN <<<<"family", <<j.result.buildPrefix, j.result.mode, j.result.profile>>>>>>
                     ELSE <<>>
           fine   == <<<<"fine", <<LegacyKey(j), j.result.mode, j.result.profile, LockOf(j), Manifest>>>>>>
           source == <<<<"source", j.sha>>, <<"run", n>>>>
           ref    == IF j.host.local THEN "main" ELSE j.ref
           pr     == IF ref = "pull" THEN <<<<"pr", ref>>>> ELSE <<>>
           prefix == AncestorLayer \o (family \o fine)
<1>1. WriteKey(j) = (prefix \o source) \o pr
  BY DEF WriteKey, makeAncestorKey, ancestorKeyPrefix, Identity
<1>2. RunsAt(family, n) /\ RunsAt(fine, n) /\ RunsAt(AncestorLayer, n) /\ RunsAt(pr, n)
  BY Parts DEF AncestorLayer
<1>3. RunsAt(source, n) /\ Has(source, <<"run", n>>)
  BY Parts
<1>4. AncestorLayer = <<<<"layer", "ancestor">>>>
  BY DEF AncestorLayer
<1> HIDE DEF family, fine, source, pr
<1>5. RunsAt(family \o fine, n) /\ RunsAt(prefix, n)
  BY <1>2, Joined
<1>6. RunsAt(prefix \o source, n) /\ Has(prefix \o source, <<"run", n>>)
  BY <1>3, <1>5, Joined
<1>7. RunsAt(WriteKey(j), n) /\ Has(WriteKey(j), <<"run", n>>)
  BY <1>1, <1>2, <1>6, Joined
<1>8. WriteKey(j)[1] = <<"layer", "ancestor">>
  <2>1. prefix[1] = <<"layer", "ancestor">> /\ IsSeq(prefix)
    BY <1>4, <1>5, FirstPart DEF RunsAt
  <2>2. prefix # <<>>
    <3>1. \A a, s : IsSeq(s) => <<a>> \o s # <<>>
      BY Tuples, ConcatEqualIffEmpty, SeqMonotonic DEF IsSeq
    <3> QED BY <1>4, <1>5, <3>1 DEF RunsAt
  <2>3. (prefix \o source)[1] = <<"layer", "ancestor">> /\ prefix \o source # <<>>
    <3>1. (prefix \o source)[1] = <<"layer", "ancestor">>
      BY <1>3, <2>1, <2>2, FirstPart DEF RunsAt
    <3> QED BY <1>6, <3>1 DEF Has
  <2> QED BY <1>1, <1>2, <1>6, <2>3, FirstPart DEF RunsAt
<1>9. SavedBy(WriteKey(j), n)
  BY <1>7 DEF SavedBy, RunsAt
<1>10. ~SavedBy(WriteKey(j), n - 1)
  <2>1. PICK i \in DOMAIN WriteKey(j) : WriteKey(j)[i] = <<"run", n>>
    BY <1>7 DEF Has
  <2> QED BY <1>8, <2>1 DEF SavedBy
<1> QED BY <1>9, <1>10


\* The keys of the other layers, and of a build cache without an automatic key,
\* start otherwise.
Plain(s) == IsSeq(s) /\ s # <<>> /\ s[1] # <<"layer", "ancestor">>

LEMMA PlainMore ==
  /\ \A s, t : Plain(s) /\ IsSeq(t) => Plain(s \o t)
  /\ \A s, x : Plain(s) => Plain(Append(s, x))
<1>1. ASSUME NEW s, NEW t, Plain(s), IsSeq(t) PROVE Plain(s \o t)
  <2>1. (s \o t)[1] = s[1] /\ IsSeq(s \o t)
    BY <1>1, FirstPart, Concats DEF Plain
  <2>2. s \o t # <<>>
    <3>1. PICK S, T : s \in Seq(S) /\ t \in Seq(T)
      BY <1>1 DEF IsSeq, Plain
    <3>2. s \in Seq(S \cup T) /\ t \in Seq(S \cup T)
      BY <3>1, SeqMonotonic
    <3> QED BY <1>1, <3>2, ConcatEqualIffEmpty DEF Plain
  <2> QED BY <1>1, <2>1, <2>2 DEF Plain
<1>2. ASSUME NEW s, NEW x, Plain(s) PROVE Plain(Append(s, x))
  <2>1. Append(s, x)[1] = s[1]
    BY <1>2, FirstPart DEF Plain
  <2>2. PICK S : s \in Seq(S)
    BY <1>2 DEF Plain, IsSeq
  <2>3. s \in Seq(S \cup {x}) /\ x \in S \cup {x}
    BY <2>2, SeqMonotonic
  <2>4. Append(s, x) \in Seq(S \cup {x}) /\ Append(s, x) # <<>>
    BY <2>3, AppendProperties
  <2> QED BY <1>2, <2>1, <2>4 DEF Plain, IsSeq
<1> QED BY <1>1, <1>2

LEMMA PlainStarts ==
  /\ \A a : a # <<"layer", "ancestor">> => Plain(<<a>>)
  /\ \A a, b : a # <<"layer", "ancestor">> => Plain(<<a, b>>)
  /\ \A a, b, c : a # <<"layer", "ancestor">> => Plain(<<a, b, c>>)
<1>1. \A a, b, c : <<a, b, c>> \in Seq({a, b, c})
  OBVIOUS
<1> QED BY <1>1, Tuples DEF Plain, IsSeq

LEMMA PlainKeys ==
  ASSUME NEW j, Planned(j)
  PROVE  /\ Plain(j.result.target.key) /\ Plain(j.result.registry.key) /\ Plain(j.result.tools.key)
         /\ Plain(j.result.lint.key) /\ Plain(j.result.prepare.key) /\ Plain(LegacyKey(j))
<1>1. PICK raw, host, lock, sha, parent :
        j.result = resolveSetup(raw, host, Digest, lock, Manifest, sha, parent)
  BY DEF Planned
<1>2. \A in : IsSeq(SuffixPart(in))
  BY Tuples DEF SuffixPart
<1>3. Plain(j.result.target.key)
  <2>1. \A in, on, mode : Plain(TargetCachePrefix(in, on, mode))
    BY PlainStarts DEF TargetCachePrefix
  <2>2. ASSUME NEW in, NEW on, NEW mode, NEW tree
        PROVE  Plain(TargetCacheLockPrefix(in, TargetCachePrefix(in, on, mode), tree, Digest, lock, Manifest))
    <3> DEFINE shape == IF tree THEN <<<<"toolchain", Digest>>, <<"lock", lock>>>>
                                ELSE <<<<"inputs", <<Digest, lock, Manifest>>>>>>
    <3>1. IsSeq(shape)
      BY Tuples
    <3> HIDE DEF shape
    <3>2. Plain(TargetCachePrefix(in, on, mode) \o shape)
      BY <2>1, <3>1, PlainMore
    <3>3. Plain((TargetCachePrefix(in, on, mode) \o shape) \o SuffixPart(in))
      BY <1>2, <3>2, PlainMore
    <3> QED BY <3>3 DEF TargetCacheLockPrefix, shape
  <2>3. ASSUME NEW in, NEW on, NEW mode
        PROVE  Plain(TargetCache(in, on, mode, Digest, lock, Manifest, sha, parent).key)
    <3> DEFINE prefix == TargetCachePrefix(in, on, mode)
               lockPart == TargetCacheLockPrefix(in, prefix, on /\ mode = "full", Digest, lock, Manifest)
               key == IF on THEN Append(lockPart, <<"sha", sha>>)
                      ELSE Append(prefix, <<"inputs", <<Digest, lock, Manifest>>>>)
    <3>1. TargetCache(in, on, mode, Digest, lock, Manifest, sha, parent).key = key
      BY DEF TargetCache
    <3>2. Plain(prefix) /\ Plain(lockPart)
      BY <2>1, <2>2
    <3> HIDE DEF prefix, lockPart
    <3> QED BY <3>1, <3>2, PlainMore
  <2>4. \E in, on, mode : j.result.target = TargetCache(in, on, mode, Digest, lock, Manifest, sha, parent)
    BY <1>1, TargetIs
  <2> QED BY <2>3, <2>4
<1>4. Plain(j.result.registry.key)
  <2>1. \A format : Plain(CargoRegistryRestorePrefix(format, lock))
    BY PlainStarts DEF CargoRegistryRestorePrefix
  <2>2. j.result.registry.key =
          Append(CargoRegistryRestorePrefix(CargoRegistryFormat(Effective(raw), host), lock),
                 <<"toolchain", Digest>>)
    BY <1>1 DEF resolveSetup
  <2> QED BY <2>1, <2>2, PlainMore
<1>5. Plain(j.result.tools.key)
  <2>1. ASSUME NEW in PROVE Plain(DylintCacheKey(in, Digest, lock, Manifest))
    <3> DEFINE input == IF DylintMode(in) THEN <<<<"nightly", Digest>>>>
                        ELSE <<<<"setup", <<Digest, lock, Manifest>>>>>>
    <3>1. IsSeq(input) /\ Plain(<<<<"layer", "dylint">>>>)
      BY Tuples, PlainStarts
    <3> HIDE DEF input
    <3>2. Plain((<<<<"layer", "dylint">>>> \o input) \o SuffixPart(in))
      BY <1>2, <3>1, PlainMore
    <3> QED BY <3>2 DEF DylintCacheKey, input
  <2>2. \E in : j.result.tools.key = DylintCacheKey(in, Digest, lock, Manifest)
    BY <1>1 DEF resolveSetup
  <2> QED BY <2>1, <2>2
<1>6. Plain(j.result.lint.key)
  <2>1. \A in : Plain(DylintOutputRestoreKey(in, Digest, Manifest))
    BY PlainStarts DEF DylintOutputRestoreKey
  <2>2. j.result.lint.key =
          Append(DylintOutputRestoreKey(Effective(raw), Digest, Manifest), <<"lock", lock>>)
    BY <1>1 DEF resolveSetup
  <2> QED BY <2>1, <2>2, PlainMore
<1>7. Plain(j.result.prepare.key)
  <2>1. ASSUME NEW in, NEW v PROVE Plain(blessedPrepareCacheKey(in, v))
    <3>1. Plain(blessedPrepareCacheBase(in))
      BY PlainStarts DEF blessedPrepareCacheBase
    <3>2. Plain(Append(blessedPrepareCacheBase(in), <<"soldr", v>>))
      BY <3>1, PlainMore
    <3> QED BY <1>2, <3>2, PlainMore DEF blessedPrepareCacheKey
  <2>2. j.result.prepare = planBlessedPrepareCache(Effective(raw), host.version)
    BY <1>1 DEF resolveSetup
  <2>3. \A in, v : planBlessedPrepareCache(in, v).key = blessedPrepareCacheKey(in, v)
    BY DEF planBlessedPrepareCache
  <2> QED BY <2>1, <2>2, <2>3
<1>8. Plain(LegacyKey(j))
  <2>1. ASSUME NEW in PROVE Plain(BuildCacheJobPrefix(in, Digest))
    BY <1>2, PlainStarts, PlainMore DEF BuildCacheJobPrefix
  <2>2. \E in, x : j.result.buildKey = Append(BuildCacheJobPrefix(in, Digest), x)
    BY <1>1 DEF resolveSetup
  <2>3. Plain(j.result.buildKey)
    BY <2>1, <2>2, PlainMore
  <2>4. \A x : Plain(<<<<"explicit", x>>>>)
    BY PlainStarts
  <2> QED BY <2>3, <2>4 DEF LegacyKey
<1> QED BY <1>3, <1>4, <1>5, <1>6, <1>7, <1>8

LEMMA PlainSaved == \A key, m : Plain(key) => SavedBy(key, m)
BY DEF Plain, SavedBy

\* A donor is an entry of the store.
LEMMA DonorHeld ==
  ASSUME NEW j, NEW down, DonorOf(j, down).found
  PROVE  \E e \in store : DonorOf(j, down).key = e.key
<1> DEFINE refs     == ToSet(ScopesOf(j.ref))
           measured == {Measured(c, j.sha, j.host.shallow, j.host.fetches) :
                          c \in Eligible(Identity(j), refs, store)}
           tried    == Tried(Ranked(measured))
           writers  == j.in.autoKeyTrustedWriters
           first    == FirstClean(tried, writers, runs)
           donor    == CHOOSE c \in first : TRUE
<1>1. \A reason : ~NoDonor(reason).found
  BY DEF NoDonor
<1>2. DonorOf(j, down) = Donor(refs, measured, tried, first, writers, runs)
  BY <1>1 DEF DonorOf, selectAncestorCache, DonorAmong
<1>3. first # {} /\ DonorOf(j, down).key = donor.entry.key
  <2> HIDE DEF refs, measured, tried, writers, first
  <2> QED BY <1>1, <1>2 DEF Donor
<1>4. donor \in measured
  <2>1. first \subseteq measured
    BY DEF FirstClean, Tried, Ranked
  <2> HIDE DEF measured, first
  <2> QED BY <1>3, <2>1
<1>5. PICK c \in Eligible(Identity(j), refs, store) : donor.entry = c.entry
  <2> HIDE DEF donor
  <2> QED BY <1>4 DEF Measured
<1>6. c.entry \in store
  BY DEF Eligible, Candidates
<1> HIDE DEF donor
<1> QED BY <1>3, <1>5, <1>6

LEMMA PlanIs ==
  ASSUME NEW j, NEW down, NEW plan, plan = BuildPlan(j, down)
  PROVE  /\ plan.donor.found => \E e \in store : plan.donor.key = e.key
         /\ ~plan.threw => plan.writeKey = IF plan.donor.found /\ plan.donor.distance = 0
                                           THEN plan.donor.key ELSE WriteKey(j)
<1>1. ~NoPlan.donor.found /\ NoPlan.threw
  BY DEF NoPlan, NoDonor
<1>2. CASE autoKeyEnabled(j.in)
  <2>1. /\ plan.donor = DonorOf(j, down)
        /\ plan.writeKey = IF plan.donor.found /\ plan.donor.distance = 0
                           THEN plan.donor.key ELSE WriteKey(j)
    BY <1>2 DEF BuildPlan, planAncestorRestore
  <2> QED BY <2>1, DonorHeld
<1>3. CASE ~autoKeyEnabled(j.in)
  BY <1>1, <1>3 DEF BuildPlan
<1> QED BY <1>2, <1>3

Done == {"saveTarget", "saveRegistry", "savePrepared", "saveTools", "saveLint", "end"}

\* The last run that may have saved its build cache.
Ended == IF pc \in Done THEN n ELSE n - 1

Unshared == ~(job.donor.found /\ job.donor.distance = 0)

Keys ==
  /\ \A e \in store : SavedBy(e.key, Ended)
  /\ pc # "idle" =>
       /\ SavedBy(job.key, n)
       /\ job.writer => MainBuildCacheEnabled(job.in) /\ (Unshared => job.key = WriteKey(job))
       /\ job.matched = <<>> \/ \E e \in store : e.key = job.matched
       /\ job.compiled = 1 => Content[job.sha] \in disk.units

LEMMA EndedIs == TypeInv => n \in Nat /\ Ended \in Int /\ Ended <= n /\ n - 1 <= Ended
BY DEF TypeInv, Ended

LEMMA NothingNamed == \A m : SavedBy(<<>>, m)
BY DEF SavedBy

\* The build save reserves the job's key, and logs a proof of what it saved.
LEMMA SaveProves ==
  ASSUME TypeInv, SaveBuild
  PROVE  \/ store' = store /\ runs' = runs
         \/ \E paths, body :
              LET entry == Entry(job.ref, paths, job.key, body)
              IN  /\ store' = store \cup {entry}
                  /\ runs' = [runs EXCEPT ![n].proofs = Proofs(job, entry)]
<1>1. PICK trouble, packed, misses : FinishBuild(trouble, packed, misses)
  BY DEF SaveBuild
<1> DEFINE side  == Snapshot(job, trouble # "git")
           paths == SavedPaths(job, "dir")
           body  == [NoBody EXCEPT !.units = packed, !.side = side, !.seal = SavedSeal(job, job.key)]
           entry == Entry(job.ref, paths, job.key, body)
           saved == /\ SavesBuild(job, misses) /\ trouble \notin {"upload", "large"}
                    /\ Reservable(job.ref, paths, job.key)
<1>2. /\ store' = IF saved THEN store \cup {entry} ELSE store
      /\ runs' = IF saved THEN [runs EXCEPT ![n].proofs = Proofs(job, entry)] ELSE runs
  BY <1>1 DEF FinishBuild
<1> HIDE DEF saved, paths, body
<1> QED BY <1>2

\* What a step of a job may save the store under.
LEMMA KeySaved ==
  ASSUME TypeInv, Keys, SaveStep
  PROVE  \/ store' = store
         \/ \E ref, paths, key, body :
              store' = store \cup {Entry(ref, paths, key, body)} /\ (Plain(key) \/ key = job.key)
<1>1. Planned(job)
  BY SaveStepIs, Sure
<1>2. CASE SaveBuild
  BY <1>2, SaveProves
<1>3. CASE SaveTarget
  BY <1>1, <1>3, PlainKeys, SaveTargetIs
<1>4. CASE SaveRegistry
  BY <1>1, <1>4, PlainKeys, SaveRegistryIs
<1>5. CASE SavePrepared
  BY <1>1, <1>5, PlainKeys, SavePreparedIs
<1>6. CASE SaveTools
  BY <1>1, <1>6, PlainKeys, SaveToolsIs
<1>7. CASE SaveLint
  BY <1>1, <1>7, PlainKeys, SaveLintIs
<1> QED BY <1>2, <1>3, <1>4, <1>5, <1>6, <1>7 DEF SaveStep

\* The fields these facts are about change in two steps only.
LEMMA MainKeys ==
  ASSUME TypeInv, MainStep, Next, pc # "idle", pc # "end"
  PROVE  /\ pc \notin Done /\ pc' \notin Done
         /\ ~RestoreBuild => /\ job'.key = job.key /\ job'.writer = job.writer
                             /\ job'.donor = job.donor /\ job'.matched = job.matched
         /\ ~RestoreBuild /\ ~Work => job'.compiled = job.compiled /\ disk'.units = disk.units
<1> DEFINE Same == /\ job'.key = job.key /\ job'.writer = job.writer
                   /\ job'.donor = job.donor /\ job'.matched = job.matched
           Still == job'.compiled = job.compiled /\ disk'.units = disk.units
<1>0. job.skipped \subseteq Optional
  BY Sure
<1>1. \A F : Updates(F) /\ F \cap {"key", "writer", "donor", "matched"} = {} => Same
  BY DEF Updates, JobFields
<1>2. \A F, G : Updates(F) /\ "compiled" \notin F /\ DiskUpdates(G) /\ "units" \notin G => Still
  BY DEF Updates, JobFields, DiskUpdates, DiskFields
<1>3. \A F : Updates(F) /\ "compiled" \notin F /\ UNCHANGED disk => Still
  BY DEF Updates, JobFields
<1> HIDE DEF Same, Still
<1>4. CASE RestoreTarget
  <2>1. pc = "restoreTarget" /\ pc' = "restoreBuild"
    BY <1>4 DEF RestoreTarget
  <2>2. Same /\ Still
    BY <1>1, <1>2, <1>4, RestoreTargetIs
  <2> QED BY <2>1, <2>2 DEF Done, Same, Still
<1>5. CASE RestoreBuild
  <2>1. pc = "restoreBuild" /\ (pc' = After(job) \/ pc' = "saveBuild")
    BY <1>5, RestoreBuildIs DEF RestoreBuild
  <2>2. pc' \notin Done
    BY <1>0, <2>1, AfterStep DEF Done
  <2> QED BY <1>5, <2>1, <2>2 DEF Done
<1>6. CASE RestoreTools
  <2>1. pc = "restoreTools" /\ pc' = After(job)
    BY <1>6 DEF RestoreTools
  <2>2. pc' \notin Done
    BY <1>0, <2>1, AfterStep DEF Done
  <2>3. Same /\ Still
    BY <1>1, <1>2, <1>6, RestoreToolsIs
  <2> QED BY <2>1, <2>2, <2>3 DEF Done, Same, Still
<1>7. CASE Prepare
  <2>1. pc = "prepare" /\ (pc' = After(job) \/ pc' = "saveBuild")
    BY <1>7, PrepareIs DEF Prepare
  <2>2. pc' \notin Done
    BY <1>0, <2>1, AfterStep DEF Done
  <2>3. Same /\ Still
    BY <1>1, <1>2, <1>7, PrepareIs
  <2> QED BY <2>1, <2>2, <2>3 DEF Done, Same, Still
<1>8. CASE ExtractRegistry
  <2>1. pc = "extractRegistry" /\ (pc' = After(job) \/ pc' = "saveBuild")
    BY <1>8, ExtractRegistryIs DEF ExtractRegistry
  <2>2. pc' \notin Done
    BY <1>0, <2>1, AfterStep DEF Done
  <2>3. Same /\ Still
    BY <1>1, <1>2, <1>8, ExtractRegistryIs
  <2> QED BY <2>1, <2>2, <2>3 DEF Done, Same, Still
<1>9. CASE CrossPrepare
  <2>1. pc = "crossPrepare" /\ (pc' = After(job) \/ pc' = "saveBuild")
    BY <1>9, CrossPrepareIs DEF CrossPrepare
  <2>2. pc' \notin Done
    BY <1>0, <2>1, AfterStep DEF Done
  <2>3. Same /\ Still
    BY <1>1, <1>2, <1>9, CrossPrepareIs
  <2> QED BY <2>1, <2>2, <2>3 DEF Done, Same, Still
<1>10. CASE Work
  <2>1. pc = "work" /\ pc' = After(job)
    BY <1>10 DEF Work
  <2>2. pc' \notin Done
    BY <1>0, <2>1, AfterStep DEF Done
  <2>3. Same
    BY <1>1, <1>10, WorkIs
  <2> QED BY <1>10, <2>1, <2>2, <2>3 DEF Done, Same
<1>11. CASE Cleanup
  <2>1. pc = "cleanup" /\ pc' = "saveBuild"
    BY <1>11 DEF Cleanup
  <2>2. Same /\ Still
    BY <1>1, <1>3, <1>11, CleanupIs
  <2> QED BY <2>1, <2>2 DEF Done, Same, Still
<1> QED BY <1>4, <1>5, <1>6, <1>7, <1>8, <1>9, <1>10, <1>11 DEF MainStep

LEMMA SameWriteKey ==
  ASSUME TypeInv, Next, pc # "idle", pc # "end"
  PROVE  WriteKey(job)' = WriteKey(job)
<1>1. /\ job'.in = job.in /\ job'.host = job.host /\ job'.result = job.result
      /\ job'.sha = job.sha /\ job'.ref = job.ref /\ n' = n
  BY SameJob, StepIs
<1> QED BY <1>1 DEF WriteKey, Identity, LegacyKey, LockOf

LEMMA RestoreKeys ==
  ASSUME TypeInv, Keys, Snapshots, RestoreBuild, Next,
         NEW down, NEW found, NEW result, MainBuildCacheEnabled(job.in),
         Restores(BuildPlan(job, down), found, result)
  PROVE  /\ SavedBy(job'.key, n)
         /\ job'.writer => MainBuildCacheEnabled(job.in) /\ (Unshared' => job'.key = WriteKey(job))
         /\ job'.matched = <<>> \/ \E e \in store : e.key = job'.matched
         /\ job'.compiled # 1
<1> DEFINE plan == BuildPlan(job, down)
<1>0. pc = "restoreBuild" /\ pc # "idle"
  BY DEF RestoreBuild
<1>1. /\ JobFields \subseteq DOMAIN job /\ DiskFields \subseteq DOMAIN disk /\ Planned(job)
  BY <1>0, Sure
<1>2. /\ plan.donor.found => \E e \in store : plan.donor.key = e.key
      /\ ~plan.threw => plan.writeKey = IF plan.donor.found /\ plan.donor.distance = 0
                                        THEN plan.donor.key ELSE WriteKey(job)
  BY PlanIs
<1> HIDE DEF plan
<1>3. /\ Updates({"key", "writer", "donor", "matched", "hit", "replayed", "mtime"})
      /\ job'.key = IF plan.threw THEN LegacyKey(job) ELSE plan.writeKey
      /\ job'.writer = ~plan.threw /\ job'.donor = plan.donor
      /\ job'.matched = MatchedKey(found, result)
  BY <1>1, RestoreFromIs DEF Restores, plan
<1>4. n \in Nat /\ Ended \in Int /\ Ended <= n
  BY EndedIs
<1>5. SavedBy(WriteKey(job), n) /\ SavedBy(LegacyKey(job), n)
  BY <1>1, <1>4, WriteKeyIs, PlainKeys, PlainSaved
<1>6. plan.donor.found => SavedBy(plan.donor.key, n)
  BY <1>2, <1>4, SavedByMore DEF Keys
<1>7. SavedBy(job'.key, n)
  BY <1>2, <1>3, <1>5, <1>6
<1>8. job'.writer => (Unshared' => job'.key = WriteKey(job))
  BY <1>2, <1>3 DEF Unshared
<1>9. job'.matched = <<>> \/ \E e \in store : e.key = job'.matched
  <2>1. Found(found, job.ref, {"archive"})
    BY DEF Restores
  <2> QED BY <1>3, <2>1 DEF Found, MatchedKey
<1>10. job'.compiled # 1
  <2>1. job'.compiled = job.compiled
    BY <1>3 DEF Updates, JobFields
  <2>2. job.compiled = 0
    BY <1>0 DEF Snapshots, AfterWork
  <2> QED BY <2>1, <2>2
<1> QED BY <1>7, <1>8, <1>9, <1>10

LEMMA KeysStep ==
  ASSUME TypeInv, Control, Snapshots, Keys, Next
  PROVE  Keys'
<1>0. n \in Nat /\ Ended \in Int /\ Ended <= n /\ n - 1 <= Ended
  BY EndedIs
<1>1. CASE pc # "idle" /\ pc # "end" /\ MainStep
  <2>1. /\ store' = store /\ n' = n /\ job'.in = job.in /\ job'.sha = job.sha
        /\ WriteKey(job)' = WriteKey(job)
    BY <1>1, MainStepIs, StepIs, SameJob, SameWriteKey
  <2>2. pc \notin Done /\ pc' \notin Done
    BY <1>1, MainKeys
  <2>3. (\A e \in store : SavedBy(e.key, Ended))'
    BY <2>1, <2>2 DEF Keys, Ended
  <2> DEFINE Named   == /\ SavedBy(job'.key, n)
                        /\ job'.matched = <<>> \/ \E e \in store : e.key = job'.matched
             Written == job'.writer => /\ MainBuildCacheEnabled(job.in)
                                       /\ Unshared' => job'.key = WriteKey(job)
             Built == job'.compiled = 1 => Content[job.sha] \in disk'.units
  <2>4. ASSUME job'.key = job.key, job'.writer = job.writer, job'.donor = job.donor PROVE Written
    <3>1. Unshared' = Unshared
      BY <2>4 DEF Unshared
    <3>2. job.writer => MainBuildCacheEnabled(job.in) /\ (Unshared => job.key = WriteKey(job))
      BY <1>1 DEF Keys
    <3> QED BY <2>4, <3>1, <3>2
  <2>5. ASSUME job'.key = job.key, job'.writer = job.writer, job'.donor = job.donor,
               job'.matched = job.matched
        PROVE  Named /\ Written
    BY <1>1, <2>4, <2>5 DEF Keys
  <2>6. job'.compiled = job.compiled /\ disk'.units = disk.units => Built
    BY <1>1 DEF Keys
  <2>7. ASSUME RestoreBuild PROVE Named /\ Written /\ Built
    <3>1. CASE Updates({"failed"}) /\ UNCHANGED disk
      <4>1. /\ job'.key = job.key /\ job'.writer = job.writer /\ job'.donor = job.donor
            /\ job'.matched = job.matched /\ job'.compiled = job.compiled
        BY <3>1 DEF Updates, JobFields
      <4> QED BY <2>5, <2>6, <3>1, <4>1
    <3>2. CASE UNCHANGED <<job, disk>>
      BY <2>5, <2>6, <3>2
    <3>3. CASE /\ MainBuildCacheEnabled(job.in)
               /\ \E down \in BOOLEAN : \E found, result : Restores(BuildPlan(job, down), found, result)
      BY <2>7, <3>3, RestoreKeys
    <3> HIDE DEF Named, Written, Built
    <3> QED BY <2>7, <3>1, <3>2, <3>3, RestoreBuildIs
  <2>8. ASSUME ~RestoreBuild PROVE Named /\ Written
    BY <1>1, <2>5, <2>8, MainKeys
  <2>9. ASSUME ~RestoreBuild, ~Work PROVE Built
    BY <1>1, <2>6, <2>9, MainKeys
  <2>10. ASSUME Work PROVE Built
    BY <2>10, WorkIs
  <2>11. Named /\ Written /\ Built
    BY <2>7, <2>8, <2>9, <2>10
  <2> QED BY <2>1, <2>3, <2>11 DEF Keys
<1>2. CASE pc # "idle" /\ pc # "end" /\ SaveStep
  <2>1. /\ n' = n /\ job'.in = job.in /\ job'.sha = job.sha /\ WriteKey(job)' = WriteKey(job)
    BY <1>2, StepIs, SameJob, SameWriteKey
  <2>2. /\ job'.key = job.key /\ job'.writer = job.writer /\ job'.donor = job.donor
        /\ job'.matched = job.matched /\ job'.compiled = job.compiled /\ disk'.units = disk.units
    BY <1>2, SaveStepIs DEF Updates, JobFields, DiskFields
  <2>3. pc' \in Done
    BY <1>2, SaveStepIs DEF Done, AfterWork
  <2>4. \/ store' = store
        \/ \E ref, paths, key, body :
             store' = store \cup {Entry(ref, paths, key, body)} /\ (Plain(key) \/ key = job.key)
    BY <1>2, KeySaved
  <2>5. \A e \in store : SavedBy(e.key, n)
    BY <1>0, SavedByMore DEF Keys
  <2>6. SavedBy(job.key, n)
    BY <1>2 DEF Keys
  <2>7. store \subseteq store' /\ \A e \in store' : SavedBy(e.key, n)
    BY <2>4, <2>5, <2>6, PlainSaved DEF Entry
  <2>8. (\A e \in store : SavedBy(e.key, Ended))'
    BY <2>1, <2>3, <2>7 DEF Ended
  <2> QED BY <1>2, <2>1, <2>2, <2>7, <2>8 DEF Keys, Unshared
<1>3. CASE Start
  <2>1. store' = store /\ Ended = n - 1
    BY <1>3, StartIs DEF Ended, Done
  <2>2. CASE n' = n + 1 /\ UNCHANGED <<pc, job, disk>>
    <3>1. pc' = "idle" /\ Ended' = n
      BY <1>0, <1>3, <2>2, StartIs DEF Ended, Done
    <3>2. (\A e \in store : SavedBy(e.key, Ended))'
      BY <1>0, <2>1, <3>1, SavedByMore DEF Keys
    <3> QED BY <3>1, <3>2 DEF Keys
  <2>3. CASE n' = n /\ pc' = "restoreTarget" /\ Begun(job')
    <3>1. Ended' = Ended
      BY <2>1, <2>3 DEF Ended, Done
    <3>2. (\A e \in store : SavedBy(e.key, Ended))'
      BY <2>1, <3>1 DEF Keys
    <3> QED BY <2>3, <3>2, NothingNamed DEF Keys, Begun
  <2> QED BY <1>3, <2>2, <2>3, StartIs
<1>4. CASE End
  <2>1. store' = store /\ pc = "end" /\ pc' = "idle" /\ n' = n + 1
    BY <1>4 DEF End
  <2>2. Ended = n /\ Ended' = n
    BY <1>0, <2>1 DEF Ended, Done
  <2>3. (\A e \in store : SavedBy(e.key, Ended))'
    BY <2>1, <2>2 DEF Keys
  <2> QED BY <2>1, <2>3 DEF Keys
<1>5. CASE UNCHANGED vars
  BY <1>5 DEF vars, Keys, Ended, Unshared, WriteKey, Identity, LegacyKey, LockOf
<1> QED BY <1>1, <1>2, <1>3, <1>4, <1>5, StepCases

LEMMA KeysInductive == Spec => []Keys
<1>1. Init => Keys
  BY DEF Init, Keys, Ended, Done
<1>2. TypeInv /\ SourceInv /\ Keys /\ [Next]_vars => Keys'
  <2>1. Keys /\ UNCHANGED vars => Keys'
    BY DEF vars, Keys, Ended, Unshared, WriteKey, Identity, LegacyKey, LockOf
  <2> QED BY <2>1, KeysStep DEF SourceInv
<1> QED BY <1>1, <1>2, TypeInductive, SourceInductive, PTL DEF Spec

\* What each kind of work left in the store, once its save is behind the job.
BuildKept ==
  pc = "saveTarget" /\ job.writer /\ job.compiled = 1 /\ ~job.failed /\ Unshared =>
    \E e \in store : e.ref \in ToSet(ScopesOf(job.ref)) /\ Content[job.sha] \in e.body.units

PreparedKept ==
  pc \in {"saveTools", "saveLint", "end"} /\ job.complete /\ job.result.prepare.on =>
    \E e \in store : e.key = job.result.prepare.key

LintKept ==
  pc = "end" /\ job.linted /\ job.result.tools.on /\ job.result.lint.on =>
    \E e \in store : e.key = job.result.lint.key

Kept == pc \in Done /\ AllowSave(job) /\ faults = 0 => BuildKept /\ PreparedKept /\ LintKept

\* Without a failure the build cache is saved under the key of this run, which
\* no entry has.
LEMMA SaveBuildKeeps ==
  ASSUME TypeInv, Keys, SaveBuild, AllowSave(job), faults' = faults,
         job.writer, job.compiled = 1, ~job.failed, Unshared
  PROVE  \E e \in store' : e.ref \in ToSet(ScopesOf(job.ref)) /\ Content[job.sha] \in e.body.units
<1>0. pc = "saveBuild" /\ pc # "idle" /\ Ended = n - 1
  BY DEF SaveBuild, Ended, Done
<1>1. /\ MainBuildCacheEnabled(job.in) /\ job.key = WriteKey(job)
      /\ Content[job.sha] \in disk.units
      /\ job.matched = <<>> \/ \E e \in store : e.key = job.matched
      /\ \A e \in store : SavedBy(e.key, n - 1)
  BY <1>0 DEF Keys
<1>2. ~SavedBy(job.key, n - 1)
  BY <1>1, EndedIs, WriteKeyIs
<1>3. \A paths : Reservable(job.ref, paths, job.key)
  BY <1>1, <1>2 DEF Reservable
<1>4. job.matched # job.key
  BY <1>1, <1>2, NothingNamed
<1>5. PICK packed, seal, misses :
        /\ packed \in SUBSET disk.units /\ misses \in {<<>>, <<job.compiled>>}
        /\ LET paths == SavedPaths(job, "dir")
               body  == [NoBody EXCEPT !.units = packed, !.side = disk'.side, !.seal = seal]
           IN  \/ ~(Reservable(job.ref, paths, job.key) /\ SavesBuild(job, misses))
               \/ store' = store \cup {Entry(job.ref, paths, job.key, body)} /\ packed = disk.units
  BY SaveBuildIs
<1>6. SavesBuild(job, misses)
  <2>1. ~TinyDelta(job.matched, misses)
    BY <1>5 DEF TinyDelta
  <2> QED BY <1>1, <1>4, <2>1 DEF SavesBuild, BuildOutputGate
<1> DEFINE paths == SavedPaths(job, "dir")
           body  == [NoBody EXCEPT !.units = packed, !.side = disk'.side, !.seal = seal]
           entry == Entry(job.ref, paths, job.key, body)
<1>7. store' = store \cup {entry} /\ packed = disk.units
  BY <1>3, <1>5, <1>6
<1>8. body.units = packed
  BY DEF NoBody
<1> HIDE DEF body
<1>9. entry.ref = job.ref /\ entry.body.units = packed
  BY <1>8 DEF Entry
<1>10. job.ref \in ToSet(ScopesOf(job.ref))
  BY <1>0, Sure DEF ScopesOf, ToSet
<1> HIDE DEF entry
<1> QED BY <1>1, <1>7, <1>9, <1>10

LEMMA KeptStep ==
  ASSUME TypeInv, Control, Held, Keys, Kept, Next
  PROVE  Kept'
<1>1. CASE pc # "idle" /\ pc # "end" /\ MainStep
  BY <1>1, MainKeys DEF Kept
<1>2. CASE pc # "idle" /\ pc # "end" /\ SaveStep
  <2>1. /\ job'.in = job.in /\ job'.host = job.host /\ job'.save = job.save
        /\ job'.result = job.result /\ job'.sha = job.sha /\ job'.ref = job.ref
    BY <1>2, SameJob
  <2>2. /\ job'.writer = job.writer /\ job'.donor = job.donor /\ job'.compiled = job.compiled
        /\ job'.failed = job.failed /\ job'.complete = job.complete /\ job'.linted = job.linted
    BY <1>2, SaveStepIs DEF Updates, JobFields
  <2>3. SUFFICES ASSUME AllowSave(job), faults = 0, faults' = faults
                 PROVE  BuildKept' /\ PreparedKept' /\ LintKept'
    <3>1. AllowSave(job)' = AllowSave(job)
      BY <2>1 DEF AllowSave, Policy!AllowCacheSave
    <3>2. faults' = 0 => faults = 0
      BY FaultsBounded, JourneyAssumption DEF TypeInv
    <3> QED BY <3>1, <3>2 DEF Kept
  <2>4. store \subseteq store' /\ Planned(job) /\ job.skipped \subseteq Optional
    BY <1>2, SaveHeld, Sure
  <2>5. pc \in {"saveTools", "saveLint"} => PreparedKept'
    BY <2>1, <2>2, <2>3, <2>4 DEF Kept, PreparedKept, Done
  <2>6. pc \in {"saveRegistry", "savePrepared", "saveTools"} /\ pc' = After(job) => LintKept'
    <3>1. "saveLint" \in job.skipped => ~job.result.lint.on
      BY <2>4, SkippedIs
    <3> QED BY <2>1, <2>4, <3>1, AfterStep DEF LintKept
  <2>7. CASE SaveBuild
    <3>1. pc' = "saveTarget"
      BY <2>7 DEF SaveBuild
    <3>2. BuildKept'
      BY <2>1, <2>2, <2>3, <2>7, SaveBuildKeeps DEF BuildKept, Unshared
    <3> QED BY <3>1, <3>2 DEF PreparedKept, LintKept
  <2>8. CASE SaveTarget
    <3>1. pc' = "saveRegistry"
      BY <2>8 DEF SaveTarget
    <3> QED BY <3>1 DEF BuildKept, PreparedKept, LintKept
  <2>9. CASE SaveRegistry
    <3>1. pc = "saveRegistry" /\ pc' = After(job)
      BY <2>9 DEF SaveRegistry
    <3>2. pc' \in {"savePrepared", "saveTools", "saveLint", "end"}
      BY <2>4, <3>1, AfterStep
    <3>3. pc' # "savePrepared" => ~job.result.prepare.on
      BY <2>4, <3>1, AfterStep, SkippedIs
    <3> QED BY <2>1, <2>6, <3>1, <3>2, <3>3 DEF BuildKept, PreparedKept
  <2>10. CASE SavePrepared
    <3>1. pc = "savePrepared" /\ pc' = After(job) /\ pc' \in {"saveTools", "saveLint", "end"}
      BY <2>4, <2>10, SavePreparedIs, AfterStep
    <3>2. ASSUME job.complete, job.result.prepare.on
          PROVE  \E e \in store' : e.key = job.result.prepare.key
      <4> DEFINE key   == job.result.prepare.key
                 body  == [NoBody EXCEPT !.prepared = disk.prepared]
                 ready == ArchivesReady(job.result.prepare, disk.prepared)
      <4>1. ready
        <5>1. Ready(job) \subseteq disk.prepared
          BY <1>2, <3>2 DEF Held, PreparedHeld
        <5>2. \A t \in ToSet(job.result.prepare.targets) : <<t, job.host.version>> \in disk.prepared
          BY <5>1 DEF Ready
        <5>3. \A t \in ToSet(job.result.prepare.targets) : \E p \in disk.prepared : p[1] = t
          BY <5>2
        <5> QED BY <5>3 DEF ArchivesReady
      <4>2. job.prepareHit => \E e \in store : e.key = key
        BY <1>2 DEF Held, PreparedHeld
      <4>3. ~Reservable(job.ref, {"prepare"}, key) => \E e \in store : e.key = key
        BY DEF Reservable
      <4>4. \/ ~(AllowSave(job) /\ ~job.prepareHit /\ job.complete /\ ready
                   /\ Reservable(job.ref, {"prepare"}, key))
            \/ store' = store \cup {Entry(job.ref, {"prepare"}, key, body)}
        BY <2>3, <2>10, SavePreparedIs
      <4>5. Entry(job.ref, {"prepare"}, key, body).key = key
        BY DEF Entry
      <4> HIDE DEF key, body, ready
      <4>6. \E e \in store' : e.key = key
        BY <2>3, <2>4, <3>2, <4>1, <4>2, <4>3, <4>4, <4>5
      <4> QED BY <4>6 DEF key
    <3>3. PreparedKept'
      BY <2>1, <2>2, <3>2 DEF PreparedKept
    <3> QED BY <2>6, <3>1, <3>3 DEF BuildKept
  <2>11. CASE SaveTools
    <3>1. pc = "saveTools" /\ pc' = After(job) /\ pc' \in {"saveLint", "end"}
      BY <2>4, <2>11, SaveToolsIs, AfterStep
    <3> QED BY <2>5, <2>6, <3>1 DEF BuildKept
  <2>12. CASE SaveLint
    <3>1. pc = "saveLint" /\ pc' = "end"
      BY <2>4, <2>12, SaveLintIs, AfterStep
    <3>2. ASSUME job.linted, job.result.tools.on
          PROVE  \E e \in store' : e.key = job.result.lint.key
      <4> DEFINE key   == job.result.lint.key
                 body  == [NoBody EXCEPT !.lint = disk.lint]
      <4>1. disk.lint # <<>>
        BY <1>2, <3>2 DEF Held, LintHeld, Linted
      <4>2. job.lintHit => \E e \in store : e.key = key
        BY <1>2 DEF Held, LintHeld
      <4>3. ~Reservable(job.ref, {"lint"}, key) => \E e \in store : e.key = key
        BY DEF Reservable
      <4>4. \/ ~(AllowSave(job) /\ ~job.lintHit /\ job.linted /\ job.result.tools.on
                   /\ disk.lint # <<>> /\ Reservable(job.ref, {"lint"}, key))
            \/ store' = store \cup {Entry(job.ref, {"lint"}, key, body)}
        BY <2>3, <2>12, SaveLintIs
      <4>5. Entry(job.ref, {"lint"}, key, body).key = key
        BY DEF Entry
      <4> HIDE DEF key, body
      <4>6. \E e \in store' : e.key = key
        BY <2>3, <2>4, <3>2, <4>1, <4>2, <4>3, <4>4, <4>5
      <4> QED BY <4>6 DEF key
    <3>3. LintKept'
      BY <2>1, <2>2, <3>2 DEF LintKept
    <3> QED BY <2>5, <3>1, <3>3 DEF BuildKept
  <2> QED BY <1>2, <2>7, <2>8, <2>9, <2>10, <2>11, <2>12 DEF SaveStep
<1>3. CASE Start
  BY <1>3, StartIs DEF Kept, Done
<1>4. CASE End
  BY <1>4 DEF End, Kept, Done
<1>5. CASE UNCHANGED vars
  BY <1>5 DEF vars, Kept, BuildKept, PreparedKept, LintKept, Unshared, AllowSave
<1> QED BY <1>1, <1>2, <1>3, <1>4, <1>5, StepCases

LEMMA KeptInductive == Spec => []Kept
<1>1. Init => Kept
  BY DEF Init, Kept, Done
<1>2. TypeInv /\ SourceInv /\ Held /\ Keys /\ Kept /\ [Next]_vars => Kept'
  <2>1. Kept /\ UNCHANGED vars => Kept'
    BY DEF vars, Kept, BuildKept, PreparedKept, LintKept, Unshared, AllowSave
  <2> QED BY <2>1, KeptStep DEF SourceInv
<1> QED BY <1>1, <1>2, TypeInductive, SourceInductive, HeldInductive, KeysInductive, PTL DEF Spec

\* A job that may save and meets no failure leaves what it compiled, what soldr
\* prepared for it and what Dylint checked to the runs after it.
THEOREM WorksKept == Spec => []WorkIsKept
<1>1. TypeInv /\ Kept => WorkIsKept
  <2> SUFFICES ASSUME TypeInv, Kept, pc \in Saving, AllowSave(job), faults = 0
               PROVE  /\ pc = "saveTarget" => BuildKept
                      /\ pc = "end" => PreparedKept /\ LintKept
    BY DEF WorkIsKept, BuildKept, PreparedKept, LintKept, Unshared
  <2> QED BY DEF Kept, Done
<1> QED BY <1>1, TypeInductive, KeptInductive, PTL

-----------------------------------------------------------------------------
(***************************************************************************)
(* Ancestry and distances.  A recursive function is a CHOOSE: it is what   *)
(* its definition says once some function satisfies the definition.  What  *)
(* is true of every commit has no oldest counterexample.                   *)
(***************************************************************************)
LEMMA ParentsAre ==
  /\ Commits \subseteq Nat
  /\ \A c \in Commits : Parents[c] \subseteq Commits
  /\ \A c \in Commits : \A p \in Parents[c] : p \in Nat /\ c \in Nat /\ p < c
BY HistoryAssumption

\* Sets that hold the parents of what they hold.
Closed(S) == \A c \in S : Parents[c] \subseteq S

LEMMA AncestryIs ==
  ASSUME NEW c \in Commits
  PROVE  Ancestry[c] = {c} \cup UNION {Ancestry[p] : p \in Parents[c]}
<1> DEFINE A(x)  == {d \in Commits : \A S \in SUBSET Commits : x \in S /\ Closed(S) => d \in S}
           Is(f) == f = [x \in Commits |-> {x} \cup UNION {f[p] : p \in Parents[x]}]
           g     == [x \in Commits |-> A(x)]
<1>1. ASSUME NEW x \in Commits PROVE A(x) = {x} \cup UNION {A(p) : p \in Parents[x]}
  <2> DEFINE B == {x} \cup UNION {A(p) : p \in Parents[x]}
  <2>1. Parents[x] \subseteq Commits
    BY ParentsAre
  <2>2. B \in SUBSET Commits /\ x \in B
    BY <2>1
  <2>3. Closed(B)
    <3>1. Parents[x] \subseteq B
      BY <2>1
    <3>2. ASSUME NEW p \in Parents[x], NEW d \in A(p) PROVE Parents[d] \subseteq A(p)
      BY <3>2, ParentsAre DEF Closed
    <3> HIDE DEF A
    <3> QED BY <3>1, <3>2 DEF Closed
  <2>4. A(x) \subseteq B
    <3> HIDE DEF B
    <3> QED BY <2>2, <2>3
  <2>5. B \subseteq A(x)
    <3>1. x \in A(x)
      OBVIOUS
    <3>2. ASSUME NEW p \in Parents[x] PROVE A(p) \subseteq A(x)
      <4>1. ASSUME NEW S \in SUBSET Commits, x \in S, Closed(S) PROVE p \in S
        BY <3>2, <4>1 DEF Closed
      <4> QED BY <4>1
    <3> HIDE DEF A
    <3> QED BY <3>1, <3>2
  <2> HIDE DEF A
  <2> QED BY <2>4, <2>5
<1>2. Is(g)
  <2> HIDE DEF A
  <2>1. ASSUME NEW x \in Commits PROVE A(x) = {x} \cup UNION {g[p] : p \in Parents[x]}
    <3>1. \A p \in Parents[x] : g[p] = A(p)
      BY ParentsAre
    <3> HIDE DEF g
    <3>2. {g[p] : p \in Parents[x]} = {A(p) : p \in Parents[x]}
      BY <3>1
    <3> QED BY <1>1, <3>2
  <2> QED BY <2>1, Zenon
<1>3. Ancestry = CHOOSE f : Is(f)
  BY DEF Ancestry
<1> HIDE DEF g
<1>4. \E f : Is(f)
  BY <1>2
<1>5. Is(Ancestry)
  <2> HIDE DEF Is
  <2> QED BY <1>3, <1>4
<1> QED BY <1>5

\* Ancestors are commits, older than what they are ancestors of, and their
\* ancestors are ancestors.
LEMMA AncestorsAre ==
  ASSUME NEW c \in Commits
  PROVE  /\ c \in Ancestry[c] /\ Ancestry[c] \subseteq Commits
         /\ Parents[c] \subseteq Ancestry[c]
         /\ \A a \in Ancestry[c] : a \in 0 .. c /\ Ancestry[a] \subseteq Ancestry[c]
<1> DEFINE Good(x) == /\ Ancestry[x] \subseteq Commits
                      /\ \A a \in Ancestry[x] : a \in 0 .. x /\ Ancestry[a] \subseteq Ancestry[x]
           Bad     == {x \in Commits : ~Good(x)}
<1>1. \A x \in Commits : x \in Ancestry[x] /\ Parents[x] \subseteq Commits
  BY AncestryIs, ParentsAre
<1>2. \A x \in Commits : \A p \in Parents[x] : p \in Ancestry[x] /\ Ancestry[p] \subseteq Ancestry[x]
  BY <1>1, AncestryIs
<1>3. SUFFICES ASSUME Bad # {} PROVE FALSE
  BY <1>1, <1>2
<1>4. PICK m \in Bad : \A x \in Bad : m <= x
  <2>1. Bad \in SUBSET Nat
    BY ParentsAre
  <2> HIDE DEF Bad
  <2> QED BY <1>3, <2>1, Least
<1>5. m \in Commits /\ m \in Nat
  BY ParentsAre
<1>6. \A p \in Parents[m] : p \in Nat /\ p < m /\ Good(p)
  <2>1. \A p \in Parents[m] : p \in Commits /\ p \in Nat /\ p < m
    BY <1>5, ParentsAre
  <2>2. \A x \in Commits : x \notin Bad => Good(x)
    OBVIOUS
  <2> HIDE DEF Good, Bad
  <2> QED BY <1>4, <1>5, <2>1, <2>2
<1>7. ASSUME NEW a \in Ancestry[m]
      PROVE  a = m \/ \E p \in Parents[m] : a \in Ancestry[p]
  BY <1>5, AncestryIs
<1>8. ASSUME NEW a \in Ancestry[m]
      PROVE  a \in Commits /\ a \in 0 .. m /\ Ancestry[a] \subseteq Ancestry[m]
  <2>1. CASE a = m
    BY <1>5, <2>1
  <2>2. CASE \E p \in Parents[m] : a \in Ancestry[p]
    BY <1>2, <1>5, <1>6, <2>2
  <2> QED BY <1>7, <2>1, <2>2
<1>9. Good(m)
  BY <1>8
<1> QED BY <1>9

\* The ancestors of a commit are finite in number.
LEMMA FiniteAncestry ==
  ASSUME NEW c \in Commits
  PROVE  IsFiniteSet(Ancestry[c])
<1>1. IsFiniteSet(0 .. c)
  BY FS_Interval, ParentsAre
<1> QED BY <1>1, AncestorsAre, FS_Subset

-----------------------------------------------------------------------------
(***************************************************************************)
(* Walks over parent edges: the least relation of a commit, a commit and   *)
(* a number of edges that these rules allow.                               *)
(***************************************************************************)
Walks == Commits \X Commits \X Nat

Rules(T) ==
  /\ T \in SUBSET Walks
  /\ \A c \in Commits : <<c, c, 0>> \in T
  /\ \A c \in Commits : \A p \in Parents[c] : \A to \in Commits : \A k \in Nat :
       <<p, to, k>> \in T => <<c, to, k + 1>> \in T

Walk == {w \in Walks : \A T : Rules(T) => w \in T}

LEMMA WalkRules == Rules(Walk)
<1>1. Walk \in SUBSET Walks
  BY DEF Walk
<1>2. \A c \in Commits : <<c, c, 0>> \in Walk
  BY DEF Walk, Walks, Rules
<1>3. ASSUME NEW c \in Commits, NEW p \in Parents[c], NEW to \in Commits, NEW k \in Nat,
             <<p, to, k>> \in Walk
      PROVE  <<c, to, k + 1>> \in Walk
  <2>1. \A T : Rules(T) => <<p, to, k>> \in T
    BY <1>3 DEF Walk
  <2>2. \A T : Rules(T) => <<c, to, k + 1>> \in T
    BY <2>1 DEF Rules
  <2>3. <<c, to, k + 1>> \in Walks
    BY DEF Walks
  <2> QED BY <2>2, <2>3 DEF Walk
<1> QED BY <1>1, <1>2, <1>3 DEF Rules

\* What the rules preserve holds of every walk.
LEMMA WalkLeast ==
  ASSUME NEW T, Rules(T)
  PROVE  Walk \subseteq T
BY DEF Walk

\* The last rule of a walk.
LEMMA WalkStep ==
  ASSUME NEW c, NEW to, NEW k, <<c, to, k>> \in Walk
  PROVE  /\ c \in Commits /\ to \in Commits /\ k \in Nat
         /\ \/ k = 0 /\ c = to
            \/ k # 0 /\ \E p \in Parents[c] : <<p, to, k - 1>> \in Walk
<1> DEFINE Ends(w) == \/ w[3] = 0 /\ w[1] = w[2]
                      \/ w[3] # 0 /\ \E p \in Parents[w[1]] : <<p, w[2], w[3] - 1>> \in Walk
           T       == {w \in Walk : Ends(w)}
<1>1. Walk \in SUBSET Walks
  BY WalkRules DEF Rules
<1>2. ASSUME NEW x \in Commits PROVE <<x, x, 0>> \in T
  BY WalkRules DEF Rules
<1>3. ASSUME NEW x \in Commits, NEW p \in Parents[x], NEW y \in Commits, NEW i \in Nat,
             <<p, y, i>> \in T
      PROVE  <<x, y, i + 1>> \in T
  <2>1. <<p, y, i>> \in Walk
    BY <1>3
  <2>2. <<x, y, i + 1>> \in Walk
    BY <2>1, WalkRules DEF Rules
  <2>3. i + 1 # 0 /\ (i + 1) - 1 = i
    OBVIOUS
  <2>4. Ends(<<x, y, i + 1>>)
    BY <2>1, <2>3
  <2> HIDE DEF Ends
  <2> QED BY <2>2, <2>4
<1> HIDE DEF Ends
<1>4. T \in SUBSET Walks
  BY <1>1
<1> HIDE DEF T
<1>5. Rules(T)
  BY <1>2, <1>3, <1>4 DEF Rules
<1>6. <<c, to, k>> \in T
  BY <1>5, WalkLeast
<1>7. <<c, to, k>> \in Walks
  BY <1>1
<1> QED BY <1>6, <1>7 DEF T, Ends, Walks

\* A walk is to an ancestor.
LEMMA WalkAncestor ==
  ASSUME NEW c, NEW to, NEW k, <<c, to, k>> \in Walk
  PROVE  to \in Ancestry[c]
<1> DEFINE T == {w \in Walk : w[2] \in Ancestry[w[1]]}
<1>1. Walk \in SUBSET Walks
  BY WalkRules DEF Rules
<1>2. ASSUME NEW x \in Commits PROVE <<x, x, 0>> \in T
  BY WalkRules, AncestorsAre DEF Rules
<1>3. ASSUME NEW x \in Commits, NEW p \in Parents[x], NEW y \in Commits, NEW i \in Nat,
             <<p, y, i>> \in T
      PROVE  <<x, y, i + 1>> \in T
  <2>1. <<p, y, i>> \in Walk /\ y \in Ancestry[p]
    BY <1>3
  <2>2. <<x, y, i + 1>> \in Walk
    BY <2>1, WalkRules DEF Rules
  <2>3. y \in Ancestry[x]
    BY <2>1, AncestorsAre
  <2> QED BY <2>2, <2>3
<1>4. T \in SUBSET Walks
  BY <1>1
<1>5. Rules(T)
  BY <1>2, <1>3, <1>4 DEF Rules
<1>6. <<c, to, k>> \in T
  BY <1>5, WalkLeast
<1> QED BY <1>6

\* There is a walk to every ancestor.
LEMMA AncestorWalk ==
  ASSUME NEW c \in Commits, NEW to \in Ancestry[c]
  PROVE  to \in Commits /\ \E k \in Nat : <<c, to, k>> \in Walk
<1> DEFINE Good(x) == \A a \in Ancestry[x] : \E k \in Nat : <<x, a, k>> \in Walk
           Bad     == {x \in Commits : ~Good(x)}
<1>1. to \in Commits
  BY AncestorsAre
<1>2. SUFFICES ASSUME Bad # {} PROVE FALSE
  BY <1>1
<1>3. PICK m \in Bad : \A x \in Bad : m <= x
  <2>1. Bad \in SUBSET Nat
    BY ParentsAre
  <2> HIDE DEF Bad
  <2> QED BY <1>2, <2>1, Least
<1>4. m \in Commits /\ m \in Nat
  BY ParentsAre
<1>5. \A p \in Parents[m] : p \in Commits /\ Good(p)
  <2>1. \A p \in Parents[m] : p \in Commits /\ p \in Nat /\ p < m
    BY <1>4, ParentsAre
  <2>2. \A x \in Commits : x \notin Bad => Good(x)
    OBVIOUS
  <2> HIDE DEF Good, Bad
  <2> QED BY <1>3, <1>4, <2>1, <2>2
<1>6. ASSUME NEW a \in Ancestry[m] PROVE \E k \in Nat : <<m, a, k>> \in Walk
  <2>1. a \in Commits
    BY <1>4, AncestorsAre
  <2>2. CASE a = m
    BY <1>4, <2>2, WalkRules DEF Rules
  <2>3. CASE \E p \in Parents[m] : a \in Ancestry[p]
    <3>1. PICK p \in Parents[m] : a \in Ancestry[p]
      BY <2>3
    <3>2. PICK k \in Nat : <<p, a, k>> \in Walk
      BY <1>5, <3>1
    <3>3. <<m, a, k + 1>> \in Walk
      BY <1>4, <2>1, <3>2, WalkRules DEF Rules
    <3> QED BY <3>3
  <2> QED BY <1>4, <2>2, <2>3, AncestryIs
<1>7. Good(m)
  BY <1>6
<1> QED BY <1>7

\* The commits on the way from one commit back to another, that one included.
Between(c, to) == {d \in Ancestry[c] : to \in Ancestry[d] /\ d # c}

\* No walk is longer than there are commits on the way.
LEMMA WalkBound ==
  ASSUME NEW c, NEW to, NEW k, <<c, to, k>> \in Walk
  PROVE  k \in Nat /\ IsFiniteSet(Between(c, to)) /\ k <= Cardinality(Between(c, to))
<1> DEFINE T == {w \in Walk : w[3] <= Cardinality(Between(w[1], w[2]))}
<1>1. Walk \in SUBSET Walks
  BY WalkRules DEF Rules
<1>2. ASSUME NEW x \in Commits, NEW y
      PROVE  IsFiniteSet(Between(x, y)) /\ Cardinality(Between(x, y)) \in Nat
  <2>1. IsFiniteSet(Between(x, y))
    BY FiniteAncestry, FS_Subset DEF Between
  <2> QED BY <2>1, FS_CardinalityType
<1>3. ASSUME NEW x \in Commits PROVE <<x, x, 0>> \in T
  BY <1>2, WalkRules DEF Rules
<1>4. ASSUME NEW x \in Commits, NEW p \in Parents[x], NEW y \in Commits, NEW i \in Nat,
             <<p, y, i>> \in T
      PROVE  <<x, y, i + 1>> \in T
  <2>1. <<p, y, i>> \in Walk /\ i <= Cardinality(Between(p, y))
    BY <1>4
  <2>2. <<x, y, i + 1>> \in Walk
    BY <2>1, WalkRules DEF Rules
  <2>3. p \in Commits /\ p \in Nat /\ x \in Nat /\ p < x
    BY ParentsAre
  <2>4. p \notin Between(p, y)
    BY DEF Between
  <2>5. Between(p, y) \cup {p} \subseteq Between(x, y)
    <3>1. p \in Ancestry[x] /\ Ancestry[p] \subseteq Ancestry[x]
      BY AncestorsAre
    <3>2. y \in Ancestry[p]
      BY <2>1, WalkAncestor
    <3>3. x \notin Ancestry[p]
      BY <2>3, AncestorsAre
    <3> QED BY <2>3, <3>1, <3>2, <3>3 DEF Between
  <2>6. Cardinality(Between(p, y) \cup {p}) = Cardinality(Between(p, y)) + 1
    BY <1>2, <2>3, <2>4, FS_AddElement
  <2>7. Cardinality(Between(p, y) \cup {p}) <= Cardinality(Between(x, y))
    BY <1>2, <2>5, FS_Subset
  <2>8. i + 1 <= Cardinality(Between(x, y))
    BY <1>2, <2>1, <2>3, <2>6, <2>7
  <2> QED BY <2>2, <2>8
<1>5. T \in SUBSET Walks
  BY <1>1
<1>6. Rules(T)
  BY <1>3, <1>4, <1>5 DEF Rules
<1>7. <<c, to, k>> \in T /\ <<c, to, k>> \in Walks
  BY <1>1, <1>6, WalkLeast
<1> QED BY <1>2, <1>7 DEF Walks

Shortest(c, to, m) ==
  m \in Nat /\ <<c, to, m>> \in Walk /\ \A k \in Nat : <<c, to, k>> \in Walk => m <= k

LEMMA ShortestUnique ==
  ASSUME NEW c, NEW to, NEW m, NEW k, Shortest(c, to, m), Shortest(c, to, k)
  PROVE  m = k
BY DEF Shortest

LEMMA ShortestExists ==
  ASSUME NEW c \in Commits, NEW to \in Ancestry[c]
  PROVE  \E m : Shortest(c, to, m)
<1> DEFINE S == {k \in Nat : <<c, to, k>> \in Walk}
<1>1. PICK m \in S : \A k \in S : m <= k
  <2>1. S \in SUBSET Nat /\ S # {}
    BY AncestorWalk
  <2> HIDE DEF S
  <2> QED BY <2>1, Least
<1> QED BY <1>1 DEF Shortest

\* The parents that lead to a commit.
Through(c, to) == {p \in Parents[c] : to \in Ancestry[p]}

\* One edge more than from the parent nearest to it.
LEMMA ShortestStep ==
  ASSUME NEW c \in Commits, NEW to \in Ancestry[c], c # to,
         NEW f, \A p \in Through(c, to) : Shortest(p, to, f[p])
  PROVE  /\ Through(c, to) # {}
         /\ Shortest(c, to, 1 + (CHOOSE s \in {f[p] : p \in Through(c, to)} :
                                   \A p \in Through(c, to) : s <= f[p]))
<1> DEFINE through == Through(c, to)
           D == {f[p] : p \in through}
           s == CHOOSE x \in D : \A p \in through : x <= f[p]
<1>1. to \in Commits
  BY AncestorsAre
<1>2. through # {}
  BY AncestryIs DEF Through
<1>3. \A p \in through : f[p] \in Nat
  BY DEF Shortest
<1>4. \E x \in D : \A p \in through : x <= f[p]
  <2>1. D \in SUBSET Nat /\ D # {}
    BY <1>2, <1>3
  <2>2. PICK x \in D : \A y \in D : x <= y
    <3> HIDE DEF D
    <3> QED BY <2>1, Least
  <2> QED BY <2>2
<1>5. s \in D /\ \A p \in through : s <= f[p]
  <2> HIDE DEF D, through
  <2> QED BY <1>4
<1> HIDE DEF s
<1>6. PICK q \in through : s = f[q]
  BY <1>5
<1>7. s \in Nat /\ <<q, to, s>> \in Walk /\ q \in Parents[c]
  BY <1>6 DEF Shortest, Through
<1>8. <<c, to, s + 1>> \in Walk
  BY <1>1, <1>7, WalkRules DEF Rules
<1>9. ASSUME NEW k \in Nat, <<c, to, k>> \in Walk PROVE 1 + s <= k
  <2>1. k # 0
    BY <1>9, WalkStep
  <2>2. PICK p \in Parents[c] : <<p, to, k - 1>> \in Walk
    BY <1>9, <2>1, WalkStep
  <2>3. p \in through /\ k - 1 \in Nat
    BY <2>1, <2>2, WalkAncestor DEF Through
  <2>4. f[p] \in Nat /\ f[p] <= k - 1
    BY <2>2, <2>3 DEF Shortest
  <2>5. s <= f[p]
    BY <1>5, <2>3
  <2> QED BY <1>7, <2>4, <2>5
<1>10. Shortest(c, to, 1 + s)
  BY <1>7, <1>8, <1>9 DEF Shortest
<1> QED BY <1>2, <1>10 DEF s

\* What the definition of Edges says of a function that satisfies it.
EdgesOf(f, c, to) ==
  IF c = to THEN 0
  ELSE IF Through(c, to) = {} THEN Unknown
  ELSE 1 + (CHOOSE s \in {f[p][to] : p \in Through(c, to)} :
              \A p \in Through(c, to) : s <= f[p][to])

LEMMA EdgesOfIs ==
  ASSUME NEW c \in Commits, NEW to \in Commits,
         NEW f, \A p \in Through(c, to) : Shortest(p, to, f[p][to])
  PROVE  /\ to \in Ancestry[c] => Shortest(c, to, EdgesOf(f, c, to))
         /\ to \notin Ancestry[c] => EdgesOf(f, c, to) = Unknown
<1>1. CASE c = to
  <2>1. to \in Ancestry[c] /\ EdgesOf(f, c, to) = 0
    BY <1>1, AncestorsAre DEF EdgesOf
  <2>2. Shortest(c, to, 0)
    BY <1>1, WalkRules DEF Rules, Shortest
  <2> QED BY <2>1, <2>2
<1>2. CASE c # to /\ to \in Ancestry[c]
  <2> DEFINE g == [p \in Through(c, to) |-> f[p][to]]
  <2>1. \A p \in Through(c, to) : g[p] = f[p][to]
    OBVIOUS
  <2> HIDE DEF g
  <2>2. {g[p] : p \in Through(c, to)} = {f[p][to] : p \in Through(c, to)}
    BY <2>1
  <2>3. \A s : (\A p \in Through(c, to) : s <= g[p]) <=> (\A p \in Through(c, to) : s <= f[p][to])
    BY <2>1
  <2> DEFINE D == {f[p][to] : p \in Through(c, to)}
             a == CHOOSE s \in D : \A p \in Through(c, to) : s <= g[p]
             b == CHOOSE s \in D : \A p \in Through(c, to) : s <= f[p][to]
  <2>4. a = b
    <3> HIDE DEF D
    <3> QED BY <2>3
  <2>5. Through(c, to) # {} /\ Shortest(c, to, 1 + a)
    BY <1>2, <2>1, <2>2, ShortestStep
  <2>6. EdgesOf(f, c, to) = 1 + b
    BY <1>2, <2>5 DEF EdgesOf
  <2> HIDE DEF a, b
  <2> QED BY <1>2, <2>4, <2>5, <2>6
<1>3. CASE to \notin Ancestry[c]
  <2>1. c # to /\ Through(c, to) = {}
    BY <1>3, AncestorsAre DEF Through
  <2> QED BY <1>3, <2>1 DEF EdgesOf
<1> QED BY <1>1, <1>2, <1>3

LEMMA EdgesStep ==
  ASSUME NEW c \in Commits, NEW to \in Commits
  PROVE  Edges[c][to] = EdgesOf(Edges, c, to)
<1> DEFINE E(x, y) == IF y \in Ancestry[x] THEN CHOOSE m : Shortest(x, y, m) ELSE Unknown
           Is(f)   == f = [x \in Commits |-> [y \in Commits |-> EdgesOf(f, x, y)]]
           g       == [x \in Commits |-> [y \in Commits |-> E(x, y)]]
<1>1. ASSUME NEW x \in Commits, NEW y \in Ancestry[x] PROVE Shortest(x, y, E(x, y))
  <2>1. E(x, y) = CHOOSE m : Shortest(x, y, m)
    OBVIOUS
  <2> QED BY <2>1, ShortestExists
<1>2. ASSUME NEW x \in Commits, NEW y \in Commits PROVE E(x, y) = EdgesOf(g, x, y)
  <2>1. \A p \in Through(x, y) : p \in Commits /\ y \in Ancestry[p]
    BY ParentsAre DEF Through
  <2>2. \A p \in Through(x, y) : g[p][y] = E(p, y)
    BY <2>1
  <2> HIDE DEF g
  <2>3. y \notin Ancestry[x] => E(x, y) = Unknown
    OBVIOUS
  <2> HIDE DEF E
  <2>4. \A p \in Through(x, y) : Shortest(p, y, g[p][y])
    BY <1>1, <2>1, <2>2
  <2> QED BY <1>1, <2>3, <2>4, EdgesOfIs, ShortestUnique
<1>3. Is(g)
  <2> HIDE DEF E
  <2> DEFINE h == [x \in Commits |-> [y \in Commits |-> EdgesOf(g, x, y)]]
  <2>1. ASSUME NEW x \in Commits PROVE [y \in Commits |-> E(x, y)] = [y \in Commits |-> EdgesOf(g, x, y)]
    <3> HIDE DEF g
    <3> QED BY <1>2
  <2>2. g = h
    BY <2>1, Zenon
  <2> HIDE DEF g, h
  <2> QED BY <2>2 DEF h
<1>4. Edges = CHOOSE f : Is(f)
  BY DEF Edges, EdgesOf, Through
<1> HIDE DEF g
<1>5. \E f : Is(f)
  BY <1>3
<1>6. Is(Edges)
  <2> HIDE DEF Is
  <2> QED BY <1>4, <1>5
<1> QED BY <1>6

\* Edges counts the shortest walk to an ancestor.
LEMMA EdgesAre ==
  ASSUME NEW c \in Commits, NEW to \in Ancestry[c]
  PROVE  Shortest(c, to, Edges[c][to])
<1> DEFINE Good(x) == \A a \in Ancestry[x] : Shortest(x, a, Edges[x][a])
           Bad     == {x \in Commits : ~Good(x)}
<1>1. SUFFICES ASSUME Bad # {} PROVE FALSE
  OBVIOUS
<1>2. PICK m \in Bad : \A x \in Bad : m <= x
  <2>1. Bad \in SUBSET Nat
    BY ParentsAre
  <2> HIDE DEF Bad
  <2> QED BY <1>1, <2>1, Least
<1>3. m \in Commits /\ m \in Nat
  BY ParentsAre
<1>4. \A p \in Parents[m] : p \in Commits /\ Good(p)
  <2>1. \A p \in Parents[m] : p \in Commits /\ p \in Nat /\ p < m
    BY <1>3, ParentsAre
  <2>2. \A x \in Commits : x \notin Bad => Good(x)
    OBVIOUS
  <2> HIDE DEF Good, Bad
  <2> QED BY <1>2, <1>3, <2>1, <2>2
<1>5. ASSUME NEW a \in Ancestry[m] PROVE Shortest(m, a, Edges[m][a])
  <2>1. a \in Commits
    BY <1>3, AncestorsAre
  <2>2. \A p \in Through(m, a) : Shortest(p, a, Edges[p][a])
    BY <1>4 DEF Through
  <2> QED BY <1>3, <2>1, <2>2, EdgesOfIs, EdgesStep
<1>6. Good(m)
  BY <1>5
<1> QED BY <1>6

-----------------------------------------------------------------------------
(***************************************************************************)
(* The breadth-first search finds the shortest walk, provided that the     *)
(* commits it may visit include every one on a walk to the candidate.      *)
(***************************************************************************)
\* The rounds of a search.
Rounds(g, head, nodes, last) ==
  g = [k \in 0 .. last |-> IF k = 0 THEN {head}
                           ELSE UNION {Parents[c] \cap nodes : c \in g[k - 1]}]

Reached(head, nodes) == CHOOSE g : Rounds(g, head, nodes, Cardinality(nodes))

LEMMA RoundsExist ==
  ASSUME NEW head, NEW nodes, NEW last \in Nat
  PROVE  \E g : Rounds(g, head, nodes, last)
<1> DEFINE Bad == {m \in Nat : ~\E g : Rounds(g, head, nodes, m)}
<1>1. SUFFICES ASSUME Bad # {} PROVE FALSE
  OBVIOUS
<1>2. PICK m \in Bad : \A x \in Bad : m <= x
  <2>1. Bad \in SUBSET Nat
    OBVIOUS
  <2> HIDE DEF Bad
  <2> QED BY <1>1, <2>1, Least
<1>3. m \in Nat
  OBVIOUS
<1>4. m # 0
  <2> DEFINE g == [k \in 0 .. 0 |-> {head}]
  <2>1. Rounds(g, head, nodes, 0)
    BY DEF Rounds
  <2> HIDE DEF g
  <2> QED BY <2>1
<1>5. PICK g : Rounds(g, head, nodes, m - 1)
  <2>1. m - 1 \in Nat /\ ~(m <= m - 1)
    BY <1>3, <1>4
  <2> QED BY <1>2, <2>1
<1> DEFINE f == [k \in 0 .. m |-> IF k = 0 THEN {head}
                                  ELSE UNION {Parents[c] \cap nodes : c \in g[k - 1]}]
<1>6. ASSUME NEW k \in 0 .. m - 1 PROVE f[k] = g[k]
  <2>1. k \in 0 .. m
    BY <1>3
  <2> QED BY <1>5, <2>1 DEF Rounds
<1>7. Rounds(f, head, nodes, m)
  <2>1. ASSUME NEW k \in 0 .. m, k # 0 PROVE f[k - 1] = g[k - 1]
    <3>1. k - 1 \in 0 .. m - 1
      BY <1>3, <2>1
    <3> HIDE DEF f
    <3> QED BY <1>6, <3>1
  <2>2. f = [k \in 0 .. m |-> IF k = 0 THEN {head}
                              ELSE UNION {Parents[c] \cap nodes : c \in f[k - 1]}]
    <3>1. ASSUME NEW k \in 0 .. m
          PROVE  (IF k = 0 THEN {head} ELSE UNION {Parents[c] \cap nodes : c \in g[k - 1]})
                   = (IF k = 0 THEN {head} ELSE UNION {Parents[c] \cap nodes : c \in f[k - 1]})
      <4> HIDE DEF f
      <4> QED BY <2>1
    <3> QED BY <3>1, Zenon
  <2> HIDE DEF f
  <2> QED BY <2>2 DEF Rounds
<1> HIDE DEF f
<1> QED BY <1>2, <1>7

LEMMA ReachedIs ==
  ASSUME NEW head, NEW nodes, IsFiniteSet(nodes)
  PROVE  /\ Cardinality(nodes) \in Nat
         /\ DOMAIN Reached(head, nodes) = 0 .. Cardinality(nodes)
         /\ Reached(head, nodes)[0] = {head}
         /\ \A k \in 1 .. Cardinality(nodes) :
              Reached(head, nodes)[k] = UNION {Parents[c] \cap nodes : c \in Reached(head, nodes)[k - 1]}
<1>1. Cardinality(nodes) \in Nat
  BY FS_CardinalityType
<1>2. Rounds(Reached(head, nodes), head, nodes, Cardinality(nodes))
  BY <1>1, RoundsExist DEF Reached
<1> DEFINE g == Reached(head, nodes)
<1> HIDE DEF g
<1>3. Rounds(g, head, nodes, Cardinality(nodes))
  BY <1>2 DEF g
<1>4. /\ DOMAIN g = 0 .. Cardinality(nodes)
      /\ g[0] = {head}
      /\ \A k \in 1 .. Cardinality(nodes) : g[k] = UNION {Parents[c] \cap nodes : c \in g[k - 1]}
  BY <1>1, <1>3 DEF Rounds
<1> QED BY <1>1, <1>4 DEF g

\* A walk goes on to the parents of its end.
LEMMA WalkOn ==
  ASSUME NEW c, NEW x, NEW k, <<c, x, k>> \in Walk, NEW d \in Parents[x]
  PROVE  <<c, d, k + 1>> \in Walk
<1> DEFINE T == {w \in Walk : \A y \in Parents[w[2]] : <<w[1], y, w[3] + 1>> \in Walk}
<1>1. Walk \in SUBSET Walks
  BY WalkRules DEF Rules
<1>2. ASSUME NEW a \in Commits PROVE <<a, a, 0>> \in T
  <2>1. ASSUME NEW y \in Parents[a] PROVE <<a, y, 0 + 1>> \in Walk
    BY WalkRules, ParentsAre DEF Rules
  <2> QED BY <2>1, WalkRules DEF Rules
<1>3. ASSUME NEW a \in Commits, NEW p \in Parents[a], NEW b \in Commits, NEW i \in Nat,
             <<p, b, i>> \in T
      PROVE  <<a, b, i + 1>> \in T
  <2>1. <<a, b, i + 1>> \in Walk
    BY <1>3, WalkRules DEF Rules
  <2>2. ASSUME NEW y \in Parents[b] PROVE <<a, y, (i + 1) + 1>> \in Walk
    <3>1. <<p, y, i + 1>> \in Walk /\ y \in Commits
      BY <1>3, ParentsAre
    <3> QED BY <3>1, WalkRules DEF Rules
  <2> QED BY <2>1, <2>2
<1>4. T \in SUBSET Walks
  BY <1>1
<1>5. Rules(T)
  BY <1>2, <1>3, <1>4 DEF Rules
<1>6. <<c, x, k>> \in T
  BY <1>5, WalkLeast
<1> QED BY <1>6

\* A commit reached in so many rounds is so many edges away.
LEMMA ReachedWalks ==
  ASSUME NEW head \in Commits, NEW nodes, IsFiniteSet(nodes),
         NEW k \in 0 .. Cardinality(nodes), NEW d \in Reached(head, nodes)[k]
  PROVE  <<head, d, k>> \in Walk
<1> DEFINE g == Reached(head, nodes)
           K == Cardinality(nodes)
<1>1. /\ K \in Nat /\ g[0] = {head}
      /\ \A i \in 1 .. K : g[i] = UNION {Parents[c] \cap nodes : c \in g[i - 1]}
  BY ReachedIs
<1> HIDE DEF g
<1> DEFINE Bad == {i \in 0 .. K : ~\A x \in g[i] : <<head, x, i>> \in Walk}
<1>2. SUFFICES ASSUME Bad # {} PROVE FALSE
  BY DEF g
<1>3. PICK m \in Bad : \A i \in Bad : m <= i
  <2>1. Bad \in SUBSET Nat
    BY <1>1
  <2> HIDE DEF Bad
  <2> QED BY <1>2, <2>1, Least
<1>4. m \in 0 .. K
  OBVIOUS
<1>5. PICK x \in g[m] : <<head, x, m>> \notin Walk
  OBVIOUS
<1>6. m # 0
  BY <1>1, <1>5, WalkRules DEF Rules
<1>7. m \in 1 .. K /\ m - 1 \in 0 .. K /\ ~(m <= m - 1) /\ m - 1 \in Nat
  BY <1>1, <1>4, <1>6
<1>8. PICK c \in g[m - 1] : x \in Parents[c]
  BY <1>1, <1>5, <1>7
<1>9. <<head, c, m - 1>> \in Walk
  <2>1. m - 1 \notin Bad
    BY <1>3, <1>7
  <2> QED BY <1>7, <1>8, <2>1
<1>10. <<head, x, (m - 1) + 1>> \in Walk
  BY <1>8, <1>9, WalkOn
<1> QED BY <1>5, <1>7, <1>10

\* A walk to a commit leads the search there, round by round, if the search may
\* visit what is on the way.
LEMMA WalksReached ==
  ASSUME NEW head \in Commits, NEW nodes, IsFiniteSet(nodes), NEW to \in Commits,
         Between(head, to) \subseteq nodes, NEW m, <<head, to, m>> \in Walk
  PROVE  m \in 0 .. Cardinality(nodes) /\ to \in Reached(head, nodes)[m]
<1> DEFINE g == Reached(head, nodes)
           K == Cardinality(nodes)
<1>1. /\ K \in Nat /\ g[0] = {head}
      /\ \A i \in 1 .. K : g[i] = UNION {Parents[c] \cap nodes : c \in g[i - 1]}
  BY ReachedIs
<1>2. m \in 0 .. K
  <2>1. m \in Nat /\ m <= Cardinality(Between(head, to)) /\ IsFiniteSet(Between(head, to))
    BY WalkBound
  <2>2. Cardinality(Between(head, to)) \in Nat /\ Cardinality(Between(head, to)) <= K
    BY <2>1, FS_CardinalityType, FS_Subset
  <2> QED BY <1>1, <2>1, <2>2
<1> HIDE DEF g, K
<1> DEFINE Led(c, k) == \A j \in Nat : c \in Ancestry[head] /\ c \in g[j] /\ j + k <= K => to \in g[j + k]
           T == {w \in Walk : w[2] = to => Led(w[1], w[3])}
<1>3. Walk \in SUBSET Walks
  BY WalkRules DEF Rules
<1>4. ASSUME NEW c \in Commits PROVE <<c, c, 0>> \in T
  <2>1. c = to => Led(c, 0)
    OBVIOUS
  <2> QED BY <2>1, WalkRules DEF Rules
<1>5. ASSUME NEW c \in Commits, NEW p \in Parents[c], NEW y \in Commits, NEW i \in Nat,
             <<p, y, i>> \in T
      PROVE  <<c, y, i + 1>> \in T
  <2>1. <<p, y, i>> \in Walk /\ (y = to => Led(p, i))
    BY <1>5
  <2>2. <<c, y, i + 1>> \in Walk
    BY <2>1, WalkRules DEF Rules
  <2>3. ASSUME y = to, NEW j \in Nat, c \in Ancestry[head], c \in g[j], j + (i + 1) <= K
        PROVE  to \in g[j + (i + 1)]
    <3>1. p \in Ancestry[head]
      BY <2>3, AncestorsAre
    <3>2. p \in nodes
      <4>1. to \in Ancestry[p]
        BY <2>1, <2>3, WalkAncestor
      <4>2. p # head
        BY <2>3, AncestorsAre, ParentsAre
      <4> QED BY <3>1, <4>1, <4>2 DEF Between
    <3>3. j + 1 \in 1 .. K /\ (j + 1) - 1 = j /\ j + 1 \in Nat
      BY <1>1, <2>3 DEF K
    <3>4. p \in g[j + 1]
      <4>1. g[j + 1] = UNION {Parents[x] \cap nodes : x \in g[(j + 1) - 1]}
        BY <1>1, <3>3
      <4> QED BY <2>3, <3>2, <3>3, <4>1
    <3>5. (j + 1) + i <= K /\ (j + 1) + i = j + (i + 1)
      BY <1>1, <2>3
    <3> QED BY <2>1, <2>3, <3>1, <3>3, <3>4, <3>5
  <2>4. y = to => Led(c, i + 1)
    BY <2>3
  <2> HIDE DEF Led
  <2> QED BY <2>2, <2>4
<1> HIDE DEF Led
<1>6. T \in SUBSET Walks
  BY <1>3
<1> HIDE DEF T
<1>7. Rules(T)
  BY <1>4, <1>5, <1>6 DEF Rules
<1>8. <<head, to, m>> \in T
  BY <1>7, WalkLeast
<1>9. Led(head, m)
  BY <1>8 DEF T
<1>10. head \in Ancestry[head] /\ head \in g[0] /\ 0 + m <= K /\ 0 + m = m
  BY <1>1, <1>2, AncestorsAre
<1>11. to \in g[0 + m]
  BY <1>9, <1>10 DEF Led
<1> QED BY <1>2, <1>10, <1>11 DEF g, K

LEMMA LeastIs ==
  ASSUME NEW S, NEW m \in S, m \in Nat, \A k \in S : k \in Nat /\ m <= k
  PROVE  (CHOOSE k \in S : \A l \in S : k <= l) = m
<1> DEFINE x == CHOOSE k \in S : \A l \in S : k <= l
<1>1. x \in S /\ \A l \in S : x <= l
  OBVIOUS
<1> HIDE DEF x
<1>2. x \in Nat /\ x <= m /\ m <= x
  BY <1>1
<1>3. x = m
  BY <1>2
<1> QED BY <1>3 DEF x

\* For any history and any set of commits that holds every commit between the
\* two: dagDistances is the length of the shortest path of parent edges.
THEOREM SearchFindsShortest ==
  ASSUME NEW head \in Commits, NEW nodes, IsFiniteSet(nodes), NEW to \in Ancestry[head],
         to \in nodes \cup {head}, Between(head, to) \subseteq nodes
  PROVE  dagDistances(head, nodes)[to] = Edges[head][to]
<1> DEFINE g == Reached(head, nodes)
           at(c) == {k \in DOMAIN g : c \in g[k]}
           first(c) == IF at(c) = {} THEN Unknown ELSE CHOOSE k \in at(c) : \A l \in at(c) : k <= l
           m == Edges[head][to]
<1>1. dagDistances(head, nodes) = [c \in nodes \cup {head} |-> first(c)]
  BY DEF dagDistances, Reached, Rounds
<1>2. dagDistances(head, nodes)[to] = first(to)
  <2> HIDE DEF first
  <2> QED BY <1>1
<1>3. DOMAIN g = 0 .. Cardinality(nodes) /\ Cardinality(nodes) \in Nat
  BY ReachedIs
<1>4. Shortest(head, to, m) /\ to \in Commits
  BY EdgesAre, AncestorsAre
<1>5. m \in at(to)
  BY <1>3, <1>4, WalksReached DEF Shortest
<1>6. \A k \in at(to) : k \in Nat /\ m <= k
  <2>1. ASSUME NEW k \in at(to) PROVE k \in Nat /\ <<head, to, k>> \in Walk
    BY <1>3, ReachedWalks
  <2> QED BY <1>4, <2>1 DEF Shortest
<1>7. m \in Nat
  BY <1>4 DEF Shortest
<1>8. first(to) = m
  <2>1. first(to) = CHOOSE k \in at(to) : \A l \in at(to) : k <= l
    BY <1>5
  <2>2. \A k \in at(to) : k \in Nat /\ m <= k
    BY <1>6
  <2> HIDE DEF at, first, m
  <2> QED BY <1>5, <1>7, <2>1, <2>2, LeastIs
<1> QED BY <1>2, <1>8

-----------------------------------------------------------------------------
(***************************************************************************)
(* The selection: whatever the checkout holds, a distance that is found is *)
(* the number of parent edges, and the donor is the nearest proven entry.  *)
(***************************************************************************)
LEMMA RevListIs ==
  ASSUME NEW head \in Commits, NEW depth \in Nat
  PROVE  /\ RevList(head, depth) \subseteq Ancestry[head] /\ IsFiniteSet(RevList(head, depth))
         /\ \A to \in RevList(head, depth) : Between(head, to) \subseteq RevList(head, depth)
<1> DEFINE Newer(c) == {d \in Ancestry[head] : d > c}
<1>1. RevList(head, depth) = {c \in Ancestry[head] : Cardinality(Newer(c)) < depth}
  BY DEF RevList
<1>2. IsFiniteSet(Ancestry[head]) /\ Ancestry[head] \subseteq Commits
  BY FiniteAncestry, AncestorsAre
<1>3. \A c : IsFiniteSet(Newer(c)) /\ Cardinality(Newer(c)) \in Nat
  <2>1. \A c : IsFiniteSet(Newer(c))
    BY <1>2, FS_Subset
  <2> HIDE DEF Newer
  <2> QED BY <2>1, FS_CardinalityType
<1>4. ASSUME NEW to \in Ancestry[head], Cardinality(Newer(to)) < depth, NEW p \in Between(head, to)
      PROVE  p \in Ancestry[head] /\ Cardinality(Newer(p)) < depth
  <2>1. p \in Ancestry[head] /\ to \in Ancestry[p]
    BY DEF Between
  <2>2. p \in Nat /\ to \in Nat /\ to <= p /\ Ancestry[head] \subseteq Nat
    BY <1>2, <2>1, AncestorsAre, ParentsAre
  <2>3. Newer(p) \subseteq Newer(to)
    BY <2>2
  <2> HIDE DEF Newer
  <2>4. Cardinality(Newer(p)) <= Cardinality(Newer(to))
    BY <1>3, <2>3, FS_Subset
  <2> QED BY <1>3, <1>4, <2>1, <2>4
<1> HIDE DEF Newer
<1> QED BY <1>1, <1>2, <1>4, FS_Subset

LEMMA MeasuredIs ==
  ASSUME NEW head \in Commits, NEW c, NEW shallow, NEW fetches,
         NEW m, m = Measured(c, head, shallow, fetches)
  PROVE  /\ m.entry = c.entry /\ m.key = c.key
         /\ m.distance \in Nat \cup {Thrown, Unknown}
         /\ m.distance >= 0 => c.key.sha \in Ancestry[head]
         /\ c.key.sha \in Ancestry[head] => m.distance \in {Thrown, Edges[head][c.key.sha]}
<1> DEFINE sha   == c.key.sha
           nodes == LocalHistory(head, sha, shallow, fetches)
           ahead == Ancestry[head] \ Ancestry[sha]
           local == LocalDistance(head, sha, shallow, fetches)
<1>1. /\ m.entry = c.entry /\ m.key = c.key
      /\ m.distance = IF local = Unknown THEN CompareDistance(head, sha) ELSE local
  BY DEF Measured
<1>2. \A to \in Ancestry[head] : Edges[head][to] \in Nat
  BY EdgesAre DEF Shortest
<1>3. /\ nodes \subseteq Ancestry[head] /\ IsFiniteSet(nodes)
      /\ \A to \in nodes : Between(head, to) \subseteq nodes
  <2>1. nodes \in {RevList(head, 1), RevList(head, HistoryBound)}
    BY DEF LocalHistory
  <2>2. HistoryBound \in Nat /\ 1 \in Nat
    BY BoundsAssumption
  <2> HIDE DEF nodes
  <2> QED BY <2>1, <2>2, RevListIs
<1>4. sha \in nodes => sha \in Ancestry[head] /\ local = Edges[head][sha]
  <2>1. sha \in nodes => dagDistances(head, nodes)[sha] = Edges[head][sha]
    <3> HIDE DEF nodes
    <3> QED BY <1>3, SearchFindsShortest
  <2> QED BY <1>3, <2>1 DEF LocalDistance
<1>5. sha \notin nodes => local = Unknown
  BY DEF LocalDistance
<1>6. sha \notin Ancestry[head] => CompareDistance(head, sha) = Unknown
  BY DEF CompareDistance
<1>7. sha \in Ancestry[head] => CompareDistance(head, sha) \in {Thrown, Edges[head][sha]}
  <2> SUFFICES ASSUME sha \in Ancestry[head]
               PROVE  dagDistances(head, ahead \cup {sha})[sha] = Edges[head][sha]
    BY DEF CompareDistance
  <2>1. IsFiniteSet(ahead \cup {sha})
    BY FiniteAncestry, FS_Subset, FS_AddElement
  <2>2. Between(head, sha) \subseteq ahead \cup {sha}
    <3>1. sha \in Commits
      BY AncestorsAre
    <3>2. ASSUME NEW d \in Between(head, sha), d \in Ancestry[sha] PROVE d = sha
      <4>1. d \in Commits /\ sha \in Ancestry[d]
        BY AncestorsAre DEF Between
      <4>2. d \in Nat /\ sha \in Nat /\ sha <= d /\ d <= sha
        BY <3>1, <3>2, <4>1, AncestorsAre, ParentsAre
      <4> QED BY <4>2
    <3> QED BY <3>2 DEF Between
  <2>3. sha \in (ahead \cup {sha}) \cup {head}
    OBVIOUS
  <2> HIDE DEF ahead, sha
  <2> QED BY <2>1, <2>2, <2>3, SearchFindsShortest
<1> HIDE DEF nodes, local
<1>8. (local # Unknown /\ m.distance = local) \/ (local = Unknown /\ m.distance = CompareDistance(head, sha))
  BY <1>1
<1>9. sha \in Ancestry[head] => Edges[head][sha] \in Nat
  BY <1>2
<1>10. CASE sha \in nodes
  <2>1. sha \in Ancestry[head] /\ local \in Nat /\ local = Edges[head][sha]
    BY <1>4, <1>9, <1>10
  <2>2. m.distance = local
    BY <1>8, <2>1 DEF Unknown
  <2> QED BY <1>1, <2>1, <2>2
<1>11. CASE sha \notin nodes
  <2>1. m.distance = CompareDistance(head, sha)
    BY <1>5, <1>8, <1>11
  <2>2. CASE sha \in Ancestry[head]
    BY <1>1, <1>7, <1>9, <2>1, <2>2 DEF Thrown
  <2>3. CASE sha \notin Ancestry[head]
    BY <1>1, <1>6, <2>1, <2>3 DEF Unknown
  <2> QED BY <2>2, <2>3
<1> QED BY <1>10, <1>11

\* Of the candidates with a proof none is nearer than the first one found: those
\* beyond the bound are no nearer than those within it.
LEMMA FirstIsNearest ==
  ASSUME NEW ranked, IsFiniteSet(ranked), \A c \in ranked : c.distance \in Nat,
         NEW writers, NEW log, NEW d \in FirstClean(Tried(ranked), writers, log)
  PROVE  /\ d \in ranked /\ cleanSave(d.entry, d.key, writers, log)
         /\ \A e \in ranked : cleanSave(e.entry, e.key, writers, log) => d.distance <= e.distance
<1> DEFINE Ahead(c) == {x \in ranked : Nearer(x, c)}
<1>1. /\ d \in ranked /\ cleanSave(d.entry, d.key, writers, log)
      /\ Cardinality(Ahead(d)) < ProofBound
      /\ \A e \in Tried(ranked) : cleanSave(e.entry, e.key, writers, log) => d = e \/ Nearer(d, e)
  BY DEF FirstClean, Tried
<1>2. \A c : IsFiniteSet(Ahead(c)) /\ Cardinality(Ahead(c)) \in Nat
  <2>1. \A c : IsFiniteSet(Ahead(c))
    BY FS_Subset
  <2> HIDE DEF Ahead
  <2> QED BY <2>1, FS_CardinalityType
<1>3. ASSUME NEW e \in ranked, cleanSave(e.entry, e.key, writers, log)
      PROVE  d.distance <= e.distance
  <2>0. d.distance \in Nat /\ e.distance \in Nat
    BY <1>1
  <2>1. CASE e \in Tried(ranked)
    BY <1>1, <1>3, <2>0, <2>1 DEF Nearer
  <2>2. CASE e \notin Tried(ranked)
    <3>1. SUFFICES ASSUME e.distance < d.distance PROVE FALSE
      BY <2>0
    <3>2. ASSUME NEW x \in Ahead(e) PROVE x \in Ahead(d)
      <4>1. x \in ranked /\ x.distance \in Nat /\ x.distance <= e.distance
        BY <2>0, <3>2 DEF Nearer
      <4> QED BY <2>0, <3>1, <4>1 DEF Nearer
    <3>3. ~(Cardinality(Ahead(e)) < ProofBound)
      BY <2>2 DEF Tried
    <3> HIDE DEF Ahead
    <3>4. Cardinality(Ahead(e)) <= Cardinality(Ahead(d))
      BY <1>2, <3>2, FS_Subset
    <3> QED BY <1>1, <1>2, <3>3, <3>4, BoundsAssumption
  <2> QED BY <2>1, <2>2
<1> HIDE DEF Ahead
<1> QED BY <1>1, <1>3

LEMMA FiniteImage ==
  ASSUME NEW S, IsFiniteSet(S), NEW f, f = [x \in S |-> f[x]]
  PROVE  IsFiniteSet({f[x] : x \in S})
<1> DEFINE T == {f[x] : x \in S}
<1>1. f \in Surjection(S, T)
  BY DEF Surjection
<1> HIDE DEF T
<1> QED BY <1>1, FS_Surjection DEF T

LEMMA FiniteEligible ==
  ASSUME NEW identity, NEW refs, NEW entries, IsFiniteSet(entries)
  PROVE  IsFiniteSet(Eligible(identity, refs, entries))
<1> DEFINE part(e) == [sha |-> e.key[Len(ancestorKeyPrefix(identity)) + 1][2],
                       run |-> e.key[Len(ancestorKeyPrefix(identity)) + 2][2],
                       pull |-> Len(e.key) = Len(ancestorKeyPrefix(identity)) + 3]
           f == [e \in entries |-> [entry |-> e, key |-> part(e)]]
<1>1. IsFiniteSet({f[e] : e \in entries})
  <2>1. f = [e \in entries |-> f[e]]
    OBVIOUS
  <2> HIDE DEF f
  <2> QED BY <2>1, FiniteImage
<1>2. \A e : \A k \in parseAncestorKey(identity, e.key) : k = part(e)
  BY DEF parseAncestorKey
<1>3. ASSUME NEW c \in Eligible(identity, refs, entries) PROVE \E e \in entries : c = f[e]
  <2>1. PICK e \in entries : \E k \in parseAncestorKey(identity, e.key) : c = [entry |-> e, key |-> k]
    BY DEF Eligible, Candidates
  <2> HIDE DEF part
  <2>2. c = [entry |-> e, key |-> part(e)]
    BY <1>2, <2>1
  <2>3. f[e] = [entry |-> e, key |-> part(e)]
    OBVIOUS
  <2> QED BY <2>2, <2>3
<1> HIDE DEF f
<1>4. Eligible(identity, refs, entries) \subseteq {f[e] : e \in entries}
  BY <1>3
<1> QED BY <1>1, <1>4, FS_Subset

\* For any entries, logs, writers, checkout and bounds: selectAncestorCache
\* returns an eligible entry with a clean proof whose commit is an ancestor,
\* and no such entry is of a nearer commit.
THEOREM SelectsNearestProven ==
  ASSUME NEW head \in Commits, NEW identity, NEW refs, NEW entries, IsFiniteSet(entries),
         NEW writers, NEW log, NEW shallow, NEW fetches, NEW donor,
         donor = selectAncestorCache(head, identity, refs, entries, writers, log, shallow, fetches),
         donor.found
  PROVE  \E c \in Eligible(identity, refs, entries) :
           /\ donor.key = c.entry.key /\ donor.id = c.entry.id
           /\ cleanSave(c.entry, c.key, writers, log) /\ c.key.sha \in Ancestry[head]
           /\ \A e \in Eligible(identity, refs, entries) :
                cleanSave(e.entry, e.key, writers, log) /\ e.key.sha \in Ancestry[head]
                  => Edges[head][c.key.sha] <= Edges[head][e.key.sha]
<1> DEFINE eligible == Eligible(identity, refs, entries)
           measured == {Measured(c, head, shallow, fetches) : c \in eligible}
           ranked   == Ranked(measured)
           tried    == Tried(ranked)
           first    == FirstClean(tried, writers, log)
           d        == CHOOSE c \in first : TRUE
<1>1. donor = Donor(refs, measured, tried, first, writers, log)
  BY DEF selectAncestorCache, DonorAmong
<1>2. \A reason : ~NoDonor(reason).found
  BY DEF NoDonor
<1>3. /\ first # {} /\ \A c \in measured : c.distance # Thrown
      /\ donor.key = d.entry.key /\ donor.id = d.entry.id
  <2> HIDE DEF measured, tried, first
  <2> QED BY <1>1, <1>2 DEF Donor
<1>4. IsFiniteSet(ranked)
  <2> DEFINE f == [c \in eligible |-> Measured(c, head, shallow, fetches)]
  <2>1. IsFiniteSet({f[c] : c \in eligible})
    <3>1. IsFiniteSet(eligible)
      BY FiniteEligible
    <3>2. f = [c \in eligible |-> f[c]]
      OBVIOUS
    <3> HIDE DEF f, eligible
    <3> QED BY <3>1, <3>2, FiniteImage
  <2>2. measured = {f[c] : c \in eligible}
    OBVIOUS
  <2> HIDE DEF measured, f
  <2> QED BY <2>1, <2>2, FS_Subset DEF Ranked
<1>5. \A m \in measured : m.distance \in Nat \cup {Thrown, Unknown}
  BY MeasuredIs
<1>6. \A m \in ranked : m \in measured /\ m.distance \in Nat
  <2> HIDE DEF measured
  <2> QED BY <1>5 DEF Ranked, Thrown, Unknown
<1>7. d \in first
  <2> HIDE DEF first
  <2> QED BY <1>3
<1>8. /\ d \in ranked /\ cleanSave(d.entry, d.key, writers, log)
      /\ \A e \in ranked : cleanSave(e.entry, e.key, writers, log) => d.distance <= e.distance
  <2> HIDE DEF ranked, d
  <2> QED BY <1>4, <1>6, <1>7, FirstIsNearest
<1> HIDE DEF d
<1>9. PICK c \in eligible : d = Measured(c, head, shallow, fetches)
  <2>1. d \in measured
    BY <1>6, <1>8
  <2> QED BY <2>1
<1>10. /\ d.entry = c.entry /\ d.key = c.key /\ d.distance \in Nat
       /\ c.key.sha \in Ancestry[head] /\ d.distance = Edges[head][c.key.sha]
  <2>1. d.distance \in Nat /\ d.distance # Thrown
    BY <1>3, <1>6, <1>8
  <2> QED BY <1>9, <2>1, MeasuredIs
<1>11. ASSUME NEW e \in eligible, cleanSave(e.entry, e.key, writers, log),
              e.key.sha \in Ancestry[head]
       PROVE  Edges[head][c.key.sha] <= Edges[head][e.key.sha]
  <2> DEFINE m == Measured(e, head, shallow, fetches)
  <2>1. m \in measured
    OBVIOUS
  <2> HIDE DEF measured
  <2>2. m.distance # Thrown
    BY <1>3, <2>1
  <2>3. m.entry = e.entry /\ m.key = e.key /\ m.distance = Edges[head][e.key.sha]
    BY <1>11, <2>2, MeasuredIs
  <2>4. m.distance \in Nat
    BY <1>11, <2>3, EdgesAre DEF Shortest
  <2> HIDE DEF m
  <2>5. m \in ranked
    BY <2>1, <2>4 DEF Ranked
  <2> QED BY <1>8, <1>10, <1>11, <2>3, <2>5
<1> QED BY <1>3, <1>8, <1>10, <1>11

-----------------------------------------------------------------------------
(***************************************************************************)
(* The donor of an automatic key.  A proof that a run logged is of an      *)
(* entry of the store, under a key that names the run and its commit; what *)
(* a job saves after its restore is proven by no run that ended.           *)
(***************************************************************************)
\* The parts of a key that no local runner saved, and the first of another.
Joint(t, s, u) ==
  /\ IsSeq(t) /\ Len(t) = Len(s) + Len(u) /\ Len(s) \in Nat /\ Len(u) \in Nat
  /\ \A i \in 1 .. Len(s) : t[i] = s[i]
  /\ \A i \in Len(s) + 1 .. Len(s) + Len(u) : t[i] = u[i - Len(s)]

LEMMA Laid ==
  ASSUME NEW s, IsSeq(s), NEW u, IsSeq(u)
  PROVE  Joint(s \o u, s, u)
<1> DEFINE t == s \o u
<1>1. PICK S, T : s \in Seq(S) /\ u \in Seq(T)
  BY DEF IsSeq
<1> DEFINE U == S \cup T
<1>2. s \in Seq(U) /\ u \in Seq(U)
  BY <1>1, SeqMonotonic
<1> HIDE DEF U
<1>3. Len(s) \in Nat /\ Len(u) \in Nat
  BY <1>1, LenProperties
<1>4. t \in Seq(U) /\ Len(t) = Len(s) + Len(u)
  BY <1>2, ConcatProperties
<1>5. \A i \in 1 .. Len(s) + Len(u) : t[i] = IF i <= Len(s) THEN s[i] ELSE u[i - Len(s)]
  BY <1>2, ConcatProperties
<1>6. \A i \in 1 .. Len(s) : t[i] = s[i]
  BY <1>3, <1>5
<1>7. \A i \in Len(s) + 1 .. Len(s) + Len(u) : t[i] = u[i - Len(s)]
  BY <1>3, <1>5
<1> QED BY <1>3, <1>4, <1>6, <1>7 DEF IsSeq, Joint

LEMMA PrefixIs ==
  ASSUME NEW f, NEW p, p = ancestorKeyPrefix(<<f>>)
  PROVE  IsSeq(p) /\ Len(p) = 2 /\ p[1] = <<"layer", "ancestor">> /\ p[2] = f
<1> DEFINE layer == <<"layer", "ancestor">>
           s     == <<layer>>
           u     == <<f>>
<1>1. IsSeq(s) /\ Len(s) = 1 /\ s[1] = layer /\ IsSeq(u) /\ Len(u) = 1 /\ u[1] = f
  BY Tuples
<1>2. p = s \o u
  BY DEF ancestorKeyPrefix, AncestorLayer
<1> HIDE DEF s, u, layer
<1>3. Joint(p, s, u)
  BY <1>1, <1>2, Laid
<1>4. IsSeq(p) /\ Len(p) = 2 /\ p[1] = layer /\ p[2] = f
  BY <1>1, <1>3 DEF Joint
<1> QED BY <1>4 DEF layer

\* A key of the identity <<f>>: the commit and the run of the save are parts of it.
NamesSave(key, f, sha, r, ref) ==
  /\ IsSeq(key) /\ Len(key) = IF ref = "pull" THEN 5 ELSE 4
  /\ key[1] = <<"layer", "ancestor">> /\ key[2] = f
  /\ key[3] = <<"source", sha>> /\ key[4] = <<"run", r>>

LEMMA KeyIs ==
  ASSUME NEW f, NEW sha, NEW r, NEW ref
  PROVE  NamesSave(makeAncestorKey(<<f>>, sha, r, ref), f, sha, r, ref)
<1> DEFINE key == makeAncestorKey(<<f>>, sha, r, ref)
           p == ancestorKeyPrefix(<<f>>)
           u == <<<<"source", sha>>, <<"run", r>>>>
           z == IF ref = "pull" THEN <<<<"pr", ref>>>> ELSE <<>>
           s == p \o u
<1>1. key = s \o z
  BY DEF makeAncestorKey
<1>2. IsSeq(p) /\ Len(p) = 2 /\ p[1] = <<"layer", "ancestor">> /\ p[2] = f
  BY PrefixIs
<1>3. IsSeq(u) /\ Len(u) = 2 /\ u[1] = <<"source", sha>> /\ u[2] = <<"run", r>>
  BY Tuples
<1>4. IsSeq(z) /\ Len(z) = IF ref = "pull" THEN 1 ELSE 0
  BY Tuples
<1> HIDE DEF key, p, u, z
<1>5. Joint(s, p, u)
  BY <1>2, <1>3, Laid
<1> HIDE DEF s
<1>6. IsSeq(s) /\ Len(s) = 4 /\ s[1] = p[1] /\ s[2] = p[2] /\ s[3] = u[1] /\ s[4] = u[2]
  BY <1>2, <1>3, <1>5 DEF Joint
<1>7. Joint(key, s, z)
  BY <1>1, <1>4, <1>6, Laid
<1>8. /\ IsSeq(key) /\ Len(key) = IF ref = "pull" THEN 5 ELSE 4
      /\ key[1] = s[1] /\ key[2] = s[2] /\ key[3] = s[3] /\ key[4] = s[4]
  BY <1>4, <1>6, <1>7 DEF Joint
<1> QED BY <1>2, <1>3, <1>6, <1>8 DEF key, NamesSave

LEMMA FamilyKey ==
  ASSUME NEW g, NEW f, NEW sha, NEW r
  PROVE  /\ IsSeq(makeAncestorKey(<<g>> \o <<f>>, sha, r, "main"))
         /\ makeAncestorKey(<<g>> \o <<f>>, sha, r, "main")[2] = g
<1> DEFINE a == <<<<"layer", "ancestor">>>>
           b == <<g>>
           c == <<f>>
           i == b \o c
           u == <<<<"source", sha>>, <<"run", r>>>>
           p == a \o i
           s == p \o u
           z == <<>>
           t == s \o z
<1>1. /\ IsSeq(a) /\ Len(a) = 1 /\ IsSeq(b) /\ Len(b) = 1 /\ b[1] = g /\ IsSeq(c) /\ Len(c) = 1
      /\ IsSeq(u) /\ Len(u) = 2 /\ IsSeq(z)
  BY Tuples
<1>2. makeAncestorKey(i, sha, r, "main") = t
  BY DEF makeAncestorKey, ancestorKeyPrefix, AncestorLayer
<1> HIDE DEF a, b, c, u, z
<1>3. Joint(i, b, c)
  BY <1>1, Laid
<1> HIDE DEF i
<1>4. IsSeq(i) /\ Len(i) = 2 /\ i[1] = g
  BY <1>1, <1>3 DEF Joint
<1>5. Joint(p, a, i)
  BY <1>1, <1>4, Laid
<1> HIDE DEF p
<1>6. IsSeq(p) /\ Len(p) = 3 /\ p[2] = g
  BY <1>1, <1>4, <1>5 DEF Joint
<1>7. Joint(s, p, u)
  BY <1>1, <1>6, Laid
<1> HIDE DEF s
<1>8. IsSeq(s) /\ Len(s) = 5 /\ s[2] = g
  BY <1>1, <1>6, <1>7 DEF Joint
<1>9. Joint(t, s, z)
  BY <1>1, <1>8, Laid
<1> HIDE DEF t
<1>10. IsSeq(t) /\ t[2] = g
  BY <1>8, <1>9 DEF Joint
<1> QED BY <1>2, <1>10 DEF i, b, c

\* What such a key is read as, and that nothing else is read as one.
LEMMA ParseIs ==
  ASSUME NEW f, NEW key
  PROVE  /\ \A k \in parseAncestorKey(<<f>>, key) :
              IsSeq(key) => /\ key[2] = f /\ k.sha = key[3][2] /\ k.run = key[4][2]
                            /\ k.pull = (Len(key) = 5)
         /\ \A sha, r, ref : key = makeAncestorKey(<<f>>, sha, r, ref) =>
              parseAncestorKey(<<f>>, key) = {[sha |-> sha, run |-> r, pull |-> ref = "pull"]}
<1> DEFINE p == ancestorKeyPrefix(<<f>>)
           k == [sha |-> key[3][2], run |-> key[4][2], pull |-> Len(key) = 5]
<1>1. Len(p) = 2 /\ p[1] = <<"layer", "ancestor">> /\ p[2] = f /\ IsSeq(p)
  BY PrefixIs
<1>2. parseAncestorKey(<<f>>, key) =
        IF IsPrefix(p, key) /\ Len(key) >= 4 /\ key[3][1] = "source" THEN {k} ELSE {}
  <2>1. 2 + 2 = 4 /\ 2 + 1 = 3 /\ 2 + 3 = 5
    OBVIOUS
  <2> HIDE DEF p
  <2> QED BY <1>1, <2>1 DEF parseAncestorKey, p
<1> HIDE DEF p, k
<1>3. ASSUME IsSeq(key), Len(key) >= 2
      PROVE  IsPrefix(p, key) <=> p[1] = key[1] /\ p[2] = key[2]
  <2>1. PICK S, T : p \in Seq(S) /\ key \in Seq(T)
    BY <1>1, <1>3 DEF IsSeq
  <2> DEFINE U == S \cup T
             a == SubSeq(p, 1, 2)
             b == SubSeq(key, 1, 2)
  <2>2. p \in Seq(U) /\ key \in Seq(U) /\ Len(key) \in Nat
    BY <2>1, SeqMonotonic, LenProperties
  <2>3. \A i \in 1 .. 2 : p[i] \in U /\ key[i] \in U
    <3>1. \A i \in 1 .. Len(p) : p[i] \in U
      BY <2>2, ElementOfSeq
    <3>2. \A i \in 1 .. Len(key) : key[i] \in U
      BY <2>2, ElementOfSeq
    <3> HIDE DEF U
    <3> QED BY <1>1, <1>3, <2>2, <3>1, <3>2
  <2>4. a \in Seq(U) /\ Len(a) = 2 /\ \A i \in 1 .. 2 : a[i] = p[i]
    BY <2>3, SubSeqProperties
  <2>5. b \in Seq(U) /\ Len(b) = 2 /\ \A i \in 1 .. 2 : b[i] = key[i]
    BY <2>3, SubSeqProperties
  <2> HIDE DEF a, b, U
  <2>6. a = b <=> p[1] = key[1] /\ p[2] = key[2]
    BY <2>4, <2>5, SeqEqual
  <2>7. IsPrefix(p, key) <=> a = b
    BY <1>1, <1>3 DEF IsPrefix, a, b
  <2> QED BY <2>6, <2>7
<1>4. ASSUME NEW m \in parseAncestorKey(<<f>>, key), IsSeq(key)
      PROVE  /\ key[2] = f /\ m.sha = key[3][2] /\ m.run = key[4][2] /\ m.pull = (Len(key) = 5)
  <2>1. IsPrefix(p, key) /\ Len(key) >= 4 /\ m = k
    BY <1>2, <1>4
  <2>2. Len(key) \in Nat
    BY <1>4, LenProperties DEF IsSeq
  <2> QED BY <1>1, <1>3, <1>4, <2>1, <2>2 DEF k
<1>5. ASSUME NEW sha, NEW r, NEW ref, key = makeAncestorKey(<<f>>, sha, r, ref)
      PROVE  parseAncestorKey(<<f>>, key) = {[sha |-> sha, run |-> r, pull |-> ref = "pull"]}
  <2>1. NamesSave(key, f, sha, r, ref)
    BY <1>5, KeyIs
  <2>2. Len(key) >= 4 /\ Len(key) >= 2 /\ (Len(key) = 5) = (ref = "pull")
    BY <2>1 DEF NamesSave
  <2>3. IsPrefix(p, key)
    BY <1>1, <1>3, <2>1, <2>2 DEF NamesSave
  <2>4. k = [sha |-> sha, run |-> r, pull |-> ref = "pull"]
    BY <2>1, <2>2 DEF NamesSave, k
  <2> QED BY <1>2, <2>1, <2>2, <2>3, <2>4 DEF NamesSave
<1> QED BY <1>4, <1>5

\* What the cache, the logs and the job hold on to from save to lookup: an id
\* is of one entry,
Unique == \A e, f \in store : e.id = f.id => e = f

\* a proof is of an entry with its key and ref, and the key of an identity
\* without a family names the commit and the run of the proof,
Signed(p, r) ==
  /\ IsSeq(p.key) /\ \E e \in store : e.id = p.id /\ e.key = p.key /\ e.ref = p.ref
  /\ \/ p.key[2][1] = "family"
     \/ \E f : p.key = makeAncestorKey(<<f>>, p.sha, r, p.ref)

Signatures == \A r \in 1 .. Len(runs) : \A p \in runs[r].proofs : Signed(p, r)

Recorded(r) == {"sha", "ref", "conclusion", "proofs"} \subseteq DOMAIN r

\* the run of the job has no conclusion yet, so nothing of it is proven,
Running == pc # "idle" => Recorded(runs[n]) /\ runs[n].conclusion = ""

\* and a key that is not of this run is that of its donor.
Borrowed ==
  pc # "idle" => /\ job.donor.found => ~job.host.local
                 /\ job.writer /\ ~Unshared => job.key = job.donor.key

\* What DonorIsNearestProven says of a donor.
Nearest(j, donor) ==
  \E d \in Proven(j) :
    /\ d.key = donor.key /\ d.id = donor.id
    /\ \A e \in Proven(j) :
         Edges[j.sha][runs[e.key[Len(Identity(j)) + 3][2]].sha]
           >= Edges[j.sha][runs[d.key[Len(Identity(j)) + 3][2]].sha]

\* The run of a proven entry, by name.
ProvenBy(j, e, r) ==
  /\ e \in store /\ e.ref \in ToSet(ScopesOf(j.ref))
  /\ r \in j.in.autoKeyTrustedWriters /\ r \in 1 .. n /\ runs[r].conclusion = "success"
  /\ e.key = makeAncestorKey(Identity(j), runs[r].sha, r, e.ref)
  /\ runs[r].sha \in Ancestry[j.sha]
  /\ \E p \in runs[r].proofs : p.id = e.id

LEMMA ProvenIs == \A j, e : e \in Proven(j) <=> \E r : ProvenBy(j, e, r)
BY DEF Proven, ProvenBy

Fine(j) ==
  <<"fine", <<LegacyKey(j), j.result.mode, j.result.profile, LockOf(j), Manifest>>>>

LEMMA IdentityIs ==
  ASSUME NEW j
  PROVE  /\ ~j.host.local => Identity(j) = <<Fine(j)>> /\ Len(Identity(j)) = 1
         /\ j.host.local => IsSeq(WriteKey(j)) /\ WriteKey(j)[2][1] = "family"
<1> DEFINE fine == <<Fine(j)>>
           g == <<"family", <<j.result.buildPrefix, j.result.mode, j.result.profile>>>>
<1>1. Identity(j) = (IF j.host.local THEN <<g>> ELSE <<>>) \o fine
  BY DEF Identity, Fine
<1>2. fine \in Seq({Fine(j)}) /\ Len(fine) = 1 /\ g[1] = "family"
  OBVIOUS
<1>3. <<>> \o fine = fine
  <2> HIDE DEF fine
  <2> QED BY <1>2, ConcatEmptySeq
<1> HIDE DEF g
<1>4. j.host.local => WriteKey(j) = makeAncestorKey(<<g>> \o <<Fine(j)>>, j.sha, n, "main")
  BY <1>1 DEF WriteKey
<1>5. /\ IsSeq(makeAncestorKey(<<g>> \o <<Fine(j)>>, j.sha, n, "main"))
      /\ makeAncestorKey(<<g>> \o <<Fine(j)>>, j.sha, n, "main")[2] = g
  BY FamilyKey
<1>6. j.host.local => IsSeq(WriteKey(j)) /\ WriteKey(j)[2][1] = "family"
  BY <1>2, <1>4, <1>5
<1>7. ~j.host.local => Identity(j) = fine
  BY <1>1, <1>3
<1> QED BY <1>2, <1>6, <1>7

LEMMA ProvenKey ==
  ASSUME NEW j, ~j.host.local, NEW e, NEW r, ProvenBy(j, e, r)
  PROVE  NamesSave(e.key, Fine(j), runs[r].sha, r, e.ref) /\ e.key[Len(Identity(j)) + 3][2] = r
<1>1. NamesSave(e.key, Fine(j), runs[r].sha, r, e.ref)
  BY IdentityIs, KeyIs DEF ProvenBy
<1>2. Len(Identity(j)) = 1
  BY IdentityIs
<1>3. Len(Identity(j)) + 3 = 4
  BY <1>2
<1> QED BY <1>1, <1>3 DEF NamesSave

\* The proof is of this very entry: it is for its key, its ref and its commit.
LEMMA ProvenSaved ==
  ASSUME Len(runs) = n, Unique, Signatures,
         NEW j, ~j.host.local, NEW e, NEW r, ProvenBy(j, e, r)
  PROVE  hasCleanSaveProof(e, runs[r].sha, r, runs)
<1>1. NamesSave(e.key, Fine(j), runs[r].sha, r, e.ref)
  BY ProvenKey
<1>2. PICK p \in runs[r].proofs : p.id = e.id
  BY DEF ProvenBy
<1>3. Signed(p, r)
  BY <1>2 DEF ProvenBy, Signatures
<1>4. e.key = p.key /\ e.ref = p.ref
  BY <1>2, <1>3 DEF Signed, Unique, ProvenBy
<1>5. PICK f : p.key = makeAncestorKey(<<f>>, p.sha, r, p.ref)
  <2>1. p.key[2][1] = "fine"
    BY <1>1, <1>4 DEF NamesSave, Fine
  <2> QED BY <1>3, <2>1 DEF Signed
<1>6. NamesSave(p.key, f, p.sha, r, p.ref)
  BY <1>5, KeyIs
<1>7. p.sha = runs[r].sha
  <2>1. <<"source", p.sha>> = <<"source", runs[r].sha>>
    BY <1>1, <1>4, <1>6 DEF NamesSave
  <2> QED BY <2>1
<1> QED BY <1>2, <1>4, <1>7 DEF hasCleanSaveProof

\* What the selection returns is the nearest of the proven entries.
LEMMA Chosen ==
  ASSUME TypeInv, Unique, Signatures, pc # "idle",
         NEW j, j.sha \in Commits, NEW down, DonorOf(j, down).found
  PROVE  ~j.host.local /\ Nearest(j, DonorOf(j, down))
<1> DEFINE refs    == ToSet(ScopesOf(j.ref))
           writers == j.in.autoKeyTrustedWriters
           donor   == DonorOf(j, down)
           candidates == Eligible(Identity(j), refs, store)
<1>0. \A reason : ~NoDonor(reason).found
  BY DEF NoDonor
<1>1. ~j.host.local
  BY <1>0 DEF DonorOf
<1>2. donor = selectAncestorCache(j.sha, Identity(j), refs, store, writers, runs,
                                  j.host.shallow, j.host.fetches)
  BY <1>0 DEF DonorOf
<1>3. IsFiniteSet(store) /\ Len(runs) = n /\ DOMAIN runs = 1 .. n
  BY LenProperties DEF TypeInv, StoreTyped, RunsTyped, IsSeq
<1> HIDE DEF donor
<1>4. PICK c \in candidates :
        /\ donor.key = c.entry.key /\ donor.id = c.entry.id
        /\ cleanSave(c.entry, c.key, writers, runs) /\ c.key.sha \in Ancestry[j.sha]
        /\ \A e \in candidates :
             cleanSave(e.entry, e.key, writers, runs) /\ e.key.sha \in Ancestry[j.sha]
               => Edges[j.sha][c.key.sha] <= Edges[j.sha][e.key.sha]
  <2> HIDE DEF refs, writers
  <2> QED BY <1>2, <1>3, SelectsNearestProven DEF donor
<1>5. Identity(j) = <<Fine(j)>>
  BY <1>1, IdentityIs
<1>6. /\ c.entry \in store /\ c.entry.ref \in refs
      /\ c.key \in parseAncestorKey(<<Fine(j)>>, c.entry.key)
      /\ c.key.pull = (c.entry.ref = "pull")
  BY <1>5 DEF Eligible, Candidates
<1>7. ProvenBy(j, c.entry, c.key.run) /\ runs[c.key.run].sha = c.key.sha
  <2> DEFINE r == c.key.run
             d == c.entry
  <2>1. /\ r \in writers /\ r \in 1 .. n /\ runs[r].conclusion = "success"
        /\ runs[r].sha = c.key.sha
    BY <1>3, <1>4 DEF cleanSave, Reviewed, trustedWriterForRun
  <2>2. PICK p \in runs[r].proofs : p.id = d.id /\ p.key = d.key /\ p.ref = d.ref /\ p.sha = c.key.sha
    BY <1>4 DEF cleanSave, hasCleanSaveProof
  <2>3. Signed(p, r)
    BY <1>3, <2>1, <2>2 DEF Signatures
  <2>4. d.key[2] = Fine(j)
    BY <1>6, <2>2, <2>3, ParseIs DEF Signed
  <2>5. d.key[2][1] = "fine"
    BY <2>4 DEF Fine
  <2>6. PICK f : d.key = makeAncestorKey(<<f>>, runs[r].sha, r, d.ref)
    BY <2>1, <2>2, <2>3, <2>5 DEF Signed
  <2>7. f = Fine(j)
    BY <2>4, <2>6, KeyIs DEF NamesSave
  <2>8. d.key = makeAncestorKey(Identity(j), runs[r].sha, r, d.ref)
    BY <1>5, <2>6, <2>7
  <2> HIDE DEF r, d
  <2>9. ProvenBy(j, d, r)
    BY <1>4, <1>6, <2>1, <2>2, <2>8 DEF ProvenBy, d
  <2> QED BY <2>1, <2>9 DEF r, d
<1>8. ASSUME NEW e, NEW r, ProvenBy(j, e, r)
      PROVE  Edges[j.sha][c.key.sha] <= Edges[j.sha][runs[r].sha]
  <2> DEFINE k == [sha |-> runs[r].sha, run |-> r, pull |-> e.ref = "pull"]
             x == [entry |-> e, key |-> k]
  <2>1. parseAncestorKey(<<Fine(j)>>, e.key) = {k}
    BY <1>5, <1>8, ParseIs DEF ProvenBy
  <2>2. e \in store /\ e.ref \in refs
    BY <1>8 DEF ProvenBy
  <2>3. x \in Candidates(Identity(j), refs, store)
    <3> HIDE DEF k, refs
    <3> QED BY <1>5, <2>1, <2>2 DEF Candidates
  <2>4. x \in candidates
    BY <2>3 DEF Eligible
  <2>5. hasCleanSaveProof(e, runs[r].sha, r, runs)
    BY <1>1, <1>3, <1>8, ProvenSaved
  <2>6. cleanSave(x.entry, x.key, writers, runs) /\ x.key.sha \in Ancestry[j.sha]
    BY <1>3, <1>8, <2>5 DEF ProvenBy, cleanSave, Reviewed, trustedWriterForRun
  <2>7. x.key.sha = runs[r].sha
    OBVIOUS
  <2> HIDE DEF x, candidates, writers
  <2> QED BY <1>4, <2>4, <2>6, <2>7
<1> DEFINE at(e) == e.key[Len(Identity(j)) + 3][2]
<1>9. c.entry \in Proven(j) /\ at(c.entry) = c.key.run
  BY <1>1, <1>7, ProvenIs, ProvenKey
<1>10. ASSUME NEW e \in Proven(j)
       PROVE  Edges[j.sha][runs[at(e)].sha] >= Edges[j.sha][runs[at(c.entry)].sha]
  <2>1. PICK r : ProvenBy(j, e, r)
    BY ProvenIs
  <2>2. at(e) = r
    BY <1>1, <2>1, ProvenKey
  <2> HIDE DEF at
  <2>3. Edges[j.sha][c.key.sha] \in Int /\ Edges[j.sha][runs[r].sha] \in Int
    <3>1. c.key.sha \in Ancestry[j.sha] /\ runs[r].sha \in Ancestry[j.sha]
      BY <1>4, <2>1 DEF ProvenBy
    <3>2. ASSUME NEW to \in Ancestry[j.sha] PROVE Edges[j.sha][to] \in Int
      <4>1. Shortest(j.sha, to, Edges[j.sha][to])
        BY EdgesAre
      <4> QED BY <4>1 DEF Shortest
    <3> QED BY <3>1, <3>2
  <2>4. runs[at(c.entry)].sha = c.key.sha
    BY <1>7, <1>9
  <2>5. Edges[j.sha][c.key.sha] <= Edges[j.sha][runs[r].sha]
    BY <1>8, <2>1
  <2>6. Edges[j.sha][runs[r].sha] >= Edges[j.sha][c.key.sha]
    BY <2>3, <2>5
  <2> QED BY <2>2, <2>4, <2>6
<1>11. Nearest(j, donor)
  BY <1>4, <1>9, <1>10 DEF Nearest
<1> QED BY <1>1, <1>11 DEF donor

-----------------------------------------------------------------------------
(***************************************************************************)
(* What a step of a job does to the logs of the runs.                      *)
(***************************************************************************)
LEMMA OtherRuns ==
  ASSUME TypeInv, Next, ~SaveBuild, pc # "idle", pc # "end"
  PROVE  runs' = runs
<1>1. CASE MainStep
  BY <1>1, MainStepIs
<1>2. CASE SaveStep
  BY <1>2 DEF SaveStep, SaveTarget, SaveRegistry, SavePrepared, SaveTools, SaveLint, SaveLayer
<1>3. CASE UNCHANGED vars
  BY <1>3 DEF vars
<1> QED BY <1>1, <1>2, <1>3, StepCases DEF Start, End

LEMMA RunsStep ==
  ASSUME TypeInv, Running, Next, pc # "idle", pc # "end"
  PROVE  /\ n' = n /\ Len(runs) = n /\ Len(runs') = n /\ n \in 1 .. Len(runs)
         /\ \A i \in 1 .. n : i # n => runs'[i] = runs[i]
         /\ Recorded(runs'[n]) /\ runs'[n].conclusion = ""
         /\ runs'[n].proofs = runs[n].proofs \/ SaveBuild
<1>1. n' = n /\ Len(runs) = n /\ n \in 1 .. Len(runs)
  BY StepIs DEF TypeInv
<1>2. Recorded(runs[n]) /\ runs[n].conclusion = ""
  BY DEF Running
<1>3. CASE runs' = runs
  BY <1>1, <1>2, <1>3
<1>4. CASE runs' # runs
  <2>1. SaveBuild
    BY <1>4, OtherRuns
  <2>2. PICK entry : runs' = [runs EXCEPT ![n].proofs = Proofs(job, entry)]
    BY <1>4, <2>1, SaveProves
  <2> DEFINE r == [runs[n] EXCEPT !.proofs = Proofs(job, entry)]
  <2>3. runs' = [runs EXCEPT ![n] = r]
    BY <2>2
  <2>4. Recorded(r) /\ r.conclusion = ""
    BY <1>2 DEF Recorded
  <2> HIDE DEF r
  <2>5. Len(runs') = Len(runs) /\ \A k \in 1 .. Len(runs) : runs'[k] = IF k = n THEN r ELSE runs[k]
    BY <1>1, <2>3, RunsChange DEF TypeInv
  <2> QED BY <1>1, <2>1, <2>4, <2>5
<1> QED BY <1>3, <1>4

\* An entry that a step adds is new, and keeps the ids apart.
LEMMA StoreStep ==
  ASSUME TypeInv, Unique, Next
  PROVE  /\ store \subseteq store' /\ Unique'
         /\ \A e \in store' : e \notin store => \A f \in store : f.id # e.id
<1>1. \A f \in store : f.id \in 1 .. Cardinality(store)
  BY DEF TypeInv, StoreTyped
<1>2. Cardinality(store) \in Nat
  BY FS_CardinalityType DEF TypeInv, StoreTyped
<1>3. CASE store' = store
  BY <1>3 DEF Unique
<1>4. ASSUME NEW paths, NEW key, NEW body, store' = store \cup {Entry(job.ref, paths, key, body)}
      PROVE  /\ store \subseteq store' /\ Unique'
             /\ \A e \in store' : e \notin store => \A f \in store : f.id # e.id
  <2> DEFINE entry == Entry(job.ref, paths, key, body)
  <2>1. entry.id = Cardinality(store) + 1
    BY DEF Entry, NextId
  <2> HIDE DEF entry
  <2>2. \A f \in store : f.id # entry.id
    BY <1>1, <1>2, <2>1
  <2>3. store' = store \cup {entry}
    BY <1>4 DEF entry
  <2> QED BY <2>2, <2>3 DEF Unique
<1> QED BY <1>3, <1>4, StoreIs

\* A proof that was logged stays one.
LEMMA SignedMore ==
  ASSUME store \subseteq store', NEW p, NEW r, Signed(p, r)
  PROVE  Signed(p, r)'
BY DEF Signed

\* So is what the build save logs: a job whose key is its donor's logs nothing,
\* since that key names a run that has ended.
LEMMA SignedNow ==
  ASSUME TypeInv, Running, Keys, Borrowed, DonorIsNearestProven, SaveBuild, Next,
         NEW paths, NEW body, NEW entry, entry = Entry(job.ref, paths, job.key, body),
         store' = store \cup {entry}, NEW p \in Proofs(job, entry)
  PROVE  Signed(p, n)'
<1>0. pc # "idle" /\ pc \in Stages
  BY StagesAre DEF SaveBuild
<1>1. /\ entry.key = job.key /\ entry.ref = job.ref
      /\ p.id = entry.id /\ p.key = entry.key /\ p.ref = job.ref /\ p.sha = job.sha
  BY DEF Proofs, Entry
<1>2. job.writer /\ \E m \in parseAncestorKey(Identity(job), job.key) : m.sha = job.sha /\ m.run = n
  BY <1>1 DEF Proofs
<1>3. \E e \in store' : e.id = p.id /\ e.key = p.key /\ e.ref = p.ref
  BY <1>1
<1>4. CASE Unshared
  <2>1. p.key = WriteKey(job)
    BY <1>0, <1>1, <1>2, <1>4 DEF Keys
  <2>2. CASE job.host.local
    BY <1>3, <2>1, <2>2, IdentityIs DEF Signed
  <2>3. CASE ~job.host.local
    <3>1. p.key = makeAncestorKey(<<Fine(job)>>, p.sha, n, p.ref)
      BY <1>1, <2>1, <2>3, IdentityIs DEF WriteKey
    <3>2. IsSeq(p.key)
      BY <3>1, KeyIs DEF NamesSave
    <3>3. n' = n
      BY DEF SaveBuild
    <3> QED BY <1>3, <3>1, <3>2, <3>3 DEF Signed
  <2> QED BY <2>2, <2>3
<1>5. CASE ~Unshared
  <2>1. /\ job.donor.found /\ ~job.host.local /\ job.key = job.donor.key
        /\ Identity(job) = <<Fine(job)>>
    BY <1>0, <1>2, <1>5, IdentityIs DEF Unshared, Borrowed
  <2>2. PICK d \in Proven(job) : d.key = job.key
    BY <1>0, <2>1 DEF DonorIsNearestProven
  <2>3. PICK r : ProvenBy(job, d, r)
    BY <2>2, ProvenIs
  <2>4. r # n
    BY <1>0, <2>3 DEF ProvenBy, Running
  <2>5. NamesSave(d.key, Fine(job), runs[r].sha, r, d.ref)
    BY <2>1, <2>3, ProvenKey
  <2>6. PICK m \in parseAncestorKey(<<Fine(job)>>, job.key) : m.run = n
    BY <1>2, <2>1
  <2>7. m.run = job.key[4][2]
    BY <2>2, <2>5, <2>6, ParseIs DEF NamesSave
  <2>8. job.key[4] = <<"run", r>>
    BY <2>2, <2>5 DEF NamesSave
  <2> QED BY <2>4, <2>6, <2>7, <2>8
<1> QED BY <1>4, <1>5

\* No step of a job adds to what is proven, or takes from it.
LEMMA ProvenKept ==
  ASSUME TypeInv, Unique, Signatures, Running, Next, pc # "idle", pc # "end", NEW e, NEW r
  PROVE  ProvenBy(job, e, r)' <=> ProvenBy(job, e, r)
<1>1. /\ job'.in = job.in /\ job'.host = job.host /\ job'.result = job.result
      /\ job'.sha = job.sha /\ job'.ref = job.ref
  BY SameJob
<1>2. /\ n' = n /\ Len(runs) = n /\ \A i \in 1 .. n : i # n => runs'[i] = runs[i]
      /\ runs'[n].conclusion = "" /\ runs[n].conclusion = ""
  BY RunsStep DEF Running
<1>3. /\ store \subseteq store'
      /\ \A x \in store' : x \notin store => \A f \in store : f.id # x.id
  BY StoreStep
<1>4. Identity(job)' = Identity(job)
  BY <1>1 DEF Identity, LegacyKey, LockOf
<1> DEFINE Named(entries, log) ==
      /\ e \in entries /\ e.ref \in ToSet(ScopesOf(job.ref))
      /\ r \in job.in.autoKeyTrustedWriters /\ r \in 1 .. n /\ log[r].conclusion = "success"
      /\ e.key = makeAncestorKey(Identity(job), log[r].sha, r, e.ref)
      /\ log[r].sha \in Ancestry[job.sha]
      /\ \E p \in log[r].proofs : p.id = e.id
<1>5. ProvenBy(job, e, r) <=> Named(store, runs)
  BY DEF ProvenBy
<1>6. ProvenBy(job, e, r)' <=> Named(store', runs')
  BY <1>1, <1>2, <1>4 DEF ProvenBy
<1>7. CASE r \in 1 .. n /\ r # n
  <2>1. runs'[r] = runs[r]
    BY <1>2, <1>7
  <2>2. ASSUME Named(store', runs) PROVE e \in store
    <3>1. PICK p \in runs[r].proofs : p.id = e.id
      BY <2>2
    <3>2. \E f \in store : f.id = p.id
      BY <1>2, <1>7 DEF Signatures, Signed
    <3> QED BY <1>3, <2>2, <3>1, <3>2
  <2>3. Named(store', runs') <=> Named(store', runs)
    BY <2>1
  <2>4. Named(store', runs) <=> Named(store, runs)
    BY <1>3, <2>2
  <2> HIDE DEF Named
  <2> QED BY <1>5, <1>6, <2>3, <2>4
<1>8. CASE ~(r \in 1 .. n /\ r # n)
  <2>1. ~Named(store, runs) /\ ~Named(store', runs')
    BY <1>2, <1>8
  <2> HIDE DEF Named
  <2> QED BY <1>5, <1>6, <2>1
<1> QED BY <1>7, <1>8

LEMMA NearestKept ==
  ASSUME TypeInv, Unique, Signatures, Running, Next, pc # "idle", pc # "end",
         ~job.host.local, NEW donor, Nearest(job, donor), job'.donor = donor
  PROVE  Nearest(job, job.donor)'
<1> DEFINE at(e) == e.key[Len(Identity(job)) + 3][2]
<1>1. /\ job'.in = job.in /\ job'.host = job.host /\ job'.result = job.result
      /\ job'.sha = job.sha /\ job'.ref = job.ref
  BY SameJob
<1>2. Identity(job)' = Identity(job)
  BY <1>1 DEF Identity, LegacyKey, LockOf
<1>3. \A e : e \in Proven(job)' <=> e \in Proven(job)
  <2>1. \A e : e \in Proven(job)' <=> \E r : ProvenBy(job, e, r)'
    BY DEF Proven, ProvenBy
  <2> QED BY <2>1, ProvenIs, ProvenKept
<1>4. ASSUME NEW e \in Proven(job) PROVE runs'[at(e)].sha = runs[at(e)].sha
  <2>1. PICK r : ProvenBy(job, e, r)
    BY ProvenIs
  <2>2. at(e) = r
    BY <2>1, ProvenKey
  <2> HIDE DEF at
  <2>3. r \in 1 .. n /\ r # n
    BY <2>1 DEF ProvenBy, Running
  <2>4. \A i \in 1 .. n : i # n => runs'[i] = runs[i]
    BY RunsStep
  <2> QED BY <2>2, <2>3, <2>4
<1>5. PICK d \in Proven(job) :
        /\ d.key = donor.key /\ d.id = donor.id
        /\ \A e \in Proven(job) : Edges[job.sha][runs[at(e)].sha] >= Edges[job.sha][runs[at(d)].sha]
  BY DEF Nearest
<1> HIDE DEF at
<1>6. /\ d \in Proven(job)'
      /\ \A e \in Proven(job)' :
           Edges[job'.sha][runs'[at(e)].sha] >= Edges[job'.sha][runs'[at(d)].sha]
  BY <1>1, <1>3, <1>4, <1>5
<1>7. d.key = job'.donor.key /\ d.id = job'.donor.id
  BY <1>5
<1> QED BY <1>2, <1>6, <1>7 DEF Nearest, at

-----------------------------------------------------------------------------
\* The invariant behind DonorIsNearestProven.  The donor stays the nearest
\* proven entry while its job saves.
Donors ==
  /\ Unique /\ Signatures /\ Running /\ Borrowed
  /\ pc # "idle" /\ job.donor.found => Nearest(job, job.donor)

LEMMA DonorsAre == Donors /\ pc \in Stages => DonorIsNearestProven
BY StagesAre DEF Donors, DonorIsNearestProven, Nearest

LEMMA SignaturesStep ==
  ASSUME TypeInv, Keys, Donors, Next, pc # "idle", pc # "end"
  PROVE  Signatures'
<1>0. /\ n' = n /\ Len(runs) = n /\ Len(runs') = n
      /\ \A i \in 1 .. n : i # n => runs'[i] = runs[i]
      /\ runs'[n].proofs = runs[n].proofs \/ SaveBuild
  BY RunsStep DEF Donors
<1>1. store \subseteq store'
  BY StoreStep DEF Donors
<1>2. ASSUME NEW r \in 1 .. n, NEW p \in runs[r].proofs PROVE Signed(p, r)'
  BY <1>0, <1>1, <1>2, SignedMore DEF Donors, Signatures
<1>3. CASE runs' = runs
  BY <1>0, <1>2, <1>3 DEF Signatures
<1>4. CASE runs' # runs
  <2>1. SaveBuild
    BY <1>4, OtherRuns
  <2>2. PICK paths, body :
          LET entry == Entry(job.ref, paths, job.key, body)
          IN  /\ store' = store \cup {entry}
              /\ runs' = [runs EXCEPT ![n].proofs = Proofs(job, entry)]
    BY <1>4, <2>1, SaveProves
  <2> DEFINE entry == Entry(job.ref, paths, job.key, body)
             r     == [runs[n] EXCEPT !.proofs = Proofs(job, entry)]
  <2>3. Recorded(runs[n]) /\ n \in 1 .. Len(runs)
    BY RunsStep DEF Donors, Running
  <2>4. r.proofs = Proofs(job, entry)
    BY <2>3 DEF Recorded
  <2>5. runs' = [runs EXCEPT ![n] = r]
    BY <2>2
  <2> HIDE DEF r
  <2>6. runs'[n] = r
    BY <2>3, <2>5, RunsChange DEF TypeInv
  <2>7. DonorIsNearestProven
    BY <2>1, DonorsAre, StagesAre DEF SaveBuild
  <2>8. ASSUME NEW p \in Proofs(job, entry) PROVE Signed(p, n)'
    BY <2>1, <2>2, <2>7, <2>8, SignedNow DEF Donors
  <2> HIDE DEF entry
  <2>9. ASSUME NEW i \in 1 .. n, NEW p \in runs'[i].proofs PROVE Signed(p, i)'
    <3>1. CASE i = n
      <4>1. p \in Proofs(job, entry)
        BY <2>4, <2>6, <2>9, <3>1
      <4>2. Signed(p, n)'
        BY <2>8, <4>1
      <4> QED BY <1>0, <3>1, <4>2 DEF Signed
    <3>2. CASE i # n
      BY <1>0, <1>2, <2>9, <3>2
    <3> QED BY <3>1, <3>2
  <2> QED BY <1>0, <2>9 DEF Signatures
<1> QED BY <1>3, <1>4

\* Only the restore of the build cache takes a donor.
LEMMA BorrowedStep ==
  ASSUME TypeInv, Keys, Donors, Next, pc # "idle", pc # "end"
  PROVE  Borrowed' /\ (job'.donor.found => Nearest(job, job.donor)')
<1>0. /\ job'.host = job.host /\ job'.in = job.in /\ job'.result = job.result
      /\ job'.sha = job.sha /\ job'.ref = job.ref /\ n' = n
  BY SameJob, StepIs
<1>1. ASSUME job'.donor = job.donor, job'.key = job.key, job'.writer = job.writer
      PROVE  Borrowed' /\ (job'.donor.found => Nearest(job, job.donor)')
  <2>1. Unshared' = Unshared
    BY <1>1 DEF Unshared
  <2>2. Borrowed'
    BY <1>0, <1>1, <2>1 DEF Donors, Borrowed
  <2>3. ASSUME job.donor.found PROVE Nearest(job, job.donor)'
    <3>1. ~job.host.local /\ Nearest(job, job.donor)
      BY <2>3 DEF Donors, Borrowed
    <3>2. PICK donor : donor = job.donor
      OBVIOUS
    <3> QED BY <1>1, <3>1, <3>2, NearestKept DEF Donors
  <2> QED BY <1>1, <2>2, <2>3
<1>2. CASE ~RestoreBuild
  <2>1. job'.donor = job.donor /\ job'.key = job.key /\ job'.writer = job.writer
    <3>1. CASE MainStep
      BY <1>2, <3>1, MainKeys
    <3>2. CASE SaveStep
      BY <3>2, SaveStepIs DEF Updates, JobFields
    <3>3. CASE UNCHANGED vars
      BY <3>3 DEF vars
    <3> QED BY <3>1, <3>2, <3>3, StepCases DEF Start, End
  <2> QED BY <1>1, <2>1
<1>3. CASE RestoreBuild
  <2>1. CASE UNCHANGED job
    BY <1>1, <2>1
  <2>2. CASE Updates({"failed"})
    BY <1>1, <2>2 DEF Updates, JobFields
  <2>3. CASE \E down \in BOOLEAN : \E found, result : Restores(BuildPlan(job, down), found, result)
    <3>1a. PICK down \in BOOLEAN : \E found, result : Restores(BuildPlan(job, down), found, result)
      BY <2>3
    <3>1. PICK found, result : Restores(BuildPlan(job, down), found, result)
      BY <3>1a
    <3>2. PICK plan : plan = BuildPlan(job, down)
      OBVIOUS
    <3>3. JobFields \subseteq DOMAIN job /\ DiskFields \subseteq DOMAIN disk /\ job.sha \in Commits
      BY Sure
    <3>4. /\ job'.key = IF plan.threw THEN LegacyKey(job) ELSE plan.writeKey
          /\ job'.writer = ~plan.threw /\ job'.donor = plan.donor
      BY <3>1, <3>2, <3>3, RestoreFromIs DEF Restores
    <3>5. /\ ~plan.threw /\ plan.donor.found /\ plan.donor.distance = 0 => plan.writeKey = plan.donor.key
      BY <3>2, PlanIs
    <3>6. ASSUME plan.donor.found
          PROVE  ~job.host.local /\ Nearest(job, plan.donor)
      <4>1. plan.donor = DonorOf(job, down)
        BY <3>2, <3>6 DEF BuildPlan, planAncestorRestore, NoPlan, NoDonor
      <4> QED BY <3>3, <3>6, <4>1, Chosen DEF Donors
    <3>7. Borrowed'
      BY <1>0, <3>4, <3>5, <3>6 DEF Borrowed, Unshared
    <3>8. ASSUME job'.donor.found PROVE Nearest(job, job.donor)'
      <4>1. PICK donor : donor = plan.donor
        OBVIOUS
      <4> QED BY <3>4, <3>6, <3>8, <4>1, NearestKept DEF Donors
    <3> QED BY <3>7, <3>8
  <2> QED BY <1>3, <2>1, <2>2, <2>3, RestoreBuildIs
<1> QED BY <1>2, <1>3

LEMMA StartRuns ==
  ASSUME TypeInv, Start
  PROVE  \E r : /\ runs' = Append(runs, r) /\ Recorded(r) /\ r.proofs = {}
                /\ pc' = "idle" \/ (n' = n /\ r.conclusion = "")
<1>1. PICK plan \in workflow : \E checkout \in plan.for :
        \/ runs' = Append(runs, RunRecord(checkout, "failure", {})) /\ pc' = pc
        \/ runs' = Append(runs, RunRecord(checkout, "", {})) /\ n' = n
  BY DEF Start
<1>2. \A checkout, conclusion :
        LET r == RunRecord(checkout, conclusion, {})
        IN  Recorded(r) /\ r.proofs = {} /\ r.conclusion = conclusion
  BY DEF RunRecord, Recorded
<1>3. pc = "idle"
  BY DEF Start
<1> QED BY <1>1, <1>2, <1>3

LEMMA DonorsSame == Donors /\ UNCHANGED vars => Donors'
<1> SUFFICES ASSUME Donors, UNCHANGED vars PROVE Donors'
  OBVIOUS
<1>0. store' = store /\ runs' = runs /\ n' = n /\ job' = job /\ pc' = pc
  BY DEF vars
<1>1. Unique'
  BY <1>0 DEF Donors, Unique
<1>2. Signatures'
  BY <1>0 DEF Donors, Signatures, Signed
<1>3. Running'
  BY <1>0 DEF Donors, Running
<1>4. Borrowed'
  BY <1>0 DEF Donors, Borrowed, Unshared
<1>5. ASSUME pc' # "idle", job'.donor.found PROVE Nearest(job, job.donor)'
  <2>1. Nearest(job, job.donor)
    BY <1>0, <1>5 DEF Donors
  <2>2. Identity(job)' = Identity(job)
    BY <1>0 DEF Identity, LegacyKey, LockOf
  <2>3. Proven(job)' = Proven(job)
    BY <1>0, <2>2 DEF Proven
  <2> QED BY <1>0, <2>1, <2>2, <2>3 DEF Nearest
<1> QED BY <1>1, <1>2, <1>3, <1>4, <1>5 DEF Donors

LEMMA DonorsStep ==
  ASSUME TypeInv, Keys, Donors, Next
  PROVE  Donors'
<1>0. n \in Nat /\ Len(runs) = IF pc = "idle" THEN n - 1 ELSE n
  BY DEF TypeInv
<1>1. store \subseteq store' /\ Unique'
  BY StoreStep DEF Donors
<1>2. CASE pc # "idle" /\ pc # "end"
  <2>1. Running'
    BY <1>2, RunsStep DEF Donors, Running
  <2> QED BY <1>1, <1>2, <2>1, SignaturesStep, BorrowedStep DEF Donors
<1>3. CASE Start
  <2>1. PICK r : /\ runs' = Append(runs, r) /\ Recorded(r) /\ r.proofs = {}
                 /\ pc' = "idle" \/ (n' = n /\ r.conclusion = "")
    BY <1>3, StartRuns
  <2>2. /\ Len(runs') = n /\ Len(runs) = n - 1 /\ runs'[n] = r
        /\ \A i \in 1 .. n - 1 : runs'[i] = runs[i]
    <3>1. Len(runs) = n - 1
      BY <1>0, <1>3 DEF Start
    <3>2. /\ Len(runs') = Len(runs) + 1 /\ runs'[Len(runs) + 1] = r
          /\ \A i \in 1 .. Len(runs) : runs'[i] = runs[i]
      BY <2>1, RunsGrow DEF TypeInv
    <3>3. Len(runs) + 1 = n
      BY <1>0, <3>1
    <3> QED BY <3>1, <3>2, <3>3
  <2>3. ASSUME NEW i \in 1 .. n, NEW p \in runs'[i].proofs PROVE Signed(p, i)'
    <3>1. i \in 1 .. n - 1
      <4>1. i # n
        BY <2>1, <2>2, <2>3
      <4> QED BY <1>0, <4>1
    <3>2. Signed(p, i)
      BY <2>2, <2>3, <3>1 DEF Donors, Signatures
    <3> QED BY <1>1, <3>2, SignedMore
  <2>4. Signatures'
    BY <2>2, <2>3 DEF Signatures
  <2>5. Running'
    BY <2>1, <2>2 DEF Running
  <2>6. pc' = "idle" \/ Begun(job')
    BY <1>3, StartIs
  <2> QED BY <1>1, <2>4, <2>5, <2>6 DEF Donors, Borrowed, Begun
<1>4. CASE End
  <2> DEFINE r == [runs[n] EXCEPT !.conclusion = IF job.failed \/ job.oversize THEN "failure" ELSE "success"]
  <2>1. runs' = [runs EXCEPT ![n] = r] /\ pc = "end" /\ pc' = "idle"
    BY <1>4 DEF End
  <2>2. r.proofs = runs[n].proofs
    BY <2>1 DEF Donors, Running, Recorded
  <2> HIDE DEF r
  <2>3. /\ Len(runs) = n /\ Len(runs') = n
        /\ \A i \in 1 .. n : runs'[i].proofs = runs[i].proofs
    BY <1>0, <2>1, <2>2, RunsChange DEF TypeInv
  <2>4. ASSUME NEW i \in 1 .. n, NEW p \in runs'[i].proofs PROVE Signed(p, i)'
    <3>1. Signed(p, i)
      BY <2>3, <2>4 DEF Donors, Signatures
    <3> QED BY <1>1, <3>1, SignedMore
  <2>5. Signatures'
    BY <2>3, <2>4 DEF Signatures
  <2> QED BY <1>1, <2>1, <2>5 DEF Donors, Running, Borrowed
<1>5. CASE UNCHANGED vars
  BY <1>5, DonorsSame
<1> QED BY <1>2, <1>3, <1>4, <1>5, StepCases

LEMMA DonorsInductive == Spec => []Donors
<1>1. Init => Donors
  <2> SUFFICES ASSUME Init PROVE Donors
    OBVIOUS
  <2>1. runs = <<>> /\ store = {} /\ pc = "idle"
    BY DEF Init
  <2>2. Len(runs) = 0
    BY <2>1
  <2> QED BY <2>1, <2>2 DEF Donors, Unique, Signatures, Running, Borrowed
<1>2. TypeInv /\ Keys /\ Donors /\ [Next]_vars => Donors'
  <2> QED BY DonorsSame, DonorsStep
<1> QED BY <1>1, <1>2, TypeInductive, KeysInductive, PTL DEF Spec

\* The donor of an automatic key is a proven entry, and no other proven entry
\* was saved by a commit fewer parent edges away, whatever the history, the
\* checkout and the bounds.
THEOREM DonorsNearest == Spec => []DonorIsNearestProven
<1>1. TypeInv /\ Donors => DonorIsNearestProven
  BY DonorsAre DEF DonorIsNearestProven
<1> QED BY <1>1, TypeInductive, DonorsInductive, PTL
=============================================================================
