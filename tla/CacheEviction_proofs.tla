------------------------ MODULE CacheEviction_proofs ------------------------
(***************************************************************************)
(* For any entries, sizes, ages, thresholds, pages and number of racing    *)
(* passes and cleanup jobs: the passes spare the foundation entries and    *)
(* whatever was saved in the last half hour; a pass without failures       *)
(* reaches its target or misses no more than went away while it listed;    *)
(* and a green cleanup left nothing of its run.                            *)
(*                                                                         *)
(* The first argument needs nothing of the usage figures: no reading of    *)
(* them, however stale, makes the age floor less than half an hour.  The   *)
(* second adds sizes up over sets, for which the sum is first shown to be  *)
(* what its recursion says, and counts what the pages of a list pass by as *)
(* entries go away.  The third follows the position of an entry in a list  *)
(* of which nothing goes away.                                             *)
(***************************************************************************)
EXTENDS RunScopedCleanup, FiniteSetTheorems, TLAPS

(***************************************************************************)
(* Sums.  Total is defined by recursion over the subsets of a set; that    *)
(* such a function exists is shown with a minimal set that has none.       *)
(***************************************************************************)
Pick(s) == CHOOSE x \in s : TRUE
Adds(S, g) == g = [s \in SUBSET S |-> IF s = {} THEN 0 ELSE Size[Pick(s)] + g[s \ {Pick(s)}]]

\* Among finite sets there is one without a smaller one.
LEMMA MinimalSet ==
  ASSUME NEW T, T # {}, \A s \in T : IsFiniteSet(s)
  PROVE  \E m \in T : \A s \in T : ~(s \subseteq m /\ s # m)
<1> DEFINE S == UNION T
           R == StrictSubsetOrdering(S)
<1>1. T \subseteq FiniteSubsetsOf(S)
  BY DEF FiniteSubsetsOf
<1>2. IsWellFoundedOn(R, FiniteSubsetsOf(S))
  BY FS_StrictSubsetOrderingWellFounded
<1>3. PICK m \in T : \A s \in T : ~(<<s, m>> \in R)
  <2> HIDE DEF R
  <2> QED BY <1>1, <1>2, WFMin
<1>4. \A s \in T : s \subseteq m /\ s # m => <<s, m>> \in R
  BY m \in SUBSET S, \A s \in T : s \in SUBSET S DEF StrictSubsetOrdering
<1>5. \A s \in T : ~(s \subseteq m /\ s # m)
  <2> HIDE DEF R
  <2> QED BY <1>3, <1>4
<1> QED BY <1>5

LEMMA PickIn == ASSUME NEW s, s # {} PROVE Pick(s) \in s
  BY DEF Pick

LEMMA AddsStep ==
  ASSUME NEW S, NEW g, Adds(S, g), NEW s \in SUBSET S
  PROVE  g[s] = IF s = {} THEN 0 ELSE Size[Pick(s)] + g[s \ {Pick(s)}]
  BY Zenon DEF Adds

LEMMA AddsAgree ==
  ASSUME NEW S, NEW T, IsFiniteSet(S), NEW g, NEW h, Adds(S, g), Adds(T, h)
  PROVE  \A s \in (SUBSET S) \cap (SUBSET T) : g[s] = h[s]
<1> DEFINE D == {s \in (SUBSET S) \cap (SUBSET T) : g[s] # h[s]}
<1> SUFFICES ASSUME D # {} PROVE FALSE
  OBVIOUS
<1>1. \A s \in D : IsFiniteSet(s)
  BY FS_Subset
<1>2. PICK m \in D : \A s \in D : ~(s \subseteq m /\ s # m)
  <2> HIDE DEF D
  <2> QED BY <1>1, MinimalSet
<1> HIDE DEF Adds
<1>0. m \in SUBSET S /\ m \in SUBSET T /\ g[m] # h[m]
  BY <1>2
<1>3. m # {}
  BY <1>0, AddsStep
<1>4. Pick(m) \in m
  BY <1>3, PickIn
<1>5. g[m \ {Pick(m)}] = h[m \ {Pick(m)}]
  <2>1. m \ {Pick(m)} \in (SUBSET S) \cap (SUBSET T)
    OBVIOUS
  <2>2. m \ {Pick(m)} \subseteq m /\ m \ {Pick(m)} # m
    BY <1>4
  <2>3. m \ {Pick(m)} \notin D
    BY <1>2, <2>2
  <2> QED BY <2>1, <2>3
<1>6. g[m] = Size[Pick(m)] + g[m \ {Pick(m)}] /\ h[m] = Size[Pick(m)] + h[m \ {Pick(m)}]
  BY <1>0, <1>3, AddsStep
<1>7. g[m] # h[m]
  BY <1>2
<1> HIDE DEF D
<1> QED BY <1>5, <1>6, <1>7

LEMMA AddsExists ==
  ASSUME NEW S, IsFiniteSet(S)
  PROVE  \E g : Adds(S, g)
<1> DEFINE D == {s \in SUBSET S : ~\E g : Adds(s, g)}
<1> SUFFICES ASSUME D # {} PROVE FALSE
  OBVIOUS
<1>1. \A s \in D : IsFiniteSet(s)
  BY FS_Subset
<1>2. PICK m \in D : \A s \in D : ~(s \subseteq m /\ s # m)
  <2> HIDE DEF D
  <2> QED BY <1>1, MinimalSet
<1>3. \A s \in SUBSET m : s # m => \E g : Adds(s, g)
  BY <1>2
<1> DEFINE G(s) == CHOOSE g : Adds(s, g)
           f == [s \in SUBSET m |-> IF s = {} THEN 0
                                     ELSE Size[Pick(s)] + G(s \ {Pick(s)})[s \ {Pick(s)}]]
<1>4. \A s \in SUBSET m : s # m => Adds(s, G(s))
  BY <1>3
<1>5. IsFiniteSet(m)
  BY <1>1
<1>6. ASSUME NEW s \in SUBSET m, s # m PROVE f[s] = G(s)[s]
  <2>1. Adds(s, G(s))
    BY <1>4, <1>6
  <2>2. CASE s = {}
    <3> HIDE DEF G
    <3> QED BY <2>1, <2>2 DEF Adds
  <2>3. CASE s # {}
    <3> DEFINE t == s \ {Pick(s)}
    <3>1. t \in SUBSET m /\ t # m /\ t \in SUBSET s
      BY <1>6
    <3>2. Adds(t, G(t))
      BY <1>4, <3>1
    <3>3. G(s)[t] = G(t)[t]
      <4>1. IsFiniteSet(s)
        BY <1>5, FS_Subset
      <4>2. t \in (SUBSET s) \cap (SUBSET t)
        BY <3>1
      <4> HIDE DEF G, t
      <4> QED BY <2>1, <3>2, <4>1, <4>2, AddsAgree
    <3>4. G(s)[s] = Size[Pick(s)] + G(s)[t]
      <4> HIDE DEF G
      <4> QED BY <2>1, <2>3 DEF Adds
    <3>5. f[s] = Size[Pick(s)] + G(t)[t]
      <4> HIDE DEF G
      <4> QED BY <2>3, Zenon
    <3> QED BY <3>3, <3>4, <3>5
  <2> QED BY <2>2, <2>3
<1>7. Adds(m, f)
  <2>1. ASSUME NEW s \in SUBSET m, s # {} PROVE f[s \ {Pick(s)}] = G(s \ {Pick(s)})[s \ {Pick(s)}]
    <3>1. s \ {Pick(s)} \in SUBSET m /\ s \ {Pick(s)} # m
      BY <2>1, PickIn
    <3> HIDE DEF f, G
    <3> QED BY <1>6, <3>1
  <2>2. f = [s \in SUBSET m |-> IF s = {} THEN 0 ELSE Size[Pick(s)] + f[s \ {Pick(s)}]]
    <3> HIDE DEF G
    <3> QED BY <2>1
  <2> HIDE DEF f
  <2> QED BY <2>2 DEF Adds
<1> HIDE DEF f
<1> QED BY <1>2, <1>7

The(S) == CHOOSE g : Adds(S, g)

LEMMA TheAdds == ASSUME NEW S, IsFiniteSet(S) PROVE Adds(S, The(S))
  BY AddsExists DEF The

LEMMA TotalThe == ASSUME NEW S PROVE Total(S) = The(S)[S]
  BY DEF Total, The, Adds, Pick, SumFunctionOnSet, FoldFunctionOnSet, MapThenFoldSet

LEMMA TotalEmpty == Total({}) = 0
  BY TotalThe, TheAdds, AddsStep, FS_EmptySet

LEMMA TotalPick ==
  ASSUME NEW S, IsFiniteSet(S), S # {}
  PROVE  Total(S) = Size[Pick(S)] + Total(S \ {Pick(S)})
<1> DEFINE t == S \ {Pick(S)}
<1>1. IsFiniteSet(t) /\ t \in (SUBSET S) \cap (SUBSET t)
  BY FS_Subset
<1>2. The(S)[t] = The(t)[t]
  <2> HIDE DEF t
  <2> QED BY <1>1, TheAdds, AddsAgree
<1>3. The(S)[S] = Size[Pick(S)] + The(S)[t]
  BY TheAdds, AddsStep
<1> HIDE DEF t
<1> QED BY <1>2, <1>3, TotalThe DEF t

\* The total of a set of entries, whichever is taken off first.
LEMMA TotalRemove ==
  ASSUME NEW S \in SUBSET Entries
  PROVE  /\ Total(S) \in Nat
         /\ \A x \in S : Total(S) = Size[x] + Total(S \ {x})
<1> DEFINE Good(s) == Total(s) \in Nat /\ \A x \in s : Total(s) = Size[x] + Total(s \ {x})
           D == {s \in SUBSET Entries : ~Good(s)}
<1> SUFFICES ASSUME D # {} PROVE FALSE
  OBVIOUS
<1>1. \A s \in D : IsFiniteSet(s)
  BY FS_Subset, EntrySets
<1>2. PICK m \in D : \A s \in D : ~(s \subseteq m /\ s # m)
  <2> HIDE DEF D
  <2> QED BY <1>1, MinimalSet
<1>3. \A s \in SUBSET m : s # m => Good(s)
  BY <1>2
<1>4. m # {}
  <2>1. Good({})
    BY TotalEmpty
  <2>2. ~Good(m)
    BY <1>2
  <2> HIDE DEF Good
  <2> QED BY <2>1, <2>2
<1> DEFINE y == Pick(m)
<1>5. y \in m /\ m \in SUBSET Entries /\ IsFiniteSet(m)
  BY <1>1, <1>4, PickIn
<1>6. Total(m) = Size[y] + Total(m \ {y})
  BY <1>4, <1>5, TotalPick
<1> HIDE DEF y
<1>7. Total(m \ {y}) \in Nat /\ \A x \in m \ {y} : Total(m \ {y}) = Size[x] + Total((m \ {y}) \ {x})
  BY <1>3, <1>5
<1>8. \A x \in m : Size[x] \in Nat
  BY <1>5, SizeType
<1>9. Total(m) \in Nat
  BY <1>5, <1>6, <1>7, <1>8
<1>10. ASSUME NEW x \in m, x # y PROVE Total(m) = Size[x] + Total(m \ {x})
  <2> DEFINE r == m \ {x, y}
  <2>1. Total(m \ {y}) = Size[x] + Total(r)
    <3>1. (m \ {y}) \ {x} = r
      OBVIOUS
    <3> QED BY <1>7, <1>10, <3>1
  <2>2. Total(m \ {x}) = Size[y] + Total(r)
    <3>1. Good(m \ {x})
      BY <1>3
    <3>2. y \in m \ {x} /\ (m \ {x}) \ {y} = r
      BY <1>5, <1>10
    <3> QED BY <3>1, <3>2
  <2>3. Total(r) \in Nat
    BY <1>3
  <2> HIDE DEF r
  <2> QED BY <1>5, <1>6, <1>8, <2>1, <2>2, <2>3
<1>11. Good(m)
  BY <1>5, <1>6, <1>9, <1>10
<1> QED BY <1>2, <1>11

LEMMA TotalDisjoint ==
  ASSUME NEW S \in SUBSET Entries, NEW T \in SUBSET Entries, S \cap T = {}
  PROVE  Total(S \cup T) = Total(S) + Total(T)
<1> DEFINE D == {s \in SUBSET S : Total(s \cup T) # Total(s) + Total(T)}
<1> SUFFICES ASSUME D # {} PROVE FALSE
  OBVIOUS
<1>1. \A s \in D : IsFiniteSet(s)
  BY FS_Subset, EntrySets
<1>2. PICK m \in D : \A s \in D : ~(s \subseteq m /\ s # m)
  <2> HIDE DEF D
  <2> QED BY <1>1, MinimalSet
<1>3. m # {}
  <2>1. Total({} \cup T) = Total({}) + Total(T)
    BY TotalRemove, TotalEmpty, {} \cup T = T
  <2>2. Total(m \cup T) # Total(m) + Total(T)
    BY <1>2
  <2> QED BY <2>1, <2>2, Zenon
<1>4. PICK x \in m : TRUE
  BY <1>3
<1>5. Total((m \ {x}) \cup T) = Total(m \ {x}) + Total(T)
  BY <1>2
<1>6. Total(m) = Size[x] + Total(m \ {x}) /\ Total(m \ {x}) \in Nat
  BY TotalRemove
<1>7. Total(m \cup T) = Size[x] + Total((m \ {x}) \cup T)
  <2>1. m \cup T \in SUBSET Entries /\ x \in m \cup T /\ (m \cup T) \ {x} = (m \ {x}) \cup T
    OBVIOUS
  <2> QED BY <2>1, TotalRemove
<1>8. Size[x] \in Nat /\ Total(T) \in Nat
  BY SizeType, TotalRemove
<1>9. Total(m \cup T) # Total(m) + Total(T)
  BY <1>2
<1> DEFINE a == Total(m) b == Total(m \ {x}) c == Total(T) d == Total((m \ {x}) \cup T)
           u == Total(m \cup T) z == Size[x]
<1>10. /\ d = b + c /\ a = z + b /\ b \in Nat /\ u = z + d /\ z \in Nat /\ c \in Nat
       /\ u # a + c
  BY <1>5, <1>6, <1>7, <1>8, <1>9
<1> HIDE DEF a, b, c, d, u, z
<1> QED BY <1>10

-----------------------------------------------------------------------------
Spared(c) == c \in Foundation \/ age[c] < HalfHour

\* What a pass has planned and not yet deleted, and what the passes deleted.
Doomed(e) == queue[e] \cup inflight[e]

Sparing ==
  /\ age \in [Entries -> Nat]
  /\ seen \in [Evictors -> SUBSET Entries]
  /\ queue \in [Evictors -> SUBSET Entries]
  /\ inflight \in [Evictors -> SUBSET Entries]
  /\ removed \in SUBSET Entries
  /\ \A e \in Evictors : \A c \in Doomed(e) : ~Spared(c)
  /\ \A c \in removed : ~Spared(c)

-----------------------------------------------------------------------------
LEMMA FloorIsHalfHour == ASSUME NEW u PROVE AgeFloor(u) \in Nat /\ AgeFloor(u) >= HalfHour
  BY Thresholds, FloorAssumption DEF AgeFloor, HalfHour, TwoHours

LEMMA PlansSpare ==
  ASSUME Sparing, NEW u, NEW S \in SUBSET Entries, NEW P \in Plans(u, {c \in S : Evictable(u, c)}),
         NEW c \in P
  PROVE  c \in Entries /\ ~Spared(c)
<1>1. c \in S /\ Evictable(u, c)
  BY DEF Plans
<1>2. c \in Entries /\ age[c] \in Nat
  BY <1>1 DEF Sparing
<1> QED BY <1>1, <1>2, FloorIsHalfHour DEF Evictable, Spared, HalfHour

LEMMA InitSparing == ASSUME NEW S, NEW A \in SUBSET Ages, InitFor(S, A) PROVE Sparing /\ store \in SUBSET Entries
<1>1. age \in [Entries -> Nat]
  <2>1. age \in [Entries -> A \cup {0}]
    BY DEF InitFor
  <2>2. A \cup {0} \subseteq Nat
    BY AgesType
  <2> QED BY <2>1, <2>2
<1>2. \A e \in Evictors : Doomed(e) = {}
  BY DEF InitFor, None, Doomed
<1> QED BY <1>1, <1>2, EntrySets DEF InitFor, None, Sparing

\* Whoever else deletes from the store.
LEMMA PassKeeps ==
  ASSUME Sparing, store \in SUBSET Entries, NEW e \in Evictors, PassNext(e)
  PROVE  Sparing' /\ store' \in SUBSET Entries
<1>0. Seen(e) \in SUBSET Entries
  BY DEF Seen, Sparing
<1> HIDE DEF Seen
<1>1. CASE ReadUsage(e) \/ PassEnds(e)
  BY <1>1 DEF ReadUsage, PassEnds, pageVars, callVars, Sparing, Spared, Doomed
<1>2. CASE ListEntries(e)
  <2>1. PICK P \in Plans(usage[e], {c \in Seen(e) : Evictable(usage[e], c)}) :
               queue' = [queue EXCEPT ![e] = P]
    BY <1>2 DEF ListEntries
  <2>2. \A c \in P : c \in Entries /\ ~Spared(c)
    BY <1>0, PlansSpare
  <2>3. UNCHANGED <<store, age, inflight, removed>> /\ seen' = [seen EXCEPT ![e] = {}]
    BY <1>2 DEF ListEntries, Listed
  <2> QED BY <2>1, <2>2, <2>3 DEF Sparing, Spared, Doomed
<1>5. CASE ReadEntries(e) \/ ListFails(e)
  <2>1. /\ UNCHANGED <<store, age, queue, inflight, removed>>
        /\ seen' \in {[seen EXCEPT ![e] = Seen(e)], [seen EXCEPT ![e] = {}]}
    BY <1>5 DEF ReadEntries, ListFails, Listed, callVars
  <2>2. seen' \in [Evictors -> SUBSET Entries]
    BY <1>0, <2>1 DEF Sparing
  <2> QED BY <2>1, <2>2 DEF Sparing, Spared, Doomed
<1>3. ASSUME NEW c \in Entries, StartCall(e, c) PROVE Sparing' /\ store' \in SUBSET Entries
  <2>1. /\ queue' = [queue EXCEPT ![e] = queue[e] \ {c}] /\ c \in queue[e]
        /\ inflight' = [inflight EXCEPT ![e] = inflight[e] \cup {c}]
        /\ UNCHANGED <<store, age, seen, removed>>
    BY <1>3 DEF StartCall, pageVars
  <2>2. queue' \in [Evictors -> SUBSET Entries] /\ inflight' \in [Evictors -> SUBSET Entries]
    BY <2>1 DEF Sparing
  <2>3. \A d \in Evictors : Doomed(d)' \subseteq Doomed(d)
    BY <2>1 DEF Sparing, Doomed
  <2> QED BY <2>1, <2>2, <2>3 DEF Sparing, Spared
<1>4. ASSUME NEW c \in Entries, Deleted(e, c) \/ Denied(e, c) \/ CallFails(e, c)
      PROVE  Sparing' /\ store' \in SUBSET Entries
  <2>1. /\ inflight' = [inflight EXCEPT ![e] = inflight[e] \ {c}] /\ c \in inflight[e]
        /\ UNCHANGED <<age, seen, queue>>
    BY <1>4 DEF Deleted, Denied, CallFails, Answered, pageVars
  <2>2. /\ store' \subseteq store
        /\ removed' \subseteq removed \cup {c}
    BY <1>4 DEF Deleted, Denied, CallFails, Removes, Leaves
  <2>3. inflight' \in [Evictors -> SUBSET Entries] /\ \A d \in Evictors : Doomed(d)' \subseteq Doomed(d)
    BY <2>1 DEF Sparing, Doomed
  <2>4. ~Spared(c)
    BY <2>1 DEF Sparing, Doomed
  <2> QED BY <2>1, <2>2, <2>3, <2>4 DEF Sparing, Spared
<1> QED BY <1>1, <1>2, <1>3, <1>4, <1>5 DEF PassNext

LEMMA OthersKeep ==
  ASSUME Sparing, store \in SUBSET Entries,
         (\E c \in Entries : SaveEntry(c)) \/ RefreshUsage \/ UNCHANGED vars
  PROVE  Sparing' /\ store' \in SUBSET Entries
<1>1. UNCHANGED <<age, seen, queue, inflight, removed>> /\ store' \in SUBSET Entries
  BY DEF SaveEntry, RefreshUsage, pageVars, callVars, vars
<1> QED BY <1>1 DEF Sparing, Spared, Doomed

\* The cleanup jobs delete on their own account only.
LEMMA CleanersKeep ==
  ASSUME Sparing, store \in SUBSET Entries, NEW k \in Cleaners, CleanStep(k)
  PROVE  Sparing' /\ store' \in SUBSET Entries
<1>1. UNCHANGED <<age, seen, queue, inflight, removed>> /\ store' \subseteq store
  BY DEF CleanStep, ReadPage, ListEnds, ListBreaks, DeleteOne, DeletesEnd, VerifyEnds, Settles,
         Leaves, vars, pageVars, callVars
<1> QED BY <1>1 DEF Sparing, Spared, Doomed

-----------------------------------------------------------------------------
LEMMA SparingSpares == Sparing => SparesProtected
<1> SUFFICES ASSUME Sparing, NEW c \in removed PROVE c \notin Foundation /\ age[c] >= HalfHour
  BY DEF SparesProtected
<1>1. c \in Entries /\ age[c] \in Nat /\ ~Spared(c)
  BY DEF Sparing
<1> QED BY <1>1 DEF Spared, HalfHour

\* However many passes race and however late the usage they read, none deletes
\* a foundation entry or anything saved in the last half hour.
THEOREM PassesSpareProtected == Spec => []SparesProtected
<1> DEFINE I == Sparing /\ store \in SUBSET Entries
<1>1. Init => I
  BY InitSparing DEF Init
<1>2. I /\ [Next]_vars => I'
  BY PassKeeps, OthersKeep DEF Next, Done
<1>3. I => SparesProtected
  BY SparingSpares
<1> QED BY <1>1, <1>2, <1>3, PTL DEF Spec

\* The same while cleanup jobs delete the entries of their run.
THEOREM CleanupSparesProtected == CleanupSpec => []SparesProtected
<1> DEFINE I == Sparing /\ store \in SUBSET Entries
<1>1. CleanupInit => I
  BY InitSparing, CleanupAssumption DEF CleanupInit
<1>2. I /\ [CleanupNext]_all => I'
  <2> SUFFICES ASSUME I, [CleanupNext]_all PROVE I'
    OBVIOUS
  <2>1. CASE Beside
    BY <2>1, PassKeeps, OthersKeep DEF Beside
  <2>2. CASE \E k \in Cleaners : CleanStep(k)
    BY <2>2, CleanersKeep
  <2>3. CASE UNCHANGED all
    BY <2>3, OthersKeep DEF all
  <2> QED BY <2>1, <2>2, <2>3 DEF CleanupNext, AllDone
<1>3. I => SparesProtected
  BY SparingSpares
<1> QED BY <1>1, <1>2, <1>3, PTL DEF CleanupSpec

-----------------------------------------------------------------------------
(***************************************************************************)
(* Types                                                                   *)
(***************************************************************************)
LEMMA TotalIsNat == ASSUME NEW S \in SUBSET Entries PROVE Total(S) \in Nat
  BY TotalRemove

LEMMA InitTypes == ASSUME NEW S \in SUBSET Evictors, NEW A \in SUBSET Ages, InitFor(S, A) PROVE TypeOK
<1>1. age \in [Entries -> Nat]
  BY InitSparing DEF Sparing
<1>2. Total(Preset) \in Nat
  BY EntrySets, TotalIsNat
<1> HIDE DEF Total
<1> QED BY <1>1, <1>2, EntrySets DEF InitFor, None, TypeOK

LEMMA LeavesTypes ==
  ASSUME TypeOK, NEW c, Leaves(c) PROVE store' \in SUBSET Entries /\ gone' \in [Evictors -> Nat]
  BY DEF Leaves, TypeOK

LEMMA PassTypes == ASSUME TypeOK, NEW e \in Evictors, PassNext(e) PROVE TypeOK'
<1>0. Seen(e) \in SUBSET Entries
  BY DEF Seen, TypeOK
<1> HIDE DEF Seen
<1>1. CASE ReadUsage(e)
  BY <1>1 DEF ReadUsage, Goto, pageVars, callVars, TypeOK
<1>2. CASE ListEntries(e)
  <2>1. PICK P \in Plans(usage[e], {c \in Seen(e) : Evictable(usage[e], c)}) :
          planned' = [planned EXCEPT ![e] = P] /\ queue' = [queue EXCEPT ![e] = P]
    BY <1>2 DEF ListEntries
  <2>2. P \in SUBSET Entries
    BY <1>0 DEF Plans
  <2> QED BY <1>2, <2>1, <2>2 DEF ListEntries, Listed, Goto, TypeOK
<1>3. CASE ListFails(e) \/ PassEnds(e)
  BY <1>3 DEF ListFails, PassEnds, Listed, Goto, pageVars, callVars, TypeOK
<1>4. ASSUME NEW c \in Entries, StartCall(e, c) PROVE TypeOK'
  BY <1>4 DEF StartCall, pageVars, TypeOK
<1>5. ASSUME NEW c \in Entries, Deleted(e, c) \/ Denied(e, c) \/ CallFails(e, c) PROVE TypeOK'
  <2>1. store' \in SUBSET Entries /\ gone' \in [Evictors -> Nat]
    BY <1>5, LeavesTypes DEF Deleted, Denied, CallFails, Removes, TypeOK
  <2>2. /\ removed' \in SUBSET Entries /\ inflight' \in [Evictors -> SUBSET Entries]
        /\ denied' \in [Evictors -> BOOLEAN] /\ failed' \in [Evictors -> BOOLEAN]
    <3>1. inflight' = [inflight EXCEPT ![e] = inflight[e] \ {c}]
      BY <1>5 DEF Deleted, Denied, CallFails, Answered
    <3>2. removed' \in {removed, removed \cup {c}}
      BY <1>5 DEF Deleted, Denied, CallFails, Removes
    <3>3. denied' \in {denied, [denied EXCEPT ![e] = TRUE]} /\ failed' \in {failed, [failed EXCEPT ![e] = TRUE]}
      BY <1>5 DEF Deleted, Denied, CallFails
    <3> QED BY <3>1, <3>2, <3>3 DEF TypeOK
  <2>3. UNCHANGED <<age, reported, pc, usage, known, nextPage, seen, planned, queue>>
    BY <1>5 DEF Deleted, Denied, CallFails, Answered, pageVars
  <2> QED BY <2>1, <2>2, <2>3 DEF TypeOK
<1>6. CASE ReadEntries(e)
  BY <1>0, <1>6 DEF ReadEntries, callVars, TypeOK
<1> QED BY <1>1, <1>2, <1>3, <1>4, <1>5, <1>6 DEF PassNext

LEMMA OthersTypes ==
  ASSUME TypeOK, (\E c \in Entries : SaveEntry(c)) \/ RefreshUsage \/ UNCHANGED vars PROVE TypeOK'
<1>1. CASE \E c \in Entries : SaveEntry(c)
  BY <1>1 DEF SaveEntry, pageVars, callVars, TypeOK
<1>2. CASE RefreshUsage
  <2>1. Total(store) \in Nat
    BY TotalIsNat DEF TypeOK
  <2> HIDE DEF Total
  <2> QED BY <1>2, <2>1 DEF RefreshUsage, pageVars, callVars, TypeOK
<1>3. CASE UNCHANGED vars
  BY <1>3 DEF vars, pageVars, callVars, TypeOK
<1> QED BY <1>1, <1>2, <1>3

-----------------------------------------------------------------------------
(***************************************************************************)
(* The list of a pass.  An entry that goes away moves those behind it one  *)
(* place up: the one at the head of the next page comes to a page that was *)
(* read already, and no other one does.                                    *)
(***************************************************************************)
Before(S, c) == {d \in S : CreatedBefore(d, c)}

LEMMA PositionBefore ==
  ASSUME UNCHANGED age
  PROVE  \A c : Position(c) = Cardinality(Before(store, c)) /\ Position(c)' = Cardinality(Before(store', c))
  BY DEF Position, Before, CreatedBefore

LEMMA BeforeBounds ==
  ASSUME TypeOK, NEW S \in SUBSET Entries, NEW c \in S
  PROVE  /\ Cardinality(Before(S, c)) \in Nat /\ Cardinality(S) \in Nat
         /\ Cardinality(Before(S, c)) > 0 /\ Cardinality(Before(S, c)) <= Cardinality(S)
<1>1. c \in Before(S, c)
  BY IdsType DEF Before, CreatedBefore, TypeOK
<1>2. IsFiniteSet(S) /\ Before(S, c) \in SUBSET S
  BY EntrySets, FS_Subset DEF Before
<1>3. IsFiniteSet(Before(S, c)) /\ Cardinality(Before(S, c)) <= Cardinality(S)
  BY <1>2, FS_Subset
<1>4. Cardinality(Before(S, c)) \in Nat /\ Cardinality(S) \in Nat /\ Cardinality(Before(S, c)) # 0
  BY <1>1, <1>2, <1>3, FS_CardinalityType, FS_EmptySet
<1> QED BY <1>3, <1>4

LEMMA BeforeGrows ==
  ASSUME NEW S, NEW T \in SUBSET Entries, S \subseteq T, NEW c
  PROVE  Cardinality(Before(S, c)) <= Cardinality(Before(T, c))
<1>1. IsFiniteSet(T) /\ Before(T, c) \in SUBSET T
  BY EntrySets, FS_Subset DEF Before
<1>2. IsFiniteSet(Before(T, c)) /\ Before(S, c) \in SUBSET Before(T, c)
  BY <1>1, FS_Subset DEF Before
<1> QED BY <1>2, FS_Subset

\* One entry less moves an entry by one place at most.
LEMMA BeforeDrops ==
  ASSUME TypeOK, NEW S \in SUBSET Entries, NEW x, NEW c \in S \ {x}
  PROVE  Cardinality(Before(S, c)) <= Cardinality(Before(S \ {x}, c)) + 1
<1>1. IsFiniteSet(S) /\ Before(S, c) \in SUBSET S /\ Before(S \ {x}, c) = Before(S, c) \ {x}
  BY EntrySets, FS_Subset DEF Before
<1>2. IsFiniteSet(Before(S, c))
  BY <1>1, FS_Subset
<1>3. Cardinality(Before(S, c) \ {x}) \in {Cardinality(Before(S, c)) - 1, Cardinality(Before(S, c))}
  BY <1>2, FS_RemoveElement
<1>4. Cardinality(Before(S, c)) \in Nat
  BY BeforeBounds
<1>5. Cardinality(Before(S \ {x}, c)) \in {Cardinality(Before(S, c)) - 1, Cardinality(Before(S, c))}
  BY <1>1, <1>3
<1> DEFINE m == Cardinality(Before(S, c)) n == Cardinality(Before(S \ {x}, c))
<1>6. m \in Nat /\ n \in {m - 1, m}
  BY <1>4, <1>5
<1> HIDE DEF m, n
<1>7. m <= n + 1
  BY <1>6
<1> QED BY <1>7 DEF m, n

LEMMA OrderStrict ==
  ASSUME TypeOK, NEW c \in Entries, NEW d \in Entries, c # d
  PROVE  /\ CreatedBefore(c, d) \/ CreatedBefore(d, c)
         /\ ~(CreatedBefore(c, d) /\ CreatedBefore(d, c))
         /\ \A b \in Entries : CreatedBefore(b, c) /\ CreatedBefore(c, d) => CreatedBefore(b, d)
<1>1. \A b \in Entries : age[b] \in Nat /\ Id[b] \in Nat
  BY IdsType DEF TypeOK
<1>2. Id[c] # Id[d]
  BY IdsType DEF IsInjective
<1> QED BY <1>1, <1>2 DEF CreatedBefore

LEMMA PlacesDiffer ==
  ASSUME TypeOK, NEW S \in SUBSET Entries, NEW c \in S, NEW d \in S, c # d, CreatedBefore(c, d)
  PROVE  Cardinality(Before(S, c)) < Cardinality(Before(S, d))
<1>1. IsFiniteSet(S) /\ Before(S, d) \in SUBSET S
  BY EntrySets, FS_Subset DEF Before
<1>2. IsFiniteSet(Before(S, d))
  BY <1>1, FS_Subset
<1>3. d \in Before(S, d)
  BY IdsType DEF Before, CreatedBefore, TypeOK
<1>4. Before(S, c) \in SUBSET (Before(S, d) \ {d})
  BY OrderStrict DEF Before
<1>5. IsFiniteSet(Before(S, d) \ {d}) /\ Cardinality(Before(S, d) \ {d}) = Cardinality(Before(S, d)) - 1
  BY <1>2, <1>3, FS_RemoveElement
<1>6. Cardinality(Before(S, c)) <= Cardinality(Before(S, d) \ {d})
  BY <1>4, <1>5, FS_Subset
<1>7. Cardinality(Before(S, d)) \in Nat /\ Cardinality(Before(S, c)) \in Nat
  BY BeforeBounds
<1> QED BY <1>5, <1>6, <1>7

\* What the pages read so far have passed by.
Misses(e) == {c \in Preset \cap store : c \notin seen[e] /\ Position(c) <= (nextPage[e] - 1) * PageSize}

Paging(e) == pc[e] = "list" => Cardinality(Misses(e)) <= gone[e]

\* Somebody's deletion or save, as a pass that reads or has read its list sees it.
Moved(e) ==
  \/ \E x : Leaves(x)
  \/ store \subseteq store' /\ store' \cap Preset \subseteq store /\ gone'[e] = gone[e]

LEMMA MissesFinite == ASSUME TypeOK, NEW e PROVE IsFiniteSet(Misses(e)) /\ Cardinality(Misses(e)) \in Nat
<1>1. Misses(e) \in SUBSET Entries
  BY DEF Misses, TypeOK
<1> QED BY <1>1, EntrySets, FS_Subset, FS_CardinalityType

LEMMA PagingMoves ==
  ASSUME TypeOK, TypeOK', NEW e \in Evictors, Paging(e), Moved(e), UNCHANGED age,
         pc'[e] = pc[e], nextPage'[e] = nextPage[e], seen'[e] = seen[e]
  PROVE  Paging(e)'
<1> SUFFICES ASSUME pc[e] = "list" PROVE Cardinality(Misses(e)') <= gone'[e]
  BY DEF Paging
<1> DEFINE N == (nextPage[e] - 1) * PageSize
<1>1. N \in Int /\ gone[e] \in Nat /\ gone'[e] \in Nat /\ nextPage[e] \in Nat \ {0} /\ store \in SUBSET Entries
  BY PagesType DEF TypeOK
<1>2. /\ Misses(e) = {c \in Preset \cap store : c \notin seen[e] /\ Position(c) <= N}
      /\ Misses(e)' = {c \in Preset \cap store' : c \notin seen[e] /\ Position(c)' <= N}
  BY DEF Misses
<1>3. IsFiniteSet(Misses(e)) /\ Cardinality(Misses(e)) \in Nat /\ Cardinality(Misses(e)) <= gone[e]
  BY MissesFinite DEF Paging
<1>4. /\ \A c \in store : Position(c) \in Nat
      /\ \A c \in store' : Position(c)' \in Nat
  BY PositionBefore, BeforeBounds DEF TypeOK
<1> HIDE DEF N
<1>5. CASE store \subseteq store' /\ store' \cap Preset \subseteq store /\ gone'[e] = gone[e]
  <2>1. \A c \in Preset \cap store' : c \in store /\ Position(c) <= Position(c)'
    BY <1>5, PositionBefore, BeforeGrows DEF TypeOK
  <2>2. Misses(e)' \in SUBSET Misses(e)
    BY <1>1, <1>2, <1>4, <2>1
  <2>3. Cardinality(Misses(e)') <= Cardinality(Misses(e)) /\ Cardinality(Misses(e)') \in Nat
    BY <1>3, <2>2, FS_Subset, FS_CardinalityType
  <2> QED BY <1>1, <1>3, <1>5, <2>3
<1>6. ASSUME NEW x, Leaves(x), nextPage[e] > 1 PROVE Cardinality(Misses(e)') <= gone'[e]
  <2>1. store' = store \ {x} /\ gone'[e] = gone[e] + 1
    BY <1>6 DEF Leaves, At, TypeOK
  <2>2. \A c \in store' : c \in store /\ Position(c) <= Position(c)' + 1
    BY <1>1, <2>1, PositionBefore, BeforeDrops
  <2>3. \A c \in Misses(e)' \ Misses(e) : c \in store /\ Position(c) = N + 1
    BY <1>1, <1>2, <1>4, <2>2
  <2>4. \A c, d \in Misses(e)' \ Misses(e) : c = d
    <3> SUFFICES ASSUME NEW c \in Misses(e)' \ Misses(e), NEW d \in Misses(e)' \ Misses(e), c # d
                 PROVE  FALSE
      OBVIOUS
    <3>1. Position(c) = Position(d) /\ c \in store /\ d \in store
      BY <2>3
    <3>2. Position(c) < Position(d) \/ Position(d) < Position(c)
      BY <1>1, <3>1, OrderStrict, PlacesDiffer, PositionBefore
    <3> QED BY <1>4, <3>1, <3>2
  <2>5. PICK y : Misses(e)' \subseteq Misses(e) \cup {y}
    <3>1. CASE Misses(e)' \ Misses(e) = {}
      BY <3>1
    <3>2. CASE Misses(e)' \ Misses(e) # {}
      BY <2>4, <3>2
    <3> QED BY <3>1, <3>2
  <2>6. /\ IsFiniteSet(Misses(e) \cup {y})
        /\ Cardinality(Misses(e) \cup {y}) \in {Cardinality(Misses(e)), Cardinality(Misses(e)) + 1}
    BY <1>3, FS_AddElement
  <2>7. Cardinality(Misses(e)') <= Cardinality(Misses(e) \cup {y}) /\ Cardinality(Misses(e)') \in Nat
    BY <2>5, <2>6, FS_Subset, FS_CardinalityType
  <2> QED BY <1>1, <1>3, <2>1, <2>6, <2>7
<1>7. CASE nextPage[e] = 1
  <2>1. N = 0
    BY <1>7, PagesType DEF N
  <2>2. \A c \in store' : Position(c)' > 0
    BY PositionBefore, BeforeBounds DEF TypeOK
  <2>3. Misses(e)' = {}
    BY <1>2, <1>4, <2>1, <2>2
  <2> QED BY <1>1, <2>3, FS_EmptySet
<1> QED BY <1>1, <1>5, <1>6, <1>7 DEF Moved

-----------------------------------------------------------------------------
(***************************************************************************)
(* What a pass reaches.  It plans entries saved before the passes only,    *)
(* which nobody saves again: what it knew of them only shrinks.            *)
(***************************************************************************)
Spares(e) == {c \in store : Evictable(usage[e], c)} \ planned[e]

Planned(e) ==
  planned[e] # {} => \/ Cardinality(Spares(e)) <= gone[e]
                     \/ usage[e] <= TargetGb + Total(planned[e])

Account(e) ==
  /\ planned[e] \subseteq Preset /\ planned[e] \subseteq known[e]
  /\ pc[e] = "list" => Preset \cap (store \cup seen[e]) \subseteq known[e]
  /\ pc[e] = "usage" => nextPage[e] = 1 /\ seen[e] = {}
  /\ pc[e] \in {"usage", "list"} => planned[e] = {}
  /\ ~denied[e] /\ ~failed[e] => planned[e] \cap store \subseteq Doomed(e)
  /\ pc[e] = "done" /\ planned[e] # {} /\ ~denied[e] => Doomed(e) = {}
  /\ Paging(e)
  /\ Planned(e)

Accounts ==
  /\ \A c \in Entries \ Preset : age[c] = 0
  /\ \A e \in Evictors : Account(e)

LEMMA OldOnesGo ==
  ASSUME TypeOK, Accounts, NEW u, NEW c \in Entries, Evictable(u, c)
  PROVE  c \in Preset
  BY FloorIsHalfHour DEF Accounts, TypeOK, Evictable, HalfHour

LEMMA SparesFinite == ASSUME TypeOK, NEW e PROVE IsFiniteSet(Spares(e)) /\ Cardinality(Spares(e)) \in Nat
<1>1. Spares(e) \in SUBSET Entries
  BY DEF Spares, TypeOK
<1> QED BY <1>1, EntrySets, FS_Subset, FS_CardinalityType

LEMMA ReachesFromAccounts == ASSUME TypeOK, Accounts PROVE ReachesTarget
<1> SUFFICES ASSUME NEW e \in Evictors, pc[e] = "done", planned[e] # {}, ~denied[e], ~failed[e]
             PROVE  \/ Cardinality({c \in known[e] \cap store : Evictable(usage[e], c)}) <= gone[e]
                    \/ Total(known[e] \cap store) + usage[e] <= TargetGb + Total(known[e])
  BY DEF ReachesTarget
<1>1. Account(e)
  BY DEF Accounts
<1>2. planned[e] \cap store = {}
  BY <1>1 DEF Account
<1>3. CASE Cardinality(Spares(e)) <= gone[e]
  <2> DEFINE L == {c \in known[e] \cap store : Evictable(usage[e], c)}
  <2>1. L \in SUBSET Spares(e)
    BY <1>2 DEF Spares
  <2>2. Cardinality(L) <= Cardinality(Spares(e)) /\ Cardinality(L) \in Nat
    BY <2>1, SparesFinite, FS_Subset, FS_CardinalityType
  <2>3. gone[e] \in Nat /\ Cardinality(Spares(e)) \in Nat
    BY SparesFinite DEF TypeOK
  <2> QED BY <1>3, <2>2, <2>3
<1>4. CASE usage[e] <= TargetGb + Total(planned[e])
  <2> DEFINE left == known[e] \cap store
             rest == known[e] \ (left \cup planned[e])
  <2>1. /\ left \in SUBSET Entries /\ rest \in SUBSET Entries /\ planned[e] \in SUBSET Entries
        /\ left \cap planned[e] = {} /\ (left \cup planned[e]) \cap rest = {}
        /\ left \cup planned[e] \in SUBSET Entries
        /\ known[e] = (left \cup planned[e]) \cup rest
    BY <1>1, <1>2 DEF Account, TypeOK
  <2> HIDE DEF left, rest
  <2>2. /\ Total(left \cup planned[e]) = Total(left) + Total(planned[e])
        /\ Total(known[e]) = Total(left \cup planned[e]) + Total(rest)
    BY <2>1, TotalDisjoint
  <2>3. Total(left) \in Nat /\ Total(rest) \in Nat /\ Total(planned[e]) \in Nat
    BY <2>1, TotalIsNat
  <2>4. usage[e] \in Nat /\ TargetGb \in Nat
    BY Thresholds DEF TypeOK
  <2>5. Total(left) + usage[e] <= TargetGb + Total(known[e])
    <3> DEFINE a == Total(left) b == Total(planned[e]) c == Total(rest) d == Total(known[e])
               f == Total(left \cup planned[e])
    <3>1. /\ f = a + b /\ d = f + c /\ usage[e] <= TargetGb + b
          /\ a \in Nat /\ b \in Nat /\ c \in Nat
      BY <1>4, <2>2, <2>3
    <3> HIDE DEF a, b, c, d, f
    <3>2. a + usage[e] <= TargetGb + d
      BY <3>1, <2>4
    <3> QED BY <3>2 DEF a, d
  <2> QED BY <2>5 DEF left
<1> QED BY <1>1, <1>3, <1>4 DEF Account, Planned

LEMMA InitAccounts == ASSUME NEW S, NEW A, InitFor(S, A) PROVE Accounts
  BY EntrySets DEF InitFor, None, Accounts, Account, Paging, Planned, Doomed

\* What is left that a pass might still have deleted only shrinks once it has
\* its plan.
LEMMA PlannedMoves ==
  ASSUME TypeOK, TypeOK', Accounts, NEW e \in Evictors, Planned(e), Moved(e), UNCHANGED age,
         planned'[e] = planned[e], usage'[e] = usage[e]
  PROVE  Planned(e)'
<1>1. \A c \in store' : Evictable(usage[e], c)' => c \in store /\ Evictable(usage[e], c)
  <2> SUFFICES ASSUME NEW c \in store', Evictable(usage[e], c)' PROVE c \in store /\ Evictable(usage[e], c)
    OBVIOUS
  <2>1. Evictable(usage[e], c) /\ c \in Entries
    BY DEF Evictable, AgeFloor, TypeOK
  <2> QED BY <2>1, OldOnesGo DEF Moved, Leaves
<1>2. Spares(e)' \in SUBSET Spares(e)
  BY <1>1 DEF Spares
<1>3. Cardinality(Spares(e)') <= Cardinality(Spares(e)) /\ Cardinality(Spares(e)') \in Nat
  BY <1>2, SparesFinite, FS_Subset, FS_CardinalityType
<1>4. gone[e] <= gone'[e] /\ gone[e] \in Nat /\ gone'[e] \in Nat /\ Cardinality(Spares(e)) \in Nat
  BY SparesFinite DEF Moved, Leaves, TypeOK
<1>5. Total(planned[e])' = Total(planned[e])
  BY DEF Total
<1> HIDE DEF Total
<1> QED BY <1>3, <1>4, <1>5 DEF Planned

\* Somebody else's deletion, or a save.
LEMMA StoreMoves ==
  ASSUME TypeOK, TypeOK', Accounts, NEW e \in Evictors, Moved(e),
         UNCHANGED age, pc'[e] = pc[e], usage'[e] = usage[e], known'[e] = known[e],
         nextPage'[e] = nextPage[e], seen'[e] = seen[e],
         planned'[e] = planned[e], queue'[e] = queue[e], inflight'[e] = inflight[e],
         denied'[e] = denied[e], failed'[e] = failed[e]
  PROVE  Account(e)'
<1>1. Account(e) /\ Doomed(e)' = Doomed(e)
  BY DEF Accounts, Doomed
<1>2. Paging(e)' /\ Planned(e)'
  BY <1>1, PagingMoves, PlannedMoves DEF Account
<1>3. store' \cap Preset \subseteq store
  BY DEF Moved, Leaves
<1> QED BY <1>1, <1>2, <1>3 DEF Account

\* A pass leaves what the others remember alone, and adds nothing to the store.
LEMMA PassIsLocal ==
  ASSUME TypeOK, NEW e \in Evictors, PassNext(e)
  PROVE  /\ (\E x : Leaves(x)) \/ UNCHANGED <<store, gone>>
         /\ UNCHANGED age
         /\ \A f \in Evictors \ {e} :
              /\ pc'[f] = pc[f] /\ usage'[f] = usage[f] /\ known'[f] = known[f]
              /\ nextPage'[f] = nextPage[f] /\ seen'[f] = seen[f]
              /\ planned'[f] = planned[f] /\ queue'[f] = queue[f] /\ inflight'[f] = inflight[f]
              /\ denied'[f] = denied[f] /\ failed'[f] = failed[f]
<1>1. CASE ReadUsage(e)
  BY <1>1 DEF ReadUsage, Goto, pageVars, callVars, TypeOK
<1>2. CASE ListEntries(e)
  BY <1>2 DEF ListEntries, Listed, Goto, TypeOK
<1>3. CASE ListFails(e) \/ PassEnds(e)
  BY <1>3 DEF ListFails, PassEnds, Listed, Goto, pageVars, callVars, TypeOK
<1>4. ASSUME NEW c \in Entries, StartCall(e, c)
      PROVE  /\ UNCHANGED <<store, gone, age, pc, usage, known, nextPage, seen, planned, denied, failed>>
             /\ \A f \in Evictors \ {e} : queue'[f] = queue[f] /\ inflight'[f] = inflight[f]
  BY <1>4 DEF StartCall, pageVars, TypeOK
<1>5. ASSUME NEW c \in Entries, Deleted(e, c) \/ Denied(e, c) \/ CallFails(e, c)
      PROVE  /\ (\E x : Leaves(x)) \/ UNCHANGED <<store, gone>>
             /\ UNCHANGED <<age, pc, usage, known, nextPage, seen, planned, queue>>
             /\ \A f \in Evictors \ {e} : /\ inflight'[f] = inflight[f]
                                         /\ denied'[f] = denied[f] /\ failed'[f] = failed[f]
  <2>1. Leaves(c) \/ UNCHANGED <<store, gone>>
    BY <1>5 DEF Deleted, Denied, CallFails, Removes
  <2>2. UNCHANGED <<age, pc, usage, known, nextPage, seen, planned, queue>>
    BY <1>5 DEF Deleted, Denied, CallFails, Answered, pageVars
  <2>3. \A f \in Evictors \ {e} : /\ inflight'[f] = inflight[f]
                                 /\ denied'[f] = denied[f] /\ failed'[f] = failed[f]
    BY <1>5 DEF Deleted, Denied, CallFails, Answered, TypeOK
  <2> QED BY <2>1, <2>2, <2>3
<1>6. CASE ReadEntries(e)
  BY <1>6 DEF ReadEntries, callVars, TypeOK
<1> QED BY <1>1, <1>2, <1>3, <1>4, <1>5, <1>6 DEF PassNext

LEMMA PassMoves ==
  ASSUME TypeOK, NEW e \in Evictors, PassNext(e), NEW f \in Evictors PROVE Moved(f)
  BY PassIsLocal DEF Moved

\* What the pages have shown when the last one is read.
LEMMA LastPageShows ==
  ASSUME TypeOK, NEW e \in Evictors, LastPage(nextPage[e]), NEW c \in Preset \cap store
  PROVE  c \in Seen(e) \/ c \in Misses(e)
<1> DEFINE N == (nextPage[e] - 1) * PageSize
           M == nextPage[e] * PageSize
<1>1. Position(c) \in Nat /\ Cardinality(store) \in Nat /\ Position(c) <= Cardinality(store)
  BY BeforeBounds DEF Position, Before, TypeOK
<1>2. N \in Int /\ M \in Int
  BY PagesType DEF TypeOK
<1>3. Cardinality(store) < M
  BY DEF LastPage
<1>4. Position(c) <= N => c \in seen[e] \/ c \in Misses(e)
  BY DEF Misses
<1>5. Position(c) > N /\ Position(c) <= M => c \in Seen(e)
  BY DEF Seen, OnPage
<1>6. seen[e] \subseteq Seen(e)
  BY DEF Seen
<1> HIDE DEF N, M
<1> QED BY <1>1, <1>2, <1>3, <1>4, <1>5, <1>6

LEMMA PassAccounts ==
  ASSUME TypeOK, Accounts, NEW e \in Evictors, PassNext(e) PROVE Accounts'
<1>1. TypeOK' /\ store \subseteq Entries /\ \A f \in Evictors : Moved(f)
  BY PassTypes, PassMoves DEF TypeOK
<1>2. \A f \in Evictors \ {e} : Account(f)'
  BY <1>1, PassIsLocal, StoreMoves
<1>0. UNCHANGED age
  BY PassIsLocal
<1>3. Account(e)
  BY DEF Accounts
<1> USE DEF Goto
<1>4. CASE ReadUsage(e)
  <2>1. /\ pc[e] = "usage" /\ pc'[e] \in {"list", "done"} /\ planned' = planned /\ planned[e] = {}
        /\ UNCHANGED <<store, queue, inflight, nextPage, seen, gone>>
        /\ nextPage[e] = 1 /\ seen[e] = {}
        /\ pc'[e] = "list" => known'[e] = store
    BY <1>3, <1>4 DEF ReadUsage, At, pageVars, callVars, Account, TypeOK
  <2>2. Paging(e)'
    <3>1. (nextPage[e] - 1) * PageSize = 0
      BY <2>1, PagesType
    <3>2. \A c \in store' : Position(c)' > 0 /\ Position(c)' \in Nat
      <4>1. store' \in SUBSET Entries
        BY <1>1, <2>1
      <4> QED BY <1>0, <4>1, PositionBefore, BeforeBounds
    <3>3. Misses(e)' = {}
      BY <2>1, <3>1, <3>2 DEF Misses
    <3>4. gone'[e] \in Nat
      BY <1>1 DEF TypeOK
    <3> QED BY <3>3, <3>4, FS_EmptySet DEF Paging
  <2>3. Account(e)'
    BY <2>1, <2>2 DEF Account, Planned, Doomed
  <2> QED BY <1>2, <1>4, <2>3 DEF ReadUsage, Accounts
<1>5. CASE ListEntries(e)
  <2> DEFINE S == {c \in Seen(e) : Evictable(usage[e], c)}
  <2>1. PICK P \in Plans(usage[e], S) : planned' = [planned EXCEPT ![e] = P] /\ queue' = [queue EXCEPT ![e] = P]
    BY <1>5 DEF ListEntries
  <2>2. /\ pc[e] = "list" /\ pc'[e] = "delete" /\ planned'[e] = P /\ queue'[e] = P
        /\ UNCHANGED <<store, age, usage, known, gone>> /\ LastPage(nextPage[e])
    BY <1>5, <2>1 DEF ListEntries, At, TypeOK
  <2>3. P \subseteq S /\ P \subseteq Preset /\ P \subseteq known[e]
    <3>1. P \subseteq S
      BY DEF Plans
    <3>2. S \subseteq Entries /\ S \subseteq store \cup seen[e]
      BY DEF Seen, TypeOK
    <3> QED BY <1>3, <2>2, <3>1, <3>2, OldOnesGo DEF Account
  <2>4. P = S \/ usage[e] <= TargetGb + Total(P)
    <3> HIDE DEF S
    <3> QED BY DEF Plans
  <2>5. Total(planned[e])' = Total(P)
    BY <2>2 DEF Total
  <2>6. P = S => Cardinality(Spares(e)') <= gone[e]
    <3> SUFFICES ASSUME P = S PROVE Cardinality(Spares(e)') <= gone[e]
      OBVIOUS
    <3>1. \A c \in store : Evictable(usage[e], c)' => Evictable(usage[e], c) /\ c \in Preset
      <4> SUFFICES ASSUME NEW c \in store, Evictable(usage[e], c)'
                   PROVE  Evictable(usage[e], c) /\ c \in Preset
        OBVIOUS
      <4>1. Evictable(usage[e], c)
        BY <2>2 DEF Evictable, AgeFloor
      <4> QED BY <1>1, <4>1, OldOnesGo
    <3>2. Spares(e)' \in SUBSET Misses(e)
      BY <2>2, <3>1, LastPageShows DEF Spares
    <3>3. /\ Cardinality(Spares(e)') <= Cardinality(Misses(e)) /\ Cardinality(Misses(e)) <= gone[e]
          /\ Cardinality(Spares(e)') \in Nat /\ Cardinality(Misses(e)) \in Nat /\ gone[e] \in Nat
      BY <1>3, <2>2, <3>2, MissesFinite, FS_Subset, FS_CardinalityType DEF Account, Paging, TypeOK
    <3> QED BY <3>3
  <2>7. Planned(e)'
    <3> HIDE DEF Total, S
    <3> QED BY <2>2, <2>4, <2>5, <2>6 DEF Planned
  <2>8. Account(e)'
    BY <2>2, <2>3, <2>7 DEF Account, Paging, Doomed
  <2> QED BY <1>2, <2>2, <2>8 DEF Accounts
<1>6. CASE ListFails(e)
  <2>1. /\ planned'[e] = {} /\ pc'[e] = "done" /\ UNCHANGED <<store, queue, inflight, denied, failed>>
    BY <1>3, <1>6 DEF ListFails, At, callVars, Account, TypeOK
  <2>2. Account(e)'
    BY <1>3, <2>1 DEF Account, Paging, Planned, Doomed
  <2> QED BY <1>2, <1>6, <2>2 DEF ListFails, Accounts
<1>10. CASE ReadEntries(e)
  <2>1. /\ UNCHANGED <<store, age, pc, usage, known, gone, planned, queue, inflight, denied, failed>>
        /\ pc[e] = "list" /\ nextPage'[e] = nextPage[e] + 1 /\ seen'[e] = Seen(e)
    BY <1>10 DEF ReadEntries, At, callVars, TypeOK
  <2>2. Misses(e)' = Misses(e)
    <3> DEFINE N == (nextPage[e] - 1) * PageSize
               M == nextPage[e] * PageSize
    <3>1. (nextPage'[e] - 1) * PageSize = M /\ N \in Int /\ M \in Int /\ N <= M
      BY <2>1, PagesType DEF TypeOK
    <3>2. \A c \in store : Position(c)' = Position(c) /\ Position(c) \in Nat
      BY <1>0, <2>1, PositionBefore, BeforeBounds DEF TypeOK
    <3>3. Seen(e) = seen[e] \cup {c \in store : Position(c) > N /\ Position(c) <= M}
      BY DEF Seen, OnPage
    <3>4. /\ Misses(e) = {c \in Preset \cap store : c \notin seen[e] /\ Position(c) <= N}
          /\ Misses(e)' = {c \in Preset \cap store : c \notin Seen(e) /\ Position(c)' <= M}
      BY <2>1, <3>1 DEF Misses
    <3> HIDE DEF N, M
    <3> QED BY <3>1, <3>2, <3>3, <3>4
  <2>3. Seen(e) \subseteq seen[e] \cup store
    BY DEF Seen
  <2>4. Account(e)'
    BY <1>3, <2>1, <2>2, <2>3 DEF Account, Paging, Planned, Doomed
  <2> QED BY <1>2, <2>1, <2>4 DEF Accounts
<1>7. CASE PassEnds(e)
  <2>1. /\ pc[e] = "delete" /\ pc'[e] = "done" /\ inflight[e] = {} /\ (queue[e] = {} \/ denied[e])
        /\ UNCHANGED <<store, age, usage, known, planned, queue, inflight, denied, failed>>
    BY <1>7 DEF PassEnds, At, callVars, TypeOK
  <2>2. Planned(e)'
    BY <1>0, <1>1, <1>3, <2>1, PlannedMoves DEF Account
  <2>3. Account(e)'
    BY <1>3, <2>1, <2>2 DEF Account, Paging, Doomed
  <2> QED BY <1>2, <2>1, <2>3 DEF Accounts
<1>8. ASSUME NEW c \in Entries, StartCall(e, c) PROVE Accounts'
  <2>1. /\ pc[e] = "delete" /\ c \in queue[e]
        /\ UNCHANGED <<store, age, pc, usage, known, planned, denied, failed>>
        /\ queue'[e] = queue[e] \ {c} /\ inflight'[e] = inflight[e] \cup {c}
    BY <1>8 DEF StartCall, At, TypeOK
  <2>2. Doomed(e)' = Doomed(e)
    BY <2>1 DEF Doomed
  <2>3. Planned(e)'
    BY <1>0, <1>1, <1>3, <2>1, PlannedMoves DEF Account
  <2>4. Account(e)'
    BY <1>3, <2>1, <2>2, <2>3 DEF Account, Paging
  <2> QED BY <1>2, <2>1, <2>4 DEF Accounts
<1>9. ASSUME NEW c \in Entries, Deleted(e, c) \/ Denied(e, c) \/ CallFails(e, c) PROVE Accounts'
  <2>1. /\ c \in inflight[e]
        /\ inflight'[e] = inflight[e] \ {c}
        /\ denied[e] => denied'[e]
        /\ failed[e] => failed'[e]
        /\ ~denied'[e] /\ ~failed'[e] => c \notin store'
    BY <1>9 DEF Deleted, Denied, CallFails, Answered, Removes, Leaves, TypeOK
  <2>2. UNCHANGED <<age, pc, usage, known, nextPage, seen, planned, queue>>
    BY <1>9 DEF Deleted, Denied, CallFails, Answered, pageVars
  <2>3. Doomed(e) # {} /\ Doomed(e) \subseteq Doomed(e)' \cup {c} /\ Doomed(e)' \subseteq Doomed(e)
    BY <2>1, <2>2 DEF Doomed
  <2>4. Paging(e)' /\ Planned(e)'
    BY <1>0, <1>1, <1>3, <2>2, PagingMoves, PlannedMoves DEF Account
  <2>5. store' \cap Preset \subseteq store
    BY <1>1 DEF Moved, Leaves
  <2>6. Account(e)'
    BY <1>3, <2>1, <2>2, <2>3, <2>4, <2>5 DEF Account
  <2> QED BY <1>2, <2>2, <2>6 DEF Accounts
<1> QED BY <1>4, <1>5, <1>6, <1>7, <1>8, <1>9, <1>10 DEF PassNext

LEMMA OthersAccount ==
  ASSUME TypeOK, Accounts, (\E c \in Entries : SaveEntry(c)) \/ RefreshUsage \/ UNCHANGED vars
  PROVE  Accounts'
<1>1. /\ UNCHANGED <<age, pc, usage, known, nextPage, seen, gone, planned, queue, inflight, denied, failed>>
      /\ store \subseteq store' /\ store' \cap Preset \subseteq store
  BY DEF SaveEntry, RefreshUsage, pageVars, callVars, vars
<1>2. \A e \in Evictors : Account(e)'
  BY <1>1, OthersTypes, StoreMoves DEF Moved
<1> QED BY <1>1, <1>2 DEF Accounts

LEMMA CleanersAccount ==
  ASSUME TypeOK, Accounts, NEW k \in Cleaners, CleanStep(k) PROVE TypeOK' /\ Accounts'
<1>1. /\ UNCHANGED <<age, reported, pc, usage, known, nextPage, seen, planned, queue, inflight, denied, failed, removed>>
      /\ (\E x : Leaves(x)) \/ UNCHANGED <<store, gone>>
  BY DEF CleanStep, ReadPage, ListEnds, ListBreaks, DeleteOne, DeletesEnd, VerifyEnds, Settles,
         vars, pageVars, callVars
<1>2. TypeOK'
  BY <1>1, LeavesTypes DEF TypeOK
<1>3. \A e \in Evictors : Account(e)'
  BY <1>1, <1>2, StoreMoves DEF Moved
<1> QED BY <1>1, <1>2, <1>3 DEF Accounts

\* The types of the passes' variables.
THEOREM PassTypeCorrect == Spec => []TypeOK
<1>1. Init => TypeOK
  BY InitTypes DEF Init
<1>2. TypeOK /\ [Next]_vars => TypeOK'
  BY PassTypes, OthersTypes DEF Next, Done
<1> QED BY <1>1, <1>2, PTL DEF Spec

\* However many passes race over one store, however stale the usage each has
\* read and however long its list is, one whose calls all succeed reaches its
\* target, or leaves no more of what it may delete than entries went away
\* between two pages of its list.
THEOREM PassesReachTarget == Spec => []ReachesTarget
<1>1. Init => Accounts
  BY InitAccounts DEF Init
<1>2. TypeOK /\ Accounts /\ [Next]_vars => Accounts'
  BY PassAccounts, OthersAccount DEF Next, Done
<1>3. TypeOK /\ Accounts => ReachesTarget
  BY ReachesFromAccounts
<1> QED BY <1>1, <1>2, <1>3, PassTypeCorrect, PTL DEF Spec

-----------------------------------------------------------------------------
(***************************************************************************)
(* The cleanup jobs                                                        *)
(***************************************************************************)
CleanTypes ==
  /\ step \in [Cleaners -> {"list", "delete", "verify", "ended"}]
  /\ page \in [Cleaners -> Nat \ {0}] /\ tries \in [Cleaners -> 0 .. Attempts]
  /\ listing \in [Cleaners -> SUBSET Entries] /\ matched \in [Cleaners -> SUBSET Entries]
  /\ erred \in [Cleaners -> BOOLEAN] /\ torn \in [Cleaners -> BOOLEAN]
  /\ swept \in [Cleaners -> SUBSET Entries]
  /\ outcome \in [Cleaners -> {"none", "green", "warned", "red"}]

Reading(k) == step[k] \in {"list", "verify"}

\* What a list that is not torn has still to show of the run is on a later page.
Paged(k) ==
  Reading(k) /\ ~torn[k] =>
    \A c \in Namespace(k) \cap store : c \in listing[k] \/ Place(c) > (page[k] - 1) * PageSize

Clean(k) ==
  /\ step[k] # "ended" => ~Refused(k) /\ tries[k] > 0 /\ outcome[k] = "none"
  /\ matched[k] \subseteq Namespace(k) /\ swept[k] \subseteq Namespace(k)
  /\ step[k] = "delete" => page[k] = 1 /\ ~torn[k]
  /\ Paged(k)
  /\ outcome[k] = "green" /\ ~torn[k] => Namespace(k) \cap store = {}

Cleans == \A k \in Cleaners : Clean(k)

UpTo(S, c) == {d \in S : ListedAt[d] <= ListedAt[c]}

LEMMA UpToBounds ==
  ASSUME NEW S \in SUBSET Entries, NEW c \in S
  PROVE  /\ Cardinality(UpTo(S, c)) \in Nat /\ Cardinality(S) \in Nat
         /\ Cardinality(UpTo(S, c)) > 0 /\ Cardinality(UpTo(S, c)) <= Cardinality(S)
<1>1. c \in UpTo(S, c)
  BY CleanupAssumption DEF UpTo
<1>2. IsFiniteSet(S) /\ UpTo(S, c) \in SUBSET S
  BY EntrySets, FS_Subset DEF UpTo
<1>3. IsFiniteSet(UpTo(S, c)) /\ Cardinality(UpTo(S, c)) <= Cardinality(S)
  BY <1>2, FS_Subset
<1>4. Cardinality(UpTo(S, c)) \in Nat /\ Cardinality(S) \in Nat /\ Cardinality(UpTo(S, c)) # 0
  BY <1>1, <1>2, <1>3, FS_CardinalityType, FS_EmptySet
<1> QED BY <1>3, <1>4

LEMMA UpToGrows ==
  ASSUME NEW S, NEW T \in SUBSET Entries, S \subseteq T, NEW c
  PROVE  Cardinality(UpTo(S, c)) <= Cardinality(UpTo(T, c))
<1>1. IsFiniteSet(T) /\ UpTo(T, c) \in SUBSET T
  BY EntrySets, FS_Subset DEF UpTo
<1>2. IsFiniteSet(UpTo(T, c)) /\ UpTo(S, c) \in SUBSET UpTo(T, c)
  BY <1>1, FS_Subset DEF UpTo
<1> QED BY <1>2, FS_Subset

LEMMA PlaceUpTo == \A c : Place(c) = Cardinality(UpTo(store, c)) /\ Place(c)' = Cardinality(UpTo(store', c))
  BY DEF Place, UpTo

\* The other jobs' steps: an entry goes away, which tears the list, or one
\* that is not of the run is saved.
LEMMA Disturbed ==
  ASSUME TypeOK, TypeOK', CleanTypes, NEW k \in Cleaners, Clean(k),
         step'[k] = step[k], page'[k] = page[k], listing'[k] = listing[k], matched'[k] = matched[k],
         tries'[k] = tries[k], swept'[k] = swept[k], outcome'[k] = outcome[k],
         \/ /\ store' \subseteq store
            /\ torn'[k] = (torn[k] \/ (Reading(k) /\ page[k] > 1))
         \/ /\ store \subseteq store' /\ store' \cap Preset \subseteq store
            /\ torn'[k] = torn[k]
  PROVE  Clean(k)'
<1>1. Namespace(k) \subseteq Preset
  BY LastJobAssumption
<1>2. page[k] \in Nat \ {0} /\ torn[k] \in BOOLEAN
  BY DEF CleanTypes
<1>3. CASE store' \subseteq store /\ torn'[k] = (torn[k] \/ (Reading(k) /\ page[k] > 1))
  <2>1. ASSUME step[k] \in {"list", "verify"}, ~torn'[k], NEW c \in Namespace(k) \cap store'
        PROVE  c \in listing[k] \/ Place(c)' > (page[k] - 1) * PageSize
    <3>1. page[k] = 1
      <4>1. ~(Reading(k) /\ page[k] > 1)
        BY <1>3, <2>1
      <4> QED BY <1>2, <2>1, <4>1 DEF Reading
    <3>2. Place(c)' > 0
      BY PlaceUpTo, UpToBounds DEF TypeOK
    <3>3. (page[k] - 1) * PageSize = 0
      BY <3>1, PagesType
    <3> QED BY <3>2, <3>3
  <2>2. torn[k] => torn'[k]
    BY <1>3
  <2>3. step[k] = "delete" => ~torn'[k]
    BY <1>3 DEF Clean, Reading
  <2> QED BY <1>3, <2>1, <2>2, <2>3 DEF Clean, Paged, Reading, Namespace, Refused, matchesNamespace, deriveNamespacePrefix
<1>4. CASE store \subseteq store' /\ store' \cap Preset \subseteq store /\ torn'[k] = torn[k]
  <2>1. Namespace(k) \cap store' = Namespace(k) \cap store
    BY <1>1, <1>4
  <2>2. ASSUME step[k] \in {"list", "verify"}, ~torn'[k], NEW c \in Namespace(k) \cap store'
        PROVE  c \in listing[k] \/ Place(c)' > (page[k] - 1) * PageSize
    <3>1. c \in store /\ (c \in listing[k] \/ Place(c) > (page[k] - 1) * PageSize)
      BY <1>4, <2>1, <2>2 DEF Clean, Paged, Reading
    <3>2. Place(c) <= Place(c)' /\ Place(c) \in Nat /\ Place(c)' \in Nat
      BY <1>4, <3>1, PlaceUpTo, UpToBounds, UpToGrows DEF TypeOK
    <3>3. (page[k] - 1) * PageSize \in Int
      BY <1>2, PagesType
    <3> QED BY <3>1, <3>2, <3>3
  <2> QED BY <1>4, <2>1, <2>2 DEF Clean, Paged, Reading, Namespace, Refused, matchesNamespace, deriveNamespacePrefix
<1> QED BY <1>3, <1>4

\* What a full page does not hold is further on, and the last page holds the rest.
LEMMA PagesHold ==
  ASSUME TypeOK, CleanTypes, NEW k \in Cleaners, Paged(k), Reading(k), ~torn[k],
         NEW c \in Namespace(k) \cap store
  PROVE  /\ c \in listing[k] \cup PageOf(page[k]) \/ Place(c) > page[k] * PageSize
         /\ LastPage(page[k]) => c \in Found(k)
<1>1. /\ page[k] * PageSize \in Nat
      /\ Place(c) \in Nat /\ Cardinality(store) \in Nat /\ Place(c) <= Cardinality(store)
  <2>1. page[k] \in Nat /\ PageSize \in Nat
    BY PagesType DEF CleanTypes
  <2>2. Place(c) \in Nat /\ Cardinality(store) \in Nat /\ Place(c) <= Cardinality(store)
    BY PlaceUpTo, UpToBounds DEF TypeOK
  <2> QED BY <2>1, <2>2
<1>2. c \in listing[k] \/ Place(c) > (page[k] - 1) * PageSize
  BY DEF Paged
<1>3. c \in listing[k] \cup PageOf(page[k]) \/ Place(c) > page[k] * PageSize
  BY <1>1, <1>2 DEF PageOf, OnPage
<1>4. LastPage(page[k]) => ~(Place(c) > page[k] * PageSize)
  BY <1>1 DEF LastPage
<1> QED BY <1>3, <1>4 DEF Found, Namespace

\* What one cleanup job's step does to what the others remember.
LEMMA CleanIsLocal ==
  ASSUME TypeOK, CleanTypes, NEW k \in Cleaners, Clean(k), CleanStep(k)
  PROVE  /\ store' \subseteq store /\ CleanTypes'
         /\ \A j \in Cleaners \ {k} :
              /\ step'[j] = step[j] /\ page'[j] = page[j] /\ listing'[j] = listing[j]
              /\ matched'[j] = matched[j] /\ tries'[j] = tries[j] /\ swept'[j] = swept[j]
              /\ outcome'[j] = outcome[j]
              /\ \/ torn'[j] = (torn[j] \/ (Reading(j) /\ page[j] > 1))
                 \/ torn'[j] = torn[j] /\ store' = store
<1>1. /\ store \subseteq Entries /\ PageOf(page[k]) \subseteq Entries /\ Found(k) \subseteq Entries
      /\ Attempts \in Nat \ {0}
  BY CleanupAssumption DEF TypeOK, CleanTypes, PageOf, Found
<1> HIDE DEF PageOf, Found, LastPage, Namespace
<1>2. CASE ReadPage(k)
  BY <1>1, <1>2 DEF ReadPage, CleanTypes, vars
<1>3. CASE ListEnds(k)
  BY <1>1, <1>3 DEF ListEnds, Ends, Move, Restart, CleanTypes, vars
<1>4. CASE ListBreaks(k)
  BY <1>4 DEF ListBreaks, Ends, Move, Restart, CleanTypes, vars
<1>5. ASSUME NEW c \in Entries, DeleteOne(k, c)
      PROVE  /\ store' \subseteq store /\ CleanTypes'
             /\ UNCHANGED <<page, listing, tries>>
             /\ \A j \in Cleaners \ {k} :
                  /\ step'[j] = step[j] /\ matched'[j] = matched[j] /\ swept'[j] = swept[j]
                  /\ outcome'[j] = outcome[j]
                  /\ \/ torn'[j] = (torn[j] \/ (Reading(j) /\ page[j] > 1))
                     \/ torn'[j] = torn[j] /\ store' = store
  <2>1. PICK status \in {"ok", "lingers", "gone", "permission", "error"} :
          /\ IF status = "ok"
             THEN /\ Leaves(c) /\ Tears
                  /\ swept' = [swept EXCEPT ![k] = @ \cup {c}]
             ELSE UNCHANGED <<store, gone, torn, swept>>
          /\ erred' = [erred EXCEPT ![k] = @ \/ status = "error"]
          /\ IF status = "permission"
             THEN Ends(k, "warned") /\ matched' = [matched EXCEPT ![k] = {}]
             ELSE /\ matched' = [matched EXCEPT ![k] = @ \ {c}]
                  /\ UNCHANGED <<step, outcome>>
    BY <1>5 DEF DeleteOne
  <2>2. UNCHANGED <<page, listing, tries>>
    BY <1>5 DEF DeleteOne, listVars
  <2>3. erred' \in [Cleaners -> BOOLEAN]
    <3> DEFINE b == erred[k] \/ status = "error"
    <3>1. b \in BOOLEAN
      OBVIOUS
    <3>2. erred' = [erred EXCEPT ![k] = b]
      BY <2>1
    <3> HIDE DEF b
    <3> QED BY <3>1, <3>2 DEF CleanTypes
  <2>4. torn' \in [Cleaners -> BOOLEAN]
    <3>1. Tears \/ torn' = torn
      BY <2>1
    <3>2. Tears => torn' \in [Cleaners -> BOOLEAN]
      BY DEF Tears
    <3> QED BY <3>1, <3>2 DEF CleanTypes
  <2>5. /\ step' \in [Cleaners -> {"list", "delete", "verify", "ended"}]
        /\ outcome' \in [Cleaners -> {"none", "green", "warned", "red"}]
        /\ matched' \in [Cleaners -> SUBSET Entries] /\ swept' \in [Cleaners -> SUBSET Entries]
    BY <2>1 DEF Ends, Move, CleanTypes
  <2>6. \A j \in Cleaners \ {k} :
          /\ step'[j] = step[j] /\ matched'[j] = matched[j] /\ swept'[j] = swept[j]
          /\ outcome'[j] = outcome[j]
    BY <2>1 DEF Ends, Move, CleanTypes
  <2>7. \A j \in Cleaners : \/ torn'[j] = (torn[j] \/ (Reading(j) /\ page[j] > 1))
                            \/ torn'[j] = torn[j] /\ store' = store
    BY <2>1 DEF Tears, Reading
  <2>8. store' \subseteq store
    BY <2>1 DEF Leaves
  <2> QED BY <2>2, <2>3, <2>4, <2>5, <2>6, <2>7, <2>8 DEF CleanTypes
<1>6. CASE DeletesEnd(k)
  BY <1>6 DEF DeletesEnd, Ends, Move, CleanTypes, vars, listVars
<1>7. CASE VerifyEnds(k)
  <2>1. tries[k] \in 1 .. Attempts /\ tries[k] - 1 \in 0 .. Attempts
    BY <1>1, <1>7 DEF VerifyEnds, Clean, CleanTypes
  <2> QED BY <1>7, <2>1 DEF VerifyEnds, Ends, Move, Restart, CleanTypes, vars
<1>8. CASE Settles(k)
  BY <1>1, <1>8 DEF Settles, Leaves, Tears, CleanTypes, Reading, listVars
<1> QED BY <1>2, <1>3, <1>4, <1>5, <1>6, <1>7, <1>8 DEF CleanStep

LEMMA CleanAfter ==
  ASSUME TypeOK, CleanTypes, NEW k \in Cleaners, Clean(k), CleanStep(k)
  PROVE  Clean(k)'
<1> DEFINE N == Namespace(k)
<1>1. Namespace(k)' = N /\ Refused(k)' = Refused(k)
  BY DEF Namespace, Refused, matchesNamespace, deriveNamespacePrefix
<1>2. store' \subseteq store /\ store \subseteq Entries /\ CleanTypes'
  BY CleanIsLocal DEF TypeOK
<1>3. \A c \in store' : Place(c)' > (1 - 1) * PageSize
  <2>1. \A c \in store' : Place(c)' > 0
    BY <1>2, PlaceUpTo, UpToBounds
  <2>2. (1 - 1) * PageSize = 0
    BY PagesType
  <2> QED BY <2>1, <2>2
<1>4. ~Refused(k) => Found(k) \subseteq N
  BY DEF Found, Namespace, CleanTypes, TypeOK, PageOf
<1>5. ASSUME Reading(k), ~torn[k], LastPage(page[k]), Found(k) = {} PROVE N \cap store = {}
  BY <1>5, PagesHold DEF Clean
<1> HIDE DEF N
<1>6. CASE ReadPage(k)
  <2>1. /\ UNCHANGED <<store, step, matched, tries, torn, swept, outcome>> /\ page'[k] = page[k] + 1
        /\ listing'[k] = listing[k] \cup PageOf(page[k])
        /\ page[k] \in Nat
    BY <1>6 DEF ReadPage, CleanTypes, vars
  <2>2. \A c : Place(c)' = Place(c)
    BY <2>1 DEF Place
  <2>3. ASSUME Reading(k), ~torn[k], NEW c \in N \cap store
        PROVE  c \in listing'[k] \/ Place(c) > (page'[k] - 1) * PageSize
    <3>1. c \in listing[k] \cup PageOf(page[k]) \/ Place(c) > page[k] * PageSize
      BY <2>3, PagesHold DEF Clean, N
    <3>2. page'[k] - 1 = page[k]
      BY <2>1
    <3> QED BY <2>1, <3>1, <3>2
  <2>4. step[k] # "delete"
    BY <1>6 DEF ReadPage
  <2> HIDE DEF Place, PageOf
  <2> QED BY <1>1, <2>1, <2>2, <2>3, <2>4 DEF Clean, Paged, Reading, N
<1>7. CASE ListEnds(k)
  <2>1. /\ UNCHANGED <<store, tries, swept>> /\ matched'[k] = Found(k)
        /\ page'[k] = 1 /\ step[k] = "list" /\ LastPage(page[k])
        /\ torn'[k] = (torn[k] /\ outcome'[k] = "green")
        /\ Found(k) = {} => step'[k] = "ended" /\ outcome'[k] = "green"
        /\ Found(k) # {} => step'[k] = "delete" /\ outcome'[k] = outcome[k]
    BY <1>7 DEF ListEnds, Ends, Move, Restart, CleanTypes, vars
  <2>2. ~Refused(k) /\ tries[k] > 0 /\ outcome[k] = "none"
    BY <2>1 DEF Clean
  <2>3. CASE Found(k) = {}
    <3>1. ~torn'[k] => N \cap store = {}
      BY <1>5, <2>1, <2>3 DEF Reading
    <3> QED BY <1>1, <2>1, <2>3, <3>1 DEF Clean, Paged, Reading, N
  <2>4. CASE Found(k) # {}
    BY <1>1, <1>4, <2>1, <2>2, <2>4 DEF Clean, Paged, Reading, N
  <2> QED BY <2>3, <2>4
<1>8. CASE ListBreaks(k)
  <2>1. UNCHANGED <<store, matched, swept>> /\ step'[k] = "ended" /\ outcome'[k] \in {"warned", "red"}
    BY <1>8 DEF ListBreaks, Ends, Move, Restart, CleanTypes, vars
  <2> QED BY <1>1, <2>1 DEF Clean, Paged, Reading
<1>9. ASSUME NEW c \in Entries, DeleteOne(k, c) PROVE Clean(k)'
  <2>1. /\ step[k] = "delete" /\ c \in matched[k] /\ UNCHANGED <<page, tries>>
        /\ matched'[k] \subseteq matched[k] /\ swept'[k] \subseteq swept[k] \cup {c}
        /\ torn'[k] = torn[k]
        /\ \/ step'[k] = "ended" /\ outcome'[k] = "warned"
           \/ step'[k] = "delete" /\ outcome'[k] = outcome[k]
    BY <1>9 DEF DeleteOne, Tears, Ends, Move, CleanTypes, listVars
  <2> QED BY <1>1, <2>1 DEF Clean, Paged, Reading
<1>10. CASE DeletesEnd(k)
  <2>1. /\ UNCHANGED <<store, page, matched, tries, torn, swept>> /\ step[k] = "delete"
        /\ \/ step'[k] = "ended" /\ outcome'[k] = "red"
           \/ step'[k] = "verify" /\ outcome'[k] = outcome[k]
    BY <1>10 DEF DeletesEnd, Ends, Move, CleanTypes, vars, listVars
  <2>2. page'[k] = 1
    BY <2>1 DEF Clean
  <2> HIDE DEF Place
  <2> QED BY <1>1, <1>3, <2>1, <2>2 DEF Clean, Paged, Reading
<1>11. CASE VerifyEnds(k)
  <2>1. /\ UNCHANGED <<store, matched, swept>> /\ page'[k] = 1 /\ step[k] = "verify"
        /\ LastPage(page[k]) /\ tries'[k] = tries[k] - 1
        /\ torn'[k] = (torn[k] /\ outcome'[k] = "green")
        /\ \/ step'[k] = "ended" /\ outcome'[k] = "red"
           \/ step'[k] = "ended" /\ outcome'[k] = "green" /\ Found(k) = {}
           \/ step'[k] = "verify" /\ outcome'[k] = outcome[k] /\ tries[k] # 1
    BY <1>11 DEF VerifyEnds, Ends, Move, Restart, CleanTypes, vars
  <2>2. ~Refused(k) /\ tries[k] > 0 /\ outcome[k] = "none" /\ tries[k] \in Nat
    BY <2>1 DEF Clean, CleanTypes
  <2>3. outcome'[k] = "green" /\ ~torn'[k] => N \cap store = {}
    BY <1>5, <2>1, <2>2 DEF Reading
  <2> HIDE DEF Place
  <2> QED BY <1>1, <1>3, <2>1, <2>2, <2>3 DEF Clean, Paged, Reading, N
<1>12. CASE Settles(k)
  <2>1. /\ UNCHANGED <<page, listing, matched, tries, step, outcome>> /\ step[k] = "verify"
        /\ swept'[k] \subseteq swept[k] \cup N /\ page[k] \in Nat \ {0}
        /\ torn'[k] = (torn[k] \/ page[k] > 1)
    BY <1>12 DEF Settles, Tears, CleanTypes, listVars, N
  <2>2. ~torn'[k] => page[k] = 1 /\ ~torn[k]
    <3>1. ~torn'[k] => ~torn[k] /\ ~(page[k] > 1)
      BY <2>1
    <3> QED BY <2>1, <3>1
  <2> HIDE DEF Place
  <2> QED BY <1>1, <1>2, <1>3, <2>1, <2>2 DEF Clean, Paged, Reading, N
<1> QED BY <1>6, <1>7, <1>8, <1>9, <1>10, <1>11, <1>12 DEF CleanStep

LEMMA InitCleans ==
  ASSUME CleanupInit PROVE TypeOK /\ Accounts /\ CleanTypes /\ Cleans
<1>1. PICK team \in Teams : InitFor(team.evictors, team.ages)
  BY DEF CleanupInit
<1>2. team.evictors \in SUBSET Evictors /\ team.ages \in SUBSET Ages
  BY CleanupAssumption
<1>3. TypeOK /\ Accounts
  BY <1>1, <1>2, InitTypes, InitAccounts
<1>4. CleanTypes
  BY CleanupAssumption DEF CleanupInit, CleanTypes
<1>5. ASSUME NEW k \in Cleaners PROVE Clean(k)
  <2>1. /\ step[k] # "ended" => step[k] = "list" /\ ~Refused(k) /\ outcome[k] = "none"
        /\ outcome[k] # "green" /\ step[k] # "delete"
        /\ page[k] = 1 /\ matched[k] = {} /\ swept[k] = {} /\ tries[k] = Attempts
    BY <1>5 DEF CleanupInit
  <2>2. (page[k] - 1) * PageSize = 0 /\ Attempts > 0
    BY <2>1, CleanupAssumption, PagesType
  <2>3. \A c \in store : Place(c) > 0
    BY <1>3, PlaceUpTo, UpToBounds DEF TypeOK
  <2> HIDE DEF Place, Refused, Namespace
  <2> QED BY <2>1, <2>2, <2>3 DEF Clean, Paged
<1> QED BY <1>3, <1>4, <1>5 DEF Cleans

LEMMA BesideKeepsCleans ==
  ASSUME TypeOK, CleanTypes, Cleans, Beside PROVE TypeOK' /\ CleanTypes' /\ Cleans'
<1>1. TypeOK'
  BY PassTypes, OthersTypes DEF Beside
<1>2. UNCHANGED <<step, page, listing, matched, tries, erred, swept, outcome>>
  BY DEF Beside, listVars
<1>3. CleanTypes'
  <2>1. torn' \in [Cleaners -> BOOLEAN]
    BY DEF Beside, Tears, CleanTypes
  <2> QED BY <1>2, <2>1 DEF CleanTypes
<1>4. \/ store' \subseteq store
      \/ store \subseteq store' /\ store' \cap Preset \subseteq store
  BY PassIsLocal DEF Beside, SaveEntry, RefreshUsage, Leaves
<1>5. ASSUME NEW k \in Cleaners PROVE Clean(k)'
  <2>1. \/ store' \subseteq store /\ torn'[k] = (torn[k] \/ (Reading(k) /\ page[k] > 1))
        \/ /\ store \subseteq store' /\ store' \cap Preset \subseteq store
           /\ torn'[k] = torn[k]
    BY <1>4 DEF Beside, Tears, Reading
  <2>2. Clean(k)
    BY DEF Cleans
  <2> QED BY <1>1, <1>2, <2>1, <2>2, Disturbed
<1> QED BY <1>1, <1>3, <1>5 DEF Cleans

LEMMA CleanersKeepCleans ==
  ASSUME TypeOK, Accounts, CleanTypes, Cleans, NEW k \in Cleaners, CleanStep(k)
  PROVE  CleanTypes' /\ Cleans'
<1>1. Clean(k)
  BY DEF Cleans
<1>2. TypeOK' /\ CleanTypes'
  BY <1>1, CleanersAccount, CleanIsLocal
<1>3. ASSUME NEW j \in Cleaners \ {k} PROVE Clean(j)'
  <2>1. /\ store' \subseteq store
        /\ step'[j] = step[j] /\ page'[j] = page[j] /\ listing'[j] = listing[j]
        /\ matched'[j] = matched[j] /\ tries'[j] = tries[j] /\ swept'[j] = swept[j]
        /\ outcome'[j] = outcome[j]
        /\ \/ torn'[j] = (torn[j] \/ (Reading(j) /\ page[j] > 1))
           \/ torn'[j] = torn[j] /\ store' = store
    BY <1>1, CleanIsLocal
  <2>2. Clean(j)
    BY DEF Cleans
  <2> QED BY <1>2, <2>1, <2>2, Disturbed
<1>4. Clean(k)'
  BY <1>1, CleanAfter
<1> QED BY <1>2, <1>3, <1>4 DEF Cleans

\* A key that matches a generation holds its parts.
LEMMA NamesHold ==
  ASSUME NEW c \in Entries, NEW k \in Cleaners, matchesNamespace(k, c),
         NEW i \in 1 .. Len(Generation[k]) - 1
  PROVE  Generation[k][i] \in ToSet(KeyOf[c])
<1> DEFINE key == KeyOf[c]
           gen == Generation[k]
<1>1. key \in Seq(ToSet(key)) /\ gen \in Seq(ToSet(gen)) /\ gen # <<>>
  BY CleanupAssumption
<1> HIDE DEF key, gen
<1>2. Len(gen) \in Nat /\ Len(key) \in Nat /\ i \in 1 .. Len(gen) - 1 /\ i \in Nat
  BY <1>1 DEF gen
<1>3. /\ Front(gen) \in Seq(ToSet(gen)) /\ Len(Front(gen)) = Len(gen) - 1 /\ Front(gen)[i] = gen[i]
  BY <1>1, <1>2 DEF Front
<1>4. PICK s \in DOMAIN key : IsPrefix(Front(gen), SubSeq(key, s, Len(key)))
  BY DEF matchesNamespace, Names, deriveNamespacePrefix, key, gen
<1>5. s \in 1 .. Len(key)
  BY <1>1, <1>4
<1> DEFINE rest == SubSeq(key, s, Len(key))
<1>6. /\ rest \in Seq(ToSet(key)) /\ Len(rest) = Len(key) - s + 1
      /\ \A n \in 1 .. Len(rest) : rest[n] \in ToSet(key)
  <2> DEFINE parts == ToSet(key)
  <2>1. key \in Seq(parts)
    BY <1>1
  <2> HIDE DEF parts
  <2>2. rest \in Seq(parts) /\ Len(rest) = Len(key) - s + 1
    BY <1>2, <1>5, <2>1
  <2>3. \A n \in 1 .. Len(rest) : rest[n] \in parts
    BY <2>2
  <2> QED BY <2>2, <2>3 DEF parts
<1> HIDE DEF rest
<1>7. /\ Len(Front(gen)) <= Len(rest)
      /\ SubSeq(Front(gen), 1, Len(Front(gen))) = SubSeq(rest, 1, Len(Front(gen)))
  BY <1>4 DEF IsPrefix, rest
<1>8. Front(gen)[i] = rest[i] /\ i \in 1 .. Len(rest)
  BY <1>2, <1>3, <1>6, <1>7
<1> QED BY <1>3, <1>6, <1>8 DEF key, gen

LEMMA CleansSweep == ASSUME TypeOK, CleanTypes, Cleans PROVE GreenMeansSwept
<1> SUFFICES ASSUME NEW k \in Cleaners
             PROVE  /\ outcome[k] = "green" /\ ~torn[k] => Namespace(k) \cap store = {}
                    /\ \A c \in swept[k] :
                         /\ Run[k] \in ToSet(KeyOf[c])
                         /\ \A i \in 1 .. Len(Generation[k]) - 1 : Generation[k][i] \in ToSet(KeyOf[c])
  BY DEF GreenMeansSwept
<1>1. Clean(k)
  BY DEF Cleans
<1>2. ASSUME NEW c \in swept[k]
      PROVE  /\ Run[k] \in ToSet(KeyOf[c])
             /\ \A i \in 1 .. Len(Generation[k]) - 1 : Generation[k][i] \in ToSet(KeyOf[c])
  <2>1. c \in Entries /\ ~Refused(k) /\ matchesNamespace(k, c)
    BY <1>1 DEF Clean, Namespace
  <2>2. \A i \in 1 .. Len(Generation[k]) - 1 : Generation[k][i] \in ToSet(KeyOf[c])
    BY <2>1, NamesHold
  <2>3. PICK i \in DOMAIN Front(Generation[k]) : Run[k] = Front(Generation[k])[i]
    BY <2>1 DEF Refused, ToSet
  <2>4. i \in 1 .. Len(Generation[k]) - 1 /\ Front(Generation[k])[i] = Generation[k][i]
    BY CleanupAssumption DEF Front
  <2> QED BY <2>2, <2>3, <2>4
<1> QED BY <1>1, <1>2 DEF Clean

CleanupInv == TypeOK /\ Accounts /\ CleanTypes /\ Cleans

LEMMA CleanupInvariant == CleanupSpec => []CleanupInv
<1>1. CleanupInit => CleanupInv
  BY InitCleans DEF CleanupInv
<1>2. CleanupInv /\ [CleanupNext]_all => CleanupInv'
  <2> SUFFICES ASSUME CleanupInv, [CleanupNext]_all PROVE CleanupInv'
    OBVIOUS
  <2>1. CASE Beside
    <3>1. Accounts'
      BY <2>1, PassAccounts, OthersAccount DEF Beside, CleanupInv
    <3> QED BY <2>1, <3>1, BesideKeepsCleans DEF CleanupInv
  <2>2. CASE \E k \in Cleaners : CleanStep(k)
    BY <2>2, CleanersAccount, CleanersKeepCleans DEF CleanupInv
  <2>3. CASE UNCHANGED all
    <3>1. UNCHANGED vars
      BY <2>3 DEF all
    <3>2. TypeOK' /\ Accounts'
      BY <3>1, OthersTypes, OthersAccount DEF CleanupInv
    <3>3. CleanTypes'
      BY <2>3 DEF CleanupInv, CleanTypes, all, cleanVars, listVars
    <3>4. UNCHANGED <<store, step, page, listing, matched, tries, torn, swept, outcome>>
      BY <2>3 DEF all, vars, cleanVars, listVars
    <3>5. Cleans'
      BY <3>2, <3>4, Disturbed DEF CleanupInv, Cleans
    <3> QED BY <3>2, <3>3, <3>5 DEF CleanupInv
  <2> QED BY <2>1, <2>2, <2>3 DEF CleanupNext, AllDone
<1> QED BY <1>1, <1>2, PTL DEF CleanupSpec

\* The types of the passes' and the cleanup jobs' variables.
THEOREM CleanupTypeCorrect == CleanupSpec => []CleanupTypeOK
<1>1. CleanupInv => CleanupTypeOK
  BY DEF CleanupInv, CleanupTypeOK, CleanTypes
<1> QED BY <1>1, CleanupInvariant, PTL

\* The same while cleanup jobs, too, delete what it planned to delete, and
\* between two pages of its list.
THEOREM PassesReachTargetBesideCleanup == CleanupSpec => []ReachesTarget
<1>1. CleanupInv => ReachesTarget
  BY ReachesFromAccounts DEF CleanupInv
<1> QED BY <1>1, CleanupInvariant, PTL

\* A green cleanup whose last list no deletion tore has left nothing of its
\* run, for any pages, attempts, answers and passes beside it, and no cleanup
\* deletes what is not of its generation.
THEOREM GreenCleanupSwept == CleanupSpec => []GreenMeansSwept
<1>1. CleanupInv => GreenMeansSwept
  BY CleansSweep DEF CleanupInv
<1> QED BY <1>1, CleanupInvariant, PTL
=============================================================================
