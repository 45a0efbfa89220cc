--------------------------- MODULE CacheEviction ---------------------------
(***************************************************************************)
(* The post-step eviction pass of lib/cache-eviction.ts.  Every parallel   *)
(* job runs one: it reads the repository's cache usage and, over the       *)
(* trigger, lists the entries page by page, plans which to delete, and     *)
(* deletes them with a pool of concurrent calls.  Nothing coordinates the  *)
(* jobs, other jobs save and delete while a list is read, each page is of  *)
(* the store as it then is, and the usage GitHub reports lags behind.      *)
(*                                                                         *)
(* Sizes are in GB and ages in units of ten minutes.  A pass takes         *)
(* seconds while the age floors are at least half an hour: an entry does   *)
(* not age during it.                                                      *)
(***************************************************************************)
EXTENDS Naturals, FiniteSets, Functions

CONSTANTS
  Evictors,    \* jobs whose post step runs a pass
  Entries,     \* cache entries, by id
  Preset,      \* those saved before the passes
  Size,        \* size_in_bytes
  Foundation,  \* entries whose key has a foundation prefix
  Ages,        \* ages the entries saved before may have
  Id,          \* ids, in the order in which the entries were created
  PageSize,    \* per_page
  TriggerGb, TargetGb, MinAge,  \* the policy's thresholds
  Pool         \* CONCURRENCY

ASSUME EntrySets  == IsFiniteSet(Entries) /\ Preset \subseteq Entries /\ Foundation \subseteq Entries
ASSUME SizeType   == Size \in [Entries -> Nat \ {0}]
ASSUME Thresholds == TriggerGb \in Nat /\ TargetGb \in 0..TriggerGb /\ MinAge \in Nat
ASSUME IdsType    == Id \in [Entries -> Nat] /\ IsInjective(Id)
ASSUME PagesType  == PageSize \in Nat \ {0}
ASSUME AgesType   == Ages \subseteq Nat
ASSUME PoolType   == Pool \in Nat \ {0}

VARIABLES
  store,     \* entries in the repository's cache
  age,       \* their age when the passes run
  reported,  \* the usage GitHub reports
  pc,        \* where the pass is
  usage,     \* usageBytes: the usage the pass read
  known,     \* the entries there were when it read it
  nextPage,  \* page: the page of the list it reads next
  seen,      \* all: the entries the pages it has read hold
  gone,      \* how many entries went away between two pages of its list
  queue,     \* toDelete: planned deletions no call was started for
  inflight,  \* deletions started and not answered
  planned,   \* everything the pass planned to delete
  denied,    \* aborted: a call was answered 401 or 403
  failed,    \* some deletion failed for another reason
  removed    \* entries the passes have deleted so far

callVars == <<queue, inflight, denied, failed>>
pageVars == <<nextPage, seen>>
vars == <<store, age, reported, pc, usage, known, pageVars, gone, planned, callVars, removed>>

Total(S) == SumFunctionOnSet(Size, S)

TypeOK ==
  /\ store \in SUBSET Entries
  /\ age \in [Entries -> Nat]
  /\ reported \in Nat
  /\ pc \in [Evictors -> {"usage", "list", "delete", "done"}]
  /\ usage \in [Evictors -> Nat]
  /\ known \in [Evictors -> SUBSET Entries]
  /\ nextPage \in [Evictors -> Nat \ {0}]
  /\ seen \in [Evictors -> SUBSET Entries]
  /\ gone \in [Evictors -> Nat]
  /\ queue \in [Evictors -> SUBSET Entries]
  /\ inflight \in [Evictors -> SUBSET Entries]
  /\ planned \in [Evictors -> SUBSET Entries]
  /\ denied \in [Evictors -> BOOLEAN]
  /\ failed \in [Evictors -> BOOLEAN]
  /\ removed \in SUBSET Entries

None == [e \in Evictors |-> {}]

\* Those that run a pass begin by asking for the usage.
InitFor(evictors, ages) ==
  /\ store = Preset
  /\ age \in [Entries -> ages \cup {0}]
  /\ \A c \in Entries : c \in Preset <=> age[c] # 0
  /\ reported = Total(Preset)
  /\ pc = [e \in Evictors |-> IF e \in evictors THEN "usage" ELSE "done"]
  /\ usage = [e \in Evictors |-> 0]
  /\ known = None
  /\ nextPage = [e \in Evictors |-> 1]
  /\ seen = None
  /\ gone = [e \in Evictors |-> 0]
  /\ queue = None
  /\ inflight = None
  /\ planned = None
  /\ denied = [e \in Evictors |-> FALSE]
  /\ failed = [e \in Evictors |-> FALSE]
  /\ removed = {}

Init == InitFor(Evictors, Ages)

-----------------------------------------------------------------------------
(***************************************************************************)
(* What a pass may delete                                                  *)
(***************************************************************************)
HalfHour == 3
TwoHours == 12

\* Every policy's floor is two hours or more.
ASSUME FloorAssumption == MinAge >= HalfHour

\* Mutant: in danger nothing is too fresh to go.
FloorZero(u) == IF u > TriggerGb + 3 THEN 0 ELSE MinAge

\* ageFloorForOvershoot
AgeFloor(u) ==
  IF u <= TriggerGb + 1 THEN MinAge
  ELSE IF u <= TriggerGb + 3 THEN (IF MinAge < TwoHours THEN MinAge ELSE TwoHours)
  ELSE HalfHour

Evictable(u, c) == c \notin Foundation /\ age[c] >= AgeFloor(u)

\* Biggest first, the oldest first among equals.
Precedes(c, d) == Size[c] > Size[d] \/ (Size[c] = Size[d] /\ age[c] > age[d])

\* Mutant: the plan stops at the trigger.
PlansToTrigger(u, S) ==
  {P \in SUBSET S :
     /\ \A c \in P, d \in S \ P : ~Precedes(d, c)
     /\ P # {} => \E last \in P : /\ \A c \in P : ~Precedes(last, c)
                                  /\ u > TriggerGb + Total(P \ {last})
     /\ P = S \/ u <= TriggerGb + Total(P)}

\* The shortest prefix of the sorted candidates that is predicted to reach
\* the target; ties may come in any order.
Plans(u, S) ==
  {P \in SUBSET S :
     /\ \A c \in P, d \in S \ P : ~Precedes(d, c)
     /\ P # {} => \E last \in P : /\ \A c \in P : ~Precedes(last, c)
                                  /\ u > TargetGb + Total(P \ {last})
     /\ P = S \/ u <= TargetGb + Total(P)}

-----------------------------------------------------------------------------
(***************************************************************************)
(* evictIfOverBudget                                                       *)
(***************************************************************************)
At(e, p)   == pc[e] = p
Goto(e, p) == pc' = [pc EXCEPT ![e] = p]

\* Over the trigger, or nothing to do, or the usage call failed.
ReadUsage(e) ==
  /\ At(e, "usage")
  /\ \/ /\ usage' = [usage EXCEPT ![e] = reported]
        /\ known' = [known EXCEPT ![e] = store]
        /\ Goto(e, IF reported > TriggerGb THEN "list" ELSE "done")
     \/ Goto(e, "done") /\ UNCHANGED <<usage, known>>
  /\ UNCHANGED <<store, age, reported, pageVars, gone, planned, callVars, removed>>

\* The list comes sorted by creation, the oldest first; each page is of the
\* list as it is when the page is read.
CreatedBefore(d, c) == age[d] > age[c] \/ (age[d] = age[c] /\ Id[d] <= Id[c])
Position(c) == Cardinality({d \in store : CreatedBefore(d, c)})

OnPage(place, p) == place > (p - 1) * PageSize /\ place <= p * PageSize
LastPage(p) == Cardinality(store) < p * PageSize

Seen(e) == seen[e] \cup {c \in store : OnPage(Position(c), nextPage[e])}

ReadEntries(e) ==
  /\ At(e, "list") /\ ~LastPage(nextPage[e])
  /\ nextPage' = [nextPage EXCEPT ![e] = @ + 1]
  /\ seen' = [seen EXCEPT ![e] = Seen(e)]
  /\ UNCHANGED <<store, age, reported, pc, usage, known, gone, planned, callVars, removed>>

Listed(e) ==
  /\ nextPage' = [nextPage EXCEPT ![e] = 1]
  /\ seen' = [seen EXCEPT ![e] = {}]

ListEntries(e) ==
  /\ At(e, "list") /\ LastPage(nextPage[e])
  /\ \E P \in Plans(usage[e], {c \in Seen(e) : Evictable(usage[e], c)}) :
       /\ planned' = [planned EXCEPT ![e] = P]
       /\ queue' = [queue EXCEPT ![e] = P]
  /\ Listed(e)
  /\ Goto(e, "delete")
  /\ UNCHANGED <<store, age, reported, usage, known, gone, inflight, denied, failed, removed>>

ListFails(e) ==
  /\ At(e, "list")
  /\ Listed(e)
  /\ Goto(e, "done")
  /\ UNCHANGED <<store, age, reported, usage, known, gone, planned, callVars, removed>>

\* Whoever deletes an entry moves those behind it up in the lists being read.
Leaves(c) ==
  /\ store' = store \ {c}
  /\ gone' = [e \in Evictors |-> IF At(e, "list") /\ nextPage[e] > 1 THEN gone[e] + 1 ELSE gone[e]]

StartCall(e, c) ==
  /\ At(e, "delete") /\ ~denied[e]
  /\ c \in queue[e] /\ \A d \in queue[e] : ~Precedes(d, c)
  /\ Cardinality(inflight[e]) < Pool
  /\ queue' = [queue EXCEPT ![e] = @ \ {c}]
  /\ inflight' = [inflight EXCEPT ![e] = @ \cup {c}]
  /\ UNCHANGED <<store, age, reported, pc, usage, known, pageVars, gone, planned, denied, failed, removed>>

Answered(e, c) ==
  /\ c \in inflight[e]
  /\ inflight' = [inflight EXCEPT ![e] = @ \ {c}]
  /\ UNCHANGED <<age, reported, pc, usage, known, pageVars, planned, queue>>

Removes(c) == Leaves(c) /\ removed' = removed \cup {c}

\* 404 is fine: the entry is gone already.
Deleted(e, c) ==
  /\ Answered(e, c)
  /\ IF c \in store THEN Removes(c) ELSE UNCHANGED <<store, gone, removed>>
  /\ UNCHANGED <<denied, failed>>

\* 401 or 403: no further call is started.
Denied(e, c) ==
  /\ Answered(e, c)
  /\ denied' = [denied EXCEPT ![e] = TRUE]
  /\ UNCHANGED <<store, gone, failed, removed>>

\* Any other error is logged, whether or not GitHub deleted the entry.
CallFails(e, c) ==
  /\ Answered(e, c)
  /\ failed' = [failed EXCEPT ![e] = TRUE]
  /\ \/ c \in store /\ Removes(c)
     \/ UNCHANGED <<store, gone, removed>>
  /\ UNCHANGED denied

PassEnds(e) ==
  /\ At(e, "delete") /\ inflight[e] = {}
  /\ queue[e] = {} \/ denied[e]
  /\ Goto(e, "done")
  /\ UNCHANGED <<store, age, reported, usage, known, pageVars, gone, planned, callVars, removed>>

-----------------------------------------------------------------------------
(***************************************************************************)
(* The other jobs' saves, and GitHub's lagging usage report                *)
(***************************************************************************)
SaveEntry(c) ==
  /\ c \notin store \cup Preset \cup removed
  /\ store' = store \cup {c}
  /\ UNCHANGED <<age, reported, pc, usage, known, pageVars, gone, planned, callVars, removed>>

\* Refreshes nobody will read any more are left out.
RefreshUsage ==
  /\ \E e \in Evictors : At(e, "usage")
  /\ reported # Total(store)
  /\ reported' = Total(store)
  /\ UNCHANGED <<store, age, pc, usage, known, pageVars, gone, planned, callVars, removed>>

PassNext(e) ==
  \/ ReadUsage(e) \/ ReadEntries(e) \/ ListEntries(e) \/ ListFails(e)
  \/ \E c \in Entries : StartCall(e, c)
  \/ \E c \in Entries : Deleted(e, c) \/ Denied(e, c) \/ CallFails(e, c)
  \/ PassEnds(e)

Done == (\A e \in Evictors : pc[e] = "done") /\ UNCHANGED vars

Next ==
  \/ \E e \in Evictors : PassNext(e)
  \/ \E c \in Entries : SaveEntry(c)
  \/ RefreshUsage
  \/ Done

Spec == Init /\ [][Next]_vars

-----------------------------------------------------------------------------
\* However late the usage and however many passes race, nothing with a
\* foundation prefix is deleted, nor anything saved in the last half hour:
\* not this run's own caches, nor those other jobs save meanwhile (#352).
SparesProtected ==
  \A c \in removed : c \notin Foundation /\ age[c] >= HalfHour

\* A pass whose calls all succeed brings what was there when it read the usage
\* to the target, but for what the report had not counted yet, or leaves
\* nothing it may delete, though other passes delete the same entries; only
\* for every entry that anybody deletes between two pages of its list it may
\* miss one.
ReachesTarget ==
  \A e \in Evictors :
    pc[e] = "done" /\ planned[e] # {} /\ ~denied[e] /\ ~failed[e] =>
      \/ Cardinality({c \in known[e] \cap store : Evictable(usage[e], c)}) <= gone[e]
      \/ Total(known[e] \cap store) + usage[e] <= TargetGb + Total(known[e])
=============================================================================
