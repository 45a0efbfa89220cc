------------------------------ MODULE HostTools ------------------------------
(***************************************************************************)
(* The tools a job finds on its host.  On a runner whose tool cache        *)
(* outlives the job, tool-cache-store.ts keeps one entry per pinned Rust   *)
(* toolchain request and one per soldr tool bundle, and the jobs of the    *)
(* host, several at a time, link them into their own homes or publish what *)
(* they installed.  ensure-rust-toolchain.ts completes the toolchain,      *)
(* through the link when there is one.                                     *)
(*                                                                         *)
(* A toolchains directory maps a channel to what is installed of it: the   *)
(* release and the extras (components and targets), nothing, or a tree the *)
(* post-restore probe found damaged.                                       *)
(***************************************************************************)
EXTENDS Naturals, FiniteSets

CONSTANTS
  Jobs,          \* uses of the action
  Homes,         \* RUSTUP_HOME and bin directories under a cache root
  HomeOf,        \* the home a use is given; a kept cache-dir gives one to several
  Requests,      \* channel, components and targets a workflow may ask for
  CrossRequests, \* those whose target is a cross target of the cross lane
  ChannelOf,     \* the channel of a request
  Extras,        \* components and targets
  ExtrasOf,      \* those of a request
  Channels,
  Rolling,       \* channels rustup refreshes in place
  Releases,      \* the releases a rolling channel goes through, 0 first
  Bundles,       \* soldr's stamped tool bundles
  Wants,         \* the requests a use may make
  Stocked,       \* pinned requests earlier jobs of the host have published
  SoloJobs,      \* bound: uses that may have the solo toolchain cache on
  Image,         \* the toolchains the runner comes with: channels and extras
  Backups,       \* bound: the channel and extras setup-cache may have restored to a home
  Hosts,         \* environments, as decideToolCacheStore reads them
  Runner,        \* the runner's own ~/.rustup
  Missing, Damaged, NoEntry, NoLink, Unresolved

ASSUME HomeOfType    == HomeOf \in [Jobs -> Homes]
ASSUME RequestsType  ==
  /\ ChannelOf \in [Requests -> Channels] /\ ExtrasOf \in [Requests -> SUBSET Extras]
  /\ CrossRequests \subseteq Requests
ASSUME WantsType     == Wants \in [Jobs -> SUBSET Requests] /\ SoloJobs \subseteq Jobs
ASSUME BackupsType   ==
  /\ Image \in [Channels -> (SUBSET Extras) \cup {Missing}]
  /\ Backups \in [Homes -> SUBSET (Channels \X SUBSET Extras)]
ASSUME RollingType   == Rolling \subseteq Channels /\ \A r \in Stocked : r \in Requests /\ ChannelOf[r] \notin Rolling
ASSUME ReleasesType  == Releases \subseteq Nat /\ 0 \in Releases
ASSUME HostsType     == Hosts \subseteq [override : {"on", "off", "unset"}, toolCache : BOOLEAN,
                                         windows : BOOLEAN, macos : BOOLEAN,
                                         act : BOOLEAN, selfHosted : BOOLEAN]

Installed == [release : Releases, extras : SUBSET Extras]
Trees     == [Channels -> Installed \cup {Missing, Damaged}]
NoTree    == [c \in Channels |-> Missing]
Places    == Homes \cup Requests \cup {Runner}

ASSUME MarksFresh == Missing \notin Installed /\ Damaged \notin Installed /\ Missing # Damaged
ASSUME NoEntryFresh ==
  /\ NoEntry \notin Trees \cup Requests /\ Trees \cap Requests = {}
  /\ NoLink \notin Requests /\ Unresolved \notin Releases
ASSUME PlacesApart == Homes \cap Requests = {} /\ Runner \notin Homes \cup Requests

VARIABLES
  host,      \* the environment of the host
  latest,    \* the release the rolling channels point to
  dir,       \* the toolchains directory of each home, of the runner and of each entry
             \* soldr-rustup/<platform>/<channel>-<hash>; an entry may be a link to another
  bundle,    \* soldr-bundles/<platform>/<name>
  strategy,  \* of each home: unset, the managed home, or the runner's
  link,      \* of each managed home: the entry its toolchains link leads to, if it is one
  bin,       \* of each home and bundle: nothing, a torn or stamped directory, a link
  want,      \* the request of each use
  solo,      \* uses with solo-toolchain-cache on
  repair,    \* of those, uses whose restored toolchain must be reinstalled
  pc, plan, expected

vars == <<host, latest, dir, bundle, strategy, link, bin, want, solo, repair, pc, plan, expected>>
shared == <<host, latest, want, solo>>

PCs      == {"queued", "adopt", "explicit", "ensure", "extras", "stage", "rename", "fetch", "publish", "done"}
Statuses == {"none", "miss", "adopted", "kept-existing-dir"}

TypeOK ==
  /\ host \in Hosts
  /\ latest \in Releases
  /\ dir \in [Places -> Trees \cup {NoEntry} \cup Requests]
  /\ \A p \in Homes \cup {Runner} : dir[p] \in Trees
  /\ bundle \in [Bundles -> {"none", "torn", "dir"}]
  /\ strategy \in [Homes -> {"unset", "managed", "system"}]
  /\ link \in [Homes -> Requests \cup {NoLink}]
  /\ bin \in [Homes -> [Bundles -> {"none", "torn", "dir", "link"}]]
  /\ want \in [Jobs -> Requests]
  /\ solo \subseteq Jobs /\ repair \subseteq solo
  /\ pc \in [Jobs -> PCs]
  /\ plan \in [Jobs -> Statuses]
  /\ expected \in [Jobs -> Releases \cup {Unresolved}]

Channel(j) == ChannelOf[want[j]]

\* A toolchains directory with one channel of its first release.
Holding(c, x) == [NoTree EXCEPT ![c] = [release |-> 0, extras |-> x]]

\* A home is empty, or holds what setup-cache restored.
Restored(h) == {NoTree} \cup {Holding(b[1], b[2]) : b \in Backups[h]}

Preinstalled ==
  [c \in Channels |-> IF Image[c] = Missing THEN Missing ELSE [release |-> 0, extras |-> Image[c]]]

\* The host has run jobs before, each with a home of its own.
Init ==
  /\ host \in Hosts
  /\ latest = 0
  /\ \E restored \in [Homes -> UNION {Restored(h) : h \in Homes}] :
       /\ \A h \in Homes : restored[h] \in Restored(h)
       /\ dir = [p \in Places |-> IF p = Runner THEN Preinstalled
                                  ELSE IF p \in Homes THEN restored[p]
                                  ELSE IF p \in Stocked THEN Holding(ChannelOf[p], ExtrasOf[p])
                                  ELSE NoEntry]
  /\ bundle = [b \in Bundles |-> "none"]
  /\ want \in [Jobs -> Requests] /\ \A j \in Jobs : want[j] \in Wants[j]
  /\ solo \in SUBSET SoloJobs /\ repair = {}
  /\ strategy = [h \in Homes |-> "unset"]
  /\ link = [h \in Homes |-> NoLink]
  /\ bin = [h \in Homes |-> [b \in Bundles |-> "none"]]
  /\ pc = [j \in Jobs |-> "queued"]
  /\ plan = [j \in Jobs |-> "none"]
  /\ expected = [j \in Jobs |-> Unresolved]

-----------------------------------------------------------------------------
(***************************************************************************)
(* tool-cache-store.ts                                                     *)
(***************************************************************************)
\* decideToolCacheStore: a layer's own reason outranks a forcing override,
\* but not a disabling one.
StoreOn(layerOff) ==
  /\ host.override # "off" /\ host.toolCache /\ ~host.windows /\ ~layerOff
  /\ host.override = "on" \/ host.act \/ host.selfHosted

\* Mutant: the status of the link is reported for that of the adoption.
RawLinkStatus(linked, filled) == IF linked THEN "already-linked" ELSE IF filled THEN "kept-existing-dir" ELSE "linked"

\* linkDir: a link is retargeted, an empty directory replaced, a filled one kept.
LinkStatus(linked, filled) == IF ~linked /\ filled THEN "kept-existing-dir" ELSE "adopted"

\* The toolchains directory rustup sees and writes, through the links.
Root(h) ==
  IF strategy[h] = "system" THEN Runner
  ELSE IF link[h] = NoLink THEN h
  ELSE IF dir[link[h]] \in Requests THEN dir[link[h]] ELSE link[h]

Sees(j)     == dir[Root(HomeOf[j])]
Dangling(j) == Sees(j) \notin Trees
Here(j)     == Sees(j)[Channel(j)]

Install(j, what) == dir' = [dir EXCEPT ![Root(HomeOf[j])] = [@ EXCEPT ![Channel(j)] = what]]

-----------------------------------------------------------------------------
(***************************************************************************)
(* rustup-tool-cache.ts, and its caller in main.ts                         *)
(***************************************************************************)
Goto(j, p) == pc' = [pc EXCEPT ![j] = p]

\* rustupStoreOffReason, without Dylint.
RustupStoreOff(j) == j \in solo \/ strategy[HomeOf[j]] = "system" \/ Channel(j) \in Rolling

\* systemRustupSatisfiesRequest; an unresolved rolling channel never does.
SystemSatisfies(j, release) ==
  LET there == dir[Runner][Channel(j)] IN
  /\ there \in Installed
  /\ ExtrasOf[want[j]] \subseteq there.extras
  /\ Channel(j) \in Rolling => there.release = release

\* loadToolchainSpec and the choice of RUSTUP_HOME in resolveSetup: a job
\* chooses for itself, though an earlier one left the home as it is, and to a
\* later use in the job the home is the workflow's own.
\* Uses of one home follow one another; those of different homes do not wait.
\* A pinned channel, and a rolling one whose manifest cannot be read, name no
\* release.
Begin(j) ==
  LET h == HomeOf[j] IN
  /\ pc[j] = "queued"
  /\ \A i \in Jobs : HomeOf[i] = h => pc[i] \in {"queued", "done"}
  /\ \E release \in (IF Channel(j) \in Rolling THEN {latest} ELSE {}) \cup {Unresolved} :
       /\ expected' = [expected EXCEPT ![j] = release]
       /\ \/ /\ Goto(j, "adopt")
             /\ strategy' = [strategy EXCEPT
                  ![h] = IF SystemSatisfies(j, release) /\ ~host.macos THEN "system" ELSE "managed"]
          \/ strategy[h] # "unset" /\ Goto(j, "explicit") /\ UNCHANGED strategy
  /\ UNCHANGED <<shared, repair, dir, bundle, link, bin, plan>>

\* Links into the store whose target is gone are dropped.
DropDangling(b, was) == IF was = "link" /\ bundle[b] = "none" THEN "none" ELSE was

\* The cross lane has its own archive of the bundles.
BundlesOn(j) == StoreOn(want[j] \in CrossRequests)

AdoptBundles(j) ==
  bin' = IF ~BundlesOn(j) THEN bin
         ELSE [bin EXCEPT ![HomeOf[j]] = [b \in Bundles |->
                 LET left == DropDangling(b, @[b]) IN
                 IF bundle[b] = "dir" /\ LinkStatus(left = "link", left # "none") = "adopted"
                 THEN "link" ELSE left]]

\* The link of an entry that is not there is left as it is, and so is one that
\* was to lead to an entry whose own link dangles.
AdoptStatus(j) ==
  IF dir[want[j]] = NoEntry THEN "miss"
  ELSE LinkStatus(link[HomeOf[j]] # NoLink, dir[HomeOf[j]] # NoTree)

Leads(r) == dir[r] \in Requests => dir[dir[r]] \in Trees

\* toolchains is linked before update-hashes, which follows it and is not kept
\* here; an error in between, or before both, leaves the job without a plan.
AdoptRustup(j) ==
  LET h == HomeOf[j]
      linked == IF AdoptStatus(j) = "adopted" THEN [link EXCEPT ![h] = want[j]] ELSE link
  IN  IF pc[j] = "explicit" \/ ~StoreOn(RustupStoreOff(j)) THEN UNCHANGED <<plan, link>>
      ELSE \/ /\ AdoptStatus(j) = "miss" \/ Leads(want[j])
              /\ plan' = [plan EXCEPT ![j] = AdoptStatus(j)]
              /\ link' = linked
           \/ AdoptStatus(j) # "miss" /\ Leads(want[j]) /\ link' = linked /\ UNCHANGED plan
           \/ AdoptStatus(j) # "miss" /\ UNCHANGED <<plan, link>>

Adopt(j) ==
  /\ pc[j] \in {"adopt", "explicit"} /\ j \notin solo
  /\ Goto(j, "ensure")
  /\ AdoptBundles(j)
  /\ AdoptRustup(j)
  /\ UNCHANGED <<shared, repair, strategy, dir, bundle, expected>>

\* restoreSoloCache copies the restored files into the toolchains directory,
\* through a link an earlier use left; verifyRestoredToolchain then decides.
\* The archives were saved in the time of the first release.
Overlaid(j) ==
  {Damaged} \cup
  {[release |-> 0, extras |-> x \cup (IF Here(j) \in Installed THEN Here(j).extras ELSE {})] :
     x \in SUBSET ExtrasOf[want[j]]}

Verified(j, what) ==
  /\ what \in Installed
  /\ ExtrasOf[want[j]] \subseteq what.extras
  /\ expected[j] # Unresolved => what.release = expected[j]

RestoreSolo(j) ==
  /\ pc[j] \in {"adopt", "explicit"} /\ j \in solo /\ ~Dangling(j)
  /\ AdoptBundles(j)
  /\ \E what \in Overlaid(j) :
       /\ Install(j, what)
       /\ IF Verified(j, what)
          THEN repair' = repair /\ \E next \in {"ensure", "fetch"} : Goto(j, next)  \* an exact hit or not
          ELSE repair' = repair \cup {j} /\ Goto(j, "ensure")
  /\ UNCHANGED <<shared, strategy, bundle, link, plan, expected>>

\* No archive, or none that can be unpacked.
SoloMiss(j) ==
  /\ pc[j] \in {"adopt", "explicit"} /\ j \in solo
  /\ Goto(j, "ensure")
  /\ AdoptBundles(j)
  /\ UNCHANGED <<shared, repair, strategy, dir, bundle, link, plan, expected>>

-----------------------------------------------------------------------------
(***************************************************************************)
(* ensure-rust-toolchain.ts                                                *)
(***************************************************************************)
\* toolchainAvailable lists directories: a damaged one counts.
Available(j) == Here(j) # Missing

\* `rustup toolchain install` of a channel: what is there keeps its extras.
\* Of the releases only the rolling channels have more than one.
Fresh(j) ==
  [release |-> IF Channel(j) \in Rolling THEN latest ELSE 0,
   extras  |-> IF Here(j) \in Installed THEN Here(j).extras ELSE {}]

\* tryDelegateToSoldrToolchainEnsure: soldr completes what is missing, and may
\* or may not refresh a rolling channel.
DelegateToSoldr(j) ==
  /\ pc[j] = "ensure" /\ j \notin repair /\ ~Dangling(j)
  /\ Goto(j, "stage")
  /\ \E base \in {Fresh(j)} \cup ({Here(j)} \cap Installed) :
       Install(j, [base EXCEPT !.extras = @ \cup ExtrasOf[want[j]]])
  /\ UNCHANGED <<shared, repair, strategy, bundle, link, bin, plan, expected>>

\* Mutant: an exact hit is trusted to be the release.
SkipIfExactHit(j) == Channel(j) \in Rolling /\ Here(j) \in Installed

\* shouldSkipRefreshForExactHit; that setup-cache hit exactly is left open.
MaySkipRefresh(j) ==
  /\ SkipIfExactHit(j)
  /\ Here(j).release = expected[j]

\* Which case of the legacy driver installs, and which leaves what is there.
MustInstall(j) == j \in repair \/ Channel(j) \in Rolling \/ ~Available(j)

\* Mutant: what is there is uninstalled first, whether it failed its probe or not.
Reinstalled(j) == [Fresh(j) EXCEPT !.extras = {}]

\* The repair uninstalls the channel before it installs it.
InstalledAnew(j) == IF j \in repair THEN [Fresh(j) EXCEPT !.extras = {}] ELSE Fresh(j)

InstallToolchain(j) ==
  /\ pc[j] = "ensure" /\ ~Dangling(j) /\ MustInstall(j)
  /\ Install(j, InstalledAnew(j))
  /\ Goto(j, "extras")
  /\ UNCHANGED <<shared, repair, strategy, bundle, link, bin, plan, expected>>

UseInstalled(j) ==
  /\ pc[j] = "ensure" /\ ~Dangling(j) /\ j \notin repair /\ Available(j)
  /\ Channel(j) \in Rolling => MaySkipRefresh(j)
  /\ Goto(j, "extras")
  /\ UNCHANGED <<shared, repair, strategy, dir, bundle, link, bin, plan, expected>>

\* addComponents, with its retry after a conflict, and addTargets: both add
\* what is missing and look again before they return.
AddExtras(j) ==
  /\ pc[j] = "extras" /\ ~Dangling(j)
  /\ Here(j) \in Installed
  /\ IF ExtrasOf[want[j]] \subseteq Here(j).extras THEN UNCHANGED dir
     ELSE Install(j, [Here(j) EXCEPT !.extras = @ \cup ExtrasOf[want[j]]])
  /\ Goto(j, "stage")
  /\ UNCHANGED <<shared, repair, strategy, bundle, link, bin, plan, expected>>

\* rustup or the network fails, or the link dangles; run() rejects.
\* Post runs all the same.
MainThrows(j) ==
  /\ pc[j] \in {"adopt", "explicit", "ensure", "extras"}
  /\ Goto(j, "publish")
  /\ UNCHANGED <<shared, repair, strategy, dir, bundle, link, bin, plan, expected>>

-----------------------------------------------------------------------------
(***************************************************************************)
(* publishRustupToolCache and publishEntry                                 *)
(***************************************************************************)
PublishDue(j) == plan[j] = "miss"

\* existsSync, then cp -a into the staging directory beside the entry; main
\* waits for the copy, so the copy is the home as it is at the rename.
StageEntry(j) ==
  /\ pc[j] = "stage"
  /\ Goto(j, IF PublishDue(j) /\ dir[want[j]] = NoEntry THEN "rename" ELSE "fetch")
  /\ UNCHANGED <<shared, repair, strategy, dir, bundle, link, bin, plan, expected>>

\* EEXIST or ENOTEMPTY: the entry another job published stays.
FirstPublisherWins(r, what) == IF dir[r] = NoEntry THEN what ELSE dir[r]

\* cp -a copies a link as a link: a home that an earlier use linked to another
\* entry publishes a link to that entry.
Copied(h) == IF link[h] = NoLink THEN dir[h] ELSE link[h]

\* Bound: an entry that is a link leads to one that is none.
TooLong(r, what) ==
  what \in Requests /\ (what = r \/ dir[what] \in Requests \/ \E s \in Requests : dir[s] = r)

RenameEntry(j) ==
  LET r == want[j]  what == Copied(HomeOf[j]) IN
  /\ pc[j] = "rename" /\ ~TooLong(r, what)
  /\ dir' = [dir EXCEPT ![r] = FirstPublisherWins(r, what)]
  /\ Goto(j, "fetch")
  /\ UNCHANGED <<shared, repair, strategy, bundle, link, bin, plan, expected>>

\* A copy or rename that fails is a warning.
PublishFails(j) ==
  /\ pc[j] = "rename"
  /\ Goto(j, "fetch")
  /\ UNCHANGED <<shared, repair, strategy, dir, bundle, link, bin, plan, expected>>

-----------------------------------------------------------------------------
(***************************************************************************)
(* bundle-tool-cache.ts and soldr's own bundles                            *)
(***************************************************************************)
\* soldr finds a stamped install or extracts one in place, stamp last.
FetchBundles(j) ==
  /\ pc[j] = "fetch"
  /\ \E got \in [Bundles -> {"none", "torn", "dir"}] :
       bin' = [bin EXCEPT ![HomeOf[j]] = [b \in Bundles |->
                 IF @[b] = "link" \/ @[b] = "dir" THEN @[b]
                 ELSE IF got[b] = "none" THEN @[b] ELSE got[b]]]
  /\ Goto(j, "publish")
  /\ UNCHANGED <<shared, repair, strategy, dir, bundle, link, plan, expected>>

\* Mutant: every directory is published, stamped or not.
HasDir(what) == what \in {"torn", "dir"}

IsStampedRealDir(what) == what = "dir"

\* The end of a use: what it knew dies with it.
Ends(j) ==
  /\ Goto(j, "done")
  /\ plan' = [plan EXCEPT ![j] = "none"]
  /\ expected' = [expected EXCEPT ![j] = Unresolved]
  /\ repair' = repair \ {j}

\* publishBundles in post: what is there already stays.
PublishBundles(j) ==
  /\ pc[j] = "publish"
  /\ bundle' = [b \in Bundles |->
                  IF BundlesOn(j) /\ bundle[b] = "none" /\ IsStampedRealDir(bin[HomeOf[j]][b])
                  THEN bin[HomeOf[j]][b] ELSE bundle[b]]
  /\ Ends(j)
  /\ UNCHANGED <<shared, strategy, dir, link, bin>>

\* Copying fails, or the runner is gone.
NoBundlesPublished(j) ==
  /\ pc[j] = "publish"
  /\ Ends(j)
  /\ UNCHANGED <<shared, strategy, dir, bundle, link, bin>>

-----------------------------------------------------------------------------
\* The tool cache is pruned while the host is idle.
AllIdle == \A j \in Jobs : pc[j] \in {"queued", "done"}

Prune ==
  /\ AllIdle
  /\ \/ \E r \in Requests : dir[r] # NoEntry /\ dir' = [dir EXCEPT ![r] = NoEntry] /\ UNCHANGED bundle
     \/ \E b \in Bundles : bundle[b] # "none" /\ bundle' = [bundle EXCEPT ![b] = "none"] /\ UNCHANGED dir
  /\ UNCHANGED <<shared, repair, strategy, link, bin, pc, plan, expected>>

NewRelease ==
  /\ latest + 1 \in Releases
  /\ latest' = latest + 1
  /\ UNCHANGED <<host, want, solo, repair, dir, bundle, strategy, link, bin, pc, plan, expected>>

JobStep(j) ==
  \/ Begin(j) \/ Adopt(j) \/ RestoreSolo(j) \/ SoloMiss(j)
  \/ DelegateToSoldr(j) \/ InstallToolchain(j)
  \/ UseInstalled(j) \/ AddExtras(j) \/ MainThrows(j)
  \/ StageEntry(j) \/ RenameEntry(j) \/ PublishFails(j)
  \/ FetchBundles(j) \/ PublishBundles(j) \/ NoBundlesPublished(j)

Done == (\A j \in Jobs : pc[j] = "done") /\ UNCHANGED vars

Next == (\E j \in Jobs : JobStep(j)) \/ Prune \/ NewRelease \/ Done

Spec == Init /\ [][Next]_vars
-----------------------------------------------------------------------------
(***************************************************************************)
(* Properties                                                              *)
(***************************************************************************)
\* The toolchain rustup sees is undamaged and has the components and targets
\* the use asked for.
Has(j) == Sees(j) \in Trees /\ Here(j) \in Installed /\ ExtrasOf[want[j]] \subseteq Here(j).extras

\* When the toolchain phase of main returns, the toolchain is what the use
\* asked for, whatever other uses did to the directory meanwhile; and the
\* legacy driver goes on from a rolling channel no older than the release the
\* use resolved, however stale the restored one is (ensureRustToolchain).
ToolchainIsAsked ==
  [][\A j \in Jobs :
       /\ pc[j] \in {"adopt", "explicit", "ensure", "extras"} /\ pc'[j] \in {"stage", "fetch"} => Has(j)'
       /\ pc[j] = "ensure" /\ pc'[j] = "extras" /\ Channel(j) \in Rolling /\ expected[j] # Unresolved
            => (Here(j)').release >= expected[j]]_vars

\* A use whose toolchain phase has returned and whose post step has not begun.
Building(j) == pc[j] \in {"stage", "rename", "fetch"}

\* While a job builds, its toolchain is not taken from it by the jobs beside
\* it, though they publish, refresh, complete and link in the same store, some
\* through links an earlier use left: only the solo cache's restore and repair
\* through such a link do (adoptRustupStore, ensureRustToolchain).
ToolchainStays ==
  [][\A j \in Jobs : Building(j) /\ Building(j)' /\ Has(j) =>
       \/ Has(j)'
       \/ \E i \in solo \ {j} : /\ Root(HomeOf[i]) = Root(HomeOf[j])
                                /\ pc[i] \in {"adopt", "explicit", "ensure"} /\ pc'[i] # pc[i]]_vars

\* Every bundle of the store is stamped, and a job that adopted from the store
\* has no link into it that dangles, though the store was pruned since an
\* earlier job of the same home.
BundlesUsable ==
  /\ \A b \in Bundles : bundle[b] # "torn"
  /\ \A j \in Jobs, b \in Bundles :
       BundlesOn(j) /\ pc[j] \in {"ensure", "extras", "stage", "rename", "fetch"} /\ bin[HomeOf[j]][b] = "link"
         => bundle[b] = "dir"
=============================================================================
