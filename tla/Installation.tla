---------------------------- MODULE Installation ----------------------------
(***************************************************************************)
(* How a job gets the soldr it asked for.  ensure-soldr.ts reuses, fetches *)
(* or builds a binary in <cache-dir>/bin; soldr-mini-cache.ts fills that   *)
(* directory from the Actions cache before and packs it in the post step.  *)
(* The directory outlives the job on a persistent machine (cache-dir on a  *)
(* self-hosted runner, or a second use of the action in the same job), so  *)
(* what an earlier, differently configured, install left in it matters.    *)
(*                                                                         *)
(* A directory is the binary, the release each sidecar came from, and the  *)
(* two metadata files by which a later install recognises the binary.      *)
(*                                                                         *)
(* since and handedOn are history variables: no action reads them.  They   *)
(* say what happened to a directory after an install was last recorded in  *)
(* it, and which mini-cache entries were packed in a kept directory; the   *)
(* properties name with them the cases in which the code gets it wrong.    *)
(***************************************************************************)
EXTENDS Naturals, FiniteSets

CONSTANTS
  Jobs,           \* uses of the action, each with one request
  Machines,       \* install directories
  MachineOf,      \* the machine a job runs on
  Persistent,     \* machines whose directory outlives the job
  MiniUsers,      \* jobs that leave soldr-mini-cache on
  Wants,          \* the requests a job may make
  Releases,       \* published versions
  Number,         \* 0.x.y as 1000x + y, in the order of versionAtLeast
  Archived,       \* releases with an archive for this target
  Wheeled,        \* releases of the official repository with a PyPI wheel
  Ships,          \* the sidecars the archive of a release holds
  ChefKnown,      \* keys of CARGO_CHEF_VERSION_BY_SOLDR
  Sources,        \* what soldr is built from: refs, and the checkout of source-path
  Commits,        \* commits a source has been at
  ReportedBy,     \* the version a build of a commit reports
  Off,            \* the request of a use with enable: false
  Absent, NoEntry, Stub

Sidecars == {"zccache", "daemon", "shim", "chef", "clang"}
Requests == Releases \cup Sources \cup {Off}
Binaries == Releases \cup Commits \cup {Stub}
Installs == {"github-release", "pypi-wheel"} \X Releases

ASSUME PlacesType   == MachineOf \in [Jobs -> Machines] /\ Persistent \subseteq Machines
ASSUME WantsType    == MiniUsers \subseteq Jobs /\ Wants \in [Jobs -> SUBSET Requests]
ASSUME NumberType   == Number \in [Releases -> Nat]
ASSUME ReleasesType == Archived \cup Wheeled \cup ChefKnown \subseteq Releases
ASSUME ShipsType    == Ships \in [Releases -> SUBSET Sidecars]
ASSUME ReportsType  == ReportedBy \in [Commits -> Releases]
ASSUME AbsentFresh  == Absent \notin Binaries \cup Installs \cup (Sources \X Commits)
ASSUME KindsApart   == /\ Releases \cap (Commits \cup {Stub}) = {} /\ Stub \notin Commits
                       /\ Sources \cap Releases = {} /\ Off \notin Releases \cup Sources

Dirs == [binary   : Binaries \cup {Absent},
         sidecars : [Sidecars -> Releases \cup {Absent}],
         source   : (Sources \X Commits) \cup {Absent},   \* .setup-soldr-source.json
         install  : Installs \cup {Absent}]               \* .setup-soldr-install.json

NoSidecars == [s \in Sidecars |-> Absent]
EmptyDir   == [binary |-> Absent, sidecars |-> NoSidecars, source |-> Absent, install |-> Absent]

ASSUME NoEntryFresh == NoEntry \notin Dirs

VARIABLES
  bin,      \* the install directory of each machine
  mini,     \* the mini-cache entry of each release
  head,     \* the commit each source is at
  pc, want, \* of each job: where it is, and its request
  commit,   \* the commit resolveRefCommitSha, or resolveLocalSourceIdentity, answered
  asset,    \* the install source selected
  miniHit,  \* soldrMiniHit
  since,    \* history: what was done to a directory since an install was recorded in it
  handedOn  \* history: releases whose entry was ever packed in a kept directory

vars == <<bin, mini, head, pc, want, commit, asset, miniHit, since, handedOn>>

PCs == {"queued", "mini", "ensure", "replace", "payload", "record", "verify", "post", "done"}

TypeOK ==
  /\ bin \in [Machines -> Dirs]
  /\ mini \in [Releases -> Dirs \cup {NoEntry}]
  /\ head \in [Sources -> Commits]
  /\ pc \in [Jobs -> PCs]
  /\ want \in [Jobs -> Requests]
  /\ commit \in [Jobs -> Commits \cup {Absent}]
  /\ asset \in [Jobs -> {"none", "github-release", "pypi-wheel", "source"}]
  /\ miniHit \in [Jobs -> BOOLEAN]
  /\ since \in [Machines -> SUBSET {"stub", "mini", "half"}]
  /\ handedOn \subseteq Releases

Init ==
  /\ bin = [m \in Machines |-> EmptyDir]
  /\ mini = [v \in Releases |-> NoEntry]
  /\ head \in [Sources -> Commits]
  /\ pc = [j \in Jobs |-> "queued"]
  /\ want \in [Jobs -> Requests]
  /\ \A j \in Jobs : want[j] \in Wants[j]
  /\ commit = [j \in Jobs |-> Absent]
  /\ asset = [j \in Jobs |-> "none"]
  /\ miniHit = [j \in Jobs |-> FALSE]
  /\ since = [m \in Machines |-> {}]
  /\ handedOn = {}

-----------------------------------------------------------------------------
(***************************************************************************)
(* ensure-soldr.ts: what a directory holds                                 *)
(***************************************************************************)
Dir(j)          == bin[MachineOf[j]]
PutDir(j, d)    == bin' = [bin EXCEPT ![MachineOf[j]] = d]
Goto(j, p)      == pc' = [pc EXCEPT ![j] = p]
ForRelease(j)   == want[j] \in Releases
FromSource(j)   == want[j] \in Sources
Mark(j, what)   == since' = [since EXCEPT ![MachineOf[j]] = @ \cup {what}]
Unmark(j)       == since' = [since EXCEPT ![MachineOf[j]] = {}]

\* installedVersion: the stub's answer parses too; no binary is null.
InstalledVersion(d) ==
  IF d.binary \in Commits THEN ReportedBy[d.binary] ELSE d.binary

\* The sidecars next to the binary without which a release cannot run.
RuntimePayload(v) ==
  IF Number[v] >= 8001 THEN {"daemon"} ELSE IF Number[v] >= 7103 THEN {"daemon", "shim"} ELSE {"zccache"}

RequiredPayload(v, chefToo) ==
  RuntimePayload(v)
    \cup (IF Number[v] >= 7043 /\ chefToo THEN {"chef"} ELSE {})
    \cup (IF Number[v] >= 7066 /\ Number[v] < 8001 THEN {"clang"} ELSE {})

\* What the published releases hold: an archive all that a run needs; and only
\* 0.9.x, where the daemon and cargo-chef are all, comes as a wheel.
ASSUME ArchivesWhole   == \A v \in Archived : RequiredPayload(v, TRUE) \subseteq Ships[v]
ASSUME WheelsMulticall == \A v \in Wheeled \cap ChefKnown : Number[v] >= 8001

HasRequiredReleasePayload(d, v, chefToo) ==
  \A s \in RequiredPayload(v, chefToo) : d.sidecars[s] # Absent

IsWheelInstall(d, v) == d.install = <<"pypi-wheel", v>>

\* Mutant: the version alone decides.
SameVersion(d, v) == InstalledVersion(d) = v

\* installedSoldrReleaseIsUsable, and the reuse test of ensureSoldr.
ReleaseIsUsable(d, v) ==
  /\ InstalledVersion(d) = v
  /\ HasRequiredReleasePayload(d, v, ~IsWheelInstall(d, v) \/ v \in ChefKnown)

\* Mutant: the metadata's ref is compared and its commit is not.
SourceRefMatches(d, s, c) == (\E x \in Commits : d.source = <<s, x>>) /\ d.binary # Absent

SourceInstallMatches(d, s, c) == d.source = <<s, c>> /\ d.binary # Absent

\* Mutant: a source build leaves the payload of the release before it.
KeepReleasePayload(d) == d

ClearBundledReleasePayload(d) == [d EXCEPT !.sidecars = NoSidecars]

-----------------------------------------------------------------------------
(***************************************************************************)
(* main.ts: installSoldr                                                   *)
(***************************************************************************)
\* Jobs of one machine run one after the other.
Idle(m) == \A i \in Jobs : MachineOf[i] = m => pc[i] \in {"queued", "done"}

\* isEligibleForMiniCache: not for a stub, not for a ref; a source-path is
\* given the ref "local-source".
MiniEligible(j) == j \in MiniUsers /\ ForRelease(j)

Begin(j) ==
  /\ pc[j] = "queued" /\ Idle(MachineOf[j])
  /\ Goto(j, IF MiniEligible(j) THEN "mini" ELSE "ensure")
  /\ IF MachineOf[j] \in Persistent THEN UNCHANGED <<bin, since>>
     ELSE PutDir(j, EmptyDir) /\ Unmark(j)
  /\ UNCHANGED <<mini, head, want, commit, asset, miniHit, handedOn>>

\* No entry, an archive that is missing, empty or of no known codec, or a
\* service that throws.
MiniMiss(j) ==
  /\ pc[j] = "mini"
  /\ Goto(j, "ensure")
  /\ UNCHANGED <<bin, mini, head, want, commit, asset, miniHit, since, handedOn>>

\* Extraction writes over what is there and removes nothing.
Overlay(d, e) ==
  [binary   |-> IF e.binary = Absent THEN d.binary ELSE e.binary,
   sidecars |-> [s \in Sidecars |-> IF e.sidecars[s] = Absent THEN d.sidecars[s] ELSE e.sidecars[s]],
   source   |-> IF e.source = Absent THEN d.source ELSE e.source,
   install  |-> IF e.install = Absent THEN d.install ELSE e.install]

\* restoreMiniCache: extract, then probe the binary and its payload.
RestoreMini(j) ==
  /\ pc[j] = "mini" /\ mini[want[j]] # NoEntry
  /\ Goto(j, "ensure")
  /\ LET d == Overlay(Dir(j), mini[want[j]]) IN
     /\ PutDir(j, d)
     /\ miniHit' = [miniHit EXCEPT ![j] = ReleaseIsUsable(d, want[j])]
  /\ Mark(j, "mini")
  /\ UNCHANGED <<mini, head, want, commit, asset, handedOn>>

\* decompressCache throws with the binary already out: a miss.
MiniExtractFails(j) ==
  /\ pc[j] = "mini" /\ mini[want[j]] # NoEntry
  /\ Goto(j, "ensure")
  /\ PutDir(j, [Dir(j) EXCEPT !.binary = Overlay(Dir(j), mini[want[j]]).binary])
  /\ Mark(j, "mini")
  /\ UNCHANGED <<mini, head, want, commit, asset, miniHit, handedOn>>

-----------------------------------------------------------------------------
(***************************************************************************)
(* ensure-soldr.ts: ensureSoldr; install-passthrough.ts                    *)
(***************************************************************************)
ReuseRelease(j) ==
  /\ pc[j] = "ensure" /\ ForRelease(j)
  /\ ReleaseIsUsable(Dir(j), want[j])
  /\ Goto(j, "verify")
  /\ UNCHANGED <<bin, mini, head, want, commit, asset, miniHit, since, handedOn>>

\* Mutant: the extension of the asset is recorded for its source.
ExtensionOf(v) ==
  IF v \in Archived THEN "tar.zst" ELSE IF v \in Wheeled \cap ChefKnown THEN "whl" ELSE "none"

\* selectReleaseAsset; else, for a known official release, selectPypiWheel.
AssetOf(v) ==
  IF v \in Archived THEN "github-release"
  ELSE IF v \in Wheeled \cap ChefKnown THEN "pypi-wheel" ELSE "none"

\* Fetched (three attempts), downloaded, digest verified and extracted.
FetchRelease(j) ==
  /\ pc[j] = "ensure" /\ ForRelease(j)
  /\ ~ReleaseIsUsable(Dir(j), want[j])
  /\ AssetOf(want[j]) # "none"
  /\ asset' = [asset EXCEPT ![j] = AssetOf(want[j])]
  /\ Goto(j, "replace")
  /\ UNCHANGED <<bin, mini, head, want, commit, miniHit, since, handedOn>>

\* The commit is resolved, and a build of it is already in place.
ReuseSource(j) ==
  /\ pc[j] = "ensure" /\ FromSource(j)
  /\ SourceInstallMatches(Dir(j), want[j], head[want[j]])
  /\ commit' = [commit EXCEPT ![j] = head[want[j]]]
  /\ PutDir(j, ClearBundledReleasePayload(Dir(j)))
  /\ Goto(j, "verify")
  /\ UNCHANGED <<mini, head, want, asset, miniHit, since, handedOn>>

\* buildFromSource or buildFromLocalSource, up to a built binary in its target
\* directory.  A checkout is taken to hold what its HEAD names.
BuildSource(j) ==
  /\ pc[j] = "ensure" /\ FromSource(j)
  /\ ~SourceInstallMatches(Dir(j), want[j], head[want[j]])
  /\ commit' = [commit EXCEPT ![j] = head[want[j]]]
  /\ asset' = [asset EXCEPT ![j] = "source"]
  /\ Goto(j, "replace")
  /\ UNCHANGED <<bin, mini, head, want, miniHit, since, handedOn>>

InstallPassthrough(j) ==
  /\ pc[j] = "ensure" /\ want[j] = Off
  /\ PutDir(j, [Dir(j) EXCEPT !.binary = Stub])
  /\ Mark(j, "stub")
  /\ Goto(j, "verify")
  /\ UNCHANGED <<mini, head, want, commit, asset, miniHit, handedOn>>

ReplaceBinary(j) ==
  /\ pc[j] = "replace"
  /\ PutDir(j, [ClearBundledReleasePayload(Dir(j)) EXCEPT !.binary =
                  IF asset[j] = "source" THEN commit[j] ELSE want[j]])
  /\ Mark(j, "half")
  /\ Goto(j, IF asset[j] = "source" THEN "record" ELSE "payload")
  /\ UNCHANGED <<mini, head, want, commit, asset, miniHit, handedOn>>

\* copyBundledReleasePayload; for a wheel, ensureMulticallRuntimeAlias and
\* installCargoChefSupport.
PayloadOf(v, a) ==
  IF a = "github-release" THEN Ships[v]
  ELSE {"daemon"} \cup (IF v \in ChefKnown THEN {"chef"} ELSE {})

CopyPayload(j) ==
  /\ pc[j] = "payload"
  /\ PutDir(j, [Dir(j) EXCEPT !.sidecars =
                  [s \in Sidecars |-> IF s \in PayloadOf(want[j], asset[j])
                                      THEN want[j] ELSE @[s]]])
  /\ Goto(j, "record")
  /\ UNCHANGED <<mini, head, want, commit, asset, miniHit, since, handedOn>>

\* Only a wheel is probed before it is recorded.
WheelIncomplete(j) ==
  /\ asset[j] = "pypi-wheel"
  /\ ~HasRequiredReleasePayload(Dir(j), want[j], TRUE)

RecordInstall(j) ==
  /\ pc[j] = "record" /\ ~WheelIncomplete(j)
  /\ PutDir(j, IF asset[j] = "source"
               THEN [Dir(j) EXCEPT !.source = <<want[j], commit[j]>>, !.install = Absent]
               ELSE [Dir(j) EXCEPT !.source = Absent, !.install = <<asset[j], want[j]>>])
  /\ Unmark(j)
  /\ Goto(j, "verify")
  /\ UNCHANGED <<mini, head, want, commit, asset, miniHit, handedOn>>

\* The post step runs in a process of its own.
MainEnds(j) ==
  /\ Goto(j, "post")
  /\ commit' = [commit EXCEPT ![j] = Absent]
  /\ asset' = [asset EXCEPT ![j] = "none"]
  /\ UNCHANGED <<bin, mini, head, want, miniHit, since, handedOn>>

\* run() rejects: no such release or asset, a download, digest or build that
\* fails; or, with the directory already in pieces, a full disk, no cargo-chef,
\* a wheel that does not run.
MainThrows(j) ==
  /\ pc[j] \in {"mini", "ensure", "replace", "payload", "record", "verify"}
  /\ MainEnds(j)

\* verifySoldr: any binary that answers `version --json`, the stub included.
VerifySoldr(j) ==
  /\ pc[j] = "verify"
  /\ MainEnds(j)

-----------------------------------------------------------------------------
(***************************************************************************)
(* post.ts: saveMiniCache, on a miss, whatever main came to                *)
(***************************************************************************)
SaveMini(j) ==
  /\ pc[j] = "post" /\ MiniEligible(j) /\ ~miniHit[j]
  /\ Dir(j) # EmptyDir /\ mini[want[j]] = NoEntry
  /\ mini' = [mini EXCEPT ![want[j]] = Dir(j)]
  /\ handedOn' = IF MachineOf[j] \in Persistent THEN handedOn \cup {want[j]} ELSE handedOn
  /\ Goto(j, "done")
  /\ UNCHANGED <<bin, head, want, commit, asset, miniHit, since>>

\* A hit, no key, an empty directory, the save policy, a lost reservation,
\* an archive that fails; or the runner is gone.
NoMiniSave(j) ==
  /\ pc[j] = "post"
  /\ Goto(j, "done")
  /\ UNCHANGED <<bin, mini, head, want, commit, asset, miniHit, since, handedOn>>

\* The branch behind a ref, or the checkout, moves.
MoveHead(s, c) ==
  /\ head[s] # c
  /\ head' = [head EXCEPT ![s] = c]
  /\ UNCHANGED <<bin, mini, pc, want, commit, asset, miniHit, since, handedOn>>

EvictMini(v) ==
  /\ mini[v] # NoEntry
  /\ mini' = [mini EXCEPT ![v] = NoEntry]
  /\ UNCHANGED <<bin, head, pc, want, commit, asset, miniHit, since, handedOn>>

JobStep(j) ==
  \/ Begin(j) \/ MiniMiss(j) \/ RestoreMini(j) \/ MiniExtractFails(j)
  \/ ReuseRelease(j) \/ FetchRelease(j) \/ ReuseSource(j) \/ BuildSource(j)
  \/ InstallPassthrough(j) \/ ReplaceBinary(j) \/ CopyPayload(j)
  \/ RecordInstall(j) \/ MainThrows(j) \/ VerifySoldr(j)
  \/ SaveMini(j) \/ NoMiniSave(j)

Done == (\A j \in Jobs : pc[j] = "done") /\ UNCHANGED vars

Next ==
  \/ \E j \in Jobs : JobStep(j)
  \/ \E s \in Sources, c \in Commits : MoveHead(s, c)
  \/ \E v \in Releases : EvictMini(v)
  \/ Done

Spec == Init /\ [][Next]_vars
-----------------------------------------------------------------------------
(***************************************************************************)
(* Properties                                                              *)
(***************************************************************************)
Asked(j) ==
  IF FromSource(j) THEN commit[j] ELSE IF want[j] = Off THEN Stub ELSE want[j]

\* What a reuse may mistake for the answer.  A release: a source build that
\* reports its number and lies beside the sidecars of a release; a kept
\* directory packed it into the mini-cache (a job whose install threw packs
\* what it found) and the entry was extracted here.  A source: whatever a stub,
\* an extraction or half an install has put beside a .setup-soldr-source.json
\* that none of them removes.
Mistaken(j) ==
  LET m == MachineOf[j] IN
  \/ /\ ForRelease(j) /\ handedOn # {} /\ "mini" \in since[m]
     /\ Dir(j).binary \in Commits /\ ReportedBy[Dir(j).binary] = want[j]
  \/ /\ FromSource(j) /\ m \in Persistent /\ since[m] # {}
     /\ Dir(j).source = <<want[j], commit[j]>>

\* When ensureSoldr has returned, the binary is the release, the build of the
\* resolved commit or the stub the job asked for, whatever earlier jobs left in
\* its directory: a source build is not taken for the release whose number it
\* reports, nor a build of an older commit or another source for this one.  The
\* exceptions are those of Mistaken and no others.
RunsWhatWasAsked ==
  \A j \in Jobs : pc[j] = "verify" => Dir(j).binary = Asked(j) \/ Mistaken(j)

\* A release is complete once ensureSoldr has returned, and all of it comes from
\* that release: in a kept directory where stubs were put and installs failed
\* half way, unless a mini-cache entry was extracted over it and no install has
\* been recorded there since; and after such an extraction on a runner whose
\* directory dies with the job, though the entry may be half an install, unless
\* it was packed in a kept directory.
ReleaseIsWhole ==
  \A j \in Jobs :
    /\ pc[j] = "verify" /\ ForRelease(j)
    /\ \/ "mini" \notin since[MachineOf[j]]
       \/ MachineOf[j] \notin Persistent /\ want[j] \notin handedOn
    => \A s \in RequiredPayload(want[j], TRUE) : Dir(j).sidecars[s] = want[j]
=============================================================================
