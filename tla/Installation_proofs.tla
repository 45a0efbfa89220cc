------------------------ MODULE Installation_proofs ------------------------
(***************************************************************************)
(* Proofs about Installation: a job runs the soldr it asked for, and its   *)
(* release is whole, but for the cases that Mistaken and ReleaseIsWhole    *)
(* name; whatever shares the directory and whichever installs fail.        *)
(*                                                                         *)
(* Neither is inductive.  What a job finds is what others left, so Core    *)
(* says what they leave: a directory is DirOk for what was done to it      *)
(* since its last recorded install, a mini-cache entry is EntryOk (nothing *)
(* in it is of another release, unless a kept directory packed it), a job  *)
(* is alone in its directory while it runs, and what it has done so far is *)
(* StepOk.                                                                 *)
(***************************************************************************)
EXTENDS Installation, TLAPS

Busy(j) == pc[j] \notin {"queued", "done"}
Mid(j)  == pc[j] \in {"payload", "record"}
OnFresh(j) == MachineOf[j] \notin Persistent

OneAtATime ==
  \A i, j \in Jobs : i # j /\ MachineOf[i] = MachineOf[j] /\ Busy(i) => ~Busy(j)

\* What a directory may hold: a build without sidecars; and with a release only
\* sidecars of its own; source metadata that describes the binary; a wheel of a
\* release that comes as one.
Bare(d) == d.binary \in Commits => d.sidecars = NoSidecars

Unmixed(d) ==
  Bare(d) /\ (d.binary \in Releases => \A s \in Sidecars : d.sidecars[s] \in {d.binary, Absent})

Sound(d) == d.source # Absent => d.binary = d.source[2]

WheelKnown(d) == \A v \in Releases : IsWheelInstall(d, v) => v \in ChefKnown

OfRelease(d, v) ==
  d = EmptyDir \/ (d.binary = v /\ d.source = Absent /\ \A s \in Sidecars : d.sidecars[s] \in {v, Absent})

Complete(d, v) == \A s \in RequiredPayload(v, TRUE) : d.sidecars[s] = v

DirOk(d, marks) ==
  /\ WheelKnown(d)
  /\ "mini" \notin marks => Unmixed(d)
  /\ handedOn = {} => Bare(d)
  /\ marks = {} => Sound(d)

DirsOk == \A m \in Machines : DirOk(bin[m], since[m])

EntryOk(e, v) == WheelKnown(e) /\ (v \notin handedOn => OfRelease(e, v) /\ e # EmptyDir)

MiniOk == \A v \in Releases : mini[v] # NoEntry => EntryOk(mini[v], v)

Selected(j) ==
  \/ FromSource(j) /\ asset[j] = "source" /\ commit[j] \in Commits
  \/ ForRelease(j) /\ asset[j] = AssetOf(want[j]) /\ asset[j] # "none"

\* What keeps the types: who may use the mini-cache, and what is installed.
Asks(j) ==
  /\ pc[j] = "mini" => MiniEligible(j)
  /\ pc[j] \in {"replace", "payload", "record"} => Selected(j)
  /\ pc[j] = "payload" => ForRelease(j)

TypeInv == TypeOK /\ \A j \in Jobs : Asks(j)

FreshOk(j) ==
  OnFresh(j) /\ Busy(j) =>
    /\ ForRelease(j) /\ want[j] \notin handedOn => OfRelease(Dir(j), want[j])
    /\ pc[j] = "ensure" /\ FromSource(j) => Dir(j).source = Absent

\* No extraction has been here since an install was recorded, or it was one of
\* an entry that no kept directory packed.
Clean(j) ==
  "mini" \notin since[MachineOf[j]] \/ (OnFresh(j) /\ want[j] \notin handedOn)

StepOk(j) ==
  /\ Mid(j) => Dir(j).binary = Asked(j) /\ Unmixed(Dir(j))
  /\ pc[j] = "record" /\ ForRelease(j) => Complete(Dir(j), want[j])
  /\ pc[j] = "verify" => Dir(j).binary = Asked(j) \/ Mistaken(j)
  /\ pc[j] = "verify" /\ ForRelease(j) /\ Clean(j) => Complete(Dir(j), want[j])

JobOk(j) == FreshOk(j) /\ StepOk(j)

Core == OneAtATime /\ MiniOk /\ DirsOk /\ \A j \in Jobs : JobOk(j)

-----------------------------------------------------------------------------
(***************************************************************************)
(* Types                                                                   *)
(***************************************************************************)
LEMMA DirType == ASSUME TypeOK, NEW j \in Jobs PROVE Dir(j) \in Dirs
  BY PlacesType DEF TypeOK, Dir

LEMMA EmptyType == EmptyDir \in Dirs
  BY DEF EmptyDir, Dirs, NoSidecars

LEMMA PutType ==
  ASSUME TypeOK, NEW j \in Jobs, NEW d \in Dirs, PutDir(j, d)
  PROVE  bin' \in [Machines -> Dirs] /\ Dir(j)' = d
  BY PlacesType DEF TypeOK, Dir, PutDir

MarkSets == SUBSET {"stub", "mini", "half"}

LEMMA MarkType ==
  ASSUME TypeOK, NEW j \in Jobs, NEW t \in MarkSets, since' = [since EXCEPT ![MachineOf[j]] = t]
  PROVE  /\ since' \in [Machines -> MarkSets]
         /\ since'[MachineOf[j]] = t
         /\ \A m \in Machines \ {MachineOf[j]} : since'[m] = since[m]
  BY PlacesType DEF TypeOK, MarkSets

LEMMA Marked ==
  ASSUME TypeOK, NEW j \in Jobs, NEW w \in {"stub", "mini", "half"}
  PROVE  /\ since[MachineOf[j]] \cup {w} \in MarkSets
         /\ Mark(j, w) => since' = [since EXCEPT ![MachineOf[j]] = since[MachineOf[j]] \cup {w}]
  BY PlacesType DEF TypeOK, MarkSets, Mark

LEMMA OverlayType ==
  ASSUME NEW d \in Dirs, NEW e \in Dirs PROVE Overlay(d, e) \in Dirs
<1>1. /\ d.binary \in Binaries \cup {Absent} /\ e.binary \in Binaries \cup {Absent}
      /\ d.source \in (Sources \X Commits) \cup {Absent}
      /\ e.source \in (Sources \X Commits) \cup {Absent}
      /\ d.install \in Installs \cup {Absent} /\ e.install \in Installs \cup {Absent}
  BY DEF Dirs
<1>2. d.sidecars \in [Sidecars -> Releases \cup {Absent}] /\ e.sidecars \in [Sidecars -> Releases \cup {Absent}]
  BY DEF Dirs
<1>3. [s \in Sidecars |-> IF e.sidecars[s] = Absent THEN d.sidecars[s] ELSE e.sidecars[s]]
        \in [Sidecars -> Releases \cup {Absent}]
  BY <1>2
<1>4. QED BY <1>1, <1>3 DEF Overlay, Dirs

LEMMA AssetType ==
  ASSUME NEW v \in Releases, AssetOf(v) # "none"
  PROVE  /\ AssetOf(v) \in {"github-release", "pypi-wheel"}
         /\ AssetOf(v) = "github-release" => v \in Archived
         /\ AssetOf(v) = "pypi-wheel" => v \in Wheeled \cap ChefKnown
  BY DEF AssetOf

LEMMA TypeInit == Init => TypeInv
  BY EmptyType, WantsType DEF Init, TypeOK, PCs, TypeInv, Asks

\* A step of one job leaves what the others ask for alone.
LEMMA AsksOfOthers ==
  ASSUME TypeInv, NEW j \in Jobs, NEW p \in PCs, Goto(j, p), want' = want,
         \A k \in Jobs \ {j} : asset'[k] = asset[k] /\ commit'[k] = commit[k],
         Asks(j)'
  PROVE  \A k \in Jobs : Asks(k)'
<1> SUFFICES ASSUME NEW k \in Jobs PROVE Asks(k)' OBVIOUS
<1>1. CASE k = j BY <1>1
<1>2. CASE k # j
  <2>1. pc'[k] = pc[k] /\ want'[k] = want[k] /\ asset'[k] = asset[k] /\ commit'[k] = commit[k]
    BY <1>2 DEF TypeInv, TypeOK, Goto
  <2>2. QED BY <2>1 DEF TypeInv, Asks, Selected, ForRelease, FromSource, MiniEligible
<1>3. QED BY <1>1, <1>2

LEMMA TypeStep == TypeInv /\ [Next]_vars => TypeInv'
<1> SUFFICES ASSUME TypeInv, [Next]_vars PROVE TypeInv' OBVIOUS
<1> USE DEF ForRelease, FromSource
<1>t. TypeOK BY DEF TypeInv
<1>a. CASE UNCHANGED vars
  BY <1>a DEF TypeInv, TypeOK, vars, Asks, Selected, MiniEligible
<1>b. ASSUME NEW s \in Sources, NEW c \in Commits, MoveHead(s, c) PROVE TypeInv'
  BY <1>b DEF TypeInv, TypeOK, MoveHead, Asks, Selected, MiniEligible
<1>c. ASSUME NEW v \in Releases, EvictMini(v) PROVE TypeInv'
  BY <1>c DEF TypeInv, TypeOK, EvictMini, Asks, Selected, MiniEligible
<1>d. ASSUME NEW j \in Jobs, JobStep(j) PROVE TypeInv'
  <2> DEFINE d == Dir(j)
  <2>0. d \in Dirs BY <1>t, DirType
  <2>p. ASSUME NEW x \in Dirs, PutDir(j, x) PROVE bin' \in [Machines -> Dirs] BY <1>t, <2>p, PutType
  <2>f. /\ d.binary \in Binaries \cup {Absent}
        /\ d.sidecars \in [Sidecars -> Releases \cup {Absent}]
        /\ d.source \in (Sources \X Commits) \cup {Absent}
        /\ d.install \in Installs \cup {Absent}
    BY <2>0 DEF Dirs
  <2>x. ASSUME NEW b \in Binaries \cup {Absent} PROVE [d EXCEPT !.binary = b] \in Dirs
    BY <2>0, <2>x DEF Dirs
  <2>c. ClearBundledReleasePayload(d) \in Dirs
    BY <2>0 DEF Dirs, ClearBundledReleasePayload, NoSidecars
  <2>w. ASSUME NEW w \in {"stub", "mini", "half"}, Mark(j, w)
        PROVE  since' \in [Machines -> SUBSET {"stub", "mini", "half"}]
    <3>1. /\ since[MachineOf[j]] \cup {w} \in MarkSets
          /\ since' = [since EXCEPT ![MachineOf[j]] = since[MachineOf[j]] \cup {w}]
      BY <1>t, <2>w, Marked
    <3>2. since' \in [Machines -> MarkSets] BY <1>t, <3>1, MarkType
    <3>3. QED BY <3>2 DEF MarkSets
  <2>u. Unmark(j) => since' \in [Machines -> SUBSET {"stub", "mini", "half"}]
    BY <1>t, MarkType DEF Unmark, MarkSets
  <2>m. want[j] \in Releases /\ mini[want[j]] # NoEntry => mini[want[j]] \in Dirs
    BY <1>t DEF TypeOK
  <2>j. Asks(j) BY DEF TypeInv
  <2> HIDE DEF d
  <2>q. ASSUME NEW p \in PCs, Goto(j, p), TypeOK', want' = want, asset' = asset, commit' = commit,
               p \in {"ensure", "verify", "post", "done", pc[j]} \/ Asks(j)'
        PROVE  TypeInv'
    <3>1. Asks(j)'
      BY <1>t, <2>j, <2>q DEF Asks, Selected, Goto, TypeOK, MiniEligible
    <3>2. QED BY <3>1, <2>q, AsksOfOthers DEF TypeInv
  <2>1. CASE Begin(j)
    <3> DEFINE p == IF MiniEligible(j) THEN "mini" ELSE "ensure"
    <3>1. p \in PCs /\ Goto(j, p) BY <2>1 DEF Begin, PCs
    <3>2. TypeOK' BY <1>t, <2>1, <2>p, <2>u, EmptyType DEF Begin, Goto, TypeOK, PCs
    <3>3. Asks(j)' BY <1>t, <2>1, <2>j DEF Begin, Goto, TypeOK, Asks, MiniEligible
    <3>4. QED BY <2>1, <3>1, <3>2, <3>3, <2>q DEF Begin
  <2>2. CASE MiniMiss(j)
    <3>1. TypeOK' BY <1>t, <2>2 DEF MiniMiss, Goto, TypeOK, PCs
    <3>2. QED BY <2>2, <3>1, <2>q DEF MiniMiss, PCs
  <2>3. CASE RestoreMini(j)
    <3>1. Overlay(d, mini[want[j]]) \in Dirs
      BY <2>3, <2>0, <2>m, <2>j, OverlayType DEF RestoreMini, Asks, MiniEligible
    <3>2. bin' \in [Machines -> Dirs] BY <2>3, <3>1, <2>p DEF RestoreMini, d
    <3>3. ReleaseIsUsable(Overlay(d, mini[want[j]]), want[j]) \in BOOLEAN BY DEF ReleaseIsUsable
    <3>4. miniHit' \in [Jobs -> BOOLEAN] BY <1>t, <2>3, <3>3 DEF RestoreMini, TypeOK, d
    <3>5. TypeOK' BY <1>t, <2>3, <2>w, <3>2, <3>4 DEF RestoreMini, Goto, TypeOK, PCs
    <3>6. QED BY <2>3, <3>5, <2>q DEF RestoreMini, PCs
  <2>4. CASE MiniExtractFails(j)
    <3>1. Overlay(d, mini[want[j]]) \in Dirs
      BY <2>4, <2>0, <2>m, <2>j, OverlayType DEF MiniExtractFails, Asks, MiniEligible
    <3>2. [d EXCEPT !.binary = Overlay(d, mini[want[j]]).binary] \in Dirs
      BY <3>1, <2>x DEF Dirs
    <3>3. bin' \in [Machines -> Dirs] BY <2>4, <3>2, <2>p DEF MiniExtractFails, d
    <3>4. TypeOK' BY <1>t, <2>4, <2>w, <3>3 DEF MiniExtractFails, Goto, TypeOK, PCs
    <3>5. QED BY <2>4, <3>4, <2>q DEF MiniExtractFails, PCs
  <2>5. CASE ReuseRelease(j)
    <3>1. TypeOK' BY <1>t, <2>5 DEF ReuseRelease, Goto, TypeOK, PCs
    <3>2. QED BY <2>5, <3>1, <2>q DEF ReuseRelease, PCs
  <2>6. CASE FetchRelease(j)
    <3>1. AssetOf(want[j]) \in {"github-release", "pypi-wheel"} BY <2>6, AssetType DEF FetchRelease
    <3>2. TypeOK' BY <1>t, <2>6, <3>1 DEF FetchRelease, Goto, TypeOK, PCs
    <3>3. Asks(j)' BY <1>t, <2>6, <2>j DEF FetchRelease, Goto, TypeOK, Asks, Selected
    <3>4. \A k \in Jobs \ {j} : asset'[k] = asset[k] /\ commit'[k] = commit[k]
      BY <1>t, <2>6 DEF FetchRelease, TypeOK
    <3>5. QED BY <2>6, <3>2, <3>3, <3>4, AsksOfOthers DEF TypeInv, FetchRelease, PCs
  <2>7. CASE ReuseSource(j)
    <3>1. bin' \in [Machines -> Dirs] BY <2>7, <2>c, <2>p DEF ReuseSource, d
    <3>2. TypeOK' BY <1>t, <2>7, <3>1 DEF ReuseSource, Goto, TypeOK, PCs
    <3>3. Asks(j)' BY <1>t, <2>7, <2>j DEF ReuseSource, Goto, TypeOK, Asks
    <3>4. \A k \in Jobs \ {j} : asset'[k] = asset[k] /\ commit'[k] = commit[k]
      BY <1>t, <2>7 DEF ReuseSource, TypeOK
    <3>5. QED BY <2>7, <3>2, <3>3, <3>4, AsksOfOthers DEF TypeInv, ReuseSource, PCs
  <2>8. CASE BuildSource(j)
    <3>1. TypeOK' BY <1>t, <2>8 DEF BuildSource, Goto, TypeOK, PCs
    <3>2. Asks(j)' BY <1>t, <2>8, <2>j DEF BuildSource, Goto, TypeOK, Asks, Selected
    <3>3. \A k \in Jobs \ {j} : asset'[k] = asset[k] /\ commit'[k] = commit[k]
      BY <1>t, <2>8 DEF BuildSource, TypeOK
    <3>4. QED BY <2>8, <3>1, <3>2, <3>3, AsksOfOthers DEF TypeInv, BuildSource, PCs
  <2>9. CASE InstallPassthrough(j)
    <3>1. [d EXCEPT !.binary = Stub] \in Dirs BY <2>x DEF Binaries
    <3>2. bin' \in [Machines -> Dirs] BY <2>9, <3>1, <2>p DEF InstallPassthrough, d
    <3>3. TypeOK' BY <1>t, <2>9, <2>w, <3>2 DEF InstallPassthrough, Goto, TypeOK, PCs
    <3>4. QED BY <2>9, <3>3, <2>q DEF InstallPassthrough, PCs
  <2>10. CASE ReplaceBinary(j)
    <3> DEFINE b == IF asset[j] = "source" THEN commit[j] ELSE want[j]
               c == ClearBundledReleasePayload(d)
               p == IF asset[j] = "source" THEN "record" ELSE "payload"
    <3>1. b \in Binaries
      BY <2>10, <2>j, AssetType DEF ReplaceBinary, Asks, Selected, Binaries
    <3>2. [c EXCEPT !.binary = b] \in Dirs BY <2>c, <3>1 DEF Dirs
    <3>3. bin' \in [Machines -> Dirs] BY <2>10, <3>2, <2>p DEF ReplaceBinary, d
    <3>4. p \in PCs /\ Goto(j, p) BY <2>10 DEF ReplaceBinary, PCs
    <3>5. TypeOK' BY <1>t, <2>10, <2>w, <3>3 DEF ReplaceBinary, Goto, TypeOK, PCs
    <3>6. Asks(j)'
      BY <1>t, <2>10, <2>j, AssetType DEF ReplaceBinary, Goto, TypeOK, Asks, Selected
    <3>7. QED BY <2>10, <3>4, <3>5, <3>6, <2>q DEF ReplaceBinary
  <2>11. CASE CopyPayload(j)
    <3> DEFINE f == [s \in Sidecars |-> IF s \in PayloadOf(want[j], asset[j]) THEN want[j]
                                        ELSE d.sidecars[s]]
    <3>1. want[j] \in Releases BY <2>11, <2>j DEF CopyPayload, Asks
    <3>2. f \in [Sidecars -> Releases \cup {Absent}] BY <3>1, <2>f
    <3>3. [d EXCEPT !.sidecars = f] \in Dirs BY <2>0, <3>2 DEF Dirs
    <3>4. bin' \in [Machines -> Dirs] BY <2>11, <3>3, <2>p DEF CopyPayload, d
    <3>5. TypeOK' BY <1>t, <2>11, <3>4 DEF CopyPayload, Goto, TypeOK, PCs
    <3>6. Asks(j)' BY <1>t, <2>11, <2>j DEF CopyPayload, Goto, TypeOK, Asks, Selected
    <3>7. QED BY <2>11, <3>5, <3>6, <2>q DEF CopyPayload, PCs
  <2>12. CASE RecordInstall(j)
    <3> DEFINE x == IF asset[j] = "source"
                    THEN [d EXCEPT !.source = <<want[j], commit[j]>>, !.install = Absent]
                    ELSE [d EXCEPT !.source = Absent, !.install = <<asset[j], want[j]>>]
    <3>1. asset[j] = "source" => x \in Dirs
      <4>1. asset[j] = "source" => want[j] \in Sources /\ commit[j] \in Commits
        BY <2>12, <2>j, AssetType DEF RecordInstall, Asks, Selected
      <4>2. QED BY <4>1, <2>0 DEF Dirs
    <3>2. asset[j] # "source" => x \in Dirs
      <4>1. asset[j] # "source" => <<asset[j], want[j]>> \in Installs
        BY <2>12, <2>j, AssetType DEF RecordInstall, Asks, Selected, Installs
      <4>2. QED BY <4>1, <2>0 DEF Dirs
    <3>3. bin' \in [Machines -> Dirs] BY <2>12, <3>1, <3>2, <2>p DEF RecordInstall, d
    <3>4. TypeOK' BY <1>t, <2>12, <2>u, <3>3 DEF RecordInstall, Goto, TypeOK, PCs
    <3>5. QED BY <2>12, <3>4, <2>q DEF RecordInstall, PCs
  <2>v. MainEnds(j) => TypeInv'
    <3> SUFFICES ASSUME MainEnds(j) PROVE TypeInv' OBVIOUS
    <3>1. TypeOK' BY <1>t DEF MainEnds, Goto, TypeOK, PCs
    <3>2. Asks(j)' BY <1>t DEF MainEnds, Goto, TypeOK, Asks
    <3>3. \A k \in Jobs \ {j} : asset'[k] = asset[k] /\ commit'[k] = commit[k]
      BY <1>t DEF MainEnds, TypeOK
    <3>4. QED BY <3>1, <3>2, <3>3, AsksOfOthers DEF TypeInv, MainEnds, PCs
  <2>13. CASE MainThrows(j) BY <2>13, <2>v DEF MainThrows
  <2>14. CASE VerifySoldr(j) BY <2>14, <2>v DEF VerifySoldr
  <2>15. CASE SaveMini(j)
    <3>1. mini' \in [Releases -> Dirs \cup {NoEntry}] BY <1>t, <2>15, <2>0 DEF SaveMini, TypeOK, d
    <3>2. handedOn' \subseteq Releases BY <1>t, <2>15 DEF SaveMini, MiniEligible, TypeOK
    <3>3. TypeOK' BY <1>t, <2>15, <3>1, <3>2 DEF SaveMini, Goto, TypeOK, PCs
    <3>4. QED BY <2>15, <3>3, <2>q DEF SaveMini, PCs
  <2>16. CASE NoMiniSave(j)
    <3>1. TypeOK' BY <1>t, <2>16 DEF NoMiniSave, Goto, TypeOK, PCs
    <3>2. QED BY <2>16, <3>1, <2>q DEF NoMiniSave, PCs
  <2>17. QED
    BY <1>d, <2>1, <2>2, <2>3, <2>4, <2>5, <2>6, <2>7, <2>8, <2>9, <2>10, <2>11,
       <2>12, <2>13, <2>14, <2>15, <2>16 DEF JobStep
<1>e. QED BY <1>a, <1>b, <1>c, <1>d DEF Next, Done

\* Whatever the jobs ask for and whatever fails, the directories, the
\* mini-cache and the jobs keep their types.
THEOREM TypeCorrect == Spec => []TypeOK
<1>1. TypeInv => TypeOK BY DEF TypeInv
<1>2. QED BY TypeInit, TypeStep, <1>1, PTL DEF Spec
-----------------------------------------------------------------------------
(***************************************************************************)
(* What the operators of ensure-soldr.ts give                              *)
(***************************************************************************)
LEMMA RuntimeNeeded ==
  ASSUME NEW v \in Releases
  PROVE  /\ RuntimePayload(v) # {} /\ RuntimePayload(v) \subseteq Sidecars
         /\ RuntimePayload(v) \subseteq RequiredPayload(v, TRUE)
         /\ RequiredPayload(v, TRUE) \subseteq Sidecars
  BY NumberType DEF RuntimePayload, RequiredPayload, Sidecars

\* A usable release is the release, or a build that reports its number and lies
\* beside sidecars.
LEMMA UsableIsTheRelease ==
  ASSUME NEW d \in Dirs, NEW v \in Releases, ReleaseIsUsable(d, v)
  PROVE  \/ d.binary = v
         \/ d.binary \in Commits /\ ReportedBy[d.binary] = v /\ ~Bare(d)
<1>1. d.binary \in Releases \cup Commits \cup {Stub, Absent} BY DEF Dirs, Binaries
<1>2. PICK s \in RuntimePayload(v) : s \in Sidecars BY RuntimeNeeded
<1>3. d.sidecars[s] # Absent
  BY <1>2 DEF ReleaseIsUsable, HasRequiredReleasePayload, RequiredPayload
<1>4. d.binary \in Commits => ~Bare(d) BY <1>2, <1>3 DEF Bare, NoSidecars
<1>5. v \notin {Stub, Absent} BY KindsApart, AbsentFresh DEF Binaries
<1>6. QED BY <1>1, <1>4, <1>5 DEF ReleaseIsUsable, InstalledVersion

\* A release that is usable and unmixed is complete.
LEMMA UsableIsComplete ==
  ASSUME NEW d \in Dirs, NEW v \in Releases, WheelKnown(d), ReleaseIsUsable(d, v),
         \A s \in Sidecars : d.sidecars[s] \in {v, Absent}
  PROVE  Complete(d, v)
<1>1. HasRequiredReleasePayload(d, v, TRUE)
  BY DEF WheelKnown, ReleaseIsUsable, HasRequiredReleasePayload, RequiredPayload
<1>2. QED BY <1>1, RuntimeNeeded DEF HasRequiredReleasePayload, Complete

LEMMA UnmixedUsable ==
  ASSUME NEW d \in Dirs, NEW v \in Releases, WheelKnown(d), ReleaseIsUsable(d, v), Unmixed(d)
  PROVE  d.binary = v /\ Complete(d, v)
<1>1. d.binary = v BY UsableIsTheRelease DEF Unmixed
<1>2. QED BY <1>1, UsableIsComplete DEF Unmixed

LEMMA OfReleaseUsable ==
  ASSUME NEW d \in Dirs, NEW v \in Releases, WheelKnown(d), ReleaseIsUsable(d, v), OfRelease(d, v)
  PROVE  Complete(d, v)
<1>1. \A s \in Sidecars : d.sidecars[s] \in {v, Absent}
  BY DEF OfRelease, EmptyDir, NoSidecars
<1>2. QED BY <1>1, UsableIsComplete

\* What is copied beside a release is all it needs.
LEMMA PayloadWhole ==
  ASSUME NEW v \in Releases, AssetOf(v) # "none"
  PROVE  RequiredPayload(v, TRUE) \subseteq PayloadOf(v, AssetOf(v))
<1>1. CASE AssetOf(v) = "github-release"
  BY <1>1, AssetType, ArchivesWhole DEF PayloadOf
<1>2. CASE AssetOf(v) = "pypi-wheel"
  <2>1. v \in ChefKnown /\ Number[v] >= 8001 BY <1>2, AssetType, WheelsMulticall
  <2>2. Number[v] \in Nat BY NumberType
  <2>3. QED BY <1>2, <2>1, <2>2 DEF PayloadOf, RequiredPayload, RuntimePayload
<1>3. QED BY <1>1, <1>2, AssetType

\* An entry of one release over a directory of it, and over any directory.
LEMMA OverlayOfRelease ==
  ASSUME NEW d \in Dirs, NEW e \in Dirs, NEW v \in Releases, OfRelease(e, v), e # EmptyDir
  PROVE  /\ Overlay(d, e).binary = v
         /\ OfRelease(d, v) => OfRelease(Overlay(d, e), v)
<1>1. e.binary = v /\ e.source = Absent /\ \A s \in Sidecars : e.sidecars[s] \in {v, Absent}
  BY DEF OfRelease
<1>2. v # Absent BY AbsentFresh DEF Binaries
<1>3. Overlay(d, e).binary = v BY <1>1, <1>2 DEF Overlay
<1>4. ASSUME OfRelease(d, v) PROVE OfRelease(Overlay(d, e), v)
  <2>1. d.source = Absent /\ \A s \in Sidecars : d.sidecars[s] \in {v, Absent}
    BY <1>4 DEF OfRelease, EmptyDir, NoSidecars
  <2>2. Overlay(d, e).source = Absent BY <1>1, <2>1 DEF Overlay
  <2>3. \A s \in Sidecars : Overlay(d, e).sidecars[s] \in {v, Absent} BY <1>1, <2>1 DEF Overlay
  <2>4. QED BY <1>3, <2>2, <2>3 DEF OfRelease
<1>5. QED BY <1>3, <1>4

LEMMA OverlayWheel ==
  ASSUME NEW d \in Dirs, NEW e \in Dirs, WheelKnown(d), WheelKnown(e)
  PROVE  WheelKnown(Overlay(d, e))
  BY DEF WheelKnown, IsWheelInstall, Overlay

LEMMA EmptyOk == DirOk(EmptyDir, {}) /\ \A v \in Releases : OfRelease(EmptyDir, v)
<1>1. \A v \in Releases : Absent # <<"pypi-wheel", v>> BY AbsentFresh DEF Installs
<1>2. Unmixed(EmptyDir) /\ Sound(EmptyDir)
  BY AbsentFresh DEF Unmixed, Bare, Sound, EmptyDir, NoSidecars, Binaries
<1>3. WheelKnown(EmptyDir) BY <1>1 DEF WheelKnown, IsWheelInstall, EmptyDir
<1>4. QED BY <1>2, <1>3 DEF DirOk, Unmixed, OfRelease

-----------------------------------------------------------------------------
(***************************************************************************)
(* Steps of one job                                                        *)
(***************************************************************************)
\* More entries handed on, and nothing else: what was known still holds.
LEMMA HandedOnKeeps ==
  ASSUME TypeInv, NEW k \in Jobs, JobOk(k), handedOn \subseteq handedOn',
         pc'[k] = pc[k], want'[k] = want[k], commit'[k] = commit[k],
         Dir(k)' = Dir(k), since'[MachineOf[k]] = since[MachineOf[k]]
  PROVE  JobOk(k)'
<1>1. FreshOk(k)' BY DEF JobOk, FreshOk, OnFresh, Busy, ForRelease, FromSource, OfRelease
<1>2. Asked(k)' = Asked(k) BY DEF Asked, FromSource
<1>3. Mistaken(k) => Mistaken(k)' BY DEF Mistaken, ForRelease, FromSource
<1>4. Clean(k)' => Clean(k) BY DEF Clean, OnFresh
<1>5. StepOk(k)' BY <1>2, <1>3, <1>4 DEF JobOk, StepOk, Mid, ForRelease, Complete, Unmixed, Bare
<1>6. QED BY <1>1, <1>5 DEF JobOk

\* A step of a job that runs, or may begin, keeps Core if it keeps the job's
\* part of it, the mini-cache, and its directory.
LEMMA StepKeeps ==
  ASSUME TypeInv, Core, NEW j \in Jobs, NEW p \in PCs, Goto(j, p), want' = want,
         Busy(j) \/ Idle(MachineOf[j]), handedOn \subseteq handedOn',
         \A m \in Machines \ {MachineOf[j]} : bin'[m] = bin[m] /\ since'[m] = since[m],
         \A k \in Jobs \ {j} : asset'[k] = asset[k] /\ commit'[k] = commit[k],
         MiniOk', DirOk(Dir(j), since[MachineOf[j]])', JobOk(j)'
  PROVE  Core'
<1>t. pc \in [Jobs -> PCs] BY DEF TypeInv, TypeOK
<1>p. pc'[j] = p /\ \A k \in Jobs \ {j} : pc'[k] = pc[k] BY <1>t DEF Goto
<1>i. \A k \in Jobs \ {j} : MachineOf[k] = MachineOf[j] => ~Busy(k)
  BY DEF Core, OneAtATime, Busy, Idle
<1>1. OneAtATime'
  <2> SUFFICES ASSUME NEW a \in Jobs, NEW b \in Jobs, a # b, MachineOf[a] = MachineOf[b], Busy(a)'
               PROVE  ~Busy(b)'
    BY DEF OneAtATime
  <2>1. CASE a = j BY <2>1, <1>p, <1>i DEF Busy
  <2>2. CASE b = j BY <2>2, <1>p, <1>i DEF Busy
  <2>3. CASE a # j /\ b # j BY <2>3, <1>p DEF Core, OneAtATime, Busy
  <2>4. QED BY <2>1, <2>2, <2>3
<1>2. DirsOk'
  <2> SUFFICES ASSUME NEW m \in Machines PROVE DirOk(bin[m], since[m])' BY DEF DirsOk
  <2>1. CASE m = MachineOf[j] BY <2>1 DEF Dir
  <2>2. CASE m # MachineOf[j]
    <3>1. bin'[m] = bin[m] /\ since'[m] = since[m] BY <2>2
    <3>2. DirOk(bin[m], since[m]) BY DEF Core, DirsOk
    <3>3. QED BY <3>1, <3>2 DEF DirOk, WheelKnown, IsWheelInstall, Unmixed, Bare, Sound
  <2>3. QED BY <2>1, <2>2
<1>3. ASSUME NEW k \in Jobs PROVE JobOk(k)'
  <2>1. CASE k = j BY <2>1
  <2>2. CASE k # j /\ MachineOf[k] = MachineOf[j]
    <3>1. ~Busy(k)' BY <2>2, <1>p, <1>i DEF Busy
    <3>2. QED BY <3>1 DEF JobOk, FreshOk, StepOk, Busy, Mid
  <2>3. CASE k # j /\ MachineOf[k] # MachineOf[j]
    <3>1. Dir(k)' = Dir(k) /\ since'[MachineOf[k]] = since[MachineOf[k]]
      BY <2>3, PlacesType DEF Dir
    <3>2. pc'[k] = pc[k] /\ want'[k] = want[k] /\ commit'[k] = commit[k] BY <2>3, <1>p
    <3>3. JobOk(k) BY DEF Core
    <3>4. QED BY <3>1, <3>2, <3>3, HandedOnKeeps
  <2>4. QED BY <2>1, <2>2, <2>3
<1>4. QED BY <1>1, <1>2, <1>3 DEF Core

\* A step that leaves the directories and the mini-cache alone.
LEMMA QuietKeeps ==
  ASSUME TypeInv, Core, NEW j \in Jobs, NEW p \in PCs, Goto(j, p),
         Busy(j), UNCHANGED <<bin, mini, want, since, handedOn>>,
         \A k \in Jobs \ {j} : asset'[k] = asset[k] /\ commit'[k] = commit[k],
         ~(p = "ensure" /\ FromSource(j)),
         StepOk(j)'
  PROVE  Core'
<1>1. MiniOk' BY DEF Core, MiniOk, EntryOk, WheelKnown, IsWheelInstall, OfRelease
<1>2. pc'[j] = p BY DEF TypeInv, TypeOK, Goto
<1>3. Dir(j)' = Dir(j) BY DEF Dir
<1>4. FreshOk(j)'
  BY <1>2, <1>3 DEF Core, JobOk, FreshOk, Busy, OnFresh, ForRelease, FromSource, OfRelease
<1>5. MachineOf[j] \in Machines BY PlacesType
<1>6. DirOk(Dir(j), since[MachineOf[j]]) BY <1>5 DEF Core, DirsOk, Dir
<1>7. DirOk(Dir(j), since[MachineOf[j]])'
  BY <1>3, <1>6 DEF DirOk, WheelKnown, IsWheelInstall, Unmixed, Bare, Sound
<1>8. QED BY <1>1, <1>4, <1>7, StepKeeps DEF JobOk

\* A step that puts x in the directory and leaves the marks t on it.
LEMMA PutKeeps ==
  ASSUME TypeInv, Core, NEW j \in Jobs, NEW p \in PCs, Goto(j, p),
         NEW x \in Dirs, PutDir(j, x), NEW t \in MarkSets,
         since' = [since EXCEPT ![MachineOf[j]] = t],
         Busy(j) \/ Idle(MachineOf[j]), UNCHANGED <<mini, want, asset, handedOn>>,
         \A k \in Jobs \ {j} : commit'[k] = commit[k],
         DirOk(x, t),
         OnFresh(j) /\ ForRelease(j) /\ want[j] \notin handedOn => OfRelease(x, want[j]),
         OnFresh(j) /\ p = "ensure" /\ FromSource(j) => x.source = Absent,
         StepOk(j)'
  PROVE  Core'
<1>t. TypeOK BY DEF TypeInv
<1>1. MiniOk' BY DEF Core, MiniOk, EntryOk, WheelKnown, IsWheelInstall, OfRelease
<1>2. pc'[j] = p BY <1>t DEF TypeOK, Goto
<1>3. Dir(j)' = x BY <1>t, PutType
<1>4. since'[MachineOf[j]] = t /\ \A m \in Machines \ {MachineOf[j]} : since'[m] = since[m]
  BY <1>t, MarkType
<1>5. \A m \in Machines \ {MachineOf[j]} : bin'[m] = bin[m] BY <1>t DEF PutDir, TypeOK
<1>6. FreshOk(j)' BY <1>2, <1>3 DEF FreshOk, Busy, OnFresh, ForRelease, FromSource, OfRelease
<1>7. DirOk(Dir(j), since[MachineOf[j]])'
  BY <1>3, <1>4 DEF DirOk, WheelKnown, IsWheelInstall, Unmixed, Bare, Sound
<1>8. QED BY <1>1, <1>4, <1>5, <1>6, <1>7, StepKeeps DEF JobOk

LEMMA CoreInit == Init => Core
<1> SUFFICES ASSUME Init PROVE Core OBVIOUS
<1>1. \A j \in Jobs : pc[j] = "queued" BY DEF Init
<1>2. OneAtATime /\ MiniOk /\ \A j \in Jobs : JobOk(j)
  BY <1>1 DEF Init, OneAtATime, MiniOk, JobOk, FreshOk, StepOk, Busy, Mid
<1>3. DirsOk BY EmptyOk DEF Init, DirsOk
<1>4. QED BY <1>2, <1>3 DEF Core

LEMMA CoreStep == TypeInv /\ Core /\ [Next]_vars => Core'
<1> SUFFICES ASSUME TypeInv, Core, [Next]_vars PROVE Core' OBVIOUS
<1>t. TypeOK BY DEF TypeInv
<1>a. ASSUME UNCHANGED <<bin, pc, want, commit, since, handedOn>>, MiniOk' PROVE Core'
  <2>1. OneAtATime' BY <1>a DEF Core, OneAtATime, Busy
  <2>2. DirsOk' BY <1>a DEF Core, DirsOk, DirOk, WheelKnown, IsWheelInstall, Unmixed, Bare, Sound
  <2>3. ASSUME NEW k \in Jobs PROVE JobOk(k)'
    <3>1. Dir(k)' = Dir(k) BY <1>a DEF Dir
    <3>2. JobOk(k) BY DEF Core
    <3>3. QED BY <1>a, <3>1, <3>2, HandedOnKeeps
  <2>4. QED BY <1>a, <2>1, <2>2, <2>3 DEF Core
<1>m. mini' = mini /\ handedOn' = handedOn => MiniOk'
  BY DEF Core, MiniOk, EntryOk, WheelKnown, IsWheelInstall, OfRelease
<1>b. CASE UNCHANGED vars BY <1>a, <1>b, <1>m DEF vars
<1>c. ASSUME NEW s \in Sources, NEW c \in Commits, MoveHead(s, c) PROVE Core'
  BY <1>a, <1>c, <1>m DEF MoveHead
<1>d. ASSUME NEW v \in Releases, EvictMini(v) PROVE Core'
  <2>1. MiniOk'
    BY <1>t, <1>d DEF EvictMini, Core, MiniOk, EntryOk, WheelKnown, IsWheelInstall, OfRelease, TypeOK
  <2>2. QED BY <1>a, <1>d, <2>1 DEF EvictMini
<1>e. ASSUME NEW j \in Jobs, JobStep(j) PROVE Core'
  <2> DEFINE d == Dir(j)
             v == want[j]
             m == MachineOf[j]
             t == since[m]
  <2>0. d \in Dirs BY <1>t, DirType
  <2>f. /\ d.binary \in Binaries \cup {Absent}
        /\ d.sidecars \in [Sidecars -> Releases \cup {Absent}]
        /\ d.source \in (Sources \X Commits) \cup {Absent}
        /\ d.install \in Installs \cup {Absent}
    BY <2>0 DEF Dirs
  <2>j. Asks(j) /\ JobOk(j) BY DEF TypeInv, Core
  <2>M. m \in Machines /\ t \in MarkSets BY <1>t, PlacesType DEF TypeOK, MarkSets
  <2>d. DirOk(d, t) BY <2>M DEF Core, DirsOk, Dir
  <2>k. ~(ForRelease(j) /\ FromSource(j)) /\ (v = Off => ~ForRelease(j) /\ ~FromSource(j))
    BY KindsApart DEF ForRelease, FromSource
  <2>r. OnFresh(j) /\ Busy(j) /\ ForRelease(j) /\ v \notin handedOn => OfRelease(d, v)
    BY <2>j DEF JobOk, FreshOk
  <2>g. ASSUME NEW p, Goto(j, p) PROVE pc'[j] = p BY <1>t, <2>g DEF Goto, TypeOK
  <2>p. ASSUME NEW x \in Dirs, PutDir(j, x) PROVE Dir(j)' = x BY <1>t, <2>p, PutType
  <2>v. MainEnds(j) /\ Busy(j) => Core'
    <3> SUFFICES ASSUME MainEnds(j), Busy(j) PROVE Core' OBVIOUS
    <3>1. StepOk(j)' BY <2>g DEF MainEnds, StepOk, Mid
    <3>2. \A k \in Jobs \ {j} : asset'[k] = asset[k] /\ commit'[k] = commit[k]
      BY <1>t DEF MainEnds, TypeOK
    <3>3. QED BY <3>1, <3>2, QuietKeeps DEF MainEnds, PCs
  <2> HIDE DEF d, v, m, t
  <2>1. CASE Begin(j)
    <3> DEFINE p == IF MiniEligible(j) THEN "mini" ELSE "ensure"
               x == IF OnFresh(j) THEN EmptyDir ELSE d
               y == IF OnFresh(j) THEN {} ELSE t
    <3>1. p \in PCs /\ Goto(j, p) BY <2>1 DEF Begin, PCs
    <3>2. x \in Dirs BY <2>0, EmptyType
    <3>3. PutDir(j, x) BY <1>t, <2>1 DEF Begin, OnFresh, PutDir, TypeOK, d, Dir
    <3>4. y \in MarkSets BY <2>M DEF MarkSets
    <3>5. since' = [since EXCEPT ![MachineOf[j]] = y]
      BY <1>t, <2>1 DEF Begin, OnFresh, Unmark, TypeOK, t, m
    <3>6. DirOk(x, y) BY <2>d, EmptyOk
    <3>7. OnFresh(j) /\ ForRelease(j) => OfRelease(x, want[j]) BY EmptyOk DEF ForRelease
    <3>8. OnFresh(j) => x.source = Absent BY DEF EmptyDir
    <3>9. StepOk(j)' BY <2>g, <3>1 DEF StepOk, Mid
    <3> HIDE DEF p, x, y
    <3>10. QED BY <2>1, <3>1, <3>2, <3>3, <3>4, <3>5, <3>6, <3>7, <3>8, <3>9, PutKeeps DEF Begin
  <2>2. CASE MiniMiss(j)
    <3>1. StepOk(j)' BY <2>2, <2>g DEF MiniMiss, StepOk, Mid
    <3>2. ~FromSource(j) BY <2>2, <2>j, <2>k DEF MiniMiss, Asks, MiniEligible
    <3>3. QED BY <2>2, <3>1, <3>2, QuietKeeps DEF MiniMiss, Busy, PCs
  \* What extraction, whole or cut short, puts there.
  <2>x. ASSUME pc[j] = "mini", mini[v] # NoEntry, NEW x \in Dirs, WheelKnown(x),
               v \notin handedOn => x.binary = v,
               v \notin handedOn /\ OfRelease(d, v) => OfRelease(x, v),
               PutDir(j, x), Mark(j, "mini"), Goto(j, "ensure"),
               UNCHANGED <<mini, want, asset, commit, handedOn>>
        PROVE  Core'
    <3>1. v \in Releases /\ ForRelease(j) /\ ~FromSource(j) /\ Busy(j)
      BY <2>x, <2>j, <2>k DEF Asks, MiniEligible, ForRelease, v, Busy
    <3>2. t \cup {"mini"} \in MarkSets /\ since' = [since EXCEPT ![MachineOf[j]] = t \cup {"mini"}]
      BY <1>t, <2>x, Marked DEF t, m
    <3>3. handedOn = {} => Bare(x) BY <2>x, <3>1, KindsApart DEF Bare
    <3>4. DirOk(x, t \cup {"mini"}) BY <2>x, <3>3 DEF DirOk
    <3>5. OnFresh(j) /\ want[j] \notin handedOn => OfRelease(x, want[j]) BY <2>x, <2>r, <3>1 DEF v
    <3>6. StepOk(j)' BY <2>x, <2>g DEF StepOk, Mid
    <3>7. QED BY <2>x, <3>1, <3>2, <3>4, <3>5, <3>6, PutKeeps DEF PCs
  <2>e. ASSUME pc[j] = "mini", mini[v] # NoEntry
        PROVE  /\ v \in Releases /\ mini[v] \in Dirs /\ EntryOk(mini[v], v)
               /\ Overlay(d, mini[v]) \in Dirs /\ WheelKnown(Overlay(d, mini[v]))
               /\ v \notin handedOn => Overlay(d, mini[v]).binary = v
               /\ v \notin handedOn /\ OfRelease(d, v) => OfRelease(Overlay(d, mini[v]), v)
    <3>1. v \in Releases BY <2>e, <2>j DEF Asks, MiniEligible, ForRelease, v
    <3>2. mini[v] \in Dirs /\ EntryOk(mini[v], v) BY <1>t, <2>e, <3>1 DEF TypeOK, Core, MiniOk
    <3>3. Overlay(d, mini[v]) \in Dirs BY <2>0, <3>2, OverlayType
    <3>4. WheelKnown(Overlay(d, mini[v])) BY <2>0, <2>d, <3>2, OverlayWheel DEF DirOk, EntryOk
    <3>5. v \notin handedOn => OfRelease(mini[v], v) /\ mini[v] # EmptyDir BY <3>2 DEF EntryOk
    <3>6. QED BY <2>0, <3>1, <3>2, <3>3, <3>4, <3>5, OverlayOfRelease
  <2>3. CASE RestoreMini(j)
    <3>1. pc[j] = "mini" /\ mini[v] # NoEntry BY <2>3 DEF RestoreMini, v
    <3>2. PutDir(j, Overlay(d, mini[v])) BY <2>3 DEF RestoreMini, d, v
    <3>3. QED BY <2>3, <2>x, <2>e, <3>1, <3>2 DEF RestoreMini
  <2>4. CASE MiniExtractFails(j)
    <3> DEFINE o == Overlay(d, mini[v])
               x == [d EXCEPT !.binary = o.binary]
    <3>1. pc[j] = "mini" /\ mini[v] # NoEntry BY <2>4 DEF MiniExtractFails, v
    <3>2. o \in Dirs /\ (v \notin handedOn => o.binary = v) BY <3>1, <2>e
    <3>3. x \in Dirs BY <2>0, <3>2 DEF Dirs
    <3>4. x.binary = o.binary /\ x.sidecars = d.sidecars /\ x.source = d.source /\ x.install = d.install
      BY <2>0 DEF Dirs
    <3>5. WheelKnown(x) BY <2>d, <3>4 DEF DirOk, WheelKnown, IsWheelInstall
    <3>6. v \notin handedOn /\ OfRelease(d, v) => OfRelease(x, v)
      BY <3>2, <3>4 DEF OfRelease, EmptyDir, NoSidecars
    <3>7. PutDir(j, x) BY <2>4 DEF MiniExtractFails, d, v
    <3> HIDE DEF x, o
    <3>8. QED BY <2>4, <2>x, <3>1, <3>2, <3>3, <3>4, <3>5, <3>6, <3>7 DEF MiniExtractFails
  <2>5. CASE ReuseRelease(j)
    <3>1. v \in Releases /\ ReleaseIsUsable(d, v) /\ Busy(j) /\ ForRelease(j)
      BY <2>5 DEF ReuseRelease, ForRelease, Busy, d, v
    <3>2. Asked(j)' = v BY <2>5, <3>1, <2>k DEF Asked, ReuseRelease, v, FromSource, ForRelease
    <3>3. Dir(j)' = d /\ since'[m] = t BY <2>5 DEF ReuseRelease, Dir, d, t
    <3>4. d.binary = v \/ Mistaken(j)'
      <4>1. CASE d.binary = v BY <4>1
      <4>2. CASE d.binary \in Commits /\ ReportedBy[d.binary] = v /\ ~Bare(d)
        <5>1. handedOn # {} /\ "mini" \in t BY <4>2, <2>d DEF DirOk, Unmixed
        <5>2. QED BY <2>5, <4>2, <5>1, <3>1, <3>3 DEF Mistaken, ReuseRelease, ForRelease, v, m
      <4>3. QED BY <2>0, <3>1, <4>1, <4>2, UsableIsTheRelease
    <3>5. Clean(j)' => Complete(d, v)
      <4>1. Clean(j)' => Clean(j) BY <2>5 DEF Clean, ReuseRelease, OnFresh
      <4>2. WheelKnown(d) BY <2>d DEF DirOk
      <4>3. CASE "mini" \notin t BY <2>0, <2>d, <3>1, <4>2, <4>3, UnmixedUsable DEF DirOk
      <4>4. CASE OnFresh(j) /\ v \notin handedOn
        BY <2>0, <2>r, <3>1, <4>2, <4>4, OfReleaseUsable
      <4>5. QED BY <4>1, <4>3, <4>4 DEF Clean, t, m, v
    <3>6. StepOk(j)'
      BY <2>5, <2>g, <3>2, <3>3, <3>4, <3>5 DEF ReuseRelease, StepOk, Mid, v
    <3>7. ~FromSource(j) BY <3>1, <2>k
    <3>8. QED BY <2>5, <3>1, <3>6, <3>7, QuietKeeps DEF ReuseRelease, PCs
  <2>6. CASE FetchRelease(j)
    <3>1. StepOk(j)' BY <2>6, <2>g DEF FetchRelease, StepOk, Mid
    <3>2. \A k \in Jobs \ {j} : asset'[k] = asset[k] /\ commit'[k] = commit[k]
      BY <1>t, <2>6 DEF FetchRelease, TypeOK
    <3>3. QED BY <2>6, <3>1, <3>2, QuietKeeps DEF FetchRelease, Busy, PCs
  <2>7. CASE ReuseSource(j)
    <3> DEFINE x == ClearBundledReleasePayload(d)
               c == head[v]
    <3>1. Busy(j) /\ v \in Sources /\ FromSource(j) /\ ~ForRelease(j) /\ d.source = <<v, c>> /\ c \in Commits
      BY <1>t, <2>7, <2>k DEF ReuseSource, SourceInstallMatches, Busy, FromSource, d, v, TypeOK
    <3>2. <<v, c>> # Absent BY <3>1, AbsentFresh
    <3>3. ~OnFresh(j)
      BY <3>1, <3>2, <2>7, <2>j DEF JobOk, FreshOk, ReuseSource, d
    <3>4. x \in Dirs BY <2>0 DEF Dirs, ClearBundledReleasePayload, NoSidecars
    <3>5. /\ x.binary = d.binary /\ x.sidecars = NoSidecars
          /\ x.source = d.source /\ x.install = d.install
      BY <2>0 DEF ClearBundledReleasePayload, Dirs
    <3>6. DirOk(x, t) BY <2>d, <3>5
          DEF DirOk, Unmixed, Bare, Sound, WheelKnown, IsWheelInstall, NoSidecars
    <3>7. PutDir(j, x) /\ Goto(j, "verify") BY <2>7 DEF ReuseSource, d
    <3>8. since' = [since EXCEPT ![MachineOf[j]] = t]
      BY <1>t, <2>7 DEF ReuseSource, TypeOK, t, m
    <3>9. commit'[j] = c /\ \A k \in Jobs \ {j} : commit'[k] = commit[k]
      BY <1>t, <2>7 DEF ReuseSource, TypeOK, v
    <3>10. Asked(j)' = c BY <2>7, <3>1, <3>9 DEF Asked, ReuseSource, FromSource, v
    <3>11. Dir(j)' = x BY <3>4, <3>7, <2>p
    <3>12. x.binary = c \/ Mistaken(j)'
      <4>1. CASE t = {}
        <5>1. d.binary = d.source[2] BY <4>1, <2>d, <3>1, <3>2 DEF DirOk, Sound
        <5>2. QED BY <5>1, <3>1, <3>5
      <4>2. CASE t # {}
        <5>1. since'[m] = t BY <2>7 DEF ReuseSource, t
        <5>2. (<<want[j], commit[j]>>)' = <<v, c>> BY <2>7, <3>9 DEF ReuseSource, v
        <5>3. QED BY <2>7, <4>2, <5>1, <5>2, <3>1, <3>3, <3>5, <3>11
                DEF Mistaken, ReuseSource, FromSource, OnFresh, m
      <4>3. QED BY <4>1, <4>2
    <3>13. StepOk(j)'
      BY <2>7, <2>g, <3>1, <3>7, <3>10, <3>11, <3>12 DEF ReuseSource, StepOk, Mid, ForRelease
    <3> HIDE DEF x, c
    <3>14. QED
      BY <2>7, <2>M, <3>1, <3>3, <3>4, <3>6, <3>7, <3>8, <3>9, <3>13, PutKeeps DEF ReuseSource, PCs
  <2>8. CASE BuildSource(j)
    <3>1. StepOk(j)' BY <2>8, <2>g DEF BuildSource, StepOk, Mid
    <3>2. \A k \in Jobs \ {j} : asset'[k] = asset[k] /\ commit'[k] = commit[k]
      BY <1>t, <2>8 DEF BuildSource, TypeOK
    <3>3. QED BY <2>8, <3>1, <3>2, QuietKeeps DEF BuildSource, Busy, PCs
  <2>9. CASE InstallPassthrough(j)
    <3> DEFINE x == [d EXCEPT !.binary = Stub]
               y == t \cup {"stub"}
    <3>1. Busy(j) /\ ~ForRelease(j) /\ ~FromSource(j)
      BY <2>9, <2>k DEF InstallPassthrough, Busy, v
    <3>2. x \in Dirs BY <2>0 DEF Dirs, Binaries
    <3>3. x.binary = Stub /\ x.sidecars = d.sidecars /\ x.install = d.install
      BY <2>0 DEF Dirs
    <3>4. DirOk(x, y)
      BY <2>d, <3>3, KindsApart DEF DirOk, Unmixed, Bare, WheelKnown, IsWheelInstall
    <3>5. y \in MarkSets /\ since' = [since EXCEPT ![MachineOf[j]] = y]
      BY <1>t, <2>9, Marked DEF InstallPassthrough, t, m
    <3>6. PutDir(j, x) /\ Goto(j, "verify") BY <2>9 DEF InstallPassthrough, d
    <3>7. Asked(j)' = Stub BY <2>9, <3>1 DEF Asked, InstallPassthrough, FromSource
    <3>8. Dir(j)' = x BY <3>2, <3>6, <2>p
    <3>9. StepOk(j)'
      BY <2>9, <2>g, <3>1, <3>3, <3>6, <3>7, <3>8 DEF InstallPassthrough, StepOk, Mid, ForRelease
    <3> HIDE DEF x, y
    <3>10. QED BY <2>9, <3>1, <3>2, <3>4, <3>5, <3>6, <3>9, PutKeeps DEF InstallPassthrough, PCs
  <2>10. CASE ReplaceBinary(j)
    <3> DEFINE b == IF asset[j] = "source" THEN commit[j] ELSE v
               x == [ClearBundledReleasePayload(d) EXCEPT !.binary = b]
               y == t \cup {"half"}
               p == IF asset[j] = "source" THEN "record" ELSE "payload"
    <3>1. Busy(j) /\ Selected(j) BY <2>10, <2>j DEF ReplaceBinary, Busy, Asks
    <3>2. \/ FromSource(j) /\ asset[j] = "source" /\ ~ForRelease(j) /\ commit[j] \in Commits
          \/ ForRelease(j) /\ asset[j] # "source" /\ v \in Releases /\ ~FromSource(j)
      BY <3>1, <2>k, AssetType DEF Selected, ForRelease, v
    <3>3. b \in Commits \cup Releases BY <3>2
    <3>4. x \in Dirs BY <3>3, <2>0 DEF Dirs, ClearBundledReleasePayload, NoSidecars, Binaries
    <3>5. x.binary = b /\ x.sidecars = NoSidecars /\ x.source = d.source /\ x.install = d.install
      BY <2>0 DEF Dirs, ClearBundledReleasePayload
    <3>6. Unmixed(x) BY <3>5 DEF Unmixed, Bare, NoSidecars
    <3>7. DirOk(x, y)
      BY <2>d, <3>5, <3>6 DEF DirOk, Unmixed, WheelKnown, IsWheelInstall
    <3>8. OnFresh(j) /\ ForRelease(j) /\ want[j] \notin handedOn => OfRelease(x, want[j])
      <4> SUFFICES ASSUME OnFresh(j), ForRelease(j), v \notin handedOn PROVE OfRelease(x, v) BY DEF v
      <4>1. d.source = Absent BY <2>r, <3>1 DEF OfRelease, EmptyDir
      <4>2. b = v BY <3>2
      <4>3. QED BY <3>5, <4>1, <4>2 DEF OfRelease, NoSidecars
    <3>9. y \in MarkSets /\ since' = [since EXCEPT ![MachineOf[j]] = y]
      BY <1>t, <2>10, Marked DEF ReplaceBinary, t, m
    <3>10. PutDir(j, x) /\ Goto(j, p) BY <2>10 DEF ReplaceBinary, d, v
    <3>11. Asked(j)' = b
      BY <2>10, <3>2, <2>k DEF Asked, ReplaceBinary, v, FromSource, ForRelease
    <3>12. Dir(j)' = x BY <3>4, <3>10, <2>p
    <3>13. pc'[j] = p /\ p \in {"payload", "record"} /\ (p = "record" => ~ForRelease(j))
      BY <2>g, <3>2, <3>10
    <3>14. Unmixed(Dir(j))' BY <3>6, <3>12 DEF Unmixed, Bare
    <3>15. ForRelease(j)' = ForRelease(j) BY <2>10 DEF ReplaceBinary, ForRelease
    <3>16. StepOk(j)' BY <3>5, <3>11, <3>12, <3>13, <3>14, <3>15 DEF StepOk, Mid
    <3> HIDE DEF x, b, p, y
    <3>17. QED
      BY <2>10, <3>1, <3>4, <3>7, <3>8, <3>9, <3>10, <3>13, <3>16, PutKeeps DEF ReplaceBinary, PCs
  <2>11. CASE CopyPayload(j)
    <3> DEFINE f == [s \in Sidecars |-> IF s \in PayloadOf(v, asset[j]) THEN v ELSE d.sidecars[s]]
               x == [d EXCEPT !.sidecars = f]
    <3>1. /\ Busy(j) /\ ForRelease(j) /\ ~FromSource(j) /\ v \in Releases /\ Selected(j)
          /\ d.binary = Asked(j) /\ Unmixed(d)
      BY <2>11, <2>j, <2>k DEF CopyPayload, Busy, Mid, Asks, ForRelease, v, JobOk, StepOk, d
    <3>2. asset[j] = AssetOf(v) /\ AssetOf(v) # "none" BY <3>1 DEF Selected, v
    <3>3. f \in [Sidecars -> Releases \cup {Absent}] BY <3>1, <2>f
    <3>4. x \in Dirs BY <3>3, <2>0 DEF Dirs
    <3>5. x.binary = d.binary /\ x.sidecars = f /\ x.source = d.source /\ x.install = d.install
      BY <2>0 DEF Dirs
    <3>6. Asked(j) = v BY <3>1, <2>k DEF Asked, v
    <3>7. \A s \in Sidecars : f[s] \in {v, Absent} BY <3>1, <3>6 DEF Unmixed
    <3>8. Complete(x, v)
      <4>1. \A s \in Sidecars : s \in PayloadOf(v, asset[j]) => f[s] = v OBVIOUS
      <4>2. QED BY <3>1, <3>2, <3>5, <4>1, PayloadWhole, RuntimeNeeded DEF Complete
    <3>9. Unmixed(x) BY <3>1, <3>5, <3>6, <3>7, KindsApart DEF Unmixed, Bare
    <3>10. DirOk(x, t)
      <4>1. WheelKnown(x) BY <2>d, <3>5 DEF DirOk, WheelKnown, IsWheelInstall
      <4>2. t = {} => Sound(x) BY <2>d, <3>5 DEF DirOk, Sound
      <4>3. QED BY <3>9, <4>1, <4>2 DEF DirOk, Unmixed
    <3>11. OnFresh(j) /\ want[j] \notin handedOn => OfRelease(x, want[j])
      <4> SUFFICES ASSUME OnFresh(j), v \notin handedOn PROVE OfRelease(x, v) BY DEF v
      <4>1. d.source = Absent BY <2>r, <3>1 DEF OfRelease, EmptyDir
      <4>2. QED BY <3>1, <3>5, <3>6, <3>7, <4>1 DEF OfRelease
    <3>12. since' = [since EXCEPT ![MachineOf[j]] = t]
      BY <1>t, <2>11 DEF CopyPayload, TypeOK, t, m
    <3>13. PutDir(j, x) /\ Goto(j, "record") BY <2>11 DEF CopyPayload, d, v
    <3>14. Dir(j)' = x /\ pc'[j] = "record" BY <3>4, <3>13, <2>p, <2>g
    <3>15. Asked(j)' = v /\ want'[j] = v BY <2>11, <3>6 DEF Asked, CopyPayload, FromSource, v
    <3>16. Complete(Dir(j), want[j])' BY <3>8, <3>14, <3>15 DEF Complete
    <3>17. Unmixed(Dir(j))' BY <3>9, <3>14 DEF Unmixed, Bare
    <3>18. StepOk(j)' BY <3>1, <3>5, <3>6, <3>14, <3>15, <3>16, <3>17 DEF StepOk, Mid
    <3> HIDE DEF x, f
    <3>19. QED
      BY <2>11, <2>M, <3>1, <3>4, <3>10, <3>11, <3>12, <3>13, <3>18, PutKeeps DEF CopyPayload, PCs
  <2>12. CASE RecordInstall(j)
    <3> DEFINE x == IF asset[j] = "source"
                    THEN [d EXCEPT !.source = <<v, commit[j]>>, !.install = Absent]
                    ELSE [d EXCEPT !.source = Absent, !.install = <<asset[j], v>>]
    <3>1. Busy(j) /\ Selected(j) /\ d.binary = Asked(j) /\ Unmixed(d)
      BY <2>12, <2>j DEF RecordInstall, Busy, Mid, Asks, JobOk, StepOk, d
    <3>2. ForRelease(j) => Complete(d, v)
      BY <2>12, <2>j DEF RecordInstall, JobOk, StepOk, d, v
    <3>3. \/ /\ FromSource(j) /\ v \in Sources /\ asset[j] = "source" /\ ~ForRelease(j)
             /\ commit[j] \in Commits
          \/ /\ ForRelease(j) /\ ~FromSource(j) /\ asset[j] # "source" /\ v \in Releases
             /\ asset[j] = AssetOf(v) /\ AssetOf(v) # "none"
      BY <3>1, <2>k, AssetType DEF Selected, ForRelease, FromSource, v
    <3>4. x.binary = d.binary /\ x.sidecars = d.sidecars BY <2>0 DEF Dirs
    <3>5. x \in Dirs /\ Sound(x) /\ WheelKnown(x)
      <4>1. CASE asset[j] = "source"
        <5>1. <<v, commit[j]>> \in Sources \X Commits BY <3>3, <4>1
        <5>2. x.source = <<v, commit[j]>> /\ x.install = Absent /\ x \in Dirs
          BY <4>1, <5>1, <2>0 DEF Dirs
        <5>3. d.binary = commit[j] BY <3>1, <3>3, <4>1 DEF Asked
        <5>4. \A w \in Releases : Absent # <<"pypi-wheel", w>> BY AbsentFresh DEF Installs
        <5>5. QED BY <5>2, <5>3, <5>4, <3>4 DEF Sound, WheelKnown, IsWheelInstall
      <4>2. CASE asset[j] # "source"
        <5>1. <<asset[j], v>> \in Installs BY <3>3, <4>2, AssetType DEF Installs
        <5>2. x.source = Absent /\ x.install = <<asset[j], v>> /\ x \in Dirs
          BY <4>2, <5>1, <2>0 DEF Dirs
        <5>3. asset[j] = "pypi-wheel" => v \in ChefKnown BY <3>3, <4>2, AssetType
        <5>4. QED BY <5>2, <5>3 DEF Sound, WheelKnown, IsWheelInstall
      <4>3. QED BY <4>1, <4>2
    <3>6. Unmixed(x) BY <3>1, <3>4 DEF Unmixed, Bare
    <3>7. DirOk(x, {}) BY <3>5, <3>6 DEF DirOk, Unmixed
    <3>8. OnFresh(j) /\ ForRelease(j) => OfRelease(x, want[j])
      <4> SUFFICES ASSUME ForRelease(j) PROVE OfRelease(x, v) BY DEF v
      <4>1. d.binary = v BY <3>1, <3>3, <2>k DEF Asked, v
      <4>2. x.source = Absent BY <3>3, <2>0 DEF Dirs
      <4>3. v \in Releases BY <3>3
      <4>4. QED BY <3>4, <3>6, <4>1, <4>2, <4>3 DEF Unmixed, OfRelease
    <3>9. {} \in MarkSets /\ since' = [since EXCEPT ![MachineOf[j]] = {}]
      BY <2>12 DEF RecordInstall, Unmark, MarkSets
    <3>10. PutDir(j, x) /\ Goto(j, "verify") BY <2>12 DEF RecordInstall, d, v
    <3>11. Dir(j)' = x /\ pc'[j] = "verify" BY <3>5, <3>10, <2>p, <2>g
    <3>12. Asked(j)' = Asked(j) /\ want'[j] = v /\ ForRelease(j)' = ForRelease(j)
      BY <2>12 DEF Asked, RecordInstall, FromSource, ForRelease, v
    <3>13. ForRelease(j)' => Complete(Dir(j), want[j])'
      BY <3>2, <3>4, <3>11, <3>12 DEF Complete
    <3>14. StepOk(j)' BY <3>1, <3>4, <3>11, <3>12, <3>13 DEF StepOk, Mid
    <3>15. x \in Dirs BY <3>5
    <3> HIDE DEF x
    <3>16. QED
      BY <2>12, <3>1, <3>7, <3>8, <3>9, <3>10, <3>14, <3>15, PutKeeps DEF RecordInstall, PCs
  <2>13. CASE MainThrows(j) BY <2>13, <2>v DEF MainThrows, Busy
  <2>14. CASE VerifySoldr(j) BY <2>14, <2>v DEF VerifySoldr, Busy
  <2>15. CASE SaveMini(j)
    <3>1. v \in Releases /\ ForRelease(j) /\ Busy(j) /\ d # EmptyDir
      BY <2>15 DEF SaveMini, MiniEligible, Busy, ForRelease, v, d
    <3>2. handedOn \subseteq handedOn' /\ (~OnFresh(j) => v \in handedOn')
      BY <2>15 DEF SaveMini, OnFresh, v
    <3>3. WheelKnown(d) /\ (v \notin handedOn' => OfRelease(d, v) /\ d # EmptyDir)
      BY <2>d, <2>r, <3>1, <3>2 DEF DirOk
    <3>4. mini' = [mini EXCEPT ![v] = d] BY <2>15 DEF SaveMini, v, d
    <3>5. MiniOk'
      <4> SUFFICES ASSUME NEW w \in Releases, mini'[w] # NoEntry
                   PROVE  /\ WheelKnown(mini'[w])
                          /\ w \notin handedOn' => OfRelease(mini'[w], w) /\ mini'[w] # EmptyDir
        BY DEF MiniOk, EntryOk, WheelKnown, IsWheelInstall, OfRelease
      <4>1. CASE w = v
        <5>1. mini'[w] = d BY <1>t, <3>4, <4>1 DEF TypeOK
        <5>2. QED BY <3>3, <4>1, <5>1
      <4>2. CASE w # v
        <5>1. mini'[w] = mini[w] BY <1>t, <3>4, <4>2 DEF TypeOK
        <5>2. EntryOk(mini[w], w) BY <5>1 DEF Core, MiniOk
        <5>3. QED BY <3>2, <5>1, <5>2 DEF EntryOk
      <4>3. QED BY <4>1, <4>2
    <3>6. pc'[j] = "done" /\ Goto(j, "done") BY <2>15, <2>g DEF SaveMini
    <3>7. JobOk(j)' BY <3>6 DEF JobOk, FreshOk, StepOk, Busy, Mid
    <3>8. Dir(j)' = d /\ since'[m] = t BY <2>15 DEF SaveMini, Dir, d, t
    <3>9. DirOk(Dir(j), since[MachineOf[j]])'
      BY <2>d, <3>2, <3>8 DEF DirOk, WheelKnown, IsWheelInstall, Unmixed, Bare, Sound, m
    <3>10. QED BY <2>15, <3>1, <3>2, <3>5, <3>6, <3>7, <3>9, StepKeeps DEF SaveMini, PCs
  <2>16. CASE NoMiniSave(j)
    <3>1. StepOk(j)' BY <2>16, <2>g DEF NoMiniSave, StepOk, Mid
    <3>2. QED BY <2>16, <3>1, QuietKeeps DEF NoMiniSave, Busy, PCs
  <2>17. QED
    BY <1>e, <2>1, <2>2, <2>3, <2>4, <2>5, <2>6, <2>7, <2>8, <2>9, <2>10, <2>11,
       <2>12, <2>13, <2>14, <2>15, <2>16 DEF JobStep
<1>f. QED BY <1>b, <1>c, <1>d, <1>e DEF Next, Done

THEOREM Invariant == Spec => [](TypeInv /\ Core)
<1>1. Init => TypeInv /\ Core BY TypeInit, CoreInit
<1>2. TypeInv /\ Core /\ [Next]_vars => (TypeInv /\ Core)' BY TypeStep, CoreStep
<1>3. QED BY <1>1, <1>2, PTL DEF Spec

\* Whatever earlier jobs installed, put or left half done in a directory,
\* however often the sources move and whatever the mini-cache holds, a job runs
\* the release, the build or the stub it asked for, or is Mistaken.
THEOREM InstallsWhatWasAsked == Spec => []RunsWhatWasAsked
<1>1. Core => RunsWhatWasAsked BY DEF RunsWhatWasAsked, Core, JobOk, StepOk
<1>2. QED BY Invariant, <1>1, PTL

\* Its release is complete and unmixed: over any half done install, unless an
\* extraction reached the directory since the last one recorded there; and over
\* any extraction on a fresh runner, unless a kept directory packed the entry.
THEOREM InstallsWholeReleases == Spec => []ReleaseIsWhole
<1>1. Core => ReleaseIsWhole
  BY DEF ReleaseIsWhole, Core, JobOk, StepOk, Complete, Clean, OnFresh
<1>2. QED BY Invariant, <1>1, PTL
=============================================================================
