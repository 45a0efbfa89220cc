-------------------------- MODULE HostTools_proofs --------------------------
(***************************************************************************)
(* For any uses, homes, requests, channels, releases and bundles: when the *)
(* toolchain phase of a use returns, the toolchain is what was asked for;  *)
(* while the use builds, only the solo cache of a use that shares the      *)
(* directory takes it away; and the bundles a use adopts are usable.       *)
(*                                                                         *)
(* What rustup and soldr write goes to the directory the links of a home   *)
(* lead to.  No such write moves a link, and an installation adds to what  *)
(* is there, so that homes that share a directory do not disturb each      *)
(* other, whatever their requests are.                                     *)
(***************************************************************************)
EXTENDS HostTools, TLAPS

Active == PCs \ {"queued", "done"}

\* The uses of a home follow one another.
Alone ==
  \A i, j \in Jobs : i # j /\ HomeOf[i] = HomeOf[j] /\ pc[i] \in Active => pc[j] \notin Active

Stamped == \A b \in Bundles : bundle[b] # "torn"

Adopted == {"ensure", "extras", "stage", "rename", "fetch"}

\* The links of a use to bundles lead to them.
Bundled(j) ==
  BundlesOn(j) /\ pc[j] \in Adopted =>
    \A b \in Bundles : bin[HomeOf[j]][b] = "link" => bundle[b] = "dir"

\* No use resolved a release that is still to come.
Known(j) == expected[j] # Unresolved => expected[j] <= latest

IInv == TypeOK /\ Alone /\ Stamped /\ \A j \in Jobs : Bundled(j) /\ Known(j)

-----------------------------------------------------------------------------
LEMMA Typing ==
  ASSUME TypeOK, NEW j \in Jobs
  PROVE  /\ HomeOf[j] \in Homes /\ want[j] \in Requests /\ Channel(j) \in Channels
         /\ ExtrasOf[want[j]] \in SUBSET Extras
         /\ latest \in Nat /\ latest \in Releases
         /\ Root(HomeOf[j]) \in Places
         /\ ~Dangling(j) => Sees(j) \in Trees /\ Here(j) \in Installed \cup {Missing, Damaged}
<1>1. HomeOf[j] \in Homes /\ want[j] \in Requests
  BY HomeOfType DEF TypeOK
<1>2. Channel(j) \in Channels /\ ExtrasOf[want[j]] \in SUBSET Extras
  BY <1>1, RequestsType DEF Channel
<1>3. latest \in Nat /\ latest \in Releases
  BY ReleasesType DEF TypeOK
<1>4. Root(HomeOf[j]) \in Places
  <2>1. link[HomeOf[j]] \in Requests \cup {NoLink}
    BY <1>1 DEF TypeOK
  <2> QED BY <1>1, <2>1 DEF Root, Places
<1>5. ~Dangling(j) => Sees(j) \in Trees /\ Here(j) \in Installed \cup {Missing, Damaged}
  BY <1>2 DEF Dangling, Here, Trees
<1> QED BY <1>1, <1>2, <1>3, <1>4, <1>5

LEMMA InstalledType ==
  ASSUME NEW t \in Installed
  PROVE  /\ t.release \in Releases /\ t.release \in Nat /\ t.extras \in SUBSET Extras
         /\ \A x \in SUBSET Extras : [t EXCEPT !.extras = x] = [release |-> t.release, extras |-> x]
  BY ReleasesType DEF Installed

LEMMA InitIInv == Init => IInv
<1> SUFFICES ASSUME Init PROVE IInv
  OBVIOUS
<1>1. \A c \in Channels, x \in SUBSET Extras : Holding(c, x) \in Trees
  <2> TAKE c \in Channels, x \in SUBSET Extras
  <2>1. [release |-> 0, extras |-> x] \in Installed
    BY ReleasesType DEF Installed
  <2>2. NoTree \in Trees
    BY DEF NoTree, Trees
  <2> QED BY <2>1, <2>2 DEF Holding, Trees
<1>2. NoTree \in Trees
  BY DEF NoTree, Trees
<1>3. \A h \in Homes : Restored(h) \subseteq Trees
  <2> TAKE h \in Homes
  <2>1. \A b \in Backups[h] : b[1] \in Channels /\ b[2] \in SUBSET Extras
    BY BackupsType
  <2> QED BY <1>1, <1>2, <2>1 DEF Restored
<1>4. Preinstalled \in Trees
  <2>1. \A c \in Channels : Image[c] # Missing => [release |-> 0, extras |-> Image[c]] \in Installed
    BY BackupsType, ReleasesType DEF Installed
  <2> QED BY <2>1 DEF Preinstalled, Trees
<1>5. PICK restored \in [Homes -> UNION {Restored(h) : h \in Homes}] :
        /\ \A h \in Homes : restored[h] \in Restored(h)
        /\ dir = [p \in Places |-> IF p = Runner THEN Preinstalled
                                   ELSE IF p \in Homes THEN restored[p]
                                   ELSE IF p \in Stocked THEN Holding(ChannelOf[p], ExtrasOf[p])
                                   ELSE NoEntry]
  BY DEF Init
<1>6. \A p \in Stocked : Holding(ChannelOf[p], ExtrasOf[p]) \in Trees
  BY <1>1, RollingType, RequestsType
<1>7. \A h \in Homes : restored[h] \in Trees
  BY <1>3, <1>5
<1>8. /\ dir \in [Places -> Trees \cup {NoEntry} \cup Requests]
      /\ \A p \in Homes \cup {Runner} : dir[p] \in Trees
  BY <1>4, <1>5, <1>6, <1>7, PlacesApart DEF Places
<1>9. TypeOK
  BY <1>8, ReleasesType, WantsType DEF Init, TypeOK, PCs, Statuses
<1>10. Alone /\ Stamped /\ \A j \in Jobs : Bundled(j) /\ Known(j)
  BY HomeOfType DEF Init, Alone, Active, Stamped, Bundled, Adopted, Known
<1> QED BY <1>9, <1>10 DEF IInv

-----------------------------------------------------------------------------
(* Writing a toolchain.                                                    *)

\* A write of one channel moves no link.
LEMMA RootStays ==
  ASSUME TypeOK, NEW p \in Places, dir[p] \in Trees, NEW t \in Trees,
         dir' = [dir EXCEPT ![p] = t], UNCHANGED <<strategy, link>>, NEW h \in Homes
  PROVE  Root(h)' = Root(h)
<1>1. dir \in [Places -> Trees \cup {NoEntry} \cup Requests]
  BY DEF TypeOK
<1>2. \A q \in Places : dir'[q] \in Requests <=> dir[q] \in Requests
  BY <1>1, NoEntryFresh
<1>3. \A q \in Places : dir[q] \in Requests => dir'[q] = dir[q]
  BY <1>1, NoEntryFresh
<1>4. link[h] \in Requests \cup {NoLink}
  BY DEF TypeOK
<1>5. link[h] # NoLink => link[h] \in Places
  BY <1>4 DEF Places
<1> QED BY <1>2, <1>3, <1>5 DEF Root

\* What an installation does to the use that makes it and to the others.
LEMMA InstallEffect ==
  ASSUME TypeOK, NEW i \in Jobs, ~Dangling(i), NEW what \in Installed \cup {Missing, Damaged},
         Install(i, what), UNCHANGED <<strategy, link, want>>
  PROVE  /\ dir' \in [Places -> Trees \cup {NoEntry} \cup Requests]
         /\ \A p \in Homes \cup {Runner} : dir'[p] \in Trees
         /\ Sees(i)' \in Trees /\ Here(i)' = what
         /\ \A j \in Jobs : Has(j) =>
              \/ Has(j)'
              \/ /\ Root(HomeOf[i]) = Root(HomeOf[j])
                 /\ Here(i) \in Installed /\ ~(what \in Installed /\ Here(i).extras \subseteq what.extras)
<1> DEFINE p == Root(HomeOf[i])
           c == Channel(i)
           t == [dir[p] EXCEPT ![c] = what]
<1>1. p \in Places /\ c \in Channels /\ dir[p] \in Trees /\ HomeOf[i] \in Homes
  BY Typing DEF Dangling, Sees
<1>2. t \in Trees /\ t[c] = what /\ \A d \in Channels \ {c} : t[d] = dir[p][d]
  BY <1>1 DEF Trees
<1>3. dir' = [dir EXCEPT ![p] = t]
  BY DEF Install
<1>4. dir \in [Places -> Trees \cup {NoEntry} \cup Requests] /\ \A q \in Homes \cup {Runner} : dir[q] \in Trees
  BY DEF TypeOK
<1>5. /\ dir' \in [Places -> Trees \cup {NoEntry} \cup Requests]
      /\ dir'[p] = t /\ \A q \in Places \ {p} : dir'[q] = dir[q]
  <2> HIDE DEF t, p
  <2> QED BY <1>1, <1>2, <1>3, <1>4
<1>6. \A q \in Homes \cup {Runner} : dir'[q] \in Trees
  <2> HIDE DEF t, p
  <2>1. Homes \cup {Runner} \subseteq Places
    BY DEF Places
  <2> QED BY <1>2, <1>4, <1>5, <2>1
<1>7. \A h \in Homes : Root(h)' = Root(h)
  <2> HIDE DEF t, p
  <2> QED BY <1>1, <1>2, <1>3, RootStays
<1>8. Sees(i)' = t /\ Here(i)' = what
  <2>1. Sees(i)' = dir'[p]
    BY <1>1, <1>7 DEF Sees
  <2>2. Channel(i)' = c
    BY DEF Channel
  <2> QED BY <1>2, <1>5, <2>1, <2>2 DEF Here
<1>9. ASSUME NEW j \in Jobs, Has(j)
      PROVE  \/ Has(j)'
             \/ /\ p = Root(HomeOf[j])
                /\ Here(i) \in Installed /\ ~(what \in Installed /\ Here(i).extras \subseteq what.extras)
  <2> DEFINE q == Root(HomeOf[j])
  <2>1. /\ q \in Places /\ Channel(j)' = Channel(j) /\ want'[j] = want[j] /\ Channel(j) \in Channels
        /\ Sees(j) = dir[q] /\ Sees(j)' = dir'[q]
    BY <1>7, Typing DEF Channel, Sees
  <2>2. CASE q # p
    <3>1. Sees(j)' = Sees(j) /\ Here(j)' = Here(j)
      BY <1>5, <2>1, <2>2 DEF Here
    <3> QED BY <1>9, <2>1, <3>1 DEF Has
  <2>3. CASE q = p /\ Channel(j) # c
    <3>1. Sees(j)' = t /\ Sees(j) = dir[p]
      BY <1>5, <2>1, <2>3
    <3>2. Here(j)' = t[Channel(j)] /\ Here(j) = dir[p][Channel(j)]
      BY <2>1, <3>1 DEF Here
    <3>3. Here(j)' = Here(j)
      BY <1>2, <2>1, <2>3, <3>2
    <3> QED BY <1>2, <1>9, <2>1, <3>1, <3>3 DEF Has
  <2>4. CASE q = p /\ Channel(j) = c
    <3>1. Sees(j)' = t /\ Here(j)' = what /\ Here(j) = Here(i)
      BY <1>2, <1>5, <2>1, <2>4 DEF Here, Sees
    <3>2. Here(i) \in Installed /\ ExtrasOf[want[j]] \subseteq Here(i).extras
      BY <1>9, <3>1 DEF Has
    <3> QED BY <1>2, <2>1, <2>4, <3>1, <3>2 DEF Has
  <2> QED BY <2>2, <2>3, <2>4
<1> QED BY <1>2, <1>5, <1>6, <1>8, <1>9

\* Nothing that leaves the directories, the links and the choice of a home
\* alone takes a toolchain from its uses.
LEMMA HasStays ==
  ASSUME NEW j \in Jobs, NEW h, h = HomeOf[j], Has(j), want' = want, dir' = dir,
         strategy'[h] = strategy[h], link'[h] = link[h]
  PROVE  Has(j)'
<1>1. Root(h)' = Root(h)
  BY DEF Root
<1>2. Sees(j)' = Sees(j) /\ Here(j)' = Here(j)
  BY <1>1 DEF Sees, Here, Channel
<1> QED BY <1>2 DEF Has

\* What the installing steps write.
LEMMA FreshType ==
  ASSUME TypeOK, NEW j \in Jobs, ~Dangling(j)
  PROVE  /\ Fresh(j) \in Installed
         /\ Here(j) \in Installed => Here(j).extras \subseteq Fresh(j).extras
         /\ Channel(j) \in Rolling => Fresh(j).release = latest
         /\ InstalledAnew(j) \in Installed /\ InstalledAnew(j).release = Fresh(j).release
         /\ j \notin repair => InstalledAnew(j) = Fresh(j)
<1> DEFINE x == IF Here(j) \in Installed THEN Here(j).extras ELSE {}
           n == IF Channel(j) \in Rolling THEN latest ELSE 0
<1>1. x \in SUBSET Extras
  BY InstalledType
<1>2. n \in Releases
  BY Typing, ReleasesType
<1>3. Fresh(j) = [release |-> n, extras |-> x]
  BY DEF Fresh
<1> HIDE DEF x, n
<1>4. Fresh(j) \in Installed /\ Fresh(j).extras = x /\ Fresh(j).release = n
  BY <1>1, <1>2, <1>3 DEF Installed
<1>5. [Fresh(j) EXCEPT !.extras = {}] = [release |-> n, extras |-> {}]
  BY <1>3
<1>6. [release |-> n, extras |-> {}] \in Installed
  BY <1>2 DEF Installed
<1>7. InstalledAnew(j) \in Installed /\ InstalledAnew(j).release = n
  BY <1>4, <1>5, <1>6 DEF InstalledAnew
<1> QED BY <1>4, <1>7 DEF x, n, InstalledAnew

LEMMA CompletedType ==
  ASSUME TypeOK, NEW j \in Jobs, NEW base \in Installed
  PROVE  LET what == [base EXCEPT !.extras = @ \cup ExtrasOf[want[j]]]
         IN  what \in Installed /\ base.extras \subseteq what.extras /\ ExtrasOf[want[j]] \subseteq what.extras
<1>1. base.release \in Releases /\ base.extras \cup ExtrasOf[want[j]] \in SUBSET Extras
  BY Typing, InstalledType
<1>2. [base EXCEPT !.extras = @ \cup ExtrasOf[want[j]]]
        = [release |-> base.release, extras |-> base.extras \cup ExtrasOf[want[j]]]
  BY <1>1, InstalledType
<1> QED BY <1>1, <1>2 DEF Installed

LEMMA OverlaidType ==
  ASSUME TypeOK, NEW j \in Jobs, NEW what \in Overlaid(j)
  PROVE  what \in Installed \cup {Missing, Damaged}
<1>1. CASE what = Damaged
  BY <1>1
<1>2. CASE what # Damaged
  <2>1. PICK x \in SUBSET ExtrasOf[want[j]] :
          what = [release |-> 0, extras |-> x \cup (IF Here(j) \in Installed THEN Here(j).extras ELSE {})]
    BY <1>2 DEF Overlaid
  <2>2. (IF Here(j) \in Installed THEN Here(j).extras ELSE {}) \in SUBSET Extras
    BY InstalledType
  <2>3. x \in SUBSET Extras
    BY Typing
  <2> QED BY <2>1, <2>2, <2>3, ReleasesType DEF Installed
<1> QED BY <1>1, <1>2

-----------------------------------------------------------------------------
(* The invariant.                                                          *)

\* A step of a use keeps the invariant when it keeps the use's part of it.
LEMMA Frame ==
  ASSUME IInv, NEW j \in Jobs, NEW to \in PCs, Goto(j, to), TypeOK', UNCHANGED shared, Stamped',
         \A i \in Jobs \ {j} : HomeOf[i] = HomeOf[j] => pc[i] \notin Active,
         \A i \in Jobs \ {j} : expected'[i] = expected[i],
         \A h \in Homes \ {HomeOf[j]} : bin'[h] = bin[h],
         \A b \in Bundles : bundle[b] = "dir" => bundle'[b] = "dir",
         Bundled(j)', Known(j)'
  PROVE  IInv'
<1>1. pc'[j] = to /\ \A i \in Jobs \ {j} : pc'[i] = pc[i]
  BY DEF IInv, TypeOK, Goto
<1>2. ASSUME NEW i \in Jobs, i # j PROVE Bundled(i)' /\ Known(i)'
  <2>1. BundlesOn(i)' = BundlesOn(i) /\ latest' = latest /\ HomeOf[i] \in Homes
    BY HomeOfType DEF shared, BundlesOn, StoreOn
  <2>2. HomeOf[i] = HomeOf[j] => pc'[i] \notin Adopted
    BY <1>1, <1>2 DEF Active, Adopted, PCs
  <2> QED BY <1>1, <1>2, <2>1, <2>2 DEF IInv, Bundled, Known
<1>3. Alone'
  BY <1>1 DEF IInv, Alone
<1> QED BY <1>2, <1>3 DEF IInv

\* Of two uses of a home one is active.
LEMMA OnlyActive ==
  ASSUME IInv, NEW j \in Jobs, pc[j] \in Active
  PROVE  \A i \in Jobs \ {j} : HomeOf[i] = HomeOf[j] => pc[i] \notin Active
  BY DEF IInv, Alone

\* A step of a use that leaves the bundles alone.
LEMMA QuietKeeps ==
  ASSUME IInv, NEW j \in Jobs, NEW to \in PCs, Goto(j, to), pc[j] \in Active, TypeOK',
         UNCHANGED <<shared, bundle, bin, expected>>, to \in Adopted => pc[j] \in Adopted
  PROVE  IInv'
<1>1. pc'[j] = to
  BY DEF IInv, TypeOK, Goto
<1>2. Bundled(j)' /\ Known(j)'
  BY <1>1 DEF IInv, Bundled, Known, shared, BundlesOn, StoreOn
<1>3. Stamped'
  BY DEF IInv, Stamped
<1> QED BY <1>2, <1>3, OnlyActive, Frame

LEMMA BundleLinks ==
  ASSUME TypeOK, Stamped, NEW j \in Jobs, AdoptBundles(j)
  PROVE  /\ bin' \in [Homes -> [Bundles -> {"none", "torn", "dir", "link"}]]
         /\ \A h \in Homes \ {HomeOf[j]} : bin'[h] = bin[h]
         /\ BundlesOn(j) => \A b \in Bundles : bin'[HomeOf[j]][b] = "link" => bundle[b] = "dir"
<1>0. HomeOf[j] \in Homes
  BY Typing
<1>1. CASE ~BundlesOn(j)
  BY <1>1 DEF AdoptBundles, TypeOK
<1>2. CASE BundlesOn(j)
  <2> DEFINE h == HomeOf[j]
             left(b) == DropDangling(b, bin[h][b])
             new == [b \in Bundles |->
               IF bundle[b] = "dir" /\ LinkStatus(left(b) = "link", left(b) # "none") = "adopted"
               THEN "link" ELSE left(b)]
  <2>1. bin' = [bin EXCEPT ![h] = new]
    BY <1>2 DEF AdoptBundles
  <2>2. bin \in [Homes -> [Bundles -> {"none", "torn", "dir", "link"}]]
        /\ bundle \in [Bundles -> {"none", "torn", "dir"}] /\ \A b \in Bundles : bundle[b] # "torn"
    BY DEF TypeOK, Stamped
  <2>3. \A b \in Bundles : left(b) \in {"none", "torn", "dir", "link"} /\ (left(b) = "link" => bundle[b] = "dir")
    BY <1>0, <2>2 DEF DropDangling
  <2>4. \A b \in Bundles : new[b] \in {"none", "torn", "dir", "link"} /\ (new[b] = "link" => bundle[b] = "dir")
    <3> HIDE DEF left
    <3> QED BY <2>3
  <2>5. new \in [Bundles -> {"none", "torn", "dir", "link"}]
    <3>1. \A b \in Bundles : new[b] \in {"none", "torn", "dir", "link"}
      BY <2>4
    <3> HIDE DEF left
    <3> QED BY <3>1
  <2> HIDE DEF new
  <2> QED BY <1>0, <2>1, <2>2, <2>4, <2>5
<1> QED BY <1>1, <1>2

\* The choice of the home.
LEMMA BeginKeeps == ASSUME IInv, NEW j \in Jobs, Begin(j) PROVE IInv'
<1> DEFINE h == HomeOf[j]
<1>0. TypeOK /\ h \in Homes /\ latest \in Releases /\ latest \in Nat /\ {"adopt", "explicit"} \subseteq PCs
  BY Typing DEF IInv, PCs
<1>1. PICK release \in {latest, Unresolved} : expected' = [expected EXCEPT ![j] = release]
  BY DEF Begin
<1>2. PICK to \in {"adopt", "explicit"} : Goto(j, to)
  BY DEF Begin
<1>3. strategy' \in [Homes -> {"unset", "managed", "system"}]
  BY <1>0 DEF Begin, TypeOK
<1>4. UNCHANGED <<shared, repair, dir, bundle, link, bin, plan>>
  BY DEF Begin
<1>5. TypeOK'
  <2>1. expected' \in [Jobs -> Releases \cup {Unresolved}]
    BY <1>0, <1>1 DEF TypeOK
  <2>2. pc' \in [Jobs -> PCs]
    BY <1>0, <1>2 DEF TypeOK, Goto
  <2> QED BY <1>0, <1>3, <1>4, <2>1, <2>2 DEF TypeOK, shared
<1>6. Known(j)' /\ \A i \in Jobs \ {j} : expected'[i] = expected[i]
  <2>1. expected'[j] = release /\ \A i \in Jobs \ {j} : expected'[i] = expected[i]
    BY <1>0, <1>1 DEF TypeOK
  <2>2. latest' = latest
    BY <1>4 DEF shared
  <2>3. release # Unresolved => release = latest
    OBVIOUS
  <2> QED BY <1>0, <2>1, <2>2, <2>3 DEF Known
<1>7. Bundled(j)'
  <2>1. pc'[j] = to
    BY <1>0, <1>2 DEF TypeOK, Goto
  <2> QED BY <2>1 DEF Bundled, Adopted
<1>8. \A i \in Jobs \ {j} : HomeOf[i] = h => pc[i] \notin Active
  BY DEF Begin, Active
<1>9. Stamped'
  BY <1>4 DEF IInv, Stamped
<1> QED BY <1>0, <1>2, <1>4, <1>5, <1>6, <1>7, <1>8, <1>9, Frame

\* The restores and the adoption.
LEMMA AdoptKeeps == ASSUME IInv, NEW j \in Jobs, Adopt(j) \/ RestoreSolo(j) \/ SoloMiss(j) PROVE IInv'
<1> DEFINE h == HomeOf[j]
<1>0. /\ TypeOK /\ h \in Homes /\ want[j] \in Requests /\ {"ensure", "fetch"} \subseteq PCs
      /\ {"adopt", "explicit"} \subseteq Active
  BY Typing DEF IInv, PCs, Active
<1>1. /\ pc[j] \in {"adopt", "explicit"} /\ AdoptBundles(j)
      /\ UNCHANGED <<shared, strategy, bundle, expected>>
  BY DEF Adopt, RestoreSolo, SoloMiss
<1>2. PICK to \in {"ensure", "fetch"} : Goto(j, to)
  BY DEF Adopt, RestoreSolo, SoloMiss
<1>3. /\ dir' \in [Places -> Trees \cup {NoEntry} \cup Requests]
      /\ \A p \in Homes \cup {Runner} : dir'[p] \in Trees
  <2>1. CASE dir' = dir
    BY <1>0, <2>1 DEF TypeOK
  <2>2. CASE RestoreSolo(j)
    <3>1. PICK what \in Overlaid(j) : Install(j, what)
      BY <2>2 DEF RestoreSolo
    <3>2. ~Dangling(j) /\ UNCHANGED <<strategy, link, want>>
      BY <2>2 DEF RestoreSolo, shared
    <3> QED BY <1>0, <3>1, <3>2, OverlaidType, InstallEffect
  <2> QED BY <2>1, <2>2 DEF Adopt, SoloMiss
<1>4. repair' \subseteq solo
  <2>1. repair \subseteq solo
    BY <1>0 DEF TypeOK
  <2>2. CASE RestoreSolo(j)
    BY <2>1, <2>2 DEF RestoreSolo
  <2> QED BY <2>1, <2>2 DEF Adopt, SoloMiss
<1>5. plan' \in [Jobs -> Statuses] /\ link' \in [Homes -> Requests \cup {NoLink}]
  <2>1. plan \in [Jobs -> Statuses] /\ link \in [Homes -> Requests \cup {NoLink}]
    BY <1>0 DEF TypeOK
  <2>2. CASE Adopt(j)
    <3>1. AdoptStatus(j) \in Statuses
      BY DEF AdoptStatus, LinkStatus, Statuses
    <3>2. [link EXCEPT ![h] = want[j]] \in [Homes -> Requests \cup {NoLink}]
      BY <1>0, <2>1
    <3>3. link' \in {link, [link EXCEPT ![h] = want[j]]}
      BY <2>2 DEF Adopt, AdoptRustup
    <3>4. plan' = plan \/ plan' = [plan EXCEPT ![j] = AdoptStatus(j)]
      BY <2>2 DEF Adopt, AdoptRustup
    <3> QED BY <2>1, <3>1, <3>2, <3>3, <3>4
  <2> QED BY <2>1, <2>2 DEF RestoreSolo, SoloMiss
<1>6. /\ bin' \in [Homes -> [Bundles -> {"none", "torn", "dir", "link"}]]
      /\ \A g \in Homes \ {h} : bin'[g] = bin[g]
      /\ BundlesOn(j) => \A b \in Bundles : bin'[h][b] = "link" => bundle[b] = "dir"
  BY <1>1, BundleLinks DEF IInv
<1>7. TypeOK'
  <2>1. pc' \in [Jobs -> PCs]
    BY <1>0, <1>2 DEF TypeOK, Goto
  <2> QED BY <1>0, <1>1, <1>3, <1>4, <1>5, <1>6, <2>1 DEF TypeOK, shared
<1>8. Bundled(j)' /\ Known(j)' /\ Stamped'
  BY <1>1, <1>6 DEF IInv, Bundled, Known, Stamped, shared, BundlesOn, StoreOn
<1>9. \A i \in Jobs \ {j} : HomeOf[i] = h => pc[i] \notin Active
  BY <1>0, <1>1, OnlyActive
<1> QED BY <1>0, <1>1, <1>2, <1>6, <1>7, <1>8, <1>9, Frame

\* A step of the toolchain phase installs, or leaves every directory alone;
\* what it installs adds to what is there, but for the solo cache's repair.
LEMMA EnsureInstalls ==
  ASSUME IInv, NEW j \in Jobs,
         DelegateToSoldr(j) \/ InstallToolchain(j) \/ (AddExtras(j) /\ dir' # dir)
  PROVE  /\ ~Dangling(j)
         /\ \E what \in Installed :
              /\ Install(j, what)
              /\ (pc[j] = "ensure" /\ j \in repair) \/ (Here(j) \in Installed => Here(j).extras \subseteq what.extras)
              /\ DelegateToSoldr(j) \/ AddExtras(j) => ExtrasOf[want[j]] \subseteq what.extras
              /\ InstallToolchain(j) /\ Channel(j) \in Rolling => what.release = latest
<1>0. TypeOK
  BY DEF IInv
<1>1. CASE DelegateToSoldr(j)
  <2>1. ~Dangling(j) /\ j \notin repair /\ pc[j] = "ensure" /\ pc'[j] = "stage"
    BY <1>0, <1>1 DEF DelegateToSoldr, Goto, TypeOK
  <2>2. PICK base \in {Fresh(j)} \cup ({Here(j)} \cap Installed) :
               Install(j, [base EXCEPT !.extras = @ \cup ExtrasOf[want[j]]])
    BY <1>1 DEF DelegateToSoldr
  <2>3. base \in Installed /\ (Here(j) \in Installed => Here(j).extras \subseteq base.extras)
    BY <1>0, <2>1, FreshType
  <2> DEFINE what == [base EXCEPT !.extras = @ \cup ExtrasOf[want[j]]]
  <2>4. what \in Installed /\ base.extras \subseteq what.extras /\ ExtrasOf[want[j]] \subseteq what.extras
    BY <1>0, <2>3, CompletedType
  <2>5. Install(j, what)
    BY <2>2
  <2>6. ~InstallToolchain(j)
    BY <1>0, <2>1 DEF InstallToolchain, Goto, TypeOK
  <2> HIDE DEF what
  <2> QED BY <2>1, <2>3, <2>4, <2>5, <2>6
<1>2. CASE InstallToolchain(j)
  <2>1. ~Dangling(j) /\ Install(j, InstalledAnew(j)) /\ pc[j] = "ensure" /\ pc'[j] = "extras"
    BY <1>0, <1>2 DEF InstallToolchain, Goto, TypeOK, PCs
  <2>2. ~DelegateToSoldr(j) /\ ~AddExtras(j)
    BY <1>0, <2>1 DEF DelegateToSoldr, AddExtras, Goto, TypeOK
  <2>3. /\ InstalledAnew(j) \in Installed
        /\ Channel(j) \in Rolling => InstalledAnew(j).release = latest
        /\ j \in repair \/ (Here(j) \in Installed => Here(j).extras \subseteq InstalledAnew(j).extras)
    BY <1>0, <2>1, FreshType
  <2> QED BY <2>1, <2>2, <2>3
<1>3. CASE AddExtras(j) /\ dir' # dir
  <2>1. /\ ~Dangling(j) /\ Here(j) \in Installed /\ pc[j] = "extras"
        /\ Install(j, [Here(j) EXCEPT !.extras = @ \cup ExtrasOf[want[j]]])
    BY <1>3 DEF AddExtras
  <2> DEFINE what == [Here(j) EXCEPT !.extras = @ \cup ExtrasOf[want[j]]]
  <2>2. what \in Installed /\ Here(j).extras \subseteq what.extras /\ ExtrasOf[want[j]] \subseteq what.extras
    BY <1>0, <2>1, CompletedType
  <2>3. ~InstallToolchain(j) /\ ~DelegateToSoldr(j)
    BY <2>1 DEF InstallToolchain, DelegateToSoldr
  <2>4. Install(j, what)
    BY <2>1
  <2> HIDE DEF what
  <2> QED BY <2>1, <2>2, <2>3, <2>4
<1> QED BY <1>1, <1>2, <1>3

LEMMA EnsureKeeps ==
  ASSUME IInv, NEW j \in Jobs,
         DelegateToSoldr(j) \/ InstallToolchain(j) \/ UseInstalled(j) \/ AddExtras(j) \/ MainThrows(j)
  PROVE  IInv'
<1>1. /\ UNCHANGED <<shared, repair, strategy, bundle, link, bin, plan, expected>>
      /\ pc[j] \in Active /\ TypeOK
  BY DEF DelegateToSoldr, InstallToolchain, UseInstalled, AddExtras, MainThrows, Active, PCs, IInv
<1>2. PICK to \in PCs : Goto(j, to) /\ (to \in Adopted => pc[j] \in Adopted)
  BY DEF DelegateToSoldr, InstallToolchain, UseInstalled, AddExtras, MainThrows, PCs, Adopted
<1>3. /\ dir' \in [Places -> Trees \cup {NoEntry} \cup Requests]
      /\ \A p \in Homes \cup {Runner} : dir'[p] \in Trees
  <2>1. CASE dir' = dir
    BY <1>1, <2>1 DEF TypeOK
  <2>2. CASE DelegateToSoldr(j) \/ InstallToolchain(j) \/ (AddExtras(j) /\ dir' # dir)
    <3>1. PICK what \in Installed : Install(j, what)
      BY <2>2, EnsureInstalls
    <3>2. ~Dangling(j)
      BY <2>2, EnsureInstalls
    <3>3. UNCHANGED <<strategy, link, want>>
      BY <1>1 DEF shared
    <3> QED BY <1>1, <3>1, <3>2, <3>3, InstallEffect
  <2> QED BY <2>1, <2>2 DEF UseInstalled, MainThrows
<1>4. TypeOK'
  <2>1. pc' \in [Jobs -> PCs]
    BY <1>1, <1>2 DEF TypeOK, Goto
  <2> QED BY <1>1, <1>3, <2>1 DEF TypeOK, shared
<1> QED BY <1>1, <1>2, <1>4, QuietKeeps

\* The publication of the toolchain and of the bundles.
LEMMA PublishKeeps ==
  ASSUME IInv, NEW j \in Jobs,
         \/ StageEntry(j) \/ RenameEntry(j) \/ PublishFails(j)
         \/ FetchBundles(j) \/ PublishBundles(j) \/ NoBundlesPublished(j)
  PROVE  IInv'
<1> DEFINE h == HomeOf[j]
<1>0. /\ TypeOK /\ h \in Homes /\ want[j] \in Requests
      /\ {"stage", "rename", "fetch", "publish"} \subseteq Active
      /\ {"rename", "fetch", "publish", "done"} \subseteq PCs
      /\ {"stage", "rename", "fetch"} \subseteq Adopted
  BY Typing DEF IInv, Active, PCs, Adopted
<1>1. CASE StageEntry(j) \/ PublishFails(j)
  <2>1. PICK to \in {"rename", "fetch"} : Goto(j, to)
    BY <1>1 DEF StageEntry, PublishFails
  <2>2. /\ pc[j] \in {"stage", "rename"}
        /\ UNCHANGED <<shared, repair, strategy, dir, bundle, link, bin, plan, expected>>
    BY <1>1 DEF StageEntry, PublishFails
  <2>3. TypeOK'
    BY <1>0, <2>1, <2>2 DEF TypeOK, Goto, shared
  <2> QED BY <1>0, <2>1, <2>2, <2>3, QuietKeeps
<1>2. CASE RenameEntry(j)
  <2> DEFINE r == want[j]  what == Copied(h)
  <2>1. /\ pc[j] = "rename" /\ Goto(j, "fetch")
        /\ dir' = [dir EXCEPT ![r] = FirstPublisherWins(r, what)]
        /\ UNCHANGED <<shared, repair, strategy, bundle, link, bin, plan, expected>>
    BY <1>2 DEF RenameEntry
  <2>2. what \in Trees \cup Requests
    BY <1>0 DEF TypeOK, Copied
  <2>3. r \in Places /\ r \notin Homes \cup {Runner}
    BY <1>0, PlacesApart DEF Places
  <2>4. dir \in [Places -> Trees \cup {NoEntry} \cup Requests] /\ \A p \in Homes \cup {Runner} : dir[p] \in Trees
    BY <1>0 DEF TypeOK
  <2>5. FirstPublisherWins(r, what) \in Trees \cup {NoEntry} \cup Requests
    BY <2>2, <2>3, <2>4 DEF FirstPublisherWins
  <2>6. /\ dir' \in [Places -> Trees \cup {NoEntry} \cup Requests]
        /\ \A p \in Homes \cup {Runner} : dir'[p] = dir[p]
    <3> HIDE DEF r, what
    <3>1. Homes \cup {Runner} \subseteq Places
      BY DEF Places
    <3> QED BY <2>1, <2>3, <2>4, <2>5, <3>1
  <2>7. pc' \in [Jobs -> PCs]
    BY <1>0, <2>1 DEF TypeOK, Goto
  <2>8. TypeOK'
    BY <1>0, <2>1, <2>4, <2>6, <2>7 DEF TypeOK, shared
  <2> QED BY <1>0, <2>1, <2>8, QuietKeeps
<1>3. CASE FetchBundles(j)
  <2>1. /\ pc[j] = "fetch" /\ Goto(j, "publish")
        /\ UNCHANGED <<shared, repair, strategy, dir, bundle, link, plan, expected>>
    BY <1>3 DEF FetchBundles
  <2>2. PICK got \in [Bundles -> {"none", "torn", "dir"}] :
               bin' = [bin EXCEPT ![h] = [b \in Bundles |->
                 IF bin[h][b] = "link" \/ bin[h][b] = "dir" THEN bin[h][b]
                 ELSE IF got[b] = "none" THEN bin[h][b] ELSE got[b]]]
    BY <1>3 DEF FetchBundles
  <2>3. /\ bin' \in [Homes -> [Bundles -> {"none", "torn", "dir", "link"}]]
        /\ \A g \in Homes \ {h} : bin'[g] = bin[g]
    BY <1>0, <2>2 DEF TypeOK
  <2>4. pc' \in [Jobs -> PCs] /\ pc'[j] = "publish"
    BY <1>0, <2>1 DEF TypeOK, Goto
  <2>5. TypeOK'
    BY <1>0, <2>1, <2>3, <2>4 DEF TypeOK, shared
  <2>6. Bundled(j)' /\ Known(j)' /\ Stamped'
    BY <2>1, <2>4 DEF IInv, Bundled, Known, Stamped, Adopted, shared
  <2>7. \A i \in Jobs \ {j} : HomeOf[i] = h => pc[i] \notin Active
    BY <1>0, <2>1, OnlyActive
  <2> QED BY <1>0, <2>1, <2>3, <2>5, <2>6, <2>7, Frame
<1>4. CASE PublishBundles(j) \/ NoBundlesPublished(j)
  <2>1. /\ pc[j] = "publish" /\ Goto(j, "done")
        /\ plan' = [plan EXCEPT ![j] = "none"] /\ expected' = [expected EXCEPT ![j] = Unresolved]
        /\ repair' = repair \ {j}
        /\ UNCHANGED <<shared, strategy, dir, link, bin>>
    BY <1>4 DEF PublishBundles, NoBundlesPublished, Ends
  <2>2. /\ bundle' \in [Bundles -> {"none", "torn", "dir"}] /\ Stamped'
        /\ \A b \in Bundles : bundle[b] = "dir" => bundle'[b] = "dir"
    <3>1. bundle \in [Bundles -> {"none", "torn", "dir"}] /\ \A b \in Bundles : bundle[b] # "torn"
      BY DEF IInv, TypeOK, Stamped
    <3>2. CASE NoBundlesPublished(j)
      BY <3>1, <3>2 DEF NoBundlesPublished, Stamped
    <3>3. CASE PublishBundles(j)
      <4>1. bundle' = [b \in Bundles |->
                         IF BundlesOn(j) /\ bundle[b] = "none" /\ IsStampedRealDir(bin[h][b])
                         THEN bin[h][b] ELSE bundle[b]]
        BY <3>3 DEF PublishBundles
      <4>2. \A b \in Bundles : /\ bundle'[b] \in {"none", "dir"}
                               /\ bundle[b] = "dir" => bundle'[b] = "dir"
        <5> HIDE DEF h
        <5> QED BY <3>1, <4>1 DEF IsStampedRealDir
      <4> HIDE DEF h
      <4> QED BY <4>1, <4>2 DEF Stamped
    <3> QED BY <1>4, <3>2, <3>3
  <2>3. /\ pc' \in [Jobs -> PCs] /\ plan' \in [Jobs -> Statuses]
        /\ expected' \in [Jobs -> Releases \cup {Unresolved}] /\ repair' \subseteq solo
    BY <1>0, <2>1 DEF TypeOK, Goto, Statuses
  <2>4. TypeOK'
    BY <1>0, <2>1, <2>2, <2>3 DEF TypeOK, shared
  <2>5. pc'[j] = "done" /\ expected'[j] = Unresolved /\ \A i \in Jobs \ {j} : expected'[i] = expected[i]
    BY <1>0, <2>1 DEF TypeOK, Goto
  <2>6. Bundled(j)' /\ Known(j)'
    BY <2>5 DEF Bundled, Known, Adopted
  <2>7. \A i \in Jobs \ {j} : HomeOf[i] = h => pc[i] \notin Active
    BY <1>0, <2>1, OnlyActive
  <2> QED BY <1>0, <2>1, <2>2, <2>4, <2>5, <2>6, <2>7, Frame
<1> QED BY <1>1, <1>2, <1>3, <1>4

\* The host between the uses, and the releases of the rolling channels.
LEMMA WorldKeeps == ASSUME IInv, Prune \/ NewRelease PROVE IInv'
<1>1. CASE Prune
  <2>1. /\ \A j \in Jobs : pc[j] \in {"queued", "done"}
        /\ UNCHANGED <<shared, repair, strategy, link, bin, pc, plan, expected>>
    BY <1>1 DEF Prune, AllIdle
  <2>2. dir \in [Places -> Trees \cup {NoEntry} \cup Requests] /\ \A p \in Homes \cup {Runner} : dir[p] \in Trees
    BY DEF IInv, TypeOK
  <2>3. /\ dir' \in [Places -> Trees \cup {NoEntry} \cup Requests]
        /\ \A p \in Homes \cup {Runner} : dir'[p] \in Trees
    <3>1. CASE dir' = dir
      BY <2>2, <3>1
    <3>2. CASE dir' # dir
      <4>1. PICK r \in Requests : dir' = [dir EXCEPT ![r] = NoEntry]
        BY <1>1, <3>2 DEF Prune
      <4>2. r \notin Homes \cup {Runner} /\ Homes \cup {Runner} \subseteq Places /\ r \in Places
        BY PlacesApart DEF Places
      <4> QED BY <2>2, <4>1, <4>2
    <3> QED BY <3>1, <3>2
  <2>4. bundle' \in [Bundles -> {"none", "torn", "dir"}] /\ Stamped'
    BY <1>1 DEF Prune, IInv, TypeOK, Stamped
  <2>5. TypeOK'
    BY <2>1, <2>3, <2>4 DEF IInv, TypeOK, shared
  <2>6. Alone' /\ \A j \in Jobs : Bundled(j)' /\ Known(j)'
    BY <2>1 DEF IInv, Alone, Bundled, Known, Adopted, shared
  <2> QED BY <2>4, <2>5, <2>6 DEF IInv
<1>2. CASE NewRelease
  <2>1. /\ latest' \in Releases /\ latest' = latest + 1
        /\ UNCHANGED <<host, want, solo, repair, dir, bundle, strategy, link, bin, pc, plan, expected>>
    BY <1>2 DEF NewRelease
  <2>2. TypeOK' /\ Alone' /\ Stamped'
    BY <2>1 DEF IInv, TypeOK, Alone, Stamped
  <2>3. ASSUME NEW j \in Jobs PROVE Bundled(j)' /\ Known(j)'
    <3>1. latest \in Nat /\ (expected[j] # Unresolved => expected[j] \in Nat)
      BY ReleasesType DEF IInv, TypeOK
    <3>2. Known(j)'
      BY <2>1, <3>1 DEF IInv, Known
    <3> QED BY <2>1, <3>2 DEF IInv, Bundled, BundlesOn, StoreOn
  <2> QED BY <2>2, <2>3 DEF IInv
<1> QED BY <1>1, <1>2

LEMMA NextIInv == IInv /\ [Next]_vars => IInv'
<1> SUFFICES ASSUME IInv, [Next]_vars PROVE IInv'
  OBVIOUS
<1>1. ASSUME NEW j \in Jobs, JobStep(j) PROVE IInv'
  BY <1>1, BeginKeeps, AdoptKeeps, EnsureKeeps, PublishKeeps DEF JobStep
<1>2. CASE Prune \/ NewRelease
  BY <1>2, WorldKeeps
<1>3. CASE UNCHANGED vars
  <2> USE <1>3 DEF vars
  <2>1. TypeOK' /\ Alone' /\ Stamped'
    BY DEF IInv, TypeOK, Alone, Stamped
  <2>2. \A j \in Jobs : Bundled(j)' /\ Known(j)'
    BY DEF IInv, Bundled, Known, BundlesOn, StoreOn
  <2> QED BY <2>1, <2>2 DEF IInv
<1> QED BY <1>1, <1>2, <1>3 DEF Next, Done

-----------------------------------------------------------------------------
THEOREM Invariant == Spec => []IInv
  BY InitIInv, NextIInv, PTL DEF Spec

\* The store, the homes and the uses hold only what the program can put there.
THEOREM TypeCorrect == Spec => []TypeOK
  BY Invariant, PTL DEF IInv

\* Every bundle in the store is stamped, and no link a use has adopted dangles.
THEOREM AdoptsUsableBundles == Spec => []BundlesUsable
<1>1. IInv => BundlesUsable
  BY DEF IInv, Stamped, Bundled, Adopted, BundlesUsable
<1> QED BY <1>1, Invariant, PTL

-----------------------------------------------------------------------------
(* What a step does to the uses.                                           *)

\* Only a use's own steps move it.
LEMMA OwnSteps ==
  ASSUME IInv, Next, NEW j \in Jobs, pc'[j] # pc[j]
  PROVE  JobStep(j)
<1>1. ASSUME NEW i \in Jobs, JobStep(i), i # j PROVE FALSE
  <2>1. PICK to \in PCs : Goto(i, to)
    BY <1>1 DEF JobStep, Begin, Adopt, RestoreSolo, SoloMiss, DelegateToSoldr, InstallToolchain,
      UseInstalled, AddExtras, MainThrows, StageEntry, RenameEntry, PublishFails, FetchBundles,
      PublishBundles, NoBundlesPublished, Ends, PCs
  <2> QED BY <1>1, <2>1 DEF Goto, IInv, TypeOK
<1>2. CASE Prune \/ NewRelease \/ Done
  BY <1>2 DEF Prune, NewRelease, Done, vars
<1> QED BY <1>1, <1>2 DEF Next

\* The returns of the toolchain phase.
LEMMA Returns ==
  ASSUME IInv, Next, NEW j \in Jobs, pc[j] \in {"adopt", "explicit", "ensure", "extras"}, pc'[j] \in {"stage", "fetch"}
  PROVE  Has(j)'
<1>0. TypeOK /\ JobStep(j)
  BY OwnSteps DEF IInv
<1>1. CASE RestoreSolo(j)
  <2>1. /\ ~Dangling(j) /\ UNCHANGED <<strategy, link, want>>
    BY <1>1 DEF RestoreSolo, shared
  <2>2. PICK what \in Overlaid(j) : Install(j, what) /\ (Verified(j, what) \/ Goto(j, "ensure"))
    BY <1>1 DEF RestoreSolo
  <2>3. what \in Installed /\ ExtrasOf[want[j]] \subseteq what.extras
    BY <1>0, <2>2 DEF Goto, TypeOK, Verified
  <2>4. Sees(j)' \in Trees /\ Here(j)' = what
    BY <1>0, <2>1, <2>2, <2>3, InstallEffect
  <2> QED BY <2>1, <2>3, <2>4 DEF Has
<1>2. CASE DelegateToSoldr(j) \/ (AddExtras(j) /\ dir' # dir)
  <2>1. ~Dangling(j) /\ UNCHANGED <<strategy, link, want>>
    BY <1>2 DEF DelegateToSoldr, AddExtras, shared
  <2>2. PICK what \in Installed : Install(j, what) /\ ExtrasOf[want[j]] \subseteq what.extras
    BY <1>2, EnsureInstalls
  <2>3. Sees(j)' \in Trees /\ Here(j)' = what
    BY <1>0, <2>1, <2>2, InstallEffect
  <2> QED BY <2>1, <2>2, <2>3 DEF Has
<1>3. CASE AddExtras(j) /\ dir' = dir
  <2>1. /\ ~Dangling(j) /\ Here(j) \in Installed
        /\ UNCHANGED <<want, strategy, link, dir>>
    BY <1>3 DEF AddExtras, shared
  <2>2. ExtrasOf[want[j]] \subseteq Here(j).extras
    <3> SUFFICES ASSUME ~(ExtrasOf[want[j]] \subseteq Here(j).extras) PROVE FALSE
      OBVIOUS
    <3> DEFINE what == [Here(j) EXCEPT !.extras = @ \cup ExtrasOf[want[j]]]
    <3>1. Install(j, what)
      BY <1>3 DEF AddExtras
    <3>2. what \in Installed /\ ExtrasOf[want[j]] \subseteq what.extras
      BY <1>0, <2>1, CompletedType
    <3> HIDE DEF what
    <3>3. Here(j)' = what
      BY <1>0, <2>1, <3>1, <3>2, InstallEffect
    <3>4. Here(j)' = Here(j)
      BY <2>1 DEF Here, Sees, Root, Channel
    <3> QED BY <3>2, <3>3, <3>4
  <2>3. Has(j)
    BY <2>1, <2>2 DEF Has, Dangling
  <2> QED BY <2>1, <2>3, HasStays
<1>4. CASE ~(RestoreSolo(j) \/ DelegateToSoldr(j) \/ AddExtras(j))
  <2>1. PICK to \in PCs \ {"stage", "fetch"} : Goto(j, to)
    BY <1>0, <1>4 DEF JobStep, Begin, Adopt, SoloMiss, InstallToolchain, UseInstalled, MainThrows,
      StageEntry, RenameEntry, PublishFails, FetchBundles, PublishBundles, NoBundlesPublished, Ends, PCs
  <2> QED BY <1>0, <2>1 DEF Goto, TypeOK
<1> QED BY <1>1, <1>2, <1>3, <1>4

\* The legacy driver's install and its skip.
LEMMA GoesOnFresh ==
  ASSUME IInv, Next, NEW j \in Jobs, pc[j] = "ensure", pc'[j] = "extras",
         Channel(j) \in Rolling, expected[j] # Unresolved
  PROVE  (Here(j)').release >= expected[j]
<1>0. TypeOK /\ JobStep(j) /\ latest \in Nat /\ expected[j] \in Nat /\ expected[j] <= latest
  BY OwnSteps, ReleasesType, Typing DEF IInv, Known, TypeOK
<1>1. CASE InstallToolchain(j)
  <2>1. ~Dangling(j) /\ UNCHANGED <<strategy, link, want>>
    BY <1>1 DEF InstallToolchain, shared
  <2>2. PICK what \in Installed : Install(j, what) /\ what.release = latest
    BY <1>1, EnsureInstalls
  <2>3. Here(j)' = what
    BY <1>0, <2>1, <2>2, InstallEffect
  <2> QED BY <1>0, <2>2, <2>3
<1>2. CASE UseInstalled(j)
  <2>1. Here(j).release = expected[j]
    BY <1>2 DEF UseInstalled, MaySkipRefresh
  <2>2. Here(j)' = Here(j)
    BY <1>2 DEF UseInstalled, Here, Sees, Root, Channel, shared
  <2> QED BY <1>0, <2>1, <2>2
<1>3. CASE ~(InstallToolchain(j) \/ UseInstalled(j))
  <2>1. PICK to \in PCs \ {"extras"} : Goto(j, to)
    BY <1>0, <1>3 DEF JobStep, Begin, Adopt, RestoreSolo, SoloMiss, DelegateToSoldr, AddExtras, MainThrows,
      StageEntry, RenameEntry, PublishFails, FetchBundles, PublishBundles, NoBundlesPublished, Ends, PCs
  <2> QED BY <1>0, <2>1 DEF Goto, TypeOK
<1> QED BY <1>1, <1>2, <1>3

\* When the toolchain phase of main returns, the toolchain is what the use
\* asked for, whatever request a shared directory was made for and whatever
\* the other uses do with it.
THEOREM EnsuresWhatIsAsked == Spec => ToolchainIsAsked
<1> DEFINE Asked ==
      \A j \in Jobs :
        /\ pc[j] \in {"adopt", "explicit", "ensure", "extras"} /\ pc'[j] \in {"stage", "fetch"} => Has(j)'
        /\ pc[j] = "ensure" /\ pc'[j] = "extras" /\ Channel(j) \in Rolling /\ expected[j] # Unresolved
             => (Here(j)').release >= expected[j]
<1>1. IInv /\ [Next]_vars => [Asked]_vars
  BY Returns, GoesOnFresh
<1> QED BY <1>1, Invariant, PTL DEF Spec, ToolchainIsAsked

\* The restore or the repair of another use's solo cache.
SoloThroughLink(j) ==
  \E i \in solo \ {j} : /\ Root(HomeOf[i]) = Root(HomeOf[j])
                        /\ pc[i] \in {"adopt", "explicit", "ensure"} /\ pc'[i] # pc[i]

LEMMA InstallSpares ==
  ASSUME IInv, NEW i \in Jobs, NEW j \in Jobs \ {i}, Has(j),
         RestoreSolo(i) \/ DelegateToSoldr(i) \/ InstallToolchain(i) \/ (AddExtras(i) /\ dir' # dir)
  PROVE  Has(j)' \/ SoloThroughLink(j)
<1>0. TypeOK /\ repair \subseteq solo
  BY DEF IInv, TypeOK
<1>1. ~Dangling(i) /\ UNCHANGED <<strategy, link, want>>
  BY DEF RestoreSolo, DelegateToSoldr, InstallToolchain, AddExtras, shared
<1>2. CASE RestoreSolo(i)
  <2>1. PICK what \in Overlaid(i) : Install(i, what)
    BY <1>2 DEF RestoreSolo
  <2>2. Has(j)' \/ Root(HomeOf[i]) = Root(HomeOf[j])
    BY <1>0, <1>1, <2>1, OverlaidType, InstallEffect
  <2>3. i \in solo /\ pc[i] \in {"adopt", "explicit"} /\ pc'[i] \in {"ensure", "fetch"}
    BY <1>0, <1>2 DEF RestoreSolo, Goto, TypeOK
  <2> QED BY <2>2, <2>3 DEF SoloThroughLink
<1>3. CASE DelegateToSoldr(i) \/ InstallToolchain(i) \/ (AddExtras(i) /\ dir' # dir)
  <2>1. PICK what \in Installed :
          /\ Install(i, what)
          /\ (pc[i] = "ensure" /\ i \in repair) \/ (Here(i) \in Installed => Here(i).extras \subseteq what.extras)
    BY <1>3, EnsureInstalls
  <2>2. \/ Has(j)'
        \/ Root(HomeOf[i]) = Root(HomeOf[j]) /\ pc[i] = "ensure" /\ i \in repair
    BY <1>0, <1>1, <2>1, InstallEffect
  <2>3. pc[i] = "ensure" => pc'[i] \in {"extras", "stage"}
    BY <1>0, <1>3 DEF DelegateToSoldr, InstallToolchain, AddExtras, Goto, TypeOK
  <2> QED BY <1>0, <2>2, <2>3 DEF SoloThroughLink
<1> QED BY <1>2, <1>3

\* A published entry takes a place where nothing is, which no toolchain in use
\* can be.
LEMMA PublishSpares ==
  ASSUME IInv, NEW i \in Jobs, RenameEntry(i), NEW j \in Jobs, Has(j)
  PROVE  Has(j)'
<1> DEFINE r == want[i]  h == HomeOf[j]
<1>0. /\ dir \in [Places -> Trees \cup {NoEntry} \cup Requests] /\ r \in Places
      /\ h \in Homes /\ h \in Places /\ Runner \in Places
      /\ link[h] \in Requests \cup {NoLink}
      /\ Requests \subseteq Places
  BY Typing DEF IInv, TypeOK, Places
<1>1. /\ dir' = [dir EXCEPT ![r] = FirstPublisherWins(r, Copied(HomeOf[i]))]
      /\ UNCHANGED <<want, strategy, link>>
  BY DEF RenameEntry, shared
<1>2. \A p \in Places : dir[p] # NoEntry => dir'[p] = dir[p]
  BY <1>0, <1>1 DEF FirstPublisherWins
<1>3. Root(h) \in Places /\ dir[Root(h)] # NoEntry
  BY Typing, NoEntryFresh DEF IInv, Has, Sees
<1>4. Root(h)' = Root(h)
  <2>1. CASE strategy[h] = "system" \/ link[h] = NoLink
    BY <1>1, <2>1 DEF Root
  <2>2. CASE strategy[h] # "system" /\ link[h] # NoLink
    <3>1. link[h] \in Places /\ dir[link[h]] # NoEntry
      BY <1>0, <1>3, <2>2, NoEntryFresh DEF Root
    <3>2. dir'[link[h]] = dir[link[h]]
      BY <1>2, <3>1
    <3> QED BY <1>1, <3>2 DEF Root
  <2> QED BY <2>1, <2>2
<1>5. Sees(j)' = Sees(j) /\ Here(j)' = Here(j)
  BY <1>1, <1>2, <1>3, <1>4 DEF Sees, Here, Channel
<1> QED BY <1>1, <1>5 DEF Has

LEMMA Spares ==
  ASSUME IInv, Next, NEW j \in Jobs, Building(j), Building(j)', Has(j)
  PROVE  Has(j)' \/ SoloThroughLink(j)
<1>0. TypeOK /\ pc[j] \in Active
  BY DEF IInv, Building, Active, PCs
<1>1. ASSUME NEW i \in Jobs, JobStep(i) PROVE Has(j)' \/ SoloThroughLink(j)
  <2>1. CASE RestoreSolo(i) \/ DelegateToSoldr(i) \/ InstallToolchain(i) \/ (AddExtras(i) /\ dir' # dir)
    <3>1. i # j
      BY <2>1 DEF Building, RestoreSolo, DelegateToSoldr, InstallToolchain, AddExtras
    <3> QED BY <2>1, <3>1, InstallSpares
  <2>2. CASE RenameEntry(i)
    BY <2>2, PublishSpares
  <2>3. CASE Begin(i) \/ Adopt(i)
    <3>1. HomeOf[i] # HomeOf[j]
      BY <1>0, <2>3 DEF Begin, Adopt, IInv, Alone, Active, PCs, Building
    <3>2. strategy'[HomeOf[j]] = strategy[HomeOf[j]] /\ link'[HomeOf[j]] = link[HomeOf[j]]
      <4>1. HomeOf[j] \in Homes /\ strategy \in [Homes -> {"unset", "managed", "system"}]
            /\ link \in [Homes -> Requests \cup {NoLink}]
        BY <1>0, Typing DEF TypeOK
      <4> QED BY <2>3, <3>1, <4>1 DEF Begin, Adopt, AdoptRustup
    <3>3. want' = want /\ dir' = dir
      BY <2>3 DEF Begin, Adopt, shared
    <3> QED BY <3>2, <3>3, HasStays
  <2>4. CASE \/ SoloMiss(i) \/ UseInstalled(i) \/ (AddExtras(i) /\ dir' = dir) \/ MainThrows(i)
             \/ StageEntry(i) \/ PublishFails(i) \/ FetchBundles(i)
             \/ PublishBundles(i) \/ NoBundlesPublished(i)
    <3>1. UNCHANGED <<want, dir, strategy, link>>
      BY <2>4 DEF SoloMiss, UseInstalled, AddExtras, MainThrows, StageEntry, PublishFails, FetchBundles,
        PublishBundles, NoBundlesPublished, shared
    <3> QED BY <3>1, HasStays
  <2> QED BY <1>1, <2>1, <2>2, <2>3, <2>4 DEF JobStep
<1>2. CASE Prune
  BY <1>2 DEF Prune, AllIdle, Building
<1>3. CASE NewRelease \/ Done
  <2>1. UNCHANGED <<want, dir, strategy, link>>
    BY <1>3 DEF NewRelease, Done, vars
  <2> QED BY <2>1, HasStays
<1> QED BY <1>1, <1>2, <1>3 DEF Next

\* No use takes the toolchain from another that builds with it, whatever the
\* uses ask for and whatever links earlier ones left: only the solo cache's
\* restore and repair through such a link may.
THEOREM BuildersKeepTheirToolchain == Spec => ToolchainStays
<1> DEFINE Stays ==
      \A j \in Jobs : Building(j) /\ Building(j)' /\ Has(j) =>
        \/ Has(j)'
        \/ \E i \in solo \ {j} : /\ Root(HomeOf[i]) = Root(HomeOf[j])
                                 /\ pc[i] \in {"adopt", "explicit", "ensure"} /\ pc'[i] # pc[i]
<1>1. IInv /\ [Next]_vars => [Stays]_vars
  BY Spares DEF SoloThroughLink
<1> QED BY <1>1, Invariant, PTL DEF Spec, ToolchainStays
=============================================================================
