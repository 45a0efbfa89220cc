--------------------------- MODULE MCInstallation ---------------------------
(***************************************************************************)
(* Instances of Installation for TLC: an archive release with sidecars, a  *)
(* wheel-only multicall release, a ref that moves between two commits, the *)
(* first of which reports the number of the wheel release, as does a local *)
(* checkout; jobs that share a directory, and one on a runner of its own.  *)
(***************************************************************************)
EXTENDS Installation, TLC

CONSTANTS j1, j2, j3, j4, kept, fresh, c1, c2, old, new, ref, local

\* j1, j2 and j3 follow one another, in any order, in a directory that is kept.
FourJobs == {j1, j2, j3, j4}
KeptButLast == [j \in FourJobs |-> IF j = j4 THEN fresh ELSE kept]
TwoMachines == {kept, fresh}
Kept        == {kept}

TwoReleases == {old, new}
Numbers  == [v \in TwoReleases |-> IF v = old THEN 7066 ELSE 9042]
OnlyOld  == {old}
OnlyNew  == {new}
ShipsAll == [v \in TwoReleases |-> {"zccache", "daemon", "shim", "chef", "clang"}]

RefAndLocal == {ref, local}
TwoCommits  == {c1, c2}
Reports     == [c \in TwoCommits |-> IF c = c1 THEN new ELSE old]

SplitWants == [j \in FourJobs |-> CASE j \in {j1, j2} -> {new, ref}
                                     [] j = j3        -> {old, local, Off}
                                     [] j = j4        -> {old, new}]

JobSymmetry == Permutations({j1, j2})
=============================================================================
