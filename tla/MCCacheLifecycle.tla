-------------------------- MODULE MCCacheLifecycle --------------------------
(***************************************************************************)
(* Instances of CacheLifecycle for TLC: up to two jobs, two revisions of   *)
(* Cargo.lock and two crates.                                              *)
(***************************************************************************)
EXTENDS CacheLifecycle, TLC

CONSTANTS j1, j2, l1, l2, c1, c2

TwoJobs   == {j1, j2}
NoJobs    == {}
TwoLocks  == {l1, l2}
OneLock   == {l1}
TwoCrates == {c1, c2}
OneCrate  == {c1}

\* One crate; two crates; a revision that drops the only registry
\* dependency.
OneDep    == [l \in {l1} |-> {c1}]
TwoDeps   == [l \in {l1} |-> {c1, c2}]
DropDeps  == [l \in {l1, l2} |-> IF l = l1 THEN {c1} ELSE {}]

BuildLayer    == {"build"}
TargetLayer   == {"target"}
RegistryLayer == {"registry"}

NoKeys  == {}
AllKeys == Keys

\* The two jobs of a run belong to the same groups, so they are symmetric.
JobSymmetry == Permutations({j1, j2})
=============================================================================
