------------------------ MODULE MCSoloToolchainCache ------------------------
(***************************************************************************)
(* Instances of SoloToolchainCache for TLC: two jobs, on the default       *)
(* branch or on another ref, and the entry of an older soldr version.      *)
(***************************************************************************)
EXTENDS SoloToolchainCache, TLC

CONSTANTS j1, j2, main, topic, current, older

TwoJobs == {j1, j2}
TwoRefs == {main, topic}
TwoKeys == {current, older}

MainSlot  == {<<current, main>>}
ThreeSlots == {<<current, main>>, <<older, main>>, <<current, topic>>}

JobSymmetry == Permutations({j1, j2})
=============================================================================
