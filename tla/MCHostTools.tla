---------------------------- MODULE MCHostTools -----------------------------
(***************************************************************************)
(* Instances of HostTools for TLC: two uses of one home, each with its own *)
(* request, and a job beside them; two pinned requests and a rolling one;  *)
(* on a self-hosted runner and on a Mac with the store disabled.           *)
(***************************************************************************)
EXTENDS HostTools

CONSTANTS j1, j2, j3, h1, h2, cross, plain, rolling, pinned, stable, wasm, llvm

ThreeJobs  == {j1, j2, j3}
TwoHomes   == {h1, h2}
PlacedJobs == [j \in ThreeJobs |-> IF j = j3 THEN h2 ELSE h1]

ThreeRequests == {cross, plain, rolling}
TwoChannels   == {pinned, stable}
Asks          == [r \in ThreeRequests |-> IF r = rolling THEN stable ELSE pinned]
AsksExtras    == [r \in ThreeRequests |-> IF r = plain THEN {} ELSE {wasm}]
MixedWants    == [j \in ThreeJobs |->
                    IF j = j1 THEN {plain} ELSE IF j = j2 THEN {cross, rolling} ELSE {plain, rolling}]
OneStocked    == {plain}
CrossLane     == {cross}
StableImage   == [c \in TwoChannels |-> IF c = stable THEN {wasm} ELSE Missing]
OneBackup     == [h \in TwoHomes |-> IF h = h2 THEN {<<stable, {wasm}>>} ELSE {}]
SecondUse     == {j2}
OneExtra      == {wasm}
OnlyStable    == {stable}
TwoReleases   == {0, 1}
OneBundle     == {llvm}

SelfHosted == [override |-> "unset", toolCache |-> TRUE, windows |-> FALSE, macos |-> FALSE,
                act |-> FALSE, selfHosted |-> TRUE]
HostKinds  == {SelfHosted, [SelfHosted EXCEPT !.macos = TRUE, !.override = "off"]}
=============================================================================
