--------------------------- MODULE MCBuildJourney ---------------------------
(***************************************************************************)
(* BuildJourney on a history with a merge: 0 <- 1 <- 2 and 0 <- 3, merged  *)
(* into 4.  Commit 4 is two edges from 1 by one arm and one edge from 3 by *)
(* the other; its source is again the one of commit 1.                     *)
(***************************************************************************)
EXTENDS BuildJourney

MCCommits == 0 .. 4
MCParents == [c \in MCCommits |->
  CASE c = 0 -> {} [] c = 1 -> {0} [] c = 2 -> {1} [] c = 3 -> {0} [] c = 4 -> {2, 3}]

MCContent     == [c \in MCCommits |-> IF c \in {2, 3} THEN "changed" ELSE "original"]
MCLock        == [c \in MCCommits |-> IF c = 2 THEN "bumped" ELSE "locked"]
MCCommittedAt == [c \in MCCommits |-> c]

Push(c) == [sha |-> c, ref |-> "main", head |-> c, parent |-> NoSha]
Merged == [Push(4) EXCEPT !.parent = 3]
Pull   == [Push(4) EXCEPT !.ref = "pull", !.head = 3]
All    == {Push(1), Push(2), Push(3), Merged, Pull}

Hosted == [local |-> FALSE, viaSoldr |-> TRUE, compatible |-> TRUE, zstd |-> TRUE,
           token |-> TRUE, shallow |-> FALSE, fetches |-> TRUE, bundles |-> TRUE,
           packs |-> TRUE, history |-> TRUE, cleanup |-> FALSE,
           zccache |-> "embedded", version |-> 1]
Act    == [Hosted EXCEPT !.local = TRUE]
Older  == [Hosted EXCEPT !.packs = FALSE, !.history = FALSE, !.cleanup = TRUE]

NoRegistry == [Unset EXCEPT !.cargoRegistryCache = "false"]
Job(in)    == [in |-> in, host |-> Hosted, save |-> "", for |-> All]
SameLock   == {Push(1), Push(3)}
Bumped     == {Push(1), Push(2)}
Few        == {Push(1), Push(2), Pull}
At(places, plans) == {[plan EXCEPT !.for = places] : plan \in plans}

Tree == [NoRegistry EXCEPT !.buildCacheMode = "full", !.targetCache = "true"]
Kept == [Tree EXCEPT !.preserveSourceMtimes = "true"]
Auto == [NoRegistry EXCEPT !.autoKey = "true", !.autoKeyTrustedWriters = {1, 2}]
Lint  == [NoRegistry EXCEPT !.dylint = "true", !.preserveSourceMtimes = "true"]
Cross == [NoRegistry EXCEPT !.crossTargets = "windows", !.buildCache = "false"]
Sealed == [Unset EXCEPT !.cacheEncryptKey = "k1"]

Workflow ==
  <<{Job(Kept)},
    {Job([Tree EXCEPT !.sourceMtimeNormalize = "true"])},
    {Job([Tree EXCEPT !.ciTests = "true", !.autoKey = "true"])},
    {[Job(Auto) EXCEPT !.save = "true"],
     [Job(Auto) EXCEPT !.save = "true", !.host.shallow = TRUE, !.host.fetches = FALSE]},
    At(Few,
      {Job([Auto EXCEPT !.key = "own"]), [Job(Auto) EXCEPT !.host.token = FALSE]}),
    At(Few, {[Job([Auto EXCEPT !.cacheEncryptKey = "k1"]) EXCEPT !.host = Act],
             [Job(Auto) EXCEPT !.host = Act]}),
    At(Few, {Job(Sealed),
             Job([Sealed EXCEPT !.cacheEncryptKey = "k2", !.cacheEncryptOnFailure = "skip"])}),
    At(Few, {Job([Unset EXCEPT !.cachePreset = "full", !.cachePayloadOversizeAction = "fail"]),
             Job([Unset EXCEPT !.targetCacheCompress = "none", !.cacheKeySuffix = "lint"])}),
    At(Few, {Job([Unset EXCEPT !.cache = "false"]), Job([Unset EXCEPT !.key = "a,b"]),
             Job([Tree EXCEPT !.dylint = "true"]),
             [Job([Unset EXCEPT !.cachePayloadMaxBytes = "0"]) EXCEPT !.host = Older]}),
    At(SameLock, {Job(Lint), Job([Lint EXCEPT !.dylintFoundationCache = "false"])}),
    At(Bumped, {Job([NoRegistry EXCEPT !.dylintCache = "true", !.buildCache = "false"]),
              Job([Lint EXCEPT !.sourceMtimeNormalize = "true", !.buildCache = "false"])}),
    At({Push(1), Pull},
      {[Job(Cross) EXCEPT !.host.version = v, !.host.zccache = "absent"] : v \in 0 .. 2}),
    At({Push(1), Pull},
      {[Job([Cross EXCEPT !.crossTargets = "universal2", !.zccacheSeedStrict = "true"])
          EXCEPT !.host.version = v, !.host.zccache = "absent"] : v \in 1 .. 2})>>

MCWorkflows == {Workflow[i] : i \in DOMAIN Workflow}

\* Only the workflow that keeps target/ and replays mtimes.
KeptWorkflow == {{Job(Kept)}}
=============================================================================
