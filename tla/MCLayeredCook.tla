--------------------------- MODULE MCLayeredCook ---------------------------
(***************************************************************************)
(* Instances of LayeredCook for TLC: two jobs on two commits, one the      *)
(* parent of the other, with a suffixed base left by an earlier run.       *)
(***************************************************************************)
EXTENDS LayeredCook, TLC

CONSTANTS j1, j2, c1, c2

TwoJobs == {j1, j2}
Commits == {c1, c2}
OneSuffix == {"x"}
Parents == (c1 :> NoSha) @@ (c2 :> c1)

OnMain   == [event |-> "push", ref |-> "default", local |-> FALSE, save |-> "", remote |-> ""]
OnPull   == [event |-> "pull_request", ref |-> "other", local |-> FALSE, save |-> "", remote |-> ""]
OnBranch == [event |-> "push", ref |-> "other", local |-> FALSE, save |-> "", remote |-> ""]
Asked    == [OnBranch EXCEPT !.save = "on"]
Confused == [OnMain EXCEPT !.save = "maybe"]

Job(env, late, layers, withDelta, fails, sha) ==
  [env |-> env, deferred |-> late, layered |-> layers, delta |-> withDelta,
   strict |-> fails, gate |-> TRUE, lockMatch |-> FALSE, sha |-> sha, suffix |-> ""]

\* One plan for every way the jobs may differ.
MixedPlans ==
  {Job(OnMain, FALSE, TRUE, TRUE, FALSE, c2),
   Job(OnMain, TRUE, TRUE, TRUE, TRUE, c1),
   Job(OnPull, FALSE, TRUE, TRUE, FALSE, c2),
   Job(OnBranch, TRUE, TRUE, FALSE, FALSE, c2),
   Job(Asked, FALSE, FALSE, FALSE, FALSE, c2),
   Job(OnMain, TRUE, FALSE, FALSE, TRUE, c2),
   Job(Confused, TRUE, TRUE, TRUE, TRUE, c1),
   [Job(OnMain, FALSE, TRUE, TRUE, FALSE, c1) EXCEPT !.lockMatch = TRUE]}

At(k, found) == <<"default", k>> :> found

Free == [s \in Slots |-> "free"]

\* A base, another under a longer key, the deltas of both commits, that of the
\* second unusable, and a legacy archive without bytes.
Stock ==
  At(<<"base", "", NoSha>>, "whole") @@ At(<<"base", "x", NoSha>>, "whole")
    @@ At(<<"delta", "", c1>>, "whole") @@ At(<<"delta", "", c2>>, "broken")
    @@ At(<<"legacy", "", NoSha>>, "empty") @@ Free

EvictSome == {<<"default", <<"base", "", NoSha>>>>, <<"default", <<"delta", "", c2>>>>}

JobSymmetry == Permutations({j1, j2})
=============================================================================
