-------------------------- MODULE MCCacheEviction --------------------------
(***************************************************************************)
(* Instances of CacheEviction for TLC: two parallel passes over            *)
(* four entries left by earlier runs and one that is saved meanwhile; or   *)
(* one pass beside one cleanup job of a run that left two of the entries.  *)
(***************************************************************************)
EXTENDS RunScopedCleanup, TLC

CONSTANTS e1, e2, k1, k2, base, big, mid, small, new

TwoPasses == {e1, e2}

Five    == {base, big, mid, small, new}
Old     == {base, big, mid, small}
OldOnly == {base}

\* 10 GB before the passes, 13 with the new entry.
Mixed == [c \in Five |-> IF c \in {mid, small} THEN 2 ELSE 3]

\* Run 7 of a reusable workflow's instance "win" saved two entries, in two
\* attempts, and its instance "mac" one; the other cleanup job's generation
\* lacks the run.
MCCleaners == {k1, k2}
MCRun == [k \in MCCleaners |-> "run7"]
MCGeneration ==
  [k \in MCCleaners |-> IF k = k1 THEN <<"consumer", "win", "run7", "2">> ELSE <<"cook", "2">>]
MCKeyOf ==
  [c \in Five |-> IF c = mid THEN <<"layer", "consumer", "win", "run7", "1">>
                  ELSE IF c = small THEN <<"layer", "consumer", "win", "run7", "2">>
                  ELSE IF c = big THEN <<"layer", "consumer", "mac", "run7", "1">>
                  ELSE <<"layer", "consumer", "win", "run6", "1">>]
MCListedAt ==
  [c \in Five |-> CASE c = new -> 1 [] c = mid -> 2 [] c = big -> 3 [] c = base -> 4 [] c = small -> 5]
\* Among those of one age: the one to go first is first in the list.
MCId ==
  [c \in Five |-> CASE c = big -> 1 [] c = mid -> 2 [] c = base -> 3 [] c = small -> 4 [] c = new -> 5]
HalfAndSix == {3, 36}
MCTeams ==
  {[evictors |-> TwoPasses, cleaners |-> {}, ages |-> HalfAndSix]}
    \cup {[evictors |-> {e}, cleaners |-> {k}, ages |-> {36}] : e \in TwoPasses, k \in MCCleaners}

PassSymmetry == Permutations({e1, e2})
=============================================================================
