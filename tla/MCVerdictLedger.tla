-------------------------- MODULE MCVerdictLedger --------------------------
(***************************************************************************)
(* Instances of VerdictLedger for TLC: three runs of a job, two on the     *)
(* default branch and one on another that publishes too, on two states of  *)
(* the checkout.                                                           *)
(***************************************************************************)
EXTENDS VerdictLedger

CONSTANTS r1, r2, r3, job, main, topic, c1, c2, i1, i2

ThreeRuns  == {r1, r2, r3}
Trusted    == {r1, r2, r3}
TwoChecks  == {c1, c2}
TwoInputs  == {i1, i2}

TwoRefs    == {main, topic}
OneJob     == [r \in {r1, r2, r3} |-> job]
Refs3      == [r \in {r1, r2, r3} |-> IF r = r3 THEN topic ELSE main]
Modes      == [r \in {r1, r2, r3} |-> IF r = r1 THEN "restore" ELSE "auto"]

ChecksOnly  == <<c1, c2>>
Mixed       == <<c2, Build, c1>>
AllPrograms == {ChecksOnly, Mixed}

\* The other branch repeats the first run; the default branch goes on with a
\* build, after a change.
Repeats ==
  [r \in {r1, r2, r3} |-> IF r = r2 THEN {<<i2, Mixed>>} ELSE {<<i1, ChecksOnly>>}]

\* On the second checkout the second check cannot be keyed and the first fails.
Passes  == {<<c1, i1>>, <<c2, i1>>, <<c2, i2>>}
NoKeyOf == {<<c2, i2>>}
Left    == [r \in {r1, r2, r3} |-> IF r = r1 THEN {{}, {c1}} ELSE {{}}]
OnlyOne == {r1}
=============================================================================
