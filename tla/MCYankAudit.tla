---------------------------- MODULE MCYankAudit ----------------------------
(***************************************************************************)
(* Instances of YankAudit for TLC: a lockfile that pins two versions of    *)
(* one crate and one of another.                                           *)
(***************************************************************************)
EXTENDS YankAudit

CONSTANTS n1, n2, v1, v2

TwoNames    == {n1, n2}
TwoVersions == {v1, v2}
TwoAndOne   == [n \in {n1, n2} |-> IF n = n1 THEN {v1, v2} ELSE {v1}]
=============================================================================
