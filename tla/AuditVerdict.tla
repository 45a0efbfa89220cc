---------------------------- MODULE AuditVerdict ----------------------------
(***************************************************************************)
(* What the yank audit promises the saves: post ends up with one verdict,  *)
(* "clean" only if no dependency of the lockfile was yanked when main      *)
(* launched the audit and every one of them could be looked up, "yanked"   *)
(* only if one really is yanked, and "not-checked" whenever it likes.      *)
(***************************************************************************)
CONSTANT Deps  \* the crates.io dependencies the lockfile pins

VARIABLES
  yanked,   \* dependencies yanked on crates.io so far
  launched, \* main has launched the audit
  seen,     \* dependencies already yanked at the launch
  foreign,  \* the lockfile also pins crates of a registry nobody can look up
  verdict   \* what post concluded

vars == <<yanked, launched, seen, foreign, verdict>>

Init ==
  /\ yanked = {} /\ launched = FALSE /\ seen = {} /\ verdict = "none"
  /\ foreign \in BOOLEAN

Yank ==
  /\ yanked' \in SUBSET Deps /\ yanked \subseteq yanked'
  /\ UNCHANGED <<launched, seen, foreign, verdict>>

Launch ==
  /\ ~launched /\ launched' = TRUE
  /\ seen' = yanked
  /\ UNCHANGED <<yanked, foreign, verdict>>

Justified(v) ==
  \/ v = "clean" /\ ~foreign /\ seen = {}
  \/ v = "yanked" /\ yanked # {}
  \/ v = "not-checked"

Decide ==
  /\ launched /\ verdict = "none"
  /\ verdict' \in {"clean", "yanked", "not-checked"}
  /\ Justified(verdict')
  /\ UNCHANGED <<yanked, launched, seen, foreign>>

Next == Yank \/ Launch \/ Decide

Spec == Init /\ [][Next]_vars
=============================================================================
