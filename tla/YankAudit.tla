------------------------------ MODULE YankAudit ------------------------------
(***************************************************************************)
(* The yank audit of lib/yank-audit.ts.  main writes the dependencies of   *)
(* Cargo.lock to a config file and spawns a detached worker, which looks   *)
(* them up in the crates.io index with a pool of concurrent requests and   *)
(* publishes its result by an atomic rename.  post polls that file until   *)
(* the background deadline, then repeats the audit itself under a second   *)
(* one.  The worker may be lost at any moment, and answer after it was     *)
(* given up.                                                               *)
(***************************************************************************)
EXTENDS FiniteSets, Naturals

CONSTANTS
  Names,     \* crate names the lockfile pins from crates.io
  Versions,  \* versions
  Pinned,    \* byCrate: the versions of each name it pins
  Pool       \* how many crates an audit looks up at once

ASSUME PinnedType  == Pinned \in [Names -> SUBSET Versions \ {{}}]
ASSUME PoolType    == Pool \in Nat \ {0}

PinnedDeps == {d \in Names \X Versions : d[2] \in Pinned[d[1]]}
Pins(n) == {n} \X Pinned[n]

VARIABLES
  yankedSoFar,    \* dependencies yanked on crates.io so far
  yankedAtLaunch, \* those already yanked at the launch
  foreign,        \* the lockfile pins crates of an unsupported registry too
  config,         \* the config file is written
  file,           \* the result file
  worker,         \* the detached worker process
  post,           \* where main and post are
  left,           \* per audit: crates no request was started for
  inflight,       \* per audit: crates being looked up
  looked,         \* per audit: dependencies found in the index
  found,          \* per audit: those of them the index called yanked
  errors,         \* per audit: a registry error was recorded
  outcome         \* the verdict post acts on

poolVars == <<left, inflight, looked, found, errors>>
yankAuditVars == <<yankedSoFar, yankedAtLaunch, foreign, config, file, worker, post, poolVars,
                   outcome>>

Audits   == {"background", "foreground"}
Statuses == {"pending", "clean", "yanked", "not-checked"}
Results  == [status : Statuses, yanked : SUBSET PinnedDeps]
Plain(s) == [status |-> s, yanked |-> {}]

AuditTypeOK ==
  /\ yankedSoFar \in SUBSET PinnedDeps
  /\ yankedAtLaunch \in SUBSET PinnedDeps
  /\ foreign \in BOOLEAN
  /\ config \in BOOLEAN
  /\ file \in Results
  /\ worker \in {"none", "starting", "auditing", "gone"}
  /\ post \in {"main", "build", "join", "poll", "recheck", "decided"}
  /\ left \in [Audits -> SUBSET Names]
  /\ inflight \in [Audits -> SUBSET Names]
  /\ looked \in [Audits -> SUBSET PinnedDeps]
  /\ found \in [Audits -> SUBSET PinnedDeps]
  /\ errors \in [Audits -> BOOLEAN]
  /\ outcome \in (Statuses \ {"pending"}) \cup {"none"}

AuditInit ==
  /\ yankedSoFar = {}
  /\ yankedAtLaunch = {}
  /\ foreign \in BOOLEAN
  /\ config = FALSE
  /\ file = Plain("pending")
  /\ worker = "none"
  /\ post = "main"
  /\ left = [a \in Audits |-> {}]
  /\ inflight = [a \in Audits |-> {}]
  /\ looked = [a \in Audits |-> {}]
  /\ found = [a \in Audits |-> {}]
  /\ errors = [a \in Audits |-> FALSE]
  /\ outcome = "none"

-----------------------------------------------------------------------------
(***************************************************************************)
(* main.ts: the launch                                                     *)
(***************************************************************************)
Launches ==
  /\ post = "main" /\ post' = "build"
  /\ yankedAtLaunch' = yankedSoFar
  /\ UNCHANGED <<yankedSoFar, foreign, poolVars, outcome>>

\* No lockfile, an unreadable one or an unwritable config.
LaunchFails ==
  /\ Launches
  /\ file' = Plain("not-checked")
  /\ UNCHANGED <<config, worker>>

\* The config is written, but the worker could not be started.
SpawnFails ==
  /\ Launches
  /\ config' = TRUE
  /\ file' = Plain("not-checked")
  /\ UNCHANGED worker

NothingToLookUp == PinnedDeps = {} /\ ~foreign

\* Without registry dependencies there is nothing to spawn a worker for.
LaunchWorker ==
  /\ Launches
  /\ config' = TRUE
  /\ file' = Plain(IF NothingToLookUp THEN "clean" ELSE "pending")
  /\ worker' = IF NothingToLookUp THEN "none" ELSE "starting"

-----------------------------------------------------------------------------
(***************************************************************************)
(* auditDependencyYanks, by the worker or by post                          *)
(***************************************************************************)
Running(a) == IF a = "background" THEN worker = "auditing" ELSE post = "recheck"

\* Mutant: the crates of another registry are left out without a word.
SkipForeign(a) ==
  /\ left' = [left EXCEPT ![a] = Names]
  /\ UNCHANGED <<inflight, looked, found, errors>>

\* The crates of another registry are errors before the first request.
BeginAudit(a) ==
  /\ left' = [left EXCEPT ![a] = Names]
  /\ errors' = [errors EXCEPT ![a] = foreign]
  /\ UNCHANGED <<inflight, looked, found>>

PoolStep(a) ==
  /\ Running(a)
  /\ UNCHANGED <<yankedSoFar, yankedAtLaunch, foreign, config, file, worker, post, outcome>>

Request(a, n) ==
  /\ PoolStep(a)
  /\ n \in left[a] /\ Cardinality(inflight[a]) < Pool
  /\ left' = [left EXCEPT ![a] = @ \ {n}]
  /\ inflight' = [inflight EXCEPT ![a] = @ \cup {n}]
  /\ UNCHANGED <<looked, found, errors>>

Answer(a, n) ==
  /\ PoolStep(a)
  /\ n \in inflight[a]
  /\ inflight' = [inflight EXCEPT ![a] = @ \ {n}]
  /\ looked' = [looked EXCEPT ![a] = @ \cup Pins(n)]
  /\ found' = [found EXCEPT ![a] = @ \cup (Pins(n) \cap yankedSoFar)]
  /\ UNCHANGED <<left, errors>>

\* Mutant: a crate whose lookup failed is dropped without a word.
DropFailed(a) == UNCHANGED errors

RecordError(a) == errors' = [errors EXCEPT ![a] = TRUE]

\* An HTTP error, a request timeout, an unreadable line, or a version the
\* index does not list: whatever the answer said of other versions is lost.
RequestFails(a, n) ==
  /\ PoolStep(a)
  /\ n \in inflight[a]
  /\ inflight' = [inflight EXCEPT ![a] = @ \ {n}]
  /\ RecordError(a)
  /\ UNCHANGED <<left, looked, found>>

Complete(a) == left[a] = {} /\ inflight[a] = {}

Conclusion(a) ==
  IF found[a] # {} THEN [status |-> "yanked", yanked |-> found[a]]
  ELSE IF errors[a] THEN Plain("not-checked")
  ELSE Plain("clean")

\* Mutant: the deadline waits for requests that ignore their abort signal.
CutWhenIdle(a) == Running(a) /\ inflight[a] = {} /\ left[a] # {}

\* The overall deadline settles the audit whatever the requests in flight do;
\* an audit that is complete concludes before any timer runs.
MayCut(a) == Running(a) /\ ~Complete(a)

\* The evidence gathered so far is kept.
Cut(a) == [status |-> "not-checked", yanked |-> found[a]]

-----------------------------------------------------------------------------
(***************************************************************************)
(* runYankAuditWorker                                                      *)
(***************************************************************************)
WorkerStarts ==
  /\ worker = "starting"
  /\ worker' = "auditing"
  /\ file' = Plain("pending")
  /\ BeginAudit("background")
  /\ UNCHANGED <<yankedSoFar, yankedAtLaunch, foreign, config, post, outcome>>

Publish(result) ==
  /\ file' = result
  /\ worker' = "gone"
  /\ UNCHANGED <<yankedSoFar, yankedAtLaunch, foreign, config, post, poolVars, outcome>>

WorkerConcludes == Running("background") /\ Complete("background") /\ Publish(Conclusion("background"))
WorkerCut       == MayCut("background") /\ Publish(Cut("background"))
WorkerThrows    == worker \in {"starting", "auditing"} /\ Publish(Plain("not-checked"))

\* Killed, or never really started: the file stays as it is.
WorkerDies ==
  /\ worker \in {"starting", "auditing"}
  /\ worker' = "gone"
  /\ UNCHANGED <<yankedSoFar, yankedAtLaunch, foreign, config, file, post, poolVars, outcome>>

-----------------------------------------------------------------------------
(***************************************************************************)
(* post.ts and resolveYankAuditResult                                      *)
(***************************************************************************)
PostMoves == UNCHANGED <<yankedSoFar, yankedAtLaunch, foreign, config, file, worker>>

Decide(v) ==
  /\ post' = "decided"
  /\ outcome' = v
  /\ UNCHANGED poolVars

\* Mutant: whatever the file says is final.
ReadableIsFinal == file.status \in Statuses

\* The file has something post acts on without asking the index itself.
Conclusive == file.yanked # {} \/ file.status \in {"clean", "yanked"}

FileVerdict == IF file.yanked # {} THEN "yanked" ELSE file.status

PostJoins ==
  /\ post = "build" /\ post' = "join"
  /\ PostMoves
  /\ UNCHANGED <<poolVars, outcome>>

Recheck ==
  IF config
  THEN post' = "recheck" /\ BeginAudit("foreground") /\ UNCHANGED outcome
  ELSE Decide("not-checked")

\* A pending result whose deadline is ahead is waited for.
ReadFile ==
  /\ post = "join"
  /\ PostMoves
  /\ \/ Conclusive /\ Decide(FileVerdict)
     \/ /\ ~Conclusive /\ file.status = "pending"
        /\ post' = "poll"
        /\ UNCHANGED <<poolVars, outcome>>
     \/ ~Conclusive /\ Recheck

Poll ==
  /\ post = "poll" /\ file.status # "pending"
  /\ PostMoves
  /\ \/ Conclusive /\ Decide(FileVerdict)
     \/ ~Conclusive /\ Recheck

\* The deadline may pass before the last poll read what the worker published.
PollExpires ==
  /\ post = "poll"
  /\ PostMoves
  /\ Recheck

RecheckConcludes ==
  /\ Running("foreground") /\ Complete("foreground")
  /\ PostMoves
  /\ Decide(Conclusion("foreground").status)

\* Its own deadline, or the timer post races it with.
RecheckCut ==
  /\ MayCut("foreground")
  /\ PostMoves
  /\ Decide(Cut("foreground").status)

Yank(d) ==
  /\ d \notin yankedSoFar
  /\ yankedSoFar' = yankedSoFar \cup {d}
  /\ UNCHANGED <<yankedAtLaunch, foreign, config, file, worker, post, poolVars, outcome>>

PoolNext(a) == \E n \in Names : Request(a, n) \/ Answer(a, n) \/ RequestFails(a, n)

MainNext   == LaunchFails \/ SpawnFails \/ LaunchWorker
WorkerNext == WorkerStarts \/ WorkerConcludes \/ WorkerCut \/ WorkerThrows \/ WorkerDies
PostNext   == PostJoins \/ ReadFile \/ Poll \/ PollExpires \/ RecheckConcludes \/ RecheckCut

AuditDone == post = "decided" /\ UNCHANGED yankAuditVars

AuditNext ==
  \/ MainNext \/ WorkerNext \/ PostNext
  \/ \E a \in Audits : PoolNext(a)
  \/ \E d \in PinnedDeps : Yank(d)
  \/ AuditDone

AuditSpec == AuditInit /\ [][AuditNext]_yankAuditVars

\* post's steps end by its own timers; the worker and crates.io owe nothing.
FairAuditSpec == AuditSpec /\ WF_yankAuditVars(PostNext)

-----------------------------------------------------------------------------
Launched == post # "main"

Contract == INSTANCE AuditVerdict WITH
  Deps <- PinnedDeps, yanked <- yankedSoFar, launched <- Launched, seen <- yankedAtLaunch,
  verdict <- outcome

\* The audit keeps its promise to the saves, whatever the worker, the index
\* and the deadlines do: a clean verdict rests on a completed look-up of every
\* dependency made after the launch (auditDependencyYanks and its two users).
KeepsContract == Contract!Spec

\* Whatever the worker and crates.io do or fail to do, a post step that joins
\* the audit reaches a verdict.
JoinEnds == post = "join" ~> post = "decided"
=============================================================================
