-------------------------- MODULE RunScopedCleanup --------------------------
(***************************************************************************)
(* scripts/delete-run-scoped-caches.mjs beside the eviction passes of other*)
(* jobs.  The last job of a validation workflow deletes the entries its run*)
(* saved: it lists the repository's entries page by page, deletes those    *)
(* whose key names its run, and lists them again to verify.  The pages are *)
(* of the list as it is when each is read, whoever deletes in between.     *)
(*                                                                         *)
(* A generation is what the jobs of the run put into their cache keys, a   *)
(* sequence that ends with the attempt: <<workflow, run, attempt>>, or     *)
(* <<"consumer", cache key, run, attempt>> for a reusable workflow.        *)
(***************************************************************************)
EXTENDS CacheEviction, Sequences, SequencesExt

CONSTANTS
  Cleaners,   \* cleanup jobs
  Teams,      \* who runs side by side: [evictors, cleaners, ages]
  Run,        \* GITHUB_RUN_ID of a cleanup job
  Generation, \* CACHE_GENERATION of a cleanup job
  KeyOf,      \* the key of an entry
  ListedAt,   \* where an entry comes in the order of the list
  Attempts    \* VERIFY_ATTEMPTS

ASSUME CleanupAssumption ==
  /\ Teams \subseteq [evictors : SUBSET Evictors, cleaners : SUBSET Cleaners,
                      ages : SUBSET Ages]
  /\ DOMAIN Generation = Cleaners /\ DOMAIN Run = Cleaners /\ DOMAIN KeyOf = Entries
  /\ \A k \in Cleaners : Generation[k] \in Seq(ToSet(Generation[k])) /\ Generation[k] # <<>>
  /\ \A c \in Entries : KeyOf[c] \in Seq(ToSet(KeyOf[c]))
  /\ ListedAt \in [Entries -> Nat] /\ IsInjective(ListedAt)
  /\ Attempts \in Nat \ {0}

VARIABLES
  step,     \* where the script is
  page,     \* the page it reads next
  listing,  \* what the pages it has read of this list hold
  matched,  \* entries it is still to delete
  tries,    \* lists left to verify with
  erred,    \* failed: a DELETE was answered with another error
  torn,     \* an entry went away between two pages of the list it reads
  swept,    \* entries its calls deleted
  outcome   \* how it ended

listVars == <<page, listing>>
cleanVars == <<step, listVars, matched, tries, erred, torn, swept, outcome>>
all == <<vars, cleanVars>>

-----------------------------------------------------------------------------
\* A key that holds the parts of another, in order and side by side.
Names(key, part) == \E i \in DOMAIN key : IsPrefix(part, SubSeq(key, i, Len(key)))

\* A generation that does not hold this run's id before the attempt is refused.
Refused(k) == Run[k] \notin ToSet(Front(Generation[k]))

\* Mutant: everything up to the workflow's name matches.
WorkflowPrefix(k) == <<Generation[k][1]>>

\* Only the attempt is stripped.
deriveNamespacePrefix(k) == Front(Generation[k])

matchesNamespace(k, c) == Names(KeyOf[c], deriveNamespacePrefix(k))

Namespace(k) == {c \in Entries : ~Refused(k) /\ matchesNamespace(k, c)}

\* The cleanup job needs every job that saves under its generation.
ASSUME LastJobAssumption == \A k \in Cleaners : Namespace(k) \subseteq Preset

\* The position of an entry in the list as it is now.
Place(c) == Cardinality({d \in store : ListedAt[d] <= ListedAt[c]})

\* A page of that list, of API_PAGE_SIZE entries like the passes' pages.
PageOf(p) == {c \in store : OnPage(Place(c), p)}

Move(k, to) == step' = [step EXCEPT ![k] = to]
Ends(k, how) == Move(k, "ended") /\ outcome' = [outcome EXCEPT ![k] = how]

\* What the list that ends a cleanup was like stays on record.
Restart(k) ==
  /\ page' = [page EXCEPT ![k] = 1]
  /\ listing' = [listing EXCEPT ![k] = {}]
  /\ torn' = [torn EXCEPT ![k] = @ /\ outcome'[k] = "green"]

-----------------------------------------------------------------------------
(***************************************************************************)
(* deleteRunScopedCaches.  A generation it refuses ends it before the list.*)
(***************************************************************************)
ReadPage(k) ==
  /\ step[k] \in {"list", "verify"} /\ ~LastPage(page[k])
  /\ page' = [page EXCEPT ![k] = @ + 1]
  /\ listing' = [listing EXCEPT ![k] = @ \cup PageOf(page[k])]
  /\ UNCHANGED <<vars, step, matched, tries, erred, torn, swept, outcome>>

\* What the list that ends now holds of the run.
Found(k) == {c \in listing[k] \cup PageOf(page[k]) : matchesNamespace(k, c)}

\* Nothing matched: nothing to delete, and nothing is verified.
ListEnds(k) ==
  /\ step[k] = "list" /\ LastPage(page[k])
  /\ matched' = [matched EXCEPT ![k] = Found(k)]
  /\ IF Found(k) = {} THEN Ends(k, "green") ELSE Move(k, "delete") /\ UNCHANGED outcome
  /\ Restart(k)
  /\ UNCHANGED <<vars, tries, erred, swept>>

\* A first list that is refused ends in a warning, any other failed list red.
ListBreaks(k) ==
  /\ step[k] \in {"list", "verify"}
  /\ \E status \in {"permission", "error"} :
       Ends(k, IF status = "permission" /\ step[k] = "list" THEN "warned" ELSE "red")
  /\ Restart(k)
  /\ UNCHANGED <<vars, matched, tries, erred, swept>>

\* Somebody's list is between two of its pages.
Tears == torn' = [k \in Cleaners |-> torn[k] \/ (step[k] \in {"list", "verify"} /\ page[k] > 1)]

\* One call at a time.  A call that succeeds may leave the entry behind; 404
\* is as good as deleted; the first refusal stops the script.
DeleteOne(k, c) ==
  /\ step[k] = "delete" /\ c \in matched[k]
  /\ \E status \in {"ok", "lingers", "gone", "permission", "error"} :
       /\ status \in {"ok", "lingers"} => c \in store
       /\ status = "gone" => c \notin store
       /\ IF status = "ok"
          THEN /\ Leaves(c) /\ Tears
               /\ swept' = [swept EXCEPT ![k] = @ \cup {c}]
          ELSE UNCHANGED <<store, gone, torn, swept>>
       /\ erred' = [erred EXCEPT ![k] = @ \/ status = "error"]
       /\ IF status = "permission"
          THEN Ends(k, "warned") /\ matched' = [matched EXCEPT ![k] = {}]
          ELSE /\ matched' = [matched EXCEPT ![k] = @ \ {c}]
               /\ UNCHANGED <<step, outcome>>
  /\ UNCHANGED <<age, reported, pc, usage, known, pageVars, planned, callVars, removed, listVars, tries>>

\* Mutant: what the calls answered is taken for what happened.
EndsWithoutVerifying(k) ==
  /\ step[k] = "delete" /\ matched[k] = {}
  /\ Ends(k, IF erred[k] THEN "red" ELSE "green")
  /\ UNCHANGED <<vars, listVars, matched, tries, erred, torn, swept>>

\* Failed calls end red, otherwise the list is read again.
DeletesEnd(k) ==
  /\ step[k] = "delete" /\ matched[k] = {}
  /\ IF erred[k] THEN Ends(k, "red") ELSE Move(k, "verify") /\ UNCHANGED outcome
  /\ UNCHANGED <<vars, listVars, matched, tries, erred, torn, swept>>

\* Mutant: it verifies for as long as something is left.
VerifiesOnAndOn(k) ==
  /\ step[k] = "verify" /\ LastPage(page[k])
  /\ tries' = [tries EXCEPT ![k] = IF @ = 0 THEN Attempts + 1 ELSE @ - 1]
  /\ IF Found(k) = {} THEN Ends(k, "green") ELSE UNCHANGED <<step, outcome>>
  /\ Restart(k)
  /\ UNCHANGED <<vars, matched, erred, swept>>

VerifyEnds(k) ==
  /\ step[k] = "verify" /\ LastPage(page[k])
  /\ tries' = [tries EXCEPT ![k] = @ - 1]
  /\ IF Found(k) = {} THEN Ends(k, "green")
     ELSE IF tries[k] = 1 THEN Ends(k, "red")
     ELSE UNCHANGED <<step, outcome>>
  /\ Restart(k)
  /\ UNCHANGED <<vars, matched, erred, swept>>

\* GitHub catches up with a deletion that left its entry behind.
Settles(k) ==
  /\ step[k] = "verify"
  /\ \E c \in Namespace(k) \cap store :
       Leaves(c) /\ swept' = [swept EXCEPT ![k] = @ \cup {c}]
  /\ Tears
  /\ UNCHANGED <<age, reported, pc, usage, known, pageVars, planned, callVars, removed,
                 step, listVars, matched, tries, erred, outcome>>

CleanStep(k) ==
  \/ ReadPage(k) \/ ListEnds(k) \/ ListBreaks(k)
  \/ \E c \in Entries : DeleteOne(k, c)
  \/ DeletesEnd(k) \/ VerifyEnds(k) \/ Settles(k)

\* A step of the eviction passes, of the saves and of GitHub's report.
Beside ==
  /\ \/ \E e \in Evictors : PassNext(e)
     \/ \E c \in Entries : SaveEntry(c)
     \/ RefreshUsage
  /\ IF store' \subseteq store /\ store' # store THEN Tears ELSE UNCHANGED torn
  /\ UNCHANGED <<step, listVars, matched, tries, erred, swept, outcome>>

CleanupInit ==
  \E team \in Teams :
    /\ InitFor(team.evictors, team.ages)
    /\ step = [k \in Cleaners |->
                 IF k \in team.cleaners /\ ~Refused(k) THEN "list" ELSE "ended"]
    /\ page = [k \in Cleaners |-> 1]
    /\ listing = [k \in Cleaners |-> {}]
    /\ matched = [k \in Cleaners |-> {}]
    /\ tries = [k \in Cleaners |-> Attempts]
    /\ erred = [k \in Cleaners |-> FALSE]
    /\ torn = [k \in Cleaners |-> FALSE]
    /\ swept = [k \in Cleaners |-> {}]
    /\ outcome = [k \in Cleaners |-> IF Refused(k) THEN "red" ELSE "none"]

AllDone ==
  /\ \A e \in Evictors : pc[e] = "done"
  /\ \A k \in Cleaners : step[k] = "ended"
  /\ UNCHANGED all

CleanupNext == Beside \/ (\E k \in Cleaners : CleanStep(k)) \/ AllDone

CleanupSpec == CleanupInit /\ [][CleanupNext]_all

-----------------------------------------------------------------------------
\* The types of the variables, those of the eviction passes included.
CleanupTypeOK ==
  /\ TypeOK
  /\ step \in [Cleaners -> {"list", "delete", "verify", "ended"}]
  /\ page \in [Cleaners -> Nat \ {0}] /\ tries \in [Cleaners -> 0 .. Attempts]
  /\ listing \in [Cleaners -> SUBSET Entries] /\ matched \in [Cleaners -> SUBSET Entries]
  /\ erred \in [Cleaners -> BOOLEAN] /\ torn \in [Cleaners -> BOOLEAN]
  /\ swept \in [Cleaners -> SUBSET Entries]
  /\ outcome \in [Cleaners -> {"none", "green", "warned", "red"}]

\* A cleanup that ends green left nothing of its run, however its calls were
\* answered and whoever deleted beside it, unless entries went away between
\* two pages of the list it ended with; and it deleted nothing but entries
\* whose key holds every part of its generation but the attempt, its own run's
\* id among them (delete-run-scoped-caches.mjs:26).
GreenMeansSwept ==
  \A k \in Cleaners :
    /\ outcome[k] = "green" /\ ~torn[k] => Namespace(k) \cap store = {}
    /\ \A c \in swept[k] :
         /\ Run[k] \in ToSet(KeyOf[c])
         /\ \A i \in 1 .. Len(Generation[k]) - 1 : Generation[k][i] \in ToSet(KeyOf[c])
=============================================================================
