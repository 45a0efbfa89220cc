------------------------- MODULE AncestorSelection --------------------------
(***************************************************************************)
(* The source-ancestor selection of a build cache: a job that asks for an  *)
(* automatic key looks for the entry saved by the nearest ancestor of its  *)
(* commit whose save is proven, within bounds on everything it scans.      *)
(*                                                                         *)
(* A commit is a number, older commits being smaller.  An entry is a       *)
(* record with its key, id and ref; a run is what GitHub says of the       *)
(* workflow run that saved it, with the proofs found in its log.           *)
(***************************************************************************)
EXTENDS Integers, Sequences, FiniteSets, SequencesExt

CONSTANTS Commits,         \* the commits of the repository
          Parents,         \* Parents[c]: the parents of a commit
          HistoryBound,    \* commits read from the local history (200)
          CompareBound,    \* commits between two ends of a comparison (199)
          CandidateBound,  \* entries of this identity that are ranked (200)
          ProofBound,      \* candidates whose proof is looked up (20)
          RequestBound     \* API requests of one lookup (24)

ASSUME HistoryAssumption ==
  /\ Commits \subseteq Nat
  /\ Parents \in [Commits -> SUBSET Commits]
  /\ \A c \in Commits : \A p \in Parents[c] : p < c

ASSUME BoundsAssumption ==
  {HistoryBound, CompareBound, CandidateBound, ProofBound, RequestBound} \subseteq Nat

Ancestry[c \in Commits] == {c} \cup UNION {Ancestry[p] : p \in Parents[c]}

-----------------------------------------------------------------------------
(* Distances.                                                              *)

Unknown == -1
Thrown  == -2

\* For the properties: the number of parent edges from a commit back to an
\* ancestor of it, following every path.
Edges[c \in Commits] ==
  [to \in Commits |->
     IF c = to THEN 0
     ELSE LET through == {p \in Parents[c] : to \in Ancestry[p]}
          IN  IF through = {} THEN Unknown
              ELSE 1 + (CHOOSE s \in {Edges[p][to] : p \in through} :
                          \A p \in through : s <= Edges[p][to])]

\* Mutant: a commit is as far away as there are commits it lacks.
CommitsAhead(head, nodes) ==
  [c \in nodes \cup {head} |-> Cardinality((nodes \cup {head}) \ Ancestry[c])]

\* Breadth first over parent edges, through the given commits only.
dagDistances(head, nodes) ==
  LET reached[k \in 0 .. Cardinality(nodes)] ==
        IF k = 0 THEN {head}
        ELSE UNION {Parents[c] \cap nodes : c \in reached[k - 1]}
      at(c) == {k \in DOMAIN reached : c \in reached[k]}
  IN  [c \in nodes \cup {head} |->
         IF at(c) = {} THEN Unknown ELSE CHOOSE k \in at(c) : \A l \in at(c) : k <= l]

\* The newest commits reachable from head, as many as the checkout holds.
RevList(head, depth) ==
  {c \in Ancestry[head] : Cardinality({d \in Ancestry[head] : d > c}) < depth}

\* A shallow checkout is deepened once, when a candidate is missing from it;
\* a fetch that fails leaves what is there.
LocalHistory(head, candidate, shallow, fetches) ==
  IF shallow /\ (candidate = head \/ ~fetches) THEN RevList(head, 1)
  ELSE RevList(head, HistoryBound)

LocalDistance(head, candidate, shallow, fetches) ==
  LET nodes == LocalHistory(head, candidate, shallow, fetches)
  IN  IF candidate \in nodes THEN dagDistances(head, nodes)[candidate] ELSE Unknown

\* A candidate the local history lacks is compared: divergence is no
\* distance, a comparison past the bound ends the whole lookup.
CompareDistance(head, candidate) ==
  LET ahead == Ancestry[head] \ Ancestry[candidate]
  IN  IF candidate \notin Ancestry[head] THEN Unknown
      ELSE IF Cardinality(ahead) > CompareBound THEN Thrown
      ELSE dagDistances(head, ahead \cup {candidate})[candidate]

Measured(c, head, shallow, fetches) ==
  LET local == LocalDistance(head, c.key.sha, shallow, fetches)
  IN  [entry |-> c.entry, key |-> c.key, compared |-> local = Unknown,
       distance |-> IF local = Unknown THEN CompareDistance(head, c.key.sha) ELSE local]

-----------------------------------------------------------------------------
(* Keys.  An identity is a sequence of tagged hashes; the key of a save    *)
(* adds the commit, the run that saves and the pull request, if any.       *)

AncestorLayer == <<<<"layer", "ancestor">>>>

ancestorKeyPrefix(identity) == AncestorLayer \o identity
ancestorFamilyPrefix(identity) == AncestorLayer \o <<Head(identity)>>

makeAncestorKey(identity, sha, run, ref) ==
  ancestorKeyPrefix(identity)
    \o <<<<"source", sha>>, <<"run", run>>>>
    \o (IF ref = "pull" THEN <<<<"pr", ref>>>> ELSE <<>>)

\* The parts of a key this module made for the identity, or no record.
parseAncestorKey(identity, key) ==
  LET n == Len(ancestorKeyPrefix(identity))
  IN  IF IsPrefix(ancestorKeyPrefix(identity), key) /\ Len(key) >= n + 2
         /\ key[n + 1][1] = "source"
      THEN {[sha |-> key[n + 1][2], run |-> key[n + 2][2], pull |-> Len(key) = n + 3]}
      ELSE {}

-----------------------------------------------------------------------------
(* Trust.  A save proves itself by the line its job logged, in a run that  *)
(* completed with success and that the workflow reviewed beforehand.       *)

\* The runs of the list that succeeded.
trustedWriterForRun(writers, run, runs) ==
  run \in writers /\ run \in DOMAIN runs /\ runs[run].conclusion = "success"

hasCleanSaveProof(entry, sha, run, runs) ==
  \E proof \in runs[run].proofs :
    /\ proof.id = entry.id
    /\ proof.key = entry.key
    /\ proof.ref = entry.ref
    /\ proof.sha = sha

\* The commit the run was for must be the one the key names: only then are the
\* jobs of the run and the log of the one that matches asked for.
Reviewed(key, writers, runs) ==
  trustedWriterForRun(writers, key.run, runs) /\ runs[key.run].sha = key.sha

cleanSave(entry, key, writers, runs) ==
  Reviewed(key, writers, runs) /\ hasCleanSaveProof(entry, key.sha, key.run, runs)

-----------------------------------------------------------------------------
(* Selection.                                                              *)

\* Listed entries of this identity, visible in these refs, with their keys;
\* an entry of a pull request must say so in its key.
Candidates(identity, refs, entries) ==
  UNION {{[entry |-> e, key |-> k] : k \in parseAncestorKey(identity, e.key)} :
           e \in {x \in entries : x.ref \in refs}}

Eligible(identity, refs, entries) ==
  {c \in Candidates(identity, refs, entries) : c.key.pull = (c.entry.ref = "pull")}

Nearer(a, b) ==
  \/ a.distance < b.distance
  \/ a.distance = b.distance /\ a.entry.id > b.entry.id

\* The candidates at a known distance.
Ranked(measured) == {c \in measured : c.distance >= 0}

\* Nearest first, then newest: so many are asked for their proof.
Tried(ranked) ==
  {c \in ranked : Cardinality({d \in ranked : Nearer(d, c)}) < ProofBound}

\* The first one proven, if any is.
FirstClean(tried, writers, runs) ==
  LET clean == {c \in tried : cleanSave(c.entry, c.key, writers, runs)}
  IN  {c \in clean : \A d \in clean : d = c \/ Nearer(c, d)}

\* No proof is looked up after one that holds.
LookedUp(tried, first) == {c \in tried : \A d \in first : ~Nearer(d, c)}

\* One page per ref, one comparison per candidate the history lacks, and for a
\* proof the run, then its jobs and the log.
Requests(refs, measured, lookedUp, writers, runs) ==
  Cardinality(refs) + Cardinality({c \in measured : c.compared})
    + Cardinality(lookedUp)
    + 2 * Cardinality({c \in lookedUp : Reviewed(c.key, writers, runs)})

NoDonor(reason) == [found |-> FALSE, reason |-> reason]

\* Any bound that is passed and any error leaves the restore as it was.
Donor(refs, measured, tried, first, writers, runs) ==
  IF \/ Cardinality(measured) > CandidateBound
     \/ \E c \in measured : c.distance = Thrown
     \/ Requests(refs, measured, LookedUp(tried, first), writers, runs) > RequestBound
  THEN NoDonor("legacy-fallback")
  ELSE IF first = {} THEN NoDonor("no-proven-clean-ancestor")
  ELSE LET donor == CHOOSE c \in first : TRUE
       IN  [found |-> TRUE, reason |-> "nearest-clean-ancestor",
            key |-> donor.entry.key, id |-> donor.entry.id, distance |-> donor.distance]

DonorAmong(refs, measured, tried, writers, runs) ==
  Donor(refs, measured, tried, FirstClean(tried, writers, runs), writers, runs)

selectAncestorCache(head, identity, refs, entries, writers, runs, shallow, fetches) ==
  LET measured == {Measured(c, head, shallow, fetches) : c \in Eligible(identity, refs, entries)}
  IN  DonorAmong(refs, measured, Tried(Ranked(measured)), writers, runs)

=============================================================================
