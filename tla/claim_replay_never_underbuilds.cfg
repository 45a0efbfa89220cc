SPECIFICATION Spec
CONSTANTS
  Commits <- MCCommits
  Parents <- MCParents
  HistoryBound = 3
  CompareBound = 3
  CandidateBound = 2
  ProofBound = 2
  RequestBound = 7
  Runs = 3
  Workflows <- KeptWorkflow
  Content <- MCContent
  Lock <- MCLock
  CommittedAt <- MCCommittedAt
  MaxFaults = 0
INVARIANTS
  ReplayNeverUnderbuilds
