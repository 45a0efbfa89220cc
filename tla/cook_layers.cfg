SPECIFICATION Spec
CONSTANTS
  j1 = j1
  j2 = j2
  c1 = c1
  c2 = c2
  NoJob = NoJob
  NoSha = NoSha
  Jobs <- TwoJobs
  Shas <- Commits
  ParentSha <- Parents
  Suffixes <- OneSuffix
  Plans <- MixedPlans
  Stocked <- Stock
  Evictable <- EvictSome
  Mortal <- TwoJobs
SYMMETRY JobSymmetry
CHECK_DEADLOCK FALSE
INVARIANTS
  TypeOK
  ReservationsAccounted
  SkippedCookIsCovered
  FailsAsAsked
PROPERTIES
  ScopedSavesAreAsked
