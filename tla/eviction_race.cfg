SPECIFICATION CleanupSpec
CONSTANTS
  e1 = e1
  e2 = e2
  k1 = k1
  k2 = k2
  base = base
  big = big
  mid = mid
  small = small
  new = new
  Entries <- Five
  Preset <- Old
  Evictors <- TwoPasses
  Size <- Mixed
  Foundation <- OldOnly
  Ages <- HalfAndSix
  TriggerGb = 7
  TargetGb = 5
  MinAge = 36
  Pool = 2
  Cleaners <- MCCleaners
  Teams <- MCTeams
  Run <- MCRun
  Generation <- MCGeneration
  KeyOf <- MCKeyOf
  ListedAt <- MCListedAt
  PageSize = 2
  Id <- MCId
  Attempts = 2
SYMMETRY PassSymmetry
INVARIANTS
  CleanupTypeOK
  SparesProtected
  ReachesTarget
  GreenMeansSwept
