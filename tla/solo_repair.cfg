SPECIFICATION Spec
CONSTANTS
  j1 = j1
  j2 = j2
  main = main
  topic = topic
  current = current
  older = older
  Earlier = Earlier
  Nothing = Nothing
  Jobs <- TwoJobs
  Refs <- TwoRefs
  DefaultBranch = main
  Keys <- TwoKeys
  Exact = current
  Stocked <- ThreeSlots
  Evictable <- MainSlot
  Mortal <- TwoJobs
SYMMETRY JobSymmetry
INVARIANTS
  TypeOK
  PoisonGoneOrReported
  SurvivingPoisonFails
  ReplacementsWhole
