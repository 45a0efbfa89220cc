SPECIFICATION Spec
CONSTANTS
  r1 = r1
  r2 = r2
  r3 = r3
  job = job
  main = main
  topic = topic
  c1 = c1
  c2 = c2
  i1 = i1
  i2 = i2
  Build = build
  NoRun = NoRun
  Runs <- ThreeRuns
  Scope <- OneJob
  Refs <- TwoRefs
  Default = main
  Ref <- Refs3
  Publishers <- Trusted
  Mode <- Modes
  Checks <- TwoChecks
  Inputs <- TwoInputs
  Programs <- AllPrograms
  Checkouts <- Repeats
  Mortal <- OnlyOne
  Passing <- Passes
  Unkeyable <- NoKeyOf
  Stale <- Left
  Kept = 2
INVARIANTS
  TypeOK
  LazyIsProved
  EarnedIsLazy
  JanitorSparesNewest
