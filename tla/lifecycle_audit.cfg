SPECIFICATION Spec
CONSTANTS
  j1 = j1
  j2 = j2
  l1 = l1
  l2 = l2
  c1 = c1
  c2 = c2
  NoKey = NoKey
  NoEntry = NoEntry
  Earlier = Earlier
  Jobs <- TwoJobs
  Locks <- TwoLocks
  Crates <- OneCrate
  LockDeps <- DropDeps
  Layers <- BuildLayer
  Wired <- NoJobs
  Uploaders <- TwoJobs
  RegistryFormat = "soldr-v2"
  Evictable <- NoKeys
  Mortal <- NoJobs
SYMMETRY JobSymmetry
INVARIANTS
  TypeOK
  AuditBeforeUpload
  YankedLockNeverUploads
  RepairRemovesRestored
