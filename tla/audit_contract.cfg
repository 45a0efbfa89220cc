SPECIFICATION FairAuditSpec
CONSTANTS
  n1 = n1
  n2 = n2
  v1 = v1
  v2 = v2
  Versions <- TwoVersions
  Names <- TwoNames
  Pinned <- TwoAndOne
  Pool = 2
INVARIANTS
  AuditTypeOK
PROPERTIES
  KeepsContract
  JoinEnds
