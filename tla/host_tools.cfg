SPECIFICATION Spec
CONSTANTS
  j1 = j1
  j2 = j2
  j3 = j3
  h1 = h1
  h2 = h2
  cross = cross
  plain = plain
  rolling = rolling
  pinned = pinned
  stable = stable
  wasm = wasm
  llvm = llvm
  Runner = Runner
  Missing = Missing
  Damaged = Damaged
  NoEntry = NoEntry
  NoLink = NoLink
  Unresolved = Unresolved
  Jobs <- ThreeJobs
  Homes <- TwoHomes
  HomeOf <- PlacedJobs
  Requests <- ThreeRequests
  CrossRequests <- CrossLane
  ChannelOf <- Asks
  Extras <- OneExtra
  ExtrasOf <- AsksExtras
  Channels <- TwoChannels
  Rolling <- OnlyStable
  Releases <- TwoReleases
  Bundles <- OneBundle
  Wants <- MixedWants
  Stocked <- OneStocked
  SoloJobs <- SecondUse
  Image <- StableImage
  Backups <- OneBackup
  Hosts <- HostKinds
INVARIANTS
  TypeOK
  BundlesUsable
PROPERTIES
  ToolchainIsAsked
  ToolchainStays
