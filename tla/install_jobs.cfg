SPECIFICATION Spec
CONSTANTS
  j1 = j1
  j2 = j2
  j3 = j3
  j4 = j4
  kept = kept
  fresh = fresh
  c1 = c1
  c2 = c2
  old = old
  new = new
  ref = ref
  local = local
  Off = Off
  Absent = Absent
  NoEntry = NoEntry
  Stub = Stub
  Jobs <- FourJobs
  Machines <- TwoMachines
  MachineOf <- KeptButLast
  Persistent <- Kept
  MiniUsers <- FourJobs
  Wants <- SplitWants
  Releases <- TwoReleases
  Number <- Numbers
  Archived <- OnlyOld
  Wheeled <- OnlyNew
  Ships <- ShipsAll
  ChefKnown <- OnlyNew
  Sources <- RefAndLocal
  Commits <- TwoCommits
  ReportedBy <- Reports
SYMMETRY JobSymmetry
INVARIANTS
  TypeOK
  RunsWhatWasAsked
  ReleaseIsWhole
