SPECIFICATION Spec
CONSTANTS
  Daemons = {d1, d2}
  Builds = {1, 2}
  MaxStarts = 3
  MaxFaults = 2
  NoDaemon = NoDaemon
  LogLimit = 4
  RecordSizes = {1, 2, 5}
  OldSizes = {0, 5}
  MaxStream = 9
  MaxLogFaults = 2
  RetWorktrees = {1, 2}
  RetWindows <- MCRetWindows
  RetHour = 1
  RetCooldown = 3
  RetInventory = 1
  RetMaxTime = 4
  RetMaxSeq = 4
  InitPid = 1
  NoPid = 0
  MaxTreeDepth = 2
  SelfPid = 2
SYMMETRY HostSymmetry
INVARIANTS
  OpenedIsMigrated RecoveryAudited ExclusiveStarts
  LogBounded NewestKept
  DecisionsKept TracesKept
  AncestryAgrees ConfidenceSound ProtectionsAgree StartupCeiling
PROPERTY OnlyCheckedFilesChange
CHECK_DEADLOCK FALSE
