SPECIFICATION Spec
CONSTANTS
  MaxPath = 1
  Tokens = {1, 2}
  ActIds = {1, 2}
  Kinds = {"retire", "restore", "purge"}
  Disturbances = {"commit", "dirty", "use", "delete", "occupy", "touch", "circuit", "restart", "fault"}
  Sources = {"root", "session"}
  StaleAfter = 2
  ScanInterval = 1
  RetireGrace = 1
  ApprovalLifetime = 1
  PlanLifetime = 1
  MaxApprovals = 2
  MaxLag = 1
  MaxTime = 5
  MaxMoves = 2
  None = None
  Lost = Lost
INVARIANTS TypeOK WorktreeLedger InactiveBeforeRetire GraceBeforeRemoval CheckoutTraceable RemovedMeansGone
PROPERTY WorktreeKeepsPromise
