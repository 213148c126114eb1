SPECIFICATION Spec
CONSTANTS
  Inodes = {1, 2}
  Tokens = {1, 2, 3}
  ActIds = {1, 2, 3}
  Kinds = {"cleanup", "restore", "purge"}
  Disturbances = {}
  Faults = FALSE
  Authority = "recommend"
  MinStable = 1
  Grace = 1
  ApprovalLifetime = 2
  PlanLifetime = 1
  MaxApprovals = 3
  MaxLag = 0
  MaxTime = 3
  MaxEval = 2
  MaxMoves = 0
  MaxResets = 0
  None = None
  Lost = Lost
INVARIANT PurgedMeansUnlinked
