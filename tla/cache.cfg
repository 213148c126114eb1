SPECIFICATION Spec
CONSTANTS
  Inodes = {1, 2}
  Tokens = {1, 2}
  ActIds = {1, 2}
  Kinds = {"cleanup", "restore", "purge"}
  Disturbances = {"write", "create", "remove", "tamper", "session", "circuit"}
  Faults = TRUE
  Authority = "recommend"
  MinStable = 1
  Grace = 1
  ApprovalLifetime = 1
  PlanLifetime = 1
  MaxApprovals = 2
  MaxLag = 0
  MaxTime = 3
  MaxEval = 2
  MaxMoves = 1
  MaxResets = 1
  None = None
  Lost = Lost
INVARIANTS TypeOK CacheLedger StableBeforeQuarantine StrandedIsTraceable
PROPERTY CircuitStopsMutations
