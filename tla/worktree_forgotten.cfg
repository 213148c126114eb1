SPECIFICATION Spec
CONSTANTS
  MaxPath = 1
  Tokens = {1, 2}
  ActIds = {1, 2}
  Kinds = {"retire"}
  Disturbances = {"fault"}
  Sources = {"root"}
  StaleAfter = 1
  ScanInterval = 1
  RetireGrace = 1
  ApprovalLifetime = 1
  PlanLifetime = 1
  MaxApprovals = 2
  MaxLag = 1
  MaxTime = 4
  MaxMoves = 1
  None = None
  Lost = Lost
INVARIANT RetirementDurable
