SPECIFICATION FairSpec
CONSTANTS
  Pids = {1}
  Images = {im1}
  Statuses = {"running"}
  Disturbances = {"detach", "session"}
  Qualities = {"full"}
  Tokens = {t1, t2}
  ActIds = {a1, a2}
  Policies <- ManualPolicies
  GlobalMode = "recommend"
  StrongWindow = 1
  ActivityCadence = 1
  PolicyCadence = 1
  ApprovalLifetime = 1
  MaxApprovals = 2
  MaxTime = 3
  MaxGen = 2
  MaxWork = 1
  MaxResets = 0
  MaxMoves = 2
  Lost = Lost
  None = None
PROPERTY ApplyDecided
