SPECIFICATION Spec
CONSTANTS
  Pids = {1}
  Images = {im1}
  Statuses = {"running"}
  Disturbances = {"detach", "session"}
  Qualities = {"full"}
  Tokens = {t1}
  ActIds = {a1, a2}
  Policies <- ManualPolicies
  GlobalMode = "recommend"
  StrongWindow = 1
  ActivityCadence = 1
  PolicyCadence = 1
  ApprovalLifetime = 1
  MaxApprovals = 1
  MaxTime = 3
  MaxGen = 2
  MaxWork = 1
  MaxResets = 0
  MaxMoves = 3
  Lost = Lost
  None = None
SYMMETRY Sym
INVARIANT LiveSessionNeverSignalled
