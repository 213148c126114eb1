SPECIFICATION Spec
CONSTANTS
  Pids = {1}
  Images = {im1}
  Statuses = {"running"}
  Disturbances = {"detach", "session", "work"}
  Qualities = {"full"}
  Tokens = {}
  ActIds = {a1, a2}
  Policies <- AutomaticPolicies
  GlobalMode = "enforce"
  StrongWindow = 1
  ActivityCadence = 1
  PolicyCadence = 1
  ApprovalLifetime = 1
  MaxApprovals = 1
  MaxTime = 5
  MaxGen = 2
  MaxWork = 1
  MaxResets = 1
  MaxMoves = 3
  Lost = Lost
  None = None
SYMMETRY Sym
INVARIANT AutomaticCooldown
