SPECIFICATION Spec
CONSTANTS
  Pids = {1}
  Images = {im1, im2}
  Statuses = {"running", "stopped", "zombie"}
  Disturbances = {"work", "resource", "image", "status", "protect", "detach", "session"}
  Qualities = {"full", "partial"}
  Tokens = {t1}
  ActIds = {a1}
  Policies <- MixedPolicies
  GlobalMode = "recommend"
  StrongWindow = 1
  ActivityCadence = 1
  PolicyCadence = 1
  ApprovalLifetime = 1
  MaxApprovals = 1
  MaxTime = 3
  MaxGen = 1
  MaxWork = 1
  MaxResets = 0
  MaxMoves = 3
  Lost = Lost
  None = None
INVARIANT QuietBeforeSignal
