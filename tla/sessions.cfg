CONSTANTS InitPid = 1
NoPid = 0
MaxTreeDepth = 2
Pids = {2, 3}
Natives = {n1}
None = None
NoNative = "-"
MaxTime = 2
MaxSpawns = 3
MaxMoves = 2
Faults = {"hidden","fail","restart","exit","exec","task"}
RetainProcesses = 1
RetainSessions = 2
Grace = 1
SPECIFICATION Spec
INVARIANTS StoreAgrees RootsExact OwnershipSurvives InheritedNotEligible
PROPERTIES EndsWithKnownRoot
CHECK_DEADLOCK FALSE
