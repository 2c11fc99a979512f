\* Two callers, any interleaving, one kill.
CONSTANTS
  c1 = c1
  c2 = c2
  Caller = {c1, c2}
  MaxCalls = 4
  MaxCrashes = 1
SYMMETRY CallerSymmetry
SPECIFICATION Spec
CHECK_DEADLOCK FALSE
INVARIANTS FollowsManifests FixIsReviewed EveryStepEnded AuditNeverInvents LogsAgree
PROPERTIES EndingIsFinal
