\* One caller, one kill; EveryDecisionAudited is violated.
CONSTANTS
  c1 = c1
  c2 = c2
  Caller = {c1}
  MaxCalls = 3
  MaxCrashes = 1
SPECIFICATION Spec
CHECK_DEADLOCK FALSE
INVARIANTS EveryDecisionAudited
