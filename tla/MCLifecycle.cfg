\* Two agents, any interleaving, one kill.
CONSTANTS
  a1 = a1
  a2 = a2
  Agent = {a1, a2}
  MaxEvents = 3
  MaxClock = 1
  MaxCrashes = 1
SYMMETRY AgentSymmetry
SPECIFICATION Spec
CHECK_DEADLOCK FALSE
INVARIANTS SpecNeverAhead ArchivedAfterReview NoFalseAlarm SerialIdsUnique
PROPERTIES SerialAdvance PlainCrashDetected
