\* Two agents, nobody is killed; NeverTakenBack is violated.
CONSTANTS
  a1 = a1
  a2 = a2
  Agent = {a1, a2}
  MaxEvents = 3
  MaxClock = 1
  MaxCrashes = 0
SYMMETRY AgentSymmetry
SPECIFICATION Spec
CHECK_DEADLOCK FALSE
PROPERTIES NeverTakenBack
