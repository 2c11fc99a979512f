\* One agent, one kill; CrashDetected is violated.
CONSTANTS
  a1 = a1
  a2 = a2
  Agent = {a1}
  MaxEvents = 3
  MaxClock = 0
  MaxCrashes = 1
SPECIFICATION Spec
CHECK_DEADLOCK FALSE
PROPERTIES CrashDetected
