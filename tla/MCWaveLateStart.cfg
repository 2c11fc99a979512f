\* One task, a timeout at any moment; JoinGate is violated.
CONSTANTS
  NumTasks = 1
  MaxParallel = 1
  HasTimeout = TRUE
  HasCleanup = FALSE
  TimeoutCaught = TRUE
  Outcomes <- GoodEndings
SPECIFICATION Spec
INVARIANT JoinGate
