\* One thread, two tasks, no timeout; MeasuredWithinPool is violated.
CONSTANTS
  NumTasks = 2
  MaxParallel = 1
  HasTimeout = FALSE
  HasCleanup = FALSE
  TimeoutCaught = TRUE
  Outcomes <- GoodEndings
SPECIFICATION Spec
INVARIANT MeasuredWithinPool
