\* No timeout: three tasks, two threads, every kind of ending.
CONSTANTS
  NumTasks = 3
  MaxParallel = 2
  HasTimeout = FALSE
  HasCleanup = FALSE
  TimeoutCaught = TRUE
  Outcomes <- AllEndings
SPECIFICATION FairDispatchSpec
INVARIANTS JoinGate
PROPERTIES JoinEnds
