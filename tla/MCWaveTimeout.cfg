\* A timeout at any moment, a cleanup callback that may do anything.
CONSTANTS
  NumTasks = 3
  MaxParallel = 2
  HasTimeout = TRUE
  HasCleanup = TRUE
  TimeoutCaught = TRUE
  Outcomes <- AllEndings
SPECIFICATION FairSpec
INVARIANTS CountsRunning StatusEarned RefusalNamesOrphans
PROPERTIES ClosedIsFrozen GateEnds ImplementsWaveJoin
