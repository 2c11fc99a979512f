\* One file after another in the cache, the rest stands still; EveryChangeIsTold is
\* violated.
CONSTANTS
  Verifier = {"v1"}
  VPath = {"main", "copy"}
  VVersion = {"first", "second"}
  Alike <- Same
  FirstTree <- OnlyMain
  Ignored = {}
  Configured = {}
  Unresolved = {}
  MaxTreeChanges = 3
  MaxCachedRuns = 2
  Task = {1, 2, 3}
  Unknown = {9}
  FileEntry = {"f"}
  Declarations <- ThreeTasks
  MaxParallel = {0}
  MaxPlanEdits = 0
  Path <- ManyPaths
  Test = {"t1", "t2"}
  Guide = {"guide"}
  Foreign = {"outside"}
  Namesake <- Namesakes
  ChangePath = {"change", "umlaut"}
  FrameworkPath = {"harness", "change", "umlaut", "workflow"}
  ProfilePath = {"module", "workflow"}
  Printed <- Quotes
  Capability = {"lint"}
  Requests <- ManyRequests
  Worlds <- ManyWorlds
  Recorder = {"r1", "r2"}
  LogicalRun = {"l1"}
  Recordable <- ManyEvents
  MaxRecords = 0
  MaxTears = 0
  Change = {"c1"}
  Ghost = {}
  BoardChange = {"c1"}
  SourceFile = {}
  Intentional = {}
  Misprinted = {}
  Name = {"a"}
  MaxSegments = 1
SPECIFICATION Spec
CHECK_DEADLOCK FALSE
INVARIANTS EveryChangeIsTold
