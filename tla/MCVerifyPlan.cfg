\* One run of cc-verify after another on two files; three tasks; thirteen paths; two recorders;
\* three changes to be ordered, two on the board; scopes of two segments.
CONSTANTS
  Verifier = {"v1"}
  VPath = {"main", "umlaut"}
  VVersion = {"first", "second"}
  Alike <- Same
  FirstTree <- OnlyMain
  Ignored = {}
  Configured = {}
  Unresolved = {"umlaut"}
  MaxTreeChanges = 3
  MaxCachedRuns = 2
  Task = {1, 2, 3}
  Unknown = {9}
  FileEntry = {"f"}
  Declarations <- ThreeTasks
  MaxParallel = {0, 1, 2}
  MaxPlanEdits = 1
  Path <- ManyPaths
  Test = {"t1", "t2"}
  Guide = {"guide"}
  Foreign = {"outside"}
  Namesake <- Namesakes
  ChangePath = {"change", "umlaut"}
  FrameworkPath = {"harness", "change", "umlaut", "workflow"}
  ProfilePath = {"module", "workflow"}
  Printed <- Quotes
  Capability = {"lint"}
  Requests <- ManyRequests
  Worlds <- ManyWorlds
  Recorder = {"r1", "r2"}
  LogicalRun = {"l1"}
  Recordable <- ManyEvents
  MaxRecords = 3
  MaxTears = 1
  Change = {"c1", "c2", "c3"}
  Ghost = {"gone"}
  BoardChange = {"c1", "c2"}
  SourceFile = {"f"}
  Intentional = {}
  Misprinted = {}
  Name = {"a", "b"}
  MaxSegments = 2
SPECIFICATION Spec
CHECK_DEADLOCK FALSE
INVARIANTS ReuseIsTruth ExecutedPlansAreLegal VerdictIsTrue LedgerIsFaithful OrderTellsAll RouteIsLegal NoFalseOrphan OverlapIsExact
