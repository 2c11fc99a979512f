\* One adapter with an asset and one without, three hooks, two releases and
\* commands, one fault; two calls of add-knowledge; two loop switches; two
\* fixes, with one failure or write of others besides.
CONSTANTS
  h1 = h1
  h2 = h2
  h3 = h3
  Adapter = {"claude-code", "codex"}
  AssetAdapter = {"codex"}
  Legacy = "claude-code"
  UserHook = {h1, h2, h3}
  MaxRelease = 2
  MaxEdits = 1
  MaxCommands = 2
  MaxFaults = 1
  c1 = c1
  c2 = c2
  Call = {c1, c2}
  KnowledgeFile <- FourFiles
  Keyword = {"k1", "k2", "k3", "k4"}
  InitialIndex <- ThreeRules
  MaxBatch = 2
  Switcher = {"s1", "s2"}
  ReadsetFile = {"index", "apply"}
  MaxSwitches = 2
  MaxMishaps = 2
  d1 = d1
  d2 = d2
  Fixer = {d1, d2}
  StateDirectories <- TwoDirectories
  MaxMeddling = 1
SYMMETRY AnyHookAndFixer
SPECIFICATION CliSpec
CHECK_DEADLOCK FALSE
INVARIANTS UserWorkInPlace UserHooksKept RecordTellsTruth AssetFollowsTree CommitTellsContent LoopHasEnvelope DoctorIsRight
PROPERTIES FailureRestores UpgradeKeepsPrevious OthersStay SwitchAllOrNothing FixAllOrNothing
