SPECIFICATION Spec
CONSTANTS
  c1 = c1  c2 = c2  c3 = c3
  Call = {c1, c2, c3}
  Dir <- MCDir
  File <- MCFile
  DirOf <- MCDirOf
  InitDirs = {"repo"}
  InitFiles = {"f"}
  InitRepos = {"repo"}
  FsRoots = {"repo", "dest"}
  GitRoots = {"repo", "dest"}
  SSHAgent = FALSE
  Operation <- MCOperation
  Scenario <- MCScenario
  Faults = {"io", "remove", "git"}
  CtxEnds = {"deadline"}
  FileLen = 2
  Growing = {"f"}
  MaxLen = 3
  MaxInt = 9
  InlineStreamLimit = 2
  MaxCrashes = 1
SYMMETRY MCSymmetry
INVARIANTS TypeOK WriteIsAtomic NoTempLeft FailedWorktreeLeavesNothing CommitKept
           CommitTakesOnlyItsOwn PartialFetchedOrFound ReadIsComplete
PROPERTIES NoBlindOverwrite NothingLostButToARace
CHECK_DEADLOCK FALSE
