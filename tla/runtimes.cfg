SPECIFICATION RuntimesSpec
CONSTANTS
  Keys = {k1, k2, k3}
  Null = Null
  Sizes = {0, 1, 2}
  MaxU = 3
  MaxRecords = 2
  Configs <- TestConfigs
  ReportLen = 2
  Expected <- TwoTests
  Sites <- TestSites
  MaxCount = 1
  MaxLeaked = 1
  MinCoverage = 100
  AsyncWorkers = {w1, w2}
  AsyncCallers = {c1, c2}
  AsyncFutures = {f1, f2}
  AsyncCap = 1
  Nobody = Nobody
  SizeMax = 23
  Alignment = 4
  Header = 8
  BlockSize = 9
  MaxBlocks = 3
  CrashThreads = {main, t1}
  MainThread = main
  FatalSignals = {segv, fpe}
  InitBlocks = 2
  ExitBlocks = 2
  CrashBlocks = 2
SYMMETRY Symmetry
INVARIANTS
  LedgerSound
  ReportTrue
  VerdictWellFounded
  AsyncAllServed
  AllocationsSound
  CrashBlocksRun
PROPERTIES
  FrozenByFailure
  PassesWhenDeserved
CHECK_DEADLOCK FALSE
