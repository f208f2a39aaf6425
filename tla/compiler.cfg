SPECIFICATION CompilerSpec
CONSTANTS
  Builds = {b1, b2}
  None = None
  Yesterday = Yesterday
  LogRuns = {r1, r2, r3, r4}
  LogMaxIndex = 2
  NoRun = NoRun
  HeapNodes = {n1, n2, n3, n4}
  Sentinel = Sentinel
  Nil = Nil
  ImpModules = {m1, m2}
  Primary = Primary
  MaxPerFile = 2
  MaxSpliced = 4
  StdPaths = 1
  NarrowBits = 2
  IntBits = 3
  LongBits = 4
  NoType = NoType
  Operators <- OperatorSet
  Leaves <- LeafSet
  InnerLeaves <- DeepLeaves
  ChainTests <- ChainTestSet
  MaxTests = 4
  MaxDepth = 2
  Definitions <- DefinitionSet
  Pieces <- PieceSet
  MaxDefinitions = 2
  MaxPieces = 2
  MaxExpandDepth = 3
  PlainNames = {"a", "b", "f"}
  MaxParts = 3
  MaxNesting = 24
  MaxForms = 2
  Thrice <- ThriceSet
INVARIANTS
  VisibleIsWhole
  OutcomeTold
  HeapAccounted
  LogsSurvive
  ImportsResolved
  ScalarsSound
  MacrosSound
  WrittenIsRead
  NothingLost
CHECK_DEADLOCK FALSE
