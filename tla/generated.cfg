SPECIFICATION GeneratedSpec
CONSTANTS
  Handles = {t1, t2, s1}
  Streams = {s1}
  Forever = {}
  MainOps <- AllOps
  BodyOps <- NestedOps
  MaxYields <- StreamsTwice
  Cap = 3
  Main = Main
  None = None
  BlockCount = 3
  Titles = {A, B}
  Untitled = Untitled
  MaxSimple = 2
  MaxCompound = 2
  Constructs <- Statements
  TypeCount = 2
  AtomShapes <- Atoms
  Tag = Tag
  Byte = Byte
  PointerShape <- Pointers
  SizeLimit = 15
  Fields <- FieldSet
  Attributes <- AttributeSet
  PlainStruct <- Plain
  MaxFields = 3
  CNumbers <- Numbers
  CIntLimit = 3
  CLongLimit = 7
  MaxProviders = 2
  CProviders <- ProviderSet
  CUsers <- UserSet
SYMMETRY Symmetry
INVARIANTS
  HandlesTracked
  OrderKept
  CleanupSound
  LayoutSound
  HeaderImported
PROPERTIES
  CancelStops
  ImplementsQueue
CHECK_DEADLOCK FALSE
