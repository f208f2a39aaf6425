SPECIFICATION LanguageSpec
CONSTANTS
  Threads = {main, t1}
  MainThread = main
  None = None
  FirstCapacity = 1
  MaxRegistered = 2
  MaxSends = 2
  MaxDepth = 5
  CallDepth = 1
  Programs <- ProgramSet
  MaxParents = 2
  MaxMethods = 2
  MaxInheritance = 3
  MaxPointers = 2
  MaxNesting = 3
  NameSize <- Sizes
  MaxName = 27
  CalledNames = {"m", "n", "k"}
  Sources <- SourceSet
  BuiltIn <- BuiltInSet
  MaxArguments = 8
  MaxChain = 20
INVARIANTS
  OwnCaptures
  DispatchSound
  InstancesSound
PROPERTIES
  ImplementsBus
  RegistryIsReached
CHECK_DEADLOCK FALSE
