SPECIFICATION Spec
CONSTANTS
  Threads = {main}
  MainThread = main
  None = None
  FirstCapacity = 1
  MaxRegistered = 2
  MaxSends = 2
  MaxDepth = 5
  CallDepth = 1
PROPERTIES
  RunsInScope
CHECK_DEADLOCK FALSE
