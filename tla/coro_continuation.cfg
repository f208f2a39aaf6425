SPECIFICATION Spec
CONSTANTS
  Handles = {t1, t2}
  Streams = {}
  Forever = {}
  MainOps <- AllOps
  BodyOps <- AwaitOps
  MaxYields <- Once
  Cap = 3
  Main = Main
  None = None
INVARIANTS
  AwaiterSuspended
CHECK_DEADLOCK FALSE
