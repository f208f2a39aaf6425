SPECIFICATION FairSpec
CONSTANTS
  Handles = {t1, s1}
  Streams = {s1}
  Forever = {t1}
  MainOps <- SpawnNext
  BodyOps <- YieldOps
  MaxYields <- Twice
  Cap = 2
  Main = Main
  None = None
PROPERTIES
  ControlReturns
CHECK_DEADLOCK FALSE
