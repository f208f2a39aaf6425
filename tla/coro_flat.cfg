SPECIFICATION FairSpec
CONSTANTS
  Handles = {t1, t2, s1}
  Streams = {s1}
  Forever = {}
  MainOps <- AllOps
  BodyOps <- FlatOps
  MaxYields <- Once
  Cap = 3
  Main = Main
  None = None
INVARIANTS
  HandlesDefined
  ItemsDelivered
PROPERTIES
  ControlReturns
CHECK_DEADLOCK FALSE
