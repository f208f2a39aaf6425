SPECIFICATION Spec
CONSTANTS
  Workers = {w1, w2}
  Clients = {c1}
  Futures = {f1, f2, f3, f4}
  Cap = 2
  MinWorkers = 0
  MaxBlockedJobs = 1
  None = None
SYMMETRY Symmetry
INVARIANTS
  RingConsistent
  ExactlyOnce
  ResultComplete
  NoJobLost
  SleepersWoken
  ShutdownDrains
