SPECIFICATION FairSpec
CONSTANTS
  Workers = {w1, w2}
  Clients = {c1}
  Futures = {f1, f2}
  Cap = 1
  MinWorkers = 2
  MaxBlockedJobs = 1
  None = None
PROPERTY
  ShutdownReturns
