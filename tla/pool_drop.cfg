SPECIFICATION Spec
CONSTANTS
  Workers = {w1, w2}
  Clients = {c1}
  Futures = {f1, f2}
  Cap = 1
  MinWorkers = 1
  MaxBlockedJobs = 0
  None = None
INVARIANT
  WorkerFutureLive
