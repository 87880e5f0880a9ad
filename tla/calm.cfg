CONSTANTS
  w1 = w1 w2 = w2 w3 = w3
  t1 = t1 t2 = t2 t3 = t3
  j1 = j1 j2 = j2
  None = None
  Jobs = {j1, j2}
  MaxAttempts <- TwoJobs
  HostOf <- TwoHosts
  Workers = {w1, w2}
  Threads = {t1, t2}
  Outcomes <- Graceful
  OnTime = {w1, w2}
  Troubles = {"stop"}
  MaxTroubles = 1
SPECIFICATION FairSpec
CHECK_DEADLOCK FALSE
INVARIANTS ExclusiveRun OneLetter Recoverable
PROPERTIES LifecycleSpec Settles
