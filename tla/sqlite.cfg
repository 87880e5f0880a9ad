CONSTANTS
  p1 = p1 p2 = p2
  t1 = t1 t2 = t2 t3 = t3
  j1 = j1
  None = None
  Jobs = {j1}
  Workers = {p1, p2}
  Threads = {t1, t2, t3}
  HostOf <- TwoDrivers
  MaxAttempts <- Once
  MaxCalls = 4
SPECIFICATION FairSpec
CHECK_DEADLOCK FALSE
INVARIANT CloseWaits
PROPERTIES StoreSteps TransactionsEnd
