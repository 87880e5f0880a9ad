CONSTANTS
  w1 = w1 w2 = w2 w3 = w3
  t1 = t1 t2 = t2 t3 = t3
  j1 = j1 j2 = j2
  None = None
  Jobs = {j1}
  MaxAttempts <- OneJobTwice
  HostOf <- TwoHosts
  Workers = {w1, w2}
  Threads = {t1, t2}
  Outcomes <- AllOutcomes
  OnTime = {w2}
  Troubles = {"stop", "autostop", "timeout", "lapse", "restart", "fault"}
  MaxTroubles = 2
SPECIFICATION Spec
CHECK_DEADLOCK FALSE
INVARIANTS TypeOK PoisonBound DistinctClaims DeadIsExhausted CompletedRan DeadHasLetter
PROPERTY LedgerSpec
