CONSTANTS
  p1 = p1 p2 = p2
  t1 = t1 t2 = t2 t3 = t3
  j1 = j1 j2 = j2
  None = None
  Jobs = {j1, j2}
  Workers = {p1, p2}
  Threads = {t1, t2, t3}
  HostOf <- TwoPools
  MaxAttempts <- TwoJobs
  MaxConn = 1
  QueueOf <- TwoQueues
  Serves <- Served
  Priorities <- Ranks
  Stock = {j1}
  Order <- Oldest
  Called = {"enqueue", "fetch_next", "mark_failed", "move_to_dead", "cancel",
            "register_worker", "mark_worker_stopped"}
  MaxCalls = 3
SPECIFICATION FairSpec
CHECK_DEADLOCK FALSE
INVARIANT NoOvertaking
PROPERTIES StoreSteps CallsEnd
