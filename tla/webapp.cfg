CONSTANTS
  w1 = w1 u1 = u1 u2 = u2 q1 = q1
  j1 = j1 j2 = j2 j3 = j3
  None = None
  Jobs = {j1, j2, j3}
  Workers = {w1}
  Users = {u1, u2}
  Queues = {q1}
  DefaultQueue = q1
  QueueOf <- OneQueue
  MaxAttempts <- OnceEach
  SQLite = TRUE
  OnePassEach = FALSE
  Framework = "flask"
  PerPage = 2
  MaxOld = 1
  MaxVisits = 3
SPECIFICATION SiteSpec
CHECK_DEADLOCK FALSE
SYMMETRY Alike
INVARIANTS AnswersHold OverviewAgrees
