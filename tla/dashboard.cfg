CONSTANTS
  w1 = w1 u1 = u1 u2 = u2 q1 = q1
  j1 = j1 j2 = j2 j3 = j3
  None = None
  Jobs = {j1, j2, j3}
  Workers = {w1}
  Users = {u1, u2}
  Queues = {q1}
  DefaultQueue = q1
  QueueOf <- OneQueue
  MaxAttempts <- TwiceEach
  SQLite = TRUE
  OnePassEach = TRUE
SPECIFICATION Spec
CHECK_DEADLOCK FALSE
SYMMETRY Alike
INVARIANTS TypeOK HeldRowsStay FullAttempts BulkCovers BulkOnce
