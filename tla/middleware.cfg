CONSTANTS
  j1 = j1
  None = None
  Jobs = {j1}
  Workers = {w1}
  MaxAttempts <- Twice
  Me = w1
  Thread = t1
  Job = j1
  N = 3
  MaxFaults = 1
SPECIFICATION Spec
CHECK_DEADLOCK FALSE
INVARIANTS HooksPaired OneVerdict FailureHeard RetryKept NotStranded
PROPERTY PoolSteps
