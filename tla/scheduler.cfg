CONSTANTS
  p1 = p1 p2 = p2
  s1 = s1 s2 = s2
  None = None
  Schedulers = {p1}
  Schedules = {s1, s2}
  Enabled = {s1, s2}
  Period = 2
  Horizon = 6
  MaxInterruptions = 2
SPECIFICATION FairSpec
CHECK_DEADLOCK FALSE
INVARIANTS TypeOK OneJobPerSlot
PROPERTIES MissedByLatenessOnly DueIsServed
