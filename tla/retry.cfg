CONSTANTS
  Base = 10
  Cap = 40
  Jitter = {90, 100, 110}
  Asked = {0, 5}
  Limit = 4
  Zones <- EastAndWest
  Day = 24
  Horizon = 60
SPECIFICATION Spec
CHECK_DEADLOCK FALSE
INVARIANTS LateAtMost ExponentialGrows
PROPERTY EarlyAtMost
