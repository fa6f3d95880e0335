SPECIFICATION FairSpec
CONSTANTS
  Background = {b1}
  Manual = {m1}
  Scheduled = {s1}
  Readers = {r1}
  TTL = 1
  MaxClock = 1
  None = None
CHECK_DEADLOCK FALSE
INVARIANTS TypeOK SingleRefresh SuccessIsEarned
PROPERTIES RefreshEnds
