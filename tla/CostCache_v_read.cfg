SPECIFICATION Spec
CONSTANTS
  Background = {b1}
  Manual = {m1, m2}
  Scheduled = {s1}
  Readers = {r1}
  TTL = 1
  MaxClock = 1
  None = None
CHECK_DEADLOCK FALSE
INVARIANT CachedReadAnswers
