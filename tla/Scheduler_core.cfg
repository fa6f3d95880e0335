SPECIFICATION Spec
CONSTANTS
  Configs = {c1}
  Clients = {u1, u2}
  Runs = {r1, r2}
  NoConfig = NoConfig
  NoRun = NoRun
  FailureLimits <- MCLowLimits
  CollectChoices <- MCExpenses
  ScheduleTypes = {"interval"}
  Schedules = {"ok"}
  Operations = {"update", "toggle", "delete", "trigger", "retry", "abandon"}
  Environment = {"rollback"}
CHECK_DEADLOCK FALSE
SYMMETRY Symmetry
INVARIANTS TypeOK UnscheduledOnlyByDeadLetter DeletedConfigLeavesNothing FailuresRecorded
PROPERTIES OnlyAnOpenRetryRevives ImplementsLifecycle
