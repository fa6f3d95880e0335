SPECIFICATION FairSpec
CONSTANTS
  Configs = {c1}
  Clients = {u1}
  Runs = {r1}
  NoConfig = NoConfig
  NoRun = NoRun
  FailureLimits <- MCHighLimits
  CollectChoices <- MCTwoTypes
  ScheduleTypes = {"interval", "once"}
  Schedules = {"ok", "none", "bad"}
  Operations = {"update", "delete"}
  Environment = {"critical", "database", "store", "crash", "dates"}
CHECK_DEADLOCK FALSE
INVARIANTS UnscheduledOnlyByDeadLetter RunStatusMatchesTypes
PROPERTIES OnceNeverRearmed AdmittedRunSettles
