SPECIFICATION FairSpec
CONSTANTS
  Requests = {u1, u2}
  Jobs = {csv}
  Uploads = {csv}
  PageLimit = 1
  MaxRows = 1
  MaxSecond = 1
  None = None
  Partial = Partial
INVARIANTS TypeOK NeverLeftProcessing CompletedIsAvailable
PROPERTIES ExecutionEnds
