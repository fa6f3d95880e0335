SPECIFICATION FairSpec
CONSTANTS
  Callers = {c1, c2, c3}
  Requests <- MCRequests
  Keys <- MCKeys
  KeyOf <- MCKeyOf
  Executions = {e1, e2}
  None = None
INVARIANTS TypeOK SingleFlight ResultOfItsKey
PROPERTY EveryCallerAnswered
