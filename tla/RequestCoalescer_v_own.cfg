SPECIFICATION Spec
CONSTANTS
  Callers = {c1, c2}
  Requests <- MCRequests
  Keys <- MCKeys
  KeyOf <- MCKeyOf
  Executions = {e1, e2}
  None = None
INVARIANT OwnResult
