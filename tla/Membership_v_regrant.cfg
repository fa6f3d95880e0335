SPECIFICATION Spec
CONSTANTS
  Users = {u1}
  Roles = {owner, reader}
  Defaults = {owner}
  Invitations = {i1, i2}
  Requests = {q1, q2}
  MaxRows = 2
  None = None
INVARIANT RefusedOnlyIfHeld
