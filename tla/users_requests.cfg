SPECIFICATION Spec
CONSTANTS
  u1 = u1
  u2 = u2
  r1 = r1
  r2 = r2
  Users = {u1, u2}
  Founder = u1
  Requests = {r1, r2}
SYMMETRY Symmetry
PROPERTY OnlyStaleRequestsLockOut
PROPERTY OwnRoleKept
PROPERTY AuditNamesTheChange
CHECK_DEADLOCK FALSE
