SPECIFICATION Spec
CONSTANTS
  Users = {admin, u1, u2}
  DefaultOwner = admin
  OtherRoles = {ADMIN}
  Workers = {w1, w2}
  None = None
PROPERTY LastOwnerProtected
CHECK_DEADLOCK FALSE
