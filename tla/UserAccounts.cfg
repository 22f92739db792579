SPECIFICATION MCSpec
CONSTANTS
  Users = {admin, u1, u2}
  DefaultOwner = admin
  OtherRoles = {ADMIN}
  Workers = {w1, w2}
  None = None
SYMMETRY Symmetry
INVARIANTS OwnerKeptAlone RestartableAlone
PROPERTY OnlyOustedOwnersEndIt
CHECK_DEADLOCK FALSE
