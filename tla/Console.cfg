SPECIFICATION Spec
CONSTANTS
  r1 = r1
  r2 = r2
  owner = owner
  support = support
  Nobody = Nobody
  Absent = Absent
  Deleted = Deleted
  None = None
  Rows <- MCRows
  Opened <- MCOpened
  Keys <- MCKeys
  Polled <- MCPolled
  Users = {owner, support}
  RoleOf <- MCRoleOf
  Topics <- MCTopics
  MaxVersion = 3
INVARIANTS
  FreshSinceSuccess
  OwnDataSinceLoad
PROPERTIES
  MonotoneView
  UntouchedKept
  CatchesUp
CHECK_DEADLOCK FALSE
