SPECIFICATION AuditSpec
CONSTANTS
  Requests = {w1}
  MaxChanges = 2
  NoOp = NoOp
CHECK_DEADLOCK FALSE
INVARIANT EveryEventAudited
