SPECIFICATION AuditSpec
CONSTANTS
  Requests = {w1, w2}
  MaxChanges = 2
  NoOp = NoOp
INVARIANTS AuditSound AuditAtomic
CHECK_DEADLOCK FALSE
