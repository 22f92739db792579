SPECIFICATION MCSpec
CONSTANTS
  Requests = {r1}
  Licenses = {l1, l2, l3}
  Workers = {w1, w2}
  MaxEvents = 7
  None = None
SYMMETRY Symmetry
INVARIANTS TypeOK ReviewedFirst GeneratedIsBacked LicensesAccounted HistoryChainsAlone OneLicenseAlone
PROPERTIES RejectionSettles NothingUndone
