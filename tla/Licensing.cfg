SPECIFICATION MCSpec
CONSTANTS
  Subscriptions = {s1, s2}
  Plans = {p1}
  Deployments = {d1}
  Licenses = {l1, l2, l3}
  Workers = {w1, w2}
  None = None
SYMMETRY Symmetry
INVARIANTS TypeOK DuplicatesBounded OneActiveLicenseAlone
PROPERTIES RevivedOnPurpose DeletedForGood ChecksStandAlone
