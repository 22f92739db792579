SPECIFICATION Spec
CONSTANTS
  Fingerprints = {f1}
  OtherStatuses = {"ACTIVE"}
  Workers = {w1, w2}
  TrialDays = 1
  LastDay = 3
  MaxRows = 2
  None = None
SYMMETRY Symmetry
INVARIANT TypeOK
PROPERTIES OneTrial RegistrationExpiresTrialsOnly
