SPECIFICATION MCSpec
CONSTANTS
  LastMonth = 2
  Workers = {w1, w2}
  MaxStarts = 4
  None = None
INVARIANT OneActiveTokenAlone
PROPERTIES IssuedOnce ManifestFollowsAlone
CHECK_DEADLOCK FALSE
