SPECIFICATION MCSpec
CONSTANTS
  Releases = {r1, r2, r3}
  Channels = {STABLE, BETA}
  Builds = {b1, b2, b3}
  OtherStatuses = {"DRAFT"}
  Patches <- SinglePatches
  Workers = {w1, w2}
  None = None
SYMMETRY Symmetry
INVARIANT LatestBounded
PROPERTIES SecondLatestIsMovedAlone PublishedFrozenAlone UnstampedAreBornPublished
CHECK_DEADLOCK FALSE
