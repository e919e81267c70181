\* The comment on Snapshot.Copy: one call sorts while the other one copies.
SPECIFICATION Spec
CONSTANTS
  N = 3
  Master = {"m1", "m2"}
  Call = {"d1", "d2"}
INVARIANT CopyIsWhole
CHECK_DEADLOCK FALSE
