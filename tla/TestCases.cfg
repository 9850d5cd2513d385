CONSTANTS
  Requests = {r1, r2}
  Jobs = {j1}
  Faults = {"statement", "score", "commit", "create"}
  Forms <- Lists
  Uploads <- Pairs
  MaxRows = 3
  MaxFiles = 2
SPECIFICATION Spec
CHECK_DEADLOCK FALSE
INVARIANTS SetsFitCases PointsAreEarned NewestUpload
SYMMETRY Symmetry
