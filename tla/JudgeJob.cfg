CONSTANTS
  NCases = 3
  StatusCap = 2
SPECIFICATION FairSpec
CHECK_DEADLOCK FALSE
INVARIANTS NoLockLeaks ReportsAreTrue
PROPERTIES Terminates KeepsPromise
