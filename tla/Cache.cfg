CONSTANTS
  Names = {n1}
  Users = {u1, u2, u3}
  MaxFiles = 3
  MaxHits = 2
  MayFail = TRUE
SPECIFICATION FairSpec
CHECK_DEADLOCK FALSE
INVARIANTS HeldIsThere DiskAccounted CounterCoversUse
PROPERTIES UnusedIsDeleted
