CONSTANTS
  NoSub = NoSub
  Subs = {s1}
  Conns = {c1, c2}
  NCases = 1
  Parallel = 1
  MaxRejudge = 1
  MaxFaults = 1
  MaxEvents = 5
  FaultKinds = {"submit", "web", "redis", "load", "conn", "lose", "abort"}
SPECIFICATION FairSpec
CHECK_DEADLOCK FALSE
INVARIANTS ProgressFollowsStatus
PROPERTIES Settles ResultKept
