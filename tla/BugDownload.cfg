CONSTANTS
  NoSub = NoSub
  Subs = {s1}
  Conns = {c1}
  NCases = 2
  Parallel = 1
  MaxRejudge = 0
  MaxFaults = 1
  MaxEvents = 3
  FaultKinds = {"download"}
SPECIFICATION Spec
CHECK_DEADLOCK FALSE
PROPERTY ResultKept
