CONSTANTS
  NoSub = NoSub
  Subs = {s1, s2}
  Conns = {c1}
  NCases = 1
  Parallel = 1
  MaxRejudge = 2
  MaxFaults = 2
  MaxEvents = 6
  FaultKinds = {"submit", "web", "redis", "load", "conn", "lose", "detach", "abort", "download", "ppjc"}
SPECIFICATION Spec
CHECK_DEADLOCK FALSE
SYMMETRY Symmetry
INVARIANTS IInv SlotsConserved NothingForgotten CasesFitVerdict
PROPERTIES RunsGoForward
