CONSTANTS
  Requests = {r1, r2}
  Users = {u1}
  Pidxs = {1, 2}
  Limit = 2
  MaxPid = 2
  MaxFailures = 1
  Faults = {"call", "answer", "mysql"}
SPECIFICATION Spec
CHECK_DEADLOCK FALSE
INVARIANTS ProblemsHaveColumns CreatedIsComplete RankedAreJoined GoneIsEmpty
SYMMETRY Symmetry
