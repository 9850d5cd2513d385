CONSTANTS
  Jobs = {j1, j2}
  Names = {n1, n2, n3}
  Cases = 2
  Faults = {"file", "docker", "remove"}
  MaxFailures = 2
SPECIFICATION RunSpec
CHECK_DEADLOCK FALSE
INVARIANTS OwnPlace NothingLeft StatusesAddUp
SYMMETRY Symmetry
