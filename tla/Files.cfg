CONSTANTS
  Slots = {s1}
  Ops = {o1, o2}
  Readers = {r1}
  Faults = {"create", "statement", "commit", "schedule", "ppms", "gridfs"}
  Delay = 2
  Window = 1
  MaxFiles = 2
  MaxFailures = 1
SPECIFICATION Spec
SYMMETRY Requests
CHECK_DEADLOCK FALSE
INVARIANTS NamedIsThere ReadersFindFiles FilesAccounted
