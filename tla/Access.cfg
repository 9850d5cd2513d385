CONSTANTS
  Users = {u1, u2}
  Admins = {u2}
  Requests = {r1, r2}
  Editors = {r2}
  Margin = 2
  Window = 1
  MaxTime = 4
SPECIFICATION Spec
CHECK_DEADLOCK FALSE
INVARIANTS NobodyPeeks NobodyCopies
PROPERTIES SubmittersTakePart TimesFixed
