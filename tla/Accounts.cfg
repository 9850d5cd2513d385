CONSTANTS
  Users = {u1, u2}
  Requests = {r1, r2}
  MaxToken = 2
  Life = 2
  Interval = 2
  Certify = {TRUE, FALSE}
  Stores = {"given", "default"}
  Kinds = {"signup", "login", "confirm", "password"}
  Faults = {"mail", "redis", "mysql"}
SPECIFICATION Spec
CHECK_DEADLOCK FALSE
INVARIANTS OneTime
PROPERTIES Authorised ToldCanConfirm
SYMMETRY Alike
