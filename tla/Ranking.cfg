CONSTANTS
  u1 = u1
  u2 = u2
  p1 = p1
  p2 = p2
  Users = {u1, u2}
  Problems = {p1, p2}
  NSubs = 4
  Owner <- OwnerDuel
  Of <- OfMixed
  FullScore = 1
  Penalty = 1
  FinishTimes = {4, 5}
  Deletable = {p1}
  MaxRuns = 2
  MaxPosts = 2
  MaxOpen = 2
  MaxTroubles = 1
  MaxWork = 4
  ContestTypes = {"PCK", "ICPC"}
SPECIFICATION RankingSpec
CHECK_DEADLOCK FALSE
INVARIANTS TableIsDerived OrderFollowsRules
PROPERTIES OnlyRejudgeLowers IsABoard
