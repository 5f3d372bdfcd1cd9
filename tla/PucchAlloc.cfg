SPECIFICATION PucchSpec
CONSTANTS
  User = {u1, u2, u3, u4, u5}
  SrPrb = 2
  SrSf = 1
  CqiPrb = 1
  CqiSf = 2
  MaxUsers = 1
  NcsAn = 1
  SrMisfit = {}
  CqiMisfit = {}
  PeriodicCqi = TRUE
  u1 = u1
  u2 = u2
  u3 = u3
  u4 = u4
  u5 = u5
INVARIANT CountsMatch
INVARIANT CollisionsExplained
INVARIANT HeldByUsers
CHECK_DEADLOCK FALSE
