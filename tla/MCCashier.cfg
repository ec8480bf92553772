SPECIFICATION FairSpec
CONSTANTS
  Withdrawals = {w1, w2, w3}
  Deposits = {d1}
  Tabs = {t1, t2}
  Desks = {k1, k2}
  Amounts = {1, 2}
  Stipend = 2
  WeeklyLimit = 2
  DailyLimit = 2
  AutoPayout = TRUE
  NoId = NoId
  w1 = w1
  w2 = w2
  w3 = w3
  d1 = d1
  t1 = t1
  t2 = t2
  k1 = k1
  k2 = k2
INVARIANTS
  TypeOK
  BooksAgree
  PaidOutOnce
  ClaimIsExclusive
  LimitExceededOnlyTogether
PROPERTIES
  KeepsThePromise
  PaidIsCredited
CHECK_DEADLOCK FALSE
