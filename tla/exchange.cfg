SPECIFICATION FairSpec
CONSTANTS
  t1 = t1
  t2 = t2
  t3 = t3
  m1 = m1
  m2 = m2
  m3 = m3
  Token = {t1, t2, t3}
  NoToken = NoToken
  Market = {m1, m2, m3}
  Requests <- AllOrOne
  MaxMarketsPerBook = 2
INVARIANTS NothingLost
PROPERTIES LatchedForGood EveryCallReturns SessionHeals
