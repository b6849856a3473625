SPECIFICATION PhoneSpec
CONSTANTS
  Task = {t1, t2}
  Freshness = 1
  MaxTime = 1
  NoCard = NoCard
  Reader = {r1, r2}
  WeightsId = {v2, v3}
  InUse = {v2, v3}
  NoWeights = NoWeights
  NoRecord = NoRecord
  LastInstant = 1
INVARIANTS DayShownIsTheDayPicked
