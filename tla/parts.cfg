\* Every call returns, everything is counted and every race considered, in the end.
\* The scheduler starts shortly after five in the evening and runs into the next one.
SPECIFICATION Spec
CONSTANTS
  Call = {c1, c2}
  Interval = 2
  Late = 1
  Timeout = 1
  MaxAttempts = 3
  BaseDelay = 1
  MaxDelay = 2
  RetryAfters = {0, 1, 9}
  LastStart = 1
  MaxTime = 18
  SealWindow = 5
  Slack = 2
  Boot = 1030
  Until = 2500
  Race = {1, 2, 3}
  Subject = {"a", "b"}
  Window = 2
  Dates <- TheirDates
  Entries <- ThreeRaces
  Distance <- OnALine
  MaximumNameDistance = 2
  StartTimeWindow = 6
  Meetings <- AllMeetings
  NoOff = NoOff
CHECK_DEADLOCK FALSE
INVARIANTS OnlyReadsAreRepeated FiguresAreExact RecentAreTheNewest
INVARIANTS JoinedOneToOne NamesOverruleCloths ClothsSettleMisspellings OwnMarketOnly
PROPERTIES RequestsKeepTheirDistance EveryRequestReturns NoRaceGoesOffUnseen
