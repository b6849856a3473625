SPECIFICATION SealsSpec
CONSTANTS
  h1 = h1
  h2 = h2
  h3 = h3
  p1 = p1
  p2 = p2
  r1 = r1
  r2 = r2
  phone = phone
  Horse = {h1, h2, h3}
  NoHorse = NoHorse
  Price = {p1}
  NoPrice = NoPrice
  Device = {phone}
  NoTip = NoTip
  NoResult = NoResult
  SealWindow = 1
  ExpiryDelay = 2
  MaximumAttempts = 2
  Race = {r1}
  NoRace = NoRace
  Worker = {w1, w2}
  Nobody = Nobody
  Offs <- EarlyOrLateOff
  MaxTime = 3
  CanFail = TRUE
  Ratings <- FormOrPrices
  Uploads <- NoUploads
  Versions <- FullResults
  PriceLists <- OnePriceList
  plain = plain
  hooded = hooded
  scratched = scratched
  Listing = {plain, hooded, scratched}
  TipOf <- TipsOfCards
  Command = {k1, k2}
  Nothing = Nothing
  LastSecond = 1
  MaxPayloads = 2
INVARIANTS RetainedIsRated NewSealsKeepTheirCard SourceIsKnown CardGivesTheTip
INVARIANTS TypeOK DecisionStands SealHasItsCard SampleIsOfTheSeal
PROPERTIES ServerSealIsFinal
SYMMETRY Alike
