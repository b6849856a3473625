SPECIFICATION Spec
CONSTANTS
  h1 = h1
  h2 = h2
  h3 = h3
  p1 = p1
  p2 = p2
  r1 = r1
  r2 = r2
  phone = phone
  Horse = {h1, h2, h3}
  NoHorse = NoHorse
  Price = {p1, p2}
  NoPrice = NoPrice
  Device = {phone}
  NoTip = NoTip
  NoResult = NoResult
  SealWindow = 1
  ExpiryDelay = 2
  MaximumAttempts = 2
  Race = {r1}
  NoRace = NoRace
  Worker = {w1}
  Nobody = Nobody
  Offs <- KnownOff
  MaxTime = 3
  CanFail = TRUE
  Ratings <- PickedOnPrices
  Uploads <- SealedUploads
  Versions <- FullResults
  PriceLists <- NoPriceLists
INVARIANTS AlternatingUploadsSettle
PROPERTIES KeepsItsPromises
