SPECIFICATION Spec
CONSTANTS
  n2 = n2
  n3 = n3
  n4 = n4
  Numbers = {n2, n3, n4}
  V2Numbers = n2
  V3Numbers = n3
  NoRow = NoRow
  MinimumRaces = 1
  Uploads <- PhoneSets
  MaxSamples = 2
  MaxEdits = 2
PROPERTIES PromotionBeatsTheActive
